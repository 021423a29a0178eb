# Soroban-ZK-Std: TLA+ models, checks and proofs

This directory holds a formal model of the stateful and algorithmic core of
Soroban-ZK-Std, a Rust library of zero-knowledge primitives for Soroban smart
contracts, with the sample contracts and the demo service that use it. Paths
are relative to the repository root; `zk-std` stands for
`crates/soroban-zk-std/src` and `zk-core` for `crates/soroban-zk-core/src`.
`PROJECT.json` is the index: which definition models which lines, what each run
checks, which theorem proves what, which hazard is covered by which property.

- [1. Inventory](#1-inventory)
- [2. Plan](#2-plan)
- [3. The modules](#3-the-modules)
- [4. The runs](#4-the-runs)
- [5. The theorems](#5-the-theorems)
- [6. Where code and text disagree](#6-where-code-and-text-disagree)
- [7. What is not modelled](#7-what-is-not-modelled)

## 1. Inventory

| Component | Source | State it keeps | Operations | What makes it correct | Model |
|---|---|---|---|---|---|
| Verification-key store | `zk-std/vk.rs`, `lib.rs` | persistent entries `VkMeta`, `VkChunk(i)`; temporary entry `Active` | `set_verifying_key`, `clear_verifying_key`, `verify_proof` | a stored key is one key, whole; the proof context never outlives its call; entries are renewed together | `VkStore` |
| Groth16 verifier | `zk-std/groth16.rs`, `host.rs`, `pairing.rs`, `vk.rs` | the stored key | `groth16_verify`, `g1_msm`, `neg_g1`, `pairing_check`, `validate_pairs`, decoding | a verdict is that of the Groth16 equation; the host gets no bad point but those the check of the subgroup misses | `Groth16` |
| Constant cache | `zk-std/cache.rs` | five instance-storage entries | `round_constants`, `mat_diag`, `fr_modulus`, `g1_generator`, `g2_generator` | a read through the cache returns what the code would build | `ConstantCache` |
| Shielded asset contract | `hackathon-demo/contracts/shielded-asset/src/lib.rs` | one ciphertext per account; token balances | `transfer_shielded`, `shield`, `unshield`, `get_balance` | no call leaves anything behind but what its own arguments say; an honest client is overdrawn by hostile transfers only | `ShieldedAsset` |
| Transaction index | `hackathon-demo/backend/index.js` | MongoDB collection of transactions | `POST /api/transactions`, `GET /api/sync`, reads | every transaction once; a sync pass overwrites nothing it could see and misses only what Horizon refused to tell | `TransactionIndex` |
| Non-native arithmetic | `zk-std/gadgets/nonnative.rs` | none (limbs of a call) | `from_u256`, `add`, `mul`, `reduce` | results are exact, canonical or at least congruent | `NonNative` |
| Poseidon2 sponge | `zk-std/poseidon2.rs`, `zk-core/poseidon2.rs` | three words and a position; the transcript of `zk-core` | `absorb`, `squeeze`, `poseidon_hash_chunked`, `hash_to_fq`, the permutation, addition on byte arrays | inputs share a digest only if the padding cannot tell them apart; sums are reduced | `FieldAdd`, `Permutations`, `Sponge` |
| Boolean gadgets | `zk-std/gadgets/boolean.rs` | none | bit decomposition, gates, multiplexer | of the vectors that fit in a word one witness passes, and only it; the multiplexer selects | `BooleanGadgets` |
| Lookup tables | `zk-std/gadgets/lut.rs` | a table, sorted or not | build, `sort`, `lookup`, `assert_lookup` | finds exactly the rows given | `Lut` |
| Hash gadgets | `zk-std/gadgets/hash/*.rs` | none | SHA-256, chunked Poseidon, Rescue-Prime | the padding can be read back; the permutation has an inverse | `Sha256`, `Sponge`, `Permutations` |
| STARK building blocks | `zk-std/stark/*.rs` | transcript state | Merkle tree and paths, transcript, FRI folding, trace and boundary checks | a whole path verifies for its row alone; folds follow the polynomial | `StarkTree`, `Fri`, `Sponge` |
| Field arithmetic | `zk-core/lib.rs` | none | Montgomery product, sums, powers, inversion, square root | results reduced and exact | `Montgomery`, `Bn254`, `FieldCalls` |
| Curve arithmetic, ElGamal | `zk-core/lib.rs`, `g1.rs` | none | addition, doubling, ladders, checks of points, encryption, KZG commitments | the group law, in every exceptional case | `Jacobian`, `Curve` |
| Halo2 primitives | `zk-core/halo2.rs` | an accumulator | `validate`, gates, the permutation argument, folding | the argument accepts what it should; one sum whatever the order | `Halo2` |
| Polynomials | `zk-core/polynomial.rs` | none | dense and sparse arithmetic, conversions | the right function, in canonical form, refused only for want of room | `Polynomials` |
| Bulletproofs | `zk-core/bulletproofs.rs` | none | `prove`, `verify`, `verify_batch`, the inner-product argument | both sides fold the same vectors; a wrong proof is refused | `Bulletproofs`, `Curve` |
| Contract template, verifier sample | `contracts/*` | none | one verification | | not modelled |
| Demo web page, circuits, documentation site, tools | `hackathon-demo/frontend`, `circuit*`, `frontend`, `dump_g2`, ... | | | | not modelled |

**How they interact.** `ZkContract` decodes a key through `vk.rs`, verifies
through `groth16.rs`, which calls the host through `host.rs`; `poseidon2_hash`
goes through `cache.rs`. The shielded asset contract calls the point addition
of the core crate and the token contract. The web page submits transactions to
the ledger and posts their hashes to the backend, which pulls the same
transactions from Horizon into the same collection.

**Where it is hard.** Soroban runs one contract call at a time and rolls back
what a failed call wrote, so the concurrency is *between* calls: a client
computes a footprint, a ciphertext or a proof against the ledger it sees, and
the call runs later against another one. Entries have a time to live and are
archived. The backend is an event loop: every `await` lets other requests in.
The rest is arithmetic with boundaries (carries, borrows, identity points,
lengths that overflow, empty inputs) and protocols whose two sides must do the
same thing in the same order: fold the same halves, draw challenges from the
same inputs, pair the same leaves.

## 2. Plan

| | Modules | Question | State |
|---|---|---|---|
| 1 | `VkRegister`, `VkStore` | torn keys, time to live, stale footprints; a chunked store implements a register | checked, proved |
| 2 | `ShieldedAsset` | conservation between balances and locked tokens, calls with any arguments, calls built on stale views | checked, safety proved |
| 3 | `TransactionIndex` | upserts and sync passes that overlap | checked, safety proved |
| 4 | `ConstantCache`, `Groth16`; composed with 2 and 3 in `Contracts` | the rest of what `ZkContract` calls, the codec of keys included | checked, proved |
| 5 | `NonNative` | long division on limbs | checked, proved |
| 6 | `Montgomery`, `Bn254`, `FieldCalls`, `Jacobian`, `Curve`; composed in `Arithmetic` | the arithmetic everything rests on | checked; the Montgomery product and all calls of the fields proved |
| 7 | `BooleanGadgets`, `Lut`, `FieldAdd`, `Permutations`, `Sponge`, `Sha256`; composed in `Gadgets` | witnesses, binary search, byte carries, permutations, padding | checked, proved |
| 8 | `Polynomials`, `Halo2`, `Bulletproofs`, `Fri`, `StarkTree`; composed in `ProofSystems` | canonical forms, grand products, folding, paths | checked; polynomials, range proofs, folding, Merkle trees and paths, most of Halo2 proved |

Layers. `VkStore` treats verification as a table of verdicts, `Groth16`
computes them on a key that is stored at once: the refinement of `VkRegister`
is what lets the second ignore the chunks of the first. In the same way
`Montgomery` shows that a product of field elements is exact, `Bn254` takes it
as exact and computes on words, `Curve` computes with points through `Bn254`
and is checked against chord and tangent, and `Bulletproofs` and `Halo2` take
points as logarithms because sums of points are sums of logarithms. `Sponge`
takes the permutation as a function without collisions, and `Permutations`
shows that each has an inverse. A defect in a lower layer would show in its own
run.

Theorems still worth proving: the composed form of those on the parts of
`Arithmetic` and of `Contracts`. Section 5 says what is out of reach.

## 3. The modules

In every module comments name the function a definition translates, and
`PROJECT.json` the lines. Definitions whose comment begins with "Mutant of" are
plausible wrong versions of the definition below them. No specification uses
them: each shows that some property can tell them from the code.

### VkRegister and VkStore: the verification-key store

`VkRegister` says what callers are promised: one key or none; a call is
submitted, then either takes effect at once on the whole key and answers, or
fails and changes nothing.

`VkStore` is the code. Its state:

- `store`, the ledger: for every entry a value or `NoEntry`, and the ledgers it
  has left to live. `work` is the copy that the running call reads and writes;
  it becomes `store` when the entry point returns `Ok`, and is dropped when it
  returns `Err` or traps. This is the host's roll back.
- `request`, `footprint`, `result`, per account. The footprint is the set of
  entries that the call touches on the ledger *as it was at submission*, as
  simulation computes it. A call that steps outside traps (`Stray`).
- `pc`, `who` and the locals `vk`, `count`, `i`, `full` of the running call.

| Action | Code |
|---|---|
| `Submit`, `Begin`, `Reject` | the client's transaction; the host starts it, or refuses it because an entry of its footprint is archived |
| `SetDecode` | `vk_from_bytes` in `set_verifying_key`, and its early return. Whoever does not sign for the `admin` that the call names traps before it (`lib.rs:148`), which is a `Trap`; that address is compared with nothing on the ledger |
| `SaveChunk`, `SaveMeta` | one iteration of the loop of `save_vk`, and the header, each written and extended |
| `ClearRead`, `ClearChunk`, `ClearMeta` | `clear_vk`: the header's count, one iteration, the header |
| `LoadMeta`, `LoadChunk`, `LoadDecode` | `load_vk`: missing header, one iteration with its missing-chunk error, length check and decoding |
| `Prove` | context set, verification, context cleared, in `verify_proof` |
| `Trap` | the host stops the call anywhere (budget, memory) |
| `CloseLedger`, `Restore` | time passes and entries expire; anybody restores an archived entry |

Abstracted: a key is a model value and `Ser` its bytes over a small alphabet,
`vk_from_bytes` the inverse of `Ser` (its inside is in `Groth16`),
`groth16_verify` a table. Code outside the repository (ledger, host, clients)
is modelled from how the code uses it.

### ShieldedAsset: the shielded asset contract

The contract adds ElGamal ciphertexts and compares nothing. Addition of
ciphertexts adds what they encrypt, so a ciphertext is the number it encrypts,
and that number can be negative. `bal` holds an account's entry, `archived` the
entries that expired, `wallet` and `pool` the tokens outside and inside,
`flight` the calls not yet run. A call has the arguments of the code, each on
its own: `shield` and `unshield` an amount of tokens and a delta, a transfer
`sender_delta` and `receiver_delta`, with no proof that relates them, as its
verification is commented out in the source (a proof is decoded and nothing
more). `Send` puts a call in flight. Any account may send any call; the client
of one in `Honest` builds what the comments on the entry points demand
(`Consistent`) and spends no more than the balance it reads. `Shield`,
`Unshield` and `Transfer` run a call; `Expire`, `Fail`, `Archive`,
`RestoreEntry` are the ledger's. Calls that an account has in flight together
carry one sequence number, so one runs and the others die (`Run`). `Transfer`
writes the sender's entry, then the receiver's, from values read before either
write, as the code does: on a transfer to oneself the receiver's delta alone
remains. Two histories say what arguments that disagree do: `created` is what
calls added to balances beyond the tokens they brought in, `taken[u]` what
transfers of others took from `u`. An honest client reads its balance from
`get_balance` and decrypts it; the backend's `/api/balance` cannot serve for
that (section 6) and is not modelled. The native token is external
(`get_native_token` is called and not defined).

### TransactionIndex: the backend of the demo

`db` is the collection in natural order, `chain` the confirmed transactions on
Horizon, `pc`, `todo` and `hit` the place and locals of every request under
way. Each `await` is a step boundary. `findOneAndUpdate` with `upsert` is two
steps, `Match` then `PostWrite` or `SyncWrite`, since nothing in the schema
makes `hash` unique and MongoDB then allows two upserts of one value to insert
twice. `SyncFetch` takes a page of the latest transactions, `SyncFind` skips
the ones with a document, `SyncOps` keeps invocations only; `SyncThrows` and
`PostThrows` are the `catch` blocks. `fetch` does not reject on an error status,
and `_embedded?.records || []` makes an empty list of the body of an error: then
`SyncFetch` has an empty page and `SyncBlankOps` passes an invocation over,
which the history `blank` remembers. `known` is what a pass saw when it last
looked. `Cast` drops fields that the schema does
not have. One of these is the `type` that a post carries (`index.js` sets it,
`models/Transaction.js:3-10` has no such field), so `resource-blueprint`'s
search for `type: 'transfer'` (`index.js:191`) cannot match a record stored
this way.

### ConstantCache: constants cached in the instance entry

`store` is the instance entry (all its keys share one time to live), `work` the
running call's copy, `call` the constants the call reads and `got` what it has
got so far. `Read` is one accessor of `cache.rs`: bump the instance, return the
cached value or build it and cache it. Generators are stored as bytes and built
anew when the bytes do not decode. `WriteOwn` is the contract's own use of its
instance storage under a name that equals a constant's. `Trap`, `CloseLedger`,
`Restore` are as in `VkStore`. A constant that changes in an upgrade of the
code while the old value is cached is out of the model.

### Groth16: decoding and verification

Points are discrete logarithms modulo a small order `Q`, `Off` stands for
coordinates that are not on the curve or out of range, `Stray` for a point of
the second curve outside the subgroup. `validate_g2_coords` lets a stray point
through, since the check of the subgroup multiplies by zero (run
`arithmetic_subgroup`), and the host traps on it. This keeps exactly what the
checks of the code and of the host tell apart: the identity, a valid point, an
invalid one, a stray one, and whether a product of pairings is one. `Decoding` is `vk_from_bytes` check
by check, in order; the length it expects is computed in a machine word
(`Word`), as `ic_len` comes from the input: the builds with overflow checks
trap there, although the doc comment (`zk-std/vk.rs:127-128`) speaks of an
error. `CheckedInputs` and `Verify` are `groth16_verify`: number of inputs,
range, sum of `ic`, four pairs, `validate_pairs`, the host. The answer is an
error, a verdict or a trap. The software pairing of the `software-fallback`
feature computes the same product and is not modelled apart.

### NonNative: arithmetic modulo a foreign modulus

Numbers are values and limbs are read off them (`Limb(v, i)`), in base `Base`
(2^64 in the code). A call is validated (`AssertValid`), then `Divide`d:
`DivideSmall` answers when the divisor is longer, `Normalize` scales both
operands so that the top limb of the divisor is at least half the base, and
pads the dividend. For each digit, `Estimate` takes two limbs over one,
`Correct` lowers the estimate while the third limb shows it is too large, and
`Subtract` subtracts and adds back once if it borrowed. `Remainder` undoes the
scaling, `Check` is the test `q * p + r = a` with `r < p` on which the
operations refuse to answer. The private `add` keeps the length of its longer
operand and `cmp` does not look beyond lengths, so a carry into a new limb is
not seen: `Recomputes` compares what is left of the sum. `from_u256` and `add` are single steps;
`CarryInto` is the carry chain of the limb loop. The private `sub` of limbs is
never called and left out. The weights `Base^i` are a constant (`Weight`, with
`WeightAssumption`) because the provers know nothing of exponentiation.

### Montgomery, Bn254 and FieldCalls: words and field elements

`Montgomery` is `montgomery_mul` limb by limb: `Round` adds one limb of the
first operand times the second, then the multiple of the modulus that clears a
limb; `SubtractModulus` is one turn of the loop that brings the result down
(`limbs5_ge` compares strictly, so a result equal to the modulus would stay);
`Finish` hands the result to the next product of the call, as `mul_mod` chains
two conversions, the product and the conversion back. The array of limbs is its
value, `t`, as a carry that ripples up is an addition. `Weight` is again a
constant for the powers of the base.

`Bn254` is the rest of the field on words of `2 * HalfBits` bits, wrapping
where the code wraps: `AddMod` and `SubMod` correct once, `MulModNaive` goes
through halves when a product overflows, `PowMod`, `Invert`, `SqrtFq`.
`FieldCalls` calls them on every word, reduced or not.

### Jacobian and Curve: points, ElGamal, KZG

`Jacobian` is the arithmetic of points once, over a field that is a parameter,
as `G1Projective` and `G2Projective` are the same code over two fields: `Add`
with its exceptional cases, `Double`, the ladder. `Curve` instantiates it over
the field and over its quadratic extension. A caller holds `acc`, a point in
coordinates, and the model holds `ref`, what it should be by chord and tangent;
`DoubleG1`, `AddG1`, `ScaleG1`, `NormalizeG1` and their G2 forms move both. The
checks of points, the search for generators from a hash, `Encrypt`, `Decrypt`
and `KzgCommit` are single calls. `Arithmetic` puts the three parts under one
caller.

### BooleanGadgets, Lut, FieldAdd, Permutations, Sponge, Sha256

`BooleanGadgets`: each gadget computes and checks at once, so a call is a step;
a wire that should be a bit may hold any word. `Checked` is the set of builds:
with overflow checks (`Cargo.toml:25`, the release profile) `mux` panics when
its second branch is below the first, whichever is selected, and a bit past the
word panics when it is shifted (`Overshifts`); in the others the amount of the
shift wraps, and that bit meets the one at the position it wraps to
(`Wrapped`). A supplied vector may be longer than the word.

`Lut`: a table, its insertion sort exchange by exchange (`Sort`, `Exchange`,
`NextRow`, `Sorted`), `Lookup` by scan or, once sorted, `Probe` by probe.

`FieldAdd`: the byte arithmetic of the sponge, `BeAdd`, `BeSub`, `BeGe`,
`ReduceOnce`, with a mask for every selection.

`Permutations`: Poseidon2 in software (`Mds`, `Sbox`, full and partial rounds),
Rescue-Prime, and the search for its exponent with the extended Euclidean
algorithm. The loops of `gcd` and `mod_inv` are as many turns as they can have,
of which those after the last change nothing (`EuclidStep`, `InverseStep`), and
the search has as many trials as it can need. The model states the inverse of
each round.

`Sponge`: a state is what was permuted into it (`permuted`) and what was added
to the rate since (`added`), with the position `rate_idx`. `Absorb`, `Squeeze`
and the hashes built on them, for two callers side by side so that their states
and digests can be compared. The STARK transcript hashes chunks with SHA-256
and is here too.

`Sha256`: a message is read byte by byte through `PaddedByte` into blocks,
`Compress` by `Compress`; bytes of the message are their positions, so what was
compressed can be read back.

### Polynomials, Halo2, Bulletproofs, Fri, StarkTree

`Polynomials`: `poly` is a dense or a sparse polynomial and `meant` the function
it ought to be; every operation changes both. Operations that run out of room
are refused as the code refuses them (`refused`).

`Halo2`: `TakeKey` validates a key, sound or malformed; `Verify` fixes the cells
and runs the gates and the grand product for *every* pair of challenges, which
the prover does not know when it fixes them; `FoldIn` folds commitments and
values into the accumulator, whose first fold is stored and not added.

`Bulletproofs`: the prover message by message (`BeginProof`,
`SendCommitments`, `SendPolynomial`, `Evaluate`, one `FoldRound` of the inner
product after another,
`SendScalars`) and the verifier, which folds again (`IpaFold`) and adds two
residuals (`ComputeResidual`). A point is its vector of coefficients over
independent generators; a challenge is any scalar of the bounds.

`Fri`: the field, its domains, `FoldDown` from layer to layer with at most one
value wrong, and the deep composition. `StarkTree`: `CommitTrace`, `RootLevel`
by level, `OpenLevel` by level, `Reveal` of any row with any index, a foreign
sibling or a path cut short. A digest is the sequence of the columns hashed
(`Sha`), eight bytes each, and a pair of digests is hashed as the columns its
bytes spell (`AsColumns`), with no tag that would keep leaves and nodes apart,
as there is none in the code.

### Compositions

`Contracts`, `Arithmetic`, `Gadgets` and `ProofSystems` put components that share
no state under one caller, who is at one of them at a time. `MCGadgets` adds
`NonNative` to `Gadgets` in the same way.

## 4. The runs

| Run | Distinct states | Checks | Bounds, and why they are enough |
|---|---|---|---|
| `vkstore` | 85818 | `IInv` (with the type invariant), `StoredKeyIsWhole`, `ProofContextIsShortLived`, `SaveRenewsEveryEntry`, `ImplementsRegister`, `CallsEnd` | two accounts, so that a call runs on a footprint made before another one; keys of one and two chunks, one filling its chunk exactly, and one made of the first chunk of a second and the last chunk of a third, so that a torn key is a valid key which no check of the code would notice; life of 1 to 3 ledgers around a threshold of 2 |
| `contracts` | 991710 | of `ShieldedAsset`: `AssetInv`, `Conserved`, `DebitsAreTraced`; of `TransactionIndex`: `CompletePassCovers`, `EarlierRecordsKept`; of `ConstantCache`: `CacheInv`, `WholeCallsAreCached`, `UseRenews`; of `Groth16`: `IInv`, `VerdictIsTheEquation`, `OnlyIdentityIsRefused` | Asset: two accounts are all a transfer touches; one is honest, with two calls in flight, so that calls cross and one outdates the other, the other one sends whatever it likes; amounts -1 to 1, deltas -1 and 1 in every combination, balances to 2 on either side of zero, at most 1 taken. Index: three transactions, two of them invocations, and pages of two, so that a page is full and something falls off it; one post and one pass, each as often as it likes, and an error body at every fetch. Cache: every constant; calls that read parameters, generators, both; own entries under two of the names, holding junk or the wrong generator. Verifier: a group of order 5; keys of no, one and two inputs; buffers cut, extended, with every wrong `ic_len` of a word of 16, and with each kind of bad point; stray points at every place of the second curve; inputs that cancel the sum, zero, the modulus and beyond |
| `shielded_asset_supply` | - | `TotalSupplyIsConserved`, violated | two honest accounts with two calls each, so that the violation needs no hostile client |
| `index_duplicate` | - | `NoDuplicateRecords`, violated | two posts, no pass |
| `arithmetic` | 57654 | `MontInv`, `FieldCallsAreExact`, `PointIsGroupLaw`, `DecryptsToAmount`, `GroupCallsAreExact` | two limbs in base 4, the primes 3 and 13 (a modulus that fits five times in a word and one close to it), every pair of words; words of six bits, all of them, for sums, differences, inverses and roots; a curve of 13 points with every point in three sets of coordinates, so that equal, opposite and identity operands meet in all forms; its twist of 325 points; scalars around the order and at the end of the word |
| `arithmetic_subgroup` | - | `OnlySubgroupPasses`, violated | same |
| `gadgets` | 315367 | `GatesAreExact`, `LookupIsFaithful`, `FieldAddIsExact`, `PermutationsAreInvertible`, `DigestsMeetOnlyByZeros`, `PaddingIsExact`; of `NonNative`: `ReduceIsCanonical`, `AlignedMulIsCanonical`, `MulIsCongruent`, `AddIsExact` | numbers of three bits with every witness of up to four wires, so that one is longer than the word, each a bit or not, in builds that check and that do not; every table of up to three rows of two values, duplicates and conflicts among them; words of three digits in base 3 with a modulus that fits five times, as the code's does; all 2197 states of both permutations over 13 elements, with four full and two partial rounds; two transcripts of four calls, messages of up to five elements; SHA-256 with its real sizes, every length to 140 bytes, and the bound of its field form; limbs in base 4 with moduli of one, two and three limbs (3, 7, 13, 53), every pair of operands, valid or not: estimates that are right, one too large and corrected, one too large and added back, and carries that the comparison drops all occur |
| `mux` | - | `MuxSelects`, violated | same |
| `sum_reduced` | - | `SumIsReduced`, violated | same |
| `chunks` | - | `ChunksAreSeparated`, violated | same |
| `proof_systems` | 209682 | `PolynomialsAreExact`, `VerdictsFollow`, `HonestCellsPass`, `ArgumentDecides`, `AccumulatorIsSum`, `RangeProofsAreComplete`, `FoldsFollowThePolynomial`, `PathsAuthenticate` | the field of 17 elements, room for three coefficients or two terms; keys over two rows and two columns with every permutation and five mappings that are none, two gates with rotations beyond the rows in both directions, and nine malformed keys, every filling from three values and 81 pairs of challenges; four folds in any order; range proofs of four bits, that is two rounds, with zero among the challenges; 97 elements, layers of eight points folded to one; traces of up to eight rows, with lengths that are no power of two, rows of eight columns and rows too wide, and revealed rows spelled by two digests of the tree |
| `halo2_permutation` | - | `ProductIsOneIffPermutation`, violated | same |

All constants that bound a run are named in the module that declares them
(`MaxInFlight`, `MaxBalance`, `MaxTaken`, `MaxChunks`, `MAX_LIMBS`, `MaxSteps`,
`MaxRows`, `MaxVector`, `MaxCalls`, `MaxMessage`, `MaxFolds`). The composed
modules run their parts one at a time, as they share no state.

**What the main properties say.**

- `StoredKeyIsWhole`: whatever calls trapped, whatever footprints were out of
  date, the header on the ledger describes chunks of one and the same key.
- `SaveRenewsEveryEntry`: a call that stored a key leaves all its entries at or
  above the threshold, so no chunk expires well before its header.
- `ImplementsRegister`: with `key <- KeyOf(store)`, every behaviour of
  `VkStore` is one of `VkRegister`; intermediate steps of a call are stutters.
- `Conserved`: balances add up to the tokens held plus what calls that returned
  added by arguments that disagree, and by transfers to oneself. Whatever fails,
  expires or is short of tokens leaves nothing behind. `created` is computed
  from the arguments of a call, the balances by the two writes of the code.
- `Covered`, a part of `AssetInv`: a client that spends no more than the balance
  it reads cannot overdraw its account, although the contract compares nothing
  and other calls run in between; only transfers of others with a negative
  delta, counted in `taken`, take it below zero. `DebitsAreTraced`: every debit
  is a call of the account itself, by its own delta, or such a transfer, which
  no honest client sends.
- `CompletePassCovers`, `EarlierRecordsKept`: a pass that came to its end left
  no invocation of its page unrecorded but those whose operations were an error
  body, and it never overwrote a record that was there when it looked for it.
  What is posted after that look-up it does overwrite.
- `ReadsWhatIsBuilt` (in `CacheInv`), `WholeCallsAreCached`: the cache cannot be told from
  building the constant, and a trapped call leaves nothing in it.
- `VerdictIsTheEquation`, `OnlyIdentityIsRefused`: a verdict is always the
  equation's, and a well-formed claim gets one unless a sum is the identity,
  when it is refused, or a point is stray, when it traps. `OnlyStraysTrap`, a
  part of `IInv`: nothing else reaches the host that it traps on.
- `ReduceIsCanonical`, `MulIsCongruent`: `reduce` is exact and never refuses;
  `mul` can refuse or answer an unreduced element, and never a wrong residue.
  `AlignedMulIsCanonical` says when it is exact: the division fits its first
  window, and the dividend does not take a limb more than the two numbers whose
  sum it is compared with (`Outgrows`).
- `MontInv`: after each round the accumulator is congruent to what was
  multiplied so far, its low limbs are zero, it stays within its bound, and no
  carry leaves the array; a call returns the residue its name says for every
  pair of words, reduced or not.
- `FieldCallsAreExact` says on which words that are *not* reduced one
  correction still gives a congruent result, and `FieldAddIsExact` the same of
  the byte arithmetic: exact below twice the modulus, congruent above as long
  as nothing is dropped.
- `PointIsGroupLaw`: every sequence of doublings, additions in any coordinates,
  ladders and normalizations represents the point that chord and tangent give.
- `DecryptsToAmount`, `GroupCallsAreExact`: what is encrypted to a key is
  decrypted by it, and by no other unless the ephemeral scalar is zero;
  commitments are the sums they should be, checks accept what is on the curve.
- `GatesAreExact`: of the vectors that fit in a word one passes for a number and
  no other, whatever its wires hold, and where shifts are checked no longer one
  does; the multiplexer returns the operand selected or panics. `LookupIsFaithful`: sorting loses no row, and a
  lookup answers as the rows given say, before and after.
- `DigestsMeetOnlyByZeros`: inputs that share a digest differ by zeros which the
  padding adds, or, for chunked hashing, are cut elsewhere. It does not say that
  such inputs must share one. `PaddingIsExact`: the padded SHA-256 message can
  be read back.
- `VerdictsFollow`: with a validated key no index is out of range, the gates
  decide first, and a refusal of the permutation argument needs a denominator
  that is zero. `HonestCellsPass`: cells that satisfy the gates and agree along
  a permutation are rejected for no challenges. `ArgumentDecides` adds the
  converse: only such cells pass for all challenges.
- `RangeProofsAreComplete`: prover and verifier fold to the same commitment in
  every round; honest proofs verify for all challenges that have inverses,
  altered ones do not, alone or as the only wrong one in a batch.
- `FoldsFollowThePolynomial`: a folded layer is the folded polynomial on the
  next domain, and a wrong value stays wrong unless the challenge is minus its
  point; a deep composition is the combination of the divided polynomials at
  every point that none of its terms queries.
- `PathsAuthenticate`: a revealed row that verifies with the whole path is the
  committed one; with a path that was cut it is the row whose columns spell the
  two digests below the node where the path ends.

**Fairness.** `CallsEnd` alone is a liveness property. It assumes
`WF_vars(Step)`: a call the host has started is run to its end, since a ledger
closes with the calls it contains applied. Nothing is assumed of clients, of
`Trap`, or of which call starts. A step is always enabled while a call runs, as
every one either proceeds or strays. The violations are safety properties and
assume no fairness. Deadlock is checked in every run.

## 5. The theorems

Eight modules hold theorems, all checked by TLAPS to the last leaf. They hold
for every value of the constants that satisfies the named assumptions of the
module concerned.

| Module | Theorems | Assumptions worth knowing |
|---|---|---|
| `VkStoreProofs` | `Invariance`, `TypeCorrectness`, `KeyIsNeverTorn`, `ContextIsShortLived`, `SaveRenews`, `Refinement` | `Ser` is injective, no key is empty or needs more than `MaxChunks` chunks; `Amount` is at least `Threshold` |
| `DemoProofs` | of `ShieldedAsset`: `Invariance`, `NoOverdraft`, `DebitsTraced`, `Conservation`; of `TransactionIndex`: `IndexInvariance`, `PassCovers`, `PassKeepsRecords` | bounds are naturals, amounts and deltas integers, and the users finitely many (`UserAssumption`); no request is both a post and a pass |
| `ContractProofs` | of `Groth16`: `Invariance`, `Soundness`, `NoTrap`, `Completeness`; of `ConstantCache`: `CacheInvariance`, `CacheIsTransparent`, `CachedTogether`, `UseKeepsAlive` | the host's sum of valid points is a point; calls of the cache read at least one constant |
| `NonNativeProofs` | `Invariance`, `ReduceCanonical`, `MulCanonical`, `MulCongruent`, `AddExact` | every base above 1, and moduli whose products fit in `MAX_LIMBS` limbs |
| `ArithmeticProofs` | `Invariance` (of `Montgomery`), `FieldCallsExact`, `PolynomialsStayExact` | `EngineAssumption`: the moduli are prime, do not divide `R`, and the engine holds the right `n0inv` and `r2`; `FieldAssumption` and `PrimeAssumption`: words of an even width, both moduli below half a word, and Fermat's theorem for them (`v^(p-1) = 1`); `PolynomialAssumption`: rooms and exponents are words, coefficients elements of the field |
| `ProofSystemProofs` | of `Halo2`: `AccumulatorSums`, `VerdictsAlwaysFollow`, `HonestCellsAlwaysPass`; of `Bulletproofs`: `RangeProofsVerify`; of `Fri`: `FoldsAlwaysFollow`; of `ProofSystems`: `SystemsTogether` | the assumptions on the fields, as it builds on `ArithmeticProofs`; `Halo2Assumption`: sizes are naturals, cells and challenges are elements of the field; `RangeAssumption`: as many rounds as halve a vector of bits to one, no more bits than a word has, values are words and challenges and random scalars are scalars; `FeltAssumption`, `RootAssumption`: Fermat's theorem for the modulus, a root whose power to half its order is `-1`, and `INV2` the inverse of two; `TraceAssumption`: the first layer is not larger than the largest domain |
| `GadgetProofs` | `LutInvariant`, `LookupFaithful`, `ShaInvariant`, `PaddingExact`, `TreeInvariant`, `PathsAuthentic`, `SumsExact`, `GatesExact`, `DigestsMeet`, `TogetherExact` | `LutAssumption`, `ShaAssumption`, `TreeAssumption`, `BytesAssumption`, `BooleanAssumption`, `SpongeAssumption`: sizes are naturals, a base is above 1, a modulus fits its word, inputs and bytes are naturals; none bounds a size from above, except that a trace has at most `2^MAX_DEPTH` rows, the length of a vector of the host |
| `PermutationProofs` | `PermutationsInvertible` | those on the fields, as it builds on `ArithmeticProofs`; `RCAssumption`: constants and keys are elements of the field, and partial rounds have their first constant only; `SboxAssumption`: the prime is above 7, and 5 has an inverse modulo the prime minus one, as it has for BN254 |

**VkStore.** The key is whole between calls; this is not inductive, because a
call gets there step by step. `IInv` adds what each step knows: `SaveInv`, that
the first `i` chunks in `work` are those of `vk`; `LoadInv`, that `full` is the
beginning of the key held in `store`; `ProveInv`, that `vk` is that key;
`ReadOnlyInv`, that a call that has written nothing works on an unchanged copy.
Lemmas on `Upto` and `ChunkOf` say how chunks recompose (`Upto(k, i + 1) = Upto(k, i) \o
ChunkOf(k, i)`, and the last one is the whole). The refinement follows from
`IInv`: a commit is `Apply`, an abort `Fail`, anything else leaves
`KeyOf(store)` as it was. A ledger that closes does too, for an archived header
keeps its value.

**ShieldedAsset.** `Covered` already speaks of calls in flight, and is
inductive with `AssetTypeOK`. The step that matters is a call that debits: `Run`
empties the flight of that account, so no older call remains that relied on the
larger balance; a debit by another account raises `taken` by as much.
`DebitsAreTraced` uses that calls of honest clients in flight are consistent.
`Conserved` compares a sum over all accounts with the pool; `Total` is a fold of
the community modules, which takes the accounts out of their set in an order of
its own; `SumExists` and `SumChanges` say what such a sum is and what changing
one account does to it, by induction over the number of accounts. The step that
matters is the transfer, where two accounts may be one: then the sum changes by
the receiver's delta alone.

**TransactionIndex.** `PassInv` says of a pass under way that what it was given
and has not recorded is still to do, or in `blank`, and that what it is about to
record had no document when it looked. Documents are never removed, and an update
in place keeps the hash that the look-up saw (`TypeOK` relates `hit` to it), so
`Hashes` grows.

**ConstantCache, Groth16.** Coherence of both copies of the instance, and that
what is stored decoded, are inductive with the type invariant.

**NonNative.** The classical argument about long division (Knuth, volume 2,
4.3.1): with a normalized divisor the estimate of a digit is never below it,
and once `Correct` has stopped it is at most one above, so one addition back
suffices. `EstimateIsEnough` and `DivisionIsExact` carry this from step to
step; the leaves are products and quotients of naturals, split until each is
linear for the prover. `Aligned` is the condition long division needs of its
first window. `reduce` meets it, and its dividend never outgrows what `Check`
adds up (`Outgrows`); `mul` may fail in both, and the theorems say exactly what
is left: congruence in every case, since dropping a carry only refuses more, and
the canonical result when both hold.

**Arithmetic: the Montgomery product.** `MontInv` is inductive; what it needs beyond the exactness of
calls is `AccumulatorIsExact` (the low limbs are zero, the value is congruent
to the part of the product done, and bounded), `OperandsAreReduced` and
`ChainIsExact`, what each product left for the next. `RoundClears` is the
algebra of one round: the multiple `m` is chosen so that `d + m * n` vanishes
modulo the base. `RoundHolds` carries the three facts through a round,
`HoldsFits` turns the bound into the absence of a carry, and `ProductHolds`
shows that what is left after the loop is below the modulus although the
comparison is strict: it could equal the modulus only if the product of the
operands were zero modulo a prime, and then the accumulator is too small for
it. `Cancel` divides by `R`. Congruence is an existential (`Same`), since the
provers are at a loss with remainders of products.

**Arithmetic: the calls of the fields.** One conditional subtraction brings a
sum of two words back below `2^256`; whether it is the right residue depends on
the operands, and `FieldCallsAreExact` says for which. The product by halves is
four products whose sums wrap; `ShiftLeftMod` doubles, so by induction over the
number of doublings it multiplies by a power of two. `PowMod` squares and
multiplies: the invariant of its recursion is that the accumulator times the
base to the bits left is the power. The inverse is a power by Fermat's theorem,
which `PrimeAssumption` states of the two moduli in use.

**Arithmetic: polynomials.** `PolyInv` relates the content at hand to the function
meant: coefficients, reduced and without zeros at the end, whose function it is,
or terms that list by ascending exponent the coefficients other than zero of
some function on exponents (`Stands`), whose value at every point is the one
meant. Values are sums of powers of the point, on integers (`PolySum`), and
congruence of sums carries each operation to its function. Evaluation from the
highest coefficient down has, after `k` steps, the value of the upper `k`
coefficients (`EvaluateDenseIs`). In a product, after `i` rows every coefficient
holds the part of the lower `i` coefficients, and the highest one is a product of
two that are not zero, so the result is canonical although the code does not make
it so (`ProductIs`). An insertion replaces at most one term at the place of its
exponent (`SpliceStands`), so after `k` terms the list stands for their net
coefficients (`FromTermsIs`); when it is full and another exponent comes, there
are more net coefficients than room, by counting (`Pigeons`).

**Proof systems: Halo2.** `AccumulatorSums`: one count serves points and values, so
the first point is added to zero instead of stored when a value came before it,
which makes no difference. `VerdictsAlwaysFollow`:
`validate` bounds every index that evaluation forms, rotations included,
because a rotation is taken modulo the number of rows. `HonestCellsAlwaysPass`:
along a permutation, numerators are the denominators in another order, and
products of finitely many field elements do not depend on the order
(`PermutedProduct`, by moving the last factor to its place); each
denominator has an inverse, so the ratio is one.

**Proof systems: range proofs.** `RangeInv` says message by message what the proof
holds: the commitments of the bits, those of the coefficients of `t(X)`, then
`ArgumentHolds`, that what the verifier would fold from the messages so far
(`FoldedTo`, a chain of `FoldStep`) is what the prover folded, and that its
commitment is `Cross` of the folded vectors when the challenges have inverses.
Points are compared generator by generator, each coefficient a sum of products
up to a multiple of the prime (`MsmIs`, `InnerProdIs`), so that identities
between points become identities between integers. There are four.
`EvaluationIdentity`: the inner product of `l(X)` and `r(X)` is the constant
`delta + z^2 v` and the two terms committed to, because the bits recompose the
value (`SumsOfBits`) and a bit times its complement is zero.
`CommitmentOfEvaluation`: the commitments of the first message, shifted by the
public vectors, are the commitment of both vectors. `RoundIdentity`: a round
keeps the commitment, since a challenge times its inverse is one. And in the
residual everything cancels but the change of a last scalar times a generator;
`Supports`, that the first generators occur in no other place of the folded
ones, makes it differ from the identity. `BatchIs` adds residuals up.

**Proof systems: folds.** `FriInv` says that the layer at hand holds the values of
the folded polynomial at every place but `wrong`, and that what a deep composition
returned is the sum of its parts. Half a domain further the root has gained a
factor `-1` (`OppositePoint`), and the square of a point is the point of the next
domain at the same place (`SquaredPoint`), since the exponents `1 << k` double. A
polynomial is that of its even coefficients at the square and the point times
that of the odd ones (`PolySplits`), so the values at opposite points are a sum
and a difference of two numbers. `FoldValueIs` says what a fold is without
division: twice the point times it is known. As neither two nor a point is zero,
that determines it (`FoldIsUnique`); the fold of true values is then the value of
the folded polynomial (`FoldOfTrue`), a fold from the opposite point is the same
(`FoldFromOpposite`), and an error is multiplied by the point plus the challenge
(`FoldOfWrong`). In the deep composition, the difference of two powers over the
difference of their bases is a sum of products of powers (`QuotientOfPower`),
for points that differ from `zeta`.

**Gadgets: tables.** `LutInv` adds to the property what the loops know:
`Sorting`, that the rows up to the one being moved are in order but for it;
`Searching`, that the rows below `lo` are less than the query and those above
`hi` neither less nor equal. That an exchange keeps the number of occurrences of
every row is a bijection between two sets of positions (`ExchangeKeeps`).

**Gadgets: SHA-256.** `ShaInv` says that what was compressed so far is the padded
message up to block `g`. `PaddingIsExact` reads the length back from its last
bytes, by induction over the bytes of the length.

**Gadgets: trees.** `TreeInv`: the level at hand is the one of the tree over the
committed trace, and the path under way holds the siblings of the nodes above
its row. Different columns have different digests (the usual collision
assumption), so what is hashed to a node determines its two children, and a path
that verifies is compared with the tree level by level from the root down. A
whole path ends at a leaf; a path that is cut ends at an inner node, whose
digest is that of the columns which its children spell, and of no other row.

**Gadgets: sums and bits.** The value of an array is a recursive function over
its bytes. `SumsExact` shows that `BeGe` compares values, that carry and borrow
out of the top byte are what the values overflow by, and follows the three
subtractions of `field_add`. `GatesExact` shows that a vector of bits that fits
in the word and the number it recomposes to determine each other, so that gates
are intersections, unions and differences of sets of positions; that longer ones
may pass in a build that does not check its shifts is why it asks for `Fits`. `TogetherExact` carries the results
on five parts over to the composed specification that the run checks, and says
that the permutations behave in it as they do alone; `SystemsTogether` does the
same for `ProofSystems`.

**Gadgets: the sponge.** `SpongeInv` says that each transcript is in the state
of the elements its calls stand for (`StateOf(AsElements(log))`): the pairs that
were permuted and the element that waits. Absorbing appends (`AbsorbIs`, by
induction over the input), a challenge appends zeros up to a pair (`SqueezeIs`),
and pairs determine their elements (`PairsDetermine`); so `DigestsMeet` compares
sequences, for messages of every length. The STARK transcript is a code whose
words are a challenge or a whole chunk; `JoinedInjective` shows that words in a
row can be told apart again.

**Permutations.** Every layer has a way back, so every permutation has one, by
induction over its rounds. A power comes back by an exponent whose product with
the first is one modulo the prime minus one (`PowerBack`, Fermat's theorem
again); for Rescue-Prime that exponent is the one `mod_inv` computes. `GcdIs`: a
turn of Euclid's loop keeps the common divisors and makes `b` smaller, so the
`b` turns the model allows reach the end. `DoubleAndAddIs`: the high bits done so
far times the factor. `ModInvIs`: a coefficient times the number is congruent to
its remainder, so the last one, times it, is congruent to one. `AlphaIs`: one of
`p` and `p + 1` is odd and coprime to `p - 1`, so the search ends within its
trials. The matrix of Poseidon2 is `I + 2J`, undone by `I - 2J/7` (`MdsBack`), as
seven is not zero in the field. That of Rescue-Prime is undone by its cofactors
(`CramersRule`); its determinant is not zero, since times 2160 it is one modulo
the prime, the entries being the inverses of `-1` to `-5` (`DeterminantIs`).

**Induction.** The library's induction theorems take an operator as a parameter,
which the provers cannot instantiate. Lemma `Inductive` takes a set instead: a
set of naturals that has zero and successors is all of them, as the complement
would have a least element. That a recursive function satisfies its equation is
itself such an induction, since a function is a `CHOOSE`.

**Checked by TLC only.** Liveness (`CallsEnd`), since neither fairness nor
`ENABLED` is in the prover's reach, and the violated properties. Of the
invariants:

- `PointIsGroupLaw`, `DecryptsToAmount`, `GroupCallsAreExact`: that Jacobian
  formulas are chord and tangent is an identity of rational functions, and that
  this is a group (associativity) a theorem of algebraic geometry; neither is
  for provers without polynomial arithmetic.
- The half of `ArgumentDecides` that says that other cells fail for some
  challenges: it counts the roots of a polynomial in two variables. The other
  half is `HonestCellsAlwaysPass`.

## 6. Where code and text disagree

Seven are runs that TLC finds violated, with the lines quoted in `PROJECT.json`.

- `shielded_asset_supply`: a transfer of an account to itself reads both
  entries before it writes either and keeps the credit only.
- `index_duplicate`: two posts of one hash that overlap leave two records.
- `arithmetic_subgroup`: the check of the subgroup of G2 multiplies by the
  order, which `g2_scalar_mul` reduces to zero (`zk-core/lib.rs:1292`), so that
  every point of the curve passes.
- `mux`: the multiplexer is said to return `(1 − sel)·a + sel·b`
  (`gadgets/boolean.rs:274`); where arithmetic is checked it panics whenever `b`
  is below `a`. `GatesAreExact` says that what it returns is right.
- `sum_reduced`: a test expects a reduced sum of words near `2^256`
  (`zk-std/poseidon2.rs:864`, `887`); one subtraction per operand does not reduce
  them. `FieldAddIsExact` says which sums are right.
- `chunks`: `poseidon_hash_chunked` promises domain separation between chunks
  (`gadgets/hash/poseidon.rs:20`); the digest is that of the elements in a row.
  `DigestsMeetOnlyByZeros` says that nothing else meets.
- `halo2_permutation`: the grand product is said to be one exactly when sigma is
  a permutation (`halo2.rs:207-208`); a zero beta accepts every sigma, and cells
  that differ along a permutation are rejected. `ArgumentDecides` says what the
  argument does decide, over all challenges.

These came up on the way; properties of passing runs say what the code does.

- `clear_vk` (`vk.rs:218`) removes the chunks that the current header counts.
  After a longer key was replaced by a shorter one, the chunks of the longer one
  stay; the comment promises that all are purged. No later key is disturbed.
- Nothing in the shielded asset compares an amount with a delta or with the
  balance, or the two deltas of a transfer with each other, and no proof is
  verified (`lib.rs:128-135`), so balances are what callers make them.
- A sum of `ic` points that is the identity, as it is when all public inputs
  are zero, is refused instead of verified (`groth16.rs:161`;
  `OnlyIdentityIsRefused`); the doc (`groth16.rs:42-50`) names no such refusal.
- A point outside the subgroup is said to be an `InvalidInput`
  (`host.rs:128-135`); it traps at the host, for the same reason as
  `arithmetic_subgroup` is violated.
- The dividend of `mul` gets a zero limb on top only when it has no more limbs
  than the divisor (`nonnative.rs:248`), so some products of canonical elements
  are refused or returned unreduced; in base 4, `6 * 5` modulo 7 is refused.
- `mul` adds `q * p` and `r` with an `add` that has no room for a new limb
  (`nonnative.rs:132-138`), so it refuses products whose division is right:
  `2^96 * 2^96` modulo `2^192 - 2^64 - 1`, or in base 4 `4 * 4` modulo 13.
- `assert_bit_decomposition` speaks of a sum of bits times powers of two
  (`gadgets/boolean.rs:127-128`); a build that does not check shifts takes
  vectors beyond 256 bits whose sum is another.
- A row of eight columns and a node of the tree are hashed alike
  (`stark/aet.rs:92-101`, `stark/merkle.rs:49-56`), and a path carries its own
  depth, so a path that is cut verifies a row that was never committed
  (`PathsAuthenticate`). No text of the repository speaks of it.
- An error body of Horizon ends a sync pass, or passes a transaction over,
  without an error (`index.js:84`, `93`).
- `vk_from_bytes` computes the expected length in a machine word (`vk.rs:145`);
  where `usize` has 32 bits, a length of `2^26` or more wraps or traps. The
  comment speaks of an error.
- `absorb` calls `field_add` with four arguments (`zk-std/poseidon2.rs:687`),
  its definition at line 131 has three. The model takes the extra one, the
  environment, as unused.
- The doc of `mds` (`zk-core/poseidon2.rs:608`) gives the matrix `I + J` (ones in
  `J`) and a product with one `S` next to the code's `2 * S`, which is
  `I + 2 * J`; there is no initial linear layer. `zk-core` and the host therefore
  need not agree on a digest.
- The accumulator of Halo2 avoids adding `(0, 0)` as "not a valid `add` operand"
  (`halo2.rs:284-286`); `add` handles it.
- At `zeta = z` the quotient is said to be the formal derivative
  (`stark/fri.rs:63`); the inverse of zero is zero, and so is the quotient. The
  next line says that callers avoid such points, and
  `FoldsFollowThePolynomial` claims nothing of them.
- The index of a Merkle path is not bounded; its high bits are not looked at.
- The batch weights of `verify_batch` absorb `v`, `a` and the first `l` of each
  proof (`bulletproofs.rs:742-744`) and no other part of it.
- `fetchOnChainBalance` applies `Number` to the structure of a ciphertext, which
  is `NaN`, and answers 0 when the RPC fails (`index.js:41-58`): `/api/balance`
  answers no balance.

## 7. What is not modelled

- `/api/balance` of the demo's backend: it keeps no state, and what it answers is
  no balance (section 6).
- Events, logging and message texts; the cost of a call, except that a trap can
  strike at any step.
- Tables of constants: data, opaque in the models. The round constants of
  `zk-std` and `zk-core` were compared and are the same numbers.
- The compression function of SHA-256, and the Poseidon2 permutation of the
  host that `zk-std` calls. Both stand for functions without collisions.
- The inside of a pairing, and the software pairing of `software-fallback`,
  which computes the same product.
- Independence of generators and soundness under chosen challenges: a point in
  `Bulletproofs` is its coefficients, so nobody can find relations between
  generators there. What is altered in a proof is one of its last scalars, with
  the challenges unchanged; other messages would change the challenges drawn
  after them.
- `is_equal`, `assert_equal` (comparisons of two words), `fq2_neg`,
  `fq2_frobenius`, `verify_transition` (a comparison of its caller's function
  with zero), the private limb subtraction of `nonnative.rs`, which is never
  called. Coefficients of polynomials that are not reduced, which the
  constructors accept. A direct call of `evaluate_permutation` with a slice of
  another length, which it refuses.
- A constant that changes in an upgrade of the code while the old value is
  cached.
- The contract template and the verifier sample (one verification, no state),
  the Circom circuits, the web pages, and the executables that print constants.

`zk-std/stark` is not declared in the crate's `lib.rs`, so is not compiled yet;
its models describe the source as it stands.
