# Spending-condition decoder: TLA+ models, runs and proofs

This directory holds a formal model of `src/app/rust/src/parser/spending_condition.rs`.
That file is the part of the Stacks Ledger app's transaction parser that decodes the
*spending condition* of a transaction, which is the authorisation a signer attaches. The
same file clears the signatures out of that condition and writes the placeholder used to
compute the sighash. The code is zero-copy: each decoded structure borrows slices of the
caller's transaction buffer. Clearing writes zeros back into that buffer in place.

## The system

| Part (source lines) | State | Operations |
|---|---|---|
| `SpendingConditionSigner` (89-168) | 37-byte record: hash mode, 20-byte key hash, u64 nonce, u64 fee | `from_bytes`, `hash_mode`, `nonce`, `fee`; `signer_address`, `nonce_str`, `fee_str` only format |
| `SinglesigSpendingCondition` (173, 232-265) | 66 bytes: key encoding, 65-byte signature | `from_bytes`, `key_encoding`, `clear_signature` |
| `TransactionAuthField` (180-183, 267-285) | a tag 0..3 and a 33-byte key or a 65-byte signature | `from_bytes` |
| `MultisigSpendingCondition` (191-198, 287-347) | `raw` span, `ArrayVec` of at most 16 fields, u16 required count | `from_bytes`, `required_signatures`, `num_fields`, `clear_signature`, `clear_as_singlesig` (`todo!()`) |
| `TransactionSpendingCondition` (227-230, 349-449) | signer plus singlesig or multisig witness | `from_bytes` (dispatch on the hash mode, P2WPKH check), readers, `init_sighash` |

How the parts interact. `TransactionSpendingCondition::from_bytes` takes the signer
record. It reads the hash mode (`HashMode::try_from`, in `parser_common`, outside
`src/`). A P2PKH or P2WPKH mode hands the rest to the singlesig decoder, and then checks
that a P2WPKH key is compressed. A P2SH or P2WSH mode hands it to the multisig decoder:
a u32 count, that many auth fields, and a u16 required count, which must not be above
the count. Every decoder returns the unread rest or a `ParserError`. `clear_signature`
dispatches to the variant's clearing. `init_sighash` fills a caller buffer with the
sighash prefix: 82 zeros for singlesig, or 20 zeros and the big-endian required count
for multisig.

Hard behaviours in this code:
- adversarial byte strings: every length, tag and count comes from the buffer;
- a fixed-capacity container filled from an attacker-chosen u32;
- in-place writes through raw pointers, whose offsets and lengths are computed by hand;
- buffer-length boundaries in `init_sighash`.

Nothing here is concurrent. Every operation is a synchronous call, so the model has one
actor. Its steps are the decoder's points of control.

## Modules

- **`WireFormat`** is the layout the specification describes (spec sections 4 and 6).
  It is written as one declarative function, `Decode(b)`. Its result is either an
  accepted condition with its offsets and the rest, or an error. It includes the
  capacity check of spec step 4.4.2. It is the reference the code's model is compared
  against. It uses recursive functions, so the proofs use only those facts about it
  that need no unfolding of the recursion.
- **`SpendingCondition`** is the code, one action per handler step. Its variables:
  - `buf`: the caller's buffer;
  - `orig`: its content as received;
  - `pos`: the nom cursor;
  - `mode`: the hash mode;
  - `start`, `numFields`, `fields`: the multisig loop;
  - `cond`: the decoded `SpendingConditionSignature`, as offsets into `buf`;
  - `err`: the `ParserError`;
  - `cleared`: whether the signature has been cleared;
  - `sighash`: the buffer and the result of `init_sighash`;
  - `pc`: the point of control.

  Its actions:
  - `SignerFromBytes(b)`: `SpendingConditionSigner::from_bytes` and `hash_mode`, then
    the dispatch.
  - `SinglesigFromBytes`: `SinglesigSpendingCondition::from_bytes`, `key_encoding` and
    `is_valid_hash_mode`.
  - `MultisigReadCount`: `be_u32` and `ArrayVec::new`.
  - `MultisigReadField`: one iteration of the loop, which is
    `TransactionAuthField::from_bytes` and then `auth_fields[i] = tx`. It panics when
    `i` reaches the capacity.
  - `MultisigReadRequired`: `be_u16`, the `> num_fields` check and the `raw` take.
  - `SinglesigClearSignature` and `MultisigClearSignature`: the `write_bytes` calls,
    exactly as written.
  - `InitSighash(n)`: a caller buffer of `n` bytes prefilled with `Filler`.
  - `EndOperation`: the caller drops the condition and the next transaction arrives.
    This is modelled from the caller's contract, not from this file.

  Every `?` error return is `Fail(e)`.
  `FieldEnd` is `end = e`, the cursor after one auth field. `Decoding` names the points of
  control inside a `from_bytes` call.
- **`SpendingConditionAbs`** is what `from_bytes` promises its caller. A call on a buffer
  is busy for a while, or ends at once, and returns what `WireFormat!Decode` prescribes.
  The one freedom is a buffer declaring more fields than the capacity: the code has no
  check for it, so such a call may fail with any error or abort. `WF_avars(Return)` says
  a started call returns. `SpendingCondition` defines the mapping
  `Abs == INSTANCE SpendingConditionAbs WITH phase <- ..., input <- orig, decoded <- cond,
  error <- err`. Every point of control in `Decoding` maps to `"busy"`, and clearing and
  `init_sighash` map to stuttering steps. `Refines == Abs!Spec` is checked as a property.
- **`SpendingConditionTests`** translates the file's unit tests (lines 451-1857):
  - the byte vectors as the tests write them;
  - the signer records and witnesses the tests build with `extend_from_slice` and
    `usize::to_be_bytes`;
  - the assertions of each test.

  The decoder model runs on these vectors at the code's real lengths.
- **`MCSpendingCondition`** instantiates the model for TLC.
- **`SpendingConditionProofs`** holds the TLAPS proof of type correctness and the
  lemmas about the byte helpers.
- **`SpendingConditionSafety`** extends it with the proofs of the four safety
  invariants of the main run.
- **`SpendingConditionRefinement`** extends it too, with the proof that the decoder
  implements the safety part of the contract in `SpendingConditionAbs`.

Scaling. The lengths are constants: `HashLen` (20), `SigLen` (65), `PubkeyLen` (33) and
`Capacity` (16). The runs use 1, 2, 1 and 2. The fixed-width integers keep their
widths: the u64 nonce and fee, the u32 count and the u16 required count. All the
offsets in the code are written from these constants, so the model's control is the
code's for every value of them.

`auth_fields[i] = tx` is modelled as storing field `i` while `i < Capacity`, and as a
panic at the capacity. Taken literally, indexing an empty `ArrayVec` would panic already
at `i = 0`. The file's tests, and the specification, expect the fields to be stored. The
file as given does not compile (`Ok(bytes, ...)` with two arguments, `num_fields`
returning `()`, `signatures_required` misspelt, `.ok()` on a `u16`). The model follows
the evident intent wherever the compiler would refuse the code.

## Runs

`MCSpendingCondition.cfg` is the main run, expected to pass. It covers 25 032 distinct
states in about 20 s. The inputs are:
- every hash-mode byte, 0..3 and an invalid one, with a singlesig body of encoding 0, 1
  or 7;
- multisig bodies with counts 0..3 and an oversized count (256);
- fields tagged as a key, as a signature or badly (tag 9);
- required counts 0..3;
- a trailing byte;
- every prefix of three representative buffers, so that each "insufficient data" exit
  is taken.

Capacity 2 with counts up to 3 reaches the capacity panic. The sighash buffer lengths
18, 19, 21 and 22 straddle both thresholds (19 and 22 at these lengths). The invariants:
- `TypeOK`.
- `DecodedWellFormed`. A decoded condition lies inside the buffer and starts after the
  signer, and its kind matches the hash mode. A singlesig has a valid encoding, and a
  compressed one under P2WPKH. A multisig has exactly its declared number of fields, at
  most the capacity. Its required count is at most that number, and it is the u16 in
  the last two bytes of `raw`.
- `ParseAgreesWithWireFormat`. On every input the code's result equals the reference
  decoder's, whether a condition or an error. The one exception is a buffer declaring
  more fields than the capacity; the violation run below covers those.
- `ClearConfined`. Clearing changes no byte outside the witness the condition covers.
  For multisig that is all of `raw` but its last two bytes.
- `MultisigClearCanonical`. After a multisig clear, every byte of the witness span is
  zero.
- `SighashPlaceholder`. `init_sighash` returns the documented length exactly when the
  buffer is long enough, and writes only that prefix. The prefix is all zeros for
  singlesig. For multisig it is 20 zeros and then the very bytes of the required count
  in the transaction. A short buffer gets `NoData` (spec section 4.5 says
  `InsufficientData`; sections 7 and 8 say `NoData`).

The same run checks one temporal property, `Refines`: the step-wise decoder implements
`SpendingConditionAbs`. This includes the contract's fairness, so every call returns
under `WF_vars(Parse)`. The field loop `for i in 0..num_fields` is bounded, so this
holds whether or not a step moves the cursor.

`MC_Tests.cfg` (module `SpendingConditionTests`) runs at the code's real lengths: 20, 65
and 33 bytes and capacity 16. It reaches 2 904 states in about 30 s. Its inputs are the
eight test vectors and every truncation of them, so each "insufficient data" exit is
taken at the real offsets. It checks:
- `TestAssertions`. Every assertion of the tests holds: the decoded signer and witness
  bytes, an empty rest, the required count, the field count, the nonce and the fee, and
  `is_err` on the invalid vectors. It also checks the bad hash mode gives
  `UnexpectedValue`.
- `ParseAgreesWithWireFormat`, `MultisigClearCanonical`, `SighashPlaceholder` and
  `Refines`, on full-size conditions. The sighash buffers are 21, 22, 81 and 82 bytes
  long, around both real thresholds.

Each of these properties is broken by a mutant of the code listed in `PROJECT.json`:
- a dropped hash-mode check;
- a dropped `required > count` check;
- the P2WPKH rule applied to P2PKH;
- a clear that zeroes the count;
- a clear one byte short;
- little-endian `to_be_bytes`;
- key and signature lengths swapped, which breaks `TestAssertions`.

Two runs are expected to fail, and each records a bug in the code:
- `MC_SinglesigClearCanonical.cfg`: after a singlesig clear, the encoding byte should
  be Compressed and the 65 signature bytes zero. `ptr.write_bytes(0, SIGNATURE_LEN)`
  starts at the encoding byte instead of one past it. It overwrites the encoding and
  leaves the last signature byte (line 262).
- `MC_OversizedCountRejected.cfg`: a multisig field count above the capacity should be
  rejected with `ValueOutOfRange` (spec 4.4.2). The code has no such check. It panics at
  `auth_fields[16]`, or returns `InsufficientData` when the buffer is short (line 292).

A third violation run, `MC_BadP2WPKHRejectedForEncoding.cfg`, records a gap in the tests.
The vector `bad_p2wpkh_uncompressed_bytes` is meant to be a P2WPKH signer with an
uncompressed key, which must fail with `InvalidPublicKeyEncoding` (spec vector (b)). It
starts with `HashMode::P2WSH` instead (line 1034). The decoder reads the field count
0x01ffffff and fails with `UnexpectedValue` on tag 0xff. The test's `is_err()` passes
anyway. The compressed tests reach the check at line 357, but no unit test reaches
its rejection at line 358. The model checks that rejection on the main run.

Fairness. `WF_vars(Parse)` is assumed for the decoder's own steps and for nothing else.
`from_bytes` is a synchronous call that runs to its end once called. The host's calls,
clearing and `init_sighash` are not assumed to happen.

## Proofs

`SpendingConditionProofs` proves `THEOREM TypeCorrect == Spec => []TypeOK` for every
value of the constants that satisfies `LenAssumption` and `InputAssumption`. Those say
the lengths are positive naturals, the inputs are byte strings and the filler is a byte.

`TypeOK` alone is not inductive. The multisig `raw` length `pos + 2 - start` is a
natural only if the cursor has not moved back past the count. The proof therefore
carries `Scanned == pc = "msField" => start <= pos`, which TLC also checks on the main
run, and proves `TypeOK /\ Scanned` inductive. There is one step per action, and under
each one per outcome (the `Fail` exits share the lemma `FailType`). The lemmas state
what the byte helpers return:
- `FillType` (`write_bytes`) and `CopyAtType` (`copy_from_slice`) keep a byte string of
  the same length;
- `BytesType`: a `take` inside the buffer gives bytes;
- `BeU16Type` and `BeU32Type`: `be_u16` is a u16 and `be_u32` a natural;
- `PlaceholderType`: both `init_sighash` buffers are byte strings.

`SpendingConditionSafety` proves `THEOREM SafetyInvariant == Spec => []Safe`, and from it
`DecodedWellFormedHolds`, `ClearConfinedHolds`, `MultisigClearCanonicalHolds` and
`SighashPlaceholderHolds`: each is `Spec => []P` for the run's property `P`, for every
value of the constants.

`Safe` is the conjunction of those four properties and of `Shape`. None of the four is
inductive alone: all of them speak only of the `done` state, so they say nothing of how
the decoder gets there. `Shape` records what holds at each point of control:
- outside `done`, nothing is cleared and no placeholder is written;
- until `from_bytes` returns, `buf = orig`;
- at the singlesig and count steps the cursor sits just after the signer record, and
  the hash mode selects the branch;
- in the field loop, `start` is the signer length, the count has been consumed, and
  no more fields are stored than declared or than the capacity;
- a singlesig condition is `1 + SigLen` bytes long.

TLC checked `TypeOK /\ Scanned /\ Safe` as an invariant before the proof was written.
`SafeStep` proves `TypeOK /\ TypeOK' /\ Safe /\ [Next]_vars => Safe'`. It has one lemma
per action, and under each a step per outcome:
- an error exit goes through `FailSafe`;
- an outcome that stays outside `done` goes through `NotDoneSafe` once `Shape'` is
  shown;
- a return into `done` proves each conjunct.

The operator lemmas are:
- `BytesPair`: `take(2)` is the pair of bytes;
- `BeU16ToBeBytes`: `to_be_bytes` inverts `be_u16`;
- `CopyAtValues`: the bytes `copy_from_slice` leaves;
- `RequiredBytes`: the required count written back is the two bytes it was read from.

`TypeOK'` comes from `TypeCorrect`. The final step combines them with PTL.

`SpendingConditionRefinement` proves
`THEOREM RefinementSafety == Spec /\ []ParseAgreesWithWireFormat => Abs!Init /\ [][Abs!Next]_Abs!avars`.
This is the safety part of `Refines` under the mapping `Abs` of `SpendingCondition`:
- the decoding points of control map to `"busy"`;
- `orig` maps to the call's input;
- `cond` and `err` map to what the call returned.

The proof follows the refinement one step at a time (`RefinementStep`):
- the host's call is the contract's `Call`;
- each step after the signer record is a stutter or the contract's `Return`
  (`ParseOutcomeHolds` lists what such a step can do);
- clearing and `init_sighash` are stutters;
- `EndOperation` is `Reset`.

It needs the invariant `Settled`, which TLC checked with `Refines` on the main instance
before the proof:
- no condition is recorded unless the call succeeded;
- no error is recorded unless it failed, and a failure records an error of `Errors`.

`ReturnedHolds` shows that a returned call reports what `Abs!Returned` prescribes. It
uses three facts about `WireFormat` that need no unfolding of its recursion:
- a rejected buffer carries no condition and an accepted one no error (`DecodeOutcome`);
- an oversized count is rejected (`OversizedRejected`);
- the contract's instance of `WireFormat` is the detailed module's (`SameDecoder`).

The theorem takes `ParseAgreesWithWireFormat` as a hypothesis, and that is the
one part of the refinement left to TLC. So the refinement holds for every value of the
constants wherever the decoder agrees with the wire format, and the runs check that
agreement on their instances.

Writing this proof showed a fault in `WireFormat`. Its checks were `CASE` arms whose
guards overlap. For example, a 1-byte buffer with a bad mode byte is both short and
badly tagged. TLC takes the first true arm, but in TLA+ the arm is unspecified, so the
module did not define which error such a buffer gets. The checks are now `IF ... ELSE`
chains in the spec's order. This is what TLC evaluated before, and what the module
meant.

These are only model-checked:
- The liveness part of `Refines` (`WF_avars(Return)`) and liveness in general. The
  provers do not reason about ENABLED or fairness.
- `ParseAgreesWithWireFormat`. `WireFormat` is written with recursive functions over
  the byte string. Relating the step-wise decoder to them, one field or one byte at a
  time, needs the value of such a function for every input. That is induction over
  the data, which the installed provers cannot do: the induction theorems take an
  operator parameter.
- `TestAssertions`. These are facts about eight concrete vectors of 100 to 300 bytes,
  which TLC evaluates directly.

## Not modelled

- The c32 address encoding and `zxformat`'s number formatting. They are not in `src/`,
  they only turn bytes into text, and they change no state.
- `clear_as_singlesig`. It is `todo!()` and nothing calls it.
- The undefined behaviour of writing through a pointer derived from `&[u8]`. The model
  gives the writes their intended effect. What an optimising build may do instead is
  outside a model of the bytes.

## Plan for later work

- A proof of `ParseAgreesWithWireFormat`, which would discharge the hypothesis of
  `RefinementSafety`. It needs `WireFormat`'s recursive functions unfolded one
  prefix at a time, which is induction over the data.
- A check of `BeU16`, `BeU32` and `BeU64` against `WireFormat!BigEndian`, and of
  `ToBeBytes` as their inverse.
