# The Mina app for Ledger, in TLA+

The specifications kept beside the Mina hardware-wallet app: TLA+ modules translated from the C sources of the app
and from its command-line wallet, the TLC configurations that check them on small instances, and theorems about
them that TLAPS checks for every instance. C files are named as in `src/` of the repository, the wallet by its
path `utils/mina_ledger_wallet.py`; every definition's lines are in `PROJECT.json`, under `map`.

## The system

One thread of C on a Ledger Nano takes APDUs from a host over USB, shows screens, reads two buttons and answers.
The host is usually the command-line wallet, which also talks to a Mina node (Rosetta) that it need not trust.

| Component | State it keeps | Operations | Talks to |
|---|---|---|---|
| APDU loop (`main.c`, `globals.c`) | `rx`, `tx`, `flags` (`IO_ASYNCH_REPLY`), the APDU buffer | `app_main`, `handleApdu`, the catch clauses, `sendResponse`, `io_event`, transport reset | calls the handlers; callbacks of screens call `sendResponse`; exceptions of callbacks land in `app_main` |
| Get address (`get_address.c`) | `_account`, `_generated`, `_address`, `_bip44_path` | `handle_get_address`, three flows, `gen_address`, Approve, Reject, Cancel | key derivation, Base58, screens |
| Sign transaction (`sign_tx.c`) | `_tx`, `_ui` | `handle_sign_tx`, sixteen review flows, the signing flow, `sign_transaction`, Approve, Reject | parsing, signing, screens |
| Transaction parsing (`parse_tx.c`) | writes `_tx` and `_ui` field by field | `parse_tx` | Base58, number texts |
| Crypto test (`test_crypto.c`) | none | `handle_test_crypto`, two flows | `curve_checks` |
| Idle menu (`menu.c`) | the current flow | `ui_idle`, Quit | |
| Number texts (`utils.c`) | a caller's buffer | `amount_to_string`, `value_to_string` | |
| Base58 (`utils.c`) | a caller's buffer | `b58_encode`, `b58_decode` | address functions |
| Random oracle input (`random_oracle_input.c`, `transaction.c`) | field and bit buffers with capacities | `roinput_add_*`, `transaction_to_roinput`, packing to bytes and to fields | both hashes |
| Curve and field arithmetic (`crypto.c`) | none | `field_*`, `scalar_*`, `group_*`, `affine_*` | the modular arithmetic of the operating system |
| Keys, addresses, signing (`crypto.c`) | locals only: a key pair, a nonce | `generate_keypair`, `generate_address`, `validate_address`, `sign` | Poseidon, Base58, BIP32, BLAKE2b, SHA-256 |
| Poseidon (`poseidon.c`) | a sponge state | `poseidon_init`, `_update`, `_digest` | |
| Curve checks (`curve_checks.c`) | none | six tests over a table of vectors | curve arithmetic |
| Command-line wallet | the transaction under way | send-payment and delegate, online and offline; get-address, get-balance, test-transaction | device, node, user |
| Fuzzing, tests, build files, CI, icons | | | |

What is hard here:

- *Interleaving without threads.* A handler returns long before its answer goes out: the answer is sent by a button's
  callback while `app_main` sits in `io_exchange`. There the next APDU may also arrive, and its handler rewrites the
  statics the screen is still showing.
- *Partial failure.* `parse_tx` writes `_tx` and `_ui` as it goes and returns at the first check that fails.
  Callbacks throw, and the exception unwinds past the screen code into `app_main`.
- *Unwritten buffers.* The result of `b58_decode` is ignored, so a buffer on the stack may be read unwritten.
- *Silent limits.* The `roinput_add_*` functions return without a word when a buffer is full, and of a field's 256 bits
  one packing takes all, the other 255, while a receiver's x is any 32 bytes under a good checksum.
- *An untrusted go-between.* The wallet's node builds the transaction twice, before and after the device signs.
- *Formulas with exceptions.* A point has many Jacobian forms; `group_add` compares forms where it means points, and is
  right only because of which pairs it is ever called with. Scalars are made by dropping bits, with no comparison.

What makes each part correct: what is signed is what was shown, and what was shown is what was asked for (sign
transaction, parsing, number texts); an address that leaves the device was shown and is the account's (get address);
one answer to each request, and none forgotten (APDU loop); the hashed messages determine the transaction (random
oracle input); every signature verifies under the key that was shown (curve, keys, Poseidon); an accepted address is
the address of the key read from it (Base58, addresses); what is sent on is what was signed and confirmed (wallet).

## The modules

```
ParseTx ------ LedgerApp ------ LedgerAppRefinement ---- TxApproval (INSTANCE)
   |              |                        \------------ LedgerAppProofs
   |              \--- DocClaims
   \---------- Wallet --- WalletProofs

EllipticCurve ---- Pallas ---- CurveChecks -----------\
Powers -----------/   |            PallasProofs ------- CryptoProofs
                      \------- Poseidon ---- Signature -/
Powers ---- NumberText ---- NumberTextProofs
      \---- ROInput ------- ROInputProofs
      \---- Base58 ---- Address (INSTANCE ParseTx) ---- AddressProofs
      \---- NatLemmas (extended by PallasProofs, NumberTextProofs, ROInputProofs, AddressProofs)
```

(`PallasProofs` is what the formulas of `crypto.c` compute, `CryptoProofs` the theorems about the two behaviours built on them.
`NatLemmas` has division, powers, residues, induction up to a number, slices and joins of sequences. Each `MC...` module
and `.cfg` is an instance for TLC. Recursion is written as recursive functions, so that proofs can unfold it.)

**`ParseTx`** is the sign request: what `parse_tx` reads, checks and writes (`WriteTx`, `WriteUi`: a field is written
exactly when parsing gets as far as its assignment; `parse_tx` is how far that is), which pages a review has
(`ux_sign_tx_flow`: one of sixteen flows, as the set of its steps), what each shows (`PageText`) and what the
signature covers (`transaction_to_roinput`). An address is the key it carries and what decoding makes of it; amounts
are unsigned numbers below `CurrencyModulus` that wrap (`Plus`); a memo is its text and what follows its first null
byte. An address that does not decode leaves a buffer unwritten: `Residues` are what the stack may hold there.

**`LedgerApp`** is the app. `pc`, `asynch`, `staged` are the loop (`flags`, `tx` and the buffer); `ux` is the flow on
screen and its step; `txState`, `uiState`, `account`, `generated`, `address` are the statics of the same names. What
the host knows is `outstanding`, `request`, `replies`; `seen`, the pages drawn since the request on screen arrived, is
what the user knows, and is written where the code draws a page. One action is one event:

| Code | Action |
|---|---|
| `io_exchange` sends what is prepared and waits / throws | `Exchange` / `ExchangeThrows` |
| an APDU is taken in, one of the five ways `handleApdu` goes | `RefuseApdu`, `GetConf`, `handle_get_address`, `handle_sign_tx`, `handle_test_crypto` |
| a button moves within a flow (entering a page runs its init) | `FlowNext`, `FlowPrev` |
| both buttons on an answering step, on a step that starts work | `Approve`, `Reject`, `Proceed` |
| a comfort screen's timeout runs `gen_address`, `sign_transaction`, the crypto tests | `Elapse` |
| cable pulled, Quit, app opened again | `IoReset`, `Quit`, `Launch` |

**`TxApproval`** says what the sign command promises without APDUs or screens: offer, consent, release.
**`LedgerAppRefinement`** maps the app to it: the offer is the content of `_tx` while its review or "Signing..." is on
screen, consent is the step from Approve to "Signing...", the release is the answer that carries a signature.

**`NumberText`** is `amount_to_string` and `value_to_string` byte by byte, from the right: the length is worked out
first, and the loop has to reach the first byte when it runs out of digits. `ParseTx` assumes that its two text
functions tell values apart; `TextsDiffer` is why it may.

**`ROInput`** is the building and packing of the input of both hashes of a signature, with the code's own lengths
(255-bit fields, 75 bytes of bits, 268 bytes and 9 fields of output). `Own` keys are computed by the app, or compared with its
own; the receiver's is `Told` by the host, any 32 bytes. `DeriveDeterminesTx` says exactly what the nonce is hashed from: all
that is signed but the top bit of the receiver's x (`TopBitCleared`).

**`Wallet`** is send-payment and delegate of the command-line wallet, one action per answer of node, user or device.
A node returns what it was asked for with at most one field altered (`Altered`), or a made-up signature (`Forged`);
the device is `ParseTx` with an approving or rejecting user.

**`EllipticCurve`** is no code of the app: points, chords and tangents as a textbook has them. **`Pallas`** is the arithmetic
of `crypto.c`, formula by formula: Jacobian coordinates, the comparison of forms in `group_add`, the double-and-add loop as
a step (`ScalarMulStep`) and as a whole. A field element is a number, so that copying and comparing bytes is equality.

**`CurveChecks`** is the six tests of the Crypto Tests command, one action per test, over all vectors of the curve in place of
the table's five.

**`Poseidon`** is the sponge for any tables. **`Signature`** is one run of `sign_transaction` below the screens: the key pair (any
seed), the comparison with the sender's address, the nonce (any hash), the two multiplications bit by bit, the parity of
`r.y`, the challenge block by block, `s`; every call may throw (`Throw`), and the secrets are wiped whichever way it ends.

**`Base58`** is `b58_encode` (a long division per character) and `b58_decode` (a multiplication of limbs per character).
**`Address`** is an address on its way out (`generate_address`) and back in (`validate_address`,
`read_public_key_compressed`); `Stack` is what an unwritten buffer may hold. The abstract addresses of `ParseTx` are made from
its texts (`AddressOf`, with `ParseTx` as an instance), and `StandsFor` says that nothing is lost: what is accepted, what is
read and which text equals a key's own address come out the same.

**`DocClaims`** states what documents and tests say and the code does otherwise.

Names ending in `_something` next to a definition of the same stem, marked *Slip*, are that definition with a
plausible mistake: each property is shown to notice one. They are used nowhere else.

## The runs

| Run | Question | Distinct states |
|---|---|---|
| `patient` | host that waits; every kind of APDU; `io_exchange` may throw: one answer each, of its own kind; addresses as shown; no body under an error; no screen without a request | 76,428 |
| `busy` | host that sends whenever it likes, derivation and transport may fail: signed as shown, the review invariant, a screen for every pending request, and `LedgerApp` implements `TxApproval` | 123,605 |
| `live` | every request is answered or comes to a screen where the user decides; derivation may fail | 55,836 |
| `text` | the text is the number and stays in its buffer, every number to 12,000 | 170,307 |
| `roinput` | nothing dropped; the challenge's fields determine the transaction, the nonce's message all of it but one bit; the output fits | 3,584 |
| `wallet` | whatever the node alters, what is sent is what was signed, and what was signed was confirmed and affordable | 40,733 |
| `curve` | the affine operations are the group's, for all scalars and points; `group_add` on all pairs of forms, with its one exception | 48,013 |
| `signature` | scalars in range, the loop never meets that exception, the challenge depends on all of its input, every signature verifies | 73,420 |
| `address` | every key comes back from its address; decoding is arithmetic or a refusal; the abstract addresses of `ParseTx` stand for the texts; encoding stays in its buffer | 50,262 |
| `doc_corrupt`, `doc_derive`, `wallet_expiry` | three divergences below | violations |

*Bounds.* Two keys, 32-bit values of two bits (`HardenedOffset = 2`: two accounts and their aliases above the hardened
bit; 3 is "never expires"), amounts of two bits (`CurrencyModulus = 4`: sums that wrap and sums that do not), two
memo texts besides the empty one. The payloads are one for every exit of `parse_tx` and one for each option of the review
(network, type, expiry, memo); an APDU for every refusal of `app_main` and `handleApdu`. Two reviews are enough for one to
cut into another: the statics hold one. `MaxReplies` bounds only how often a derivation that keeps failing is tried
again within one request. TLC's integers have 31 bits, so 64-bit amounts are checked at a small modulus and proved at any.
In `text`, three decimals and six bytes give every pattern of whole and broken amounts, trailing zeros, and texts that
fit exactly, with room, or not at all; the algorithm does not look at the number of decimals otherwise. In `roinput` the
samples set each single bit both ways but those that are always 0 in the code (`tag[1]`, `tag[2]`, `token_locked`), and so the top bit of the receiver's x; they fill all other bytes with distinct values or all ones, and the checks read the
transaction back from the packed message, so that a swap, gap or overlap of any two fields shows. In `wallet` the command
lines set every option, none, and what `argparse` lets through (a negative expiry, numbers too long, wide memos).
The curve of `curve` and `signature` is y^2 = x^3 + 2 modulo 13, with 19 points: field and order are prime and the field is
the smaller, as with Pallas, and 6-bit scalars stand to the order as 256-bit ones do. `curve` takes all triples of scalars and
all forms of all pairs of points; `signature` every seed, nonce and sender, and messages of both parities of length,
so that the last block is full or half. In `address`, base 3, bytes of two bits and limbs of two bytes give
seven raw bytes in nine characters: a first limb that is partly used, texts too big to decode and foreign characters in every
place; all texts of the right length are taken.

*Deadlock* is checked in all runs of `LedgerApp`. `NumberText`, `ROInput`, `Wallet`, `CurveChecks`, `Signature` and `Address`
are computations that end.

*Fairness* (`live` only). `WF(Exchange)`: `app_main` comes back to `io_exchange` by itself after every handler and every
exception. `WF(Elapse)`: the ticker never stops, so a comfort screen's timeout fires. Nothing is assumed of the user or
the host, which is why the property ends at a screen where the user decides.

## What is proved

For every value of the constants the modules' assumptions allow. For `ParseTx`, `LedgerApp` and `Wallet` that is every set of
keys, APDUs, memos and command lines, any width of the numbers, any key derivation, hosts that wait and hosts that do
not, every build and failure switch.

| Theorem | States | Hypothesis |
|---|---|---|
| `LedgerAppProofs!TypeCorrect` | `[]TypeOK` | |
| `LedgerAppProofs!ReviewSound` | `[]ReviewInv` | `DecodableInputs` |
| `LedgerAppProofs!SignedIsShown` | `[]SignedAsShown`: what you see is what you sign | `DecodableInputs` |
| `LedgerAppProofs!Implements` | `ImplementsApproval`: the app implements `TxApproval` | `DecodableInputs` |
| `LedgerAppProofs!ErrorsAlone` | `[]ErrorsCarryNoBody` | |
| `LedgerAppProofs!PendingKeepsScreen` | `[]PendingHasScreen` | |
| `LedgerAppProofs!AddressIsShown` | `[]AddressAsShown` | `~CryptoMayFail` |
| `LedgerAppProofs!OneAnswer` | `[]OneAnswerEach` | `~CryptoMayFail` |
| `LedgerAppProofs!NoScreenLeft` | `[]NoScreenWithoutRequest` | `~CryptoMayFail` |
| `WalletProofs!WalletTyped` | `[]TypeOK` | |
| `WalletProofs!SendsWhatIsSigned` | `[]SentAsSigned` | `UsualCommands` |
| `WalletProofs!SignsWhatIsConfirmed` | `[]SignedAsConfirmed` | `UsualCommands` |
| `WalletProofs!SignsWhatIsAffordable` | `[]SignedIsAffordable` | `UsualCommands` |
| `NumberTextProofs!WritesWithinBuffer` | `[]WithinBuffer` | |
| `NumberTextProofs!ShowsEveryNumber` | `[]ShowsTheNumber` | |
| `NumberTextProofs!TextsDiffer` | two numbers with one text are one number | |
| `ROInputProofs!NothingIsDropped` | `[]NothingDropped` | |
| `ROInputProofs!BuffersSuffice` | `[]FitsOutput` | |
| `ROInputProofs!ChallengeDeterminesTx` | `[]HashDeterminesTx` | |
| `ROInputProofs!NonceDeterminesTx` | `[]DeriveDeterminesTx`, for any 32 bytes as the receiver's x | |
| `CryptoProofs!ChecksAlwaysPass` | `[]ChecksPass` | |
| `CryptoProofs!FormsAlwaysAdd` | `[]FormsAdd` | |
| `CryptoProofs!ScalarsStay` | `[]ScalarsInRange` | |
| `CryptoProofs!MultipliesRight` | `[]LoopInvariant` | |
| `CryptoProofs!SpongeAlwaysRewinds` | `[]SpongeRewinds` | |
| `CryptoProofs!SignaturesVerify` | `[]SignatureVerifies` | |
| `AddressProofs!AddressKeyComesBack` | `[]KeyComesBack` | |
| `AddressProofs!AddressDecodeIsValue` | `[]DecodeIsValue` | |
| `AddressProofs!AddressStandsFor` | `[]StandsFor` | |
| `AddressProofs!AddressEncodeFits` | `[]EncodeFits` | |
| `AddressProofs!Base58ComesBack` | `b58_decode` undoes `b58_encode`, for any bytes | |
| `AddressProofs!AddressesDiffer` | two keys with one address are one key | |

*The hypotheses.* `DecodableInputs` (the addresses of the sign requests decode): with an address that does not, the device
may show one receiver and sign another (`doc_corrupt`), and its user cannot tell. `~CryptoMayFail` (key derivation does
not throw): after one that does, Approve is still on screen and answers a second time, with a blank address
(`doc_derive`). `UsualCommands`: the receiver typed by the user decodes, for the first reason, and `Absent` is no number or memo.

*The assumptions* are named where their constants are declared, and TLC evaluates each on its run.
`ParseTx`, `LedgerApp`: the moduli are positive, `Derive` maps hardened accounts to keys, the two texts are injective
(`TextsDiffer`), APDU data are of their command's kind. `Wallet`: options are what `argparse` makes of them
(`CommandAssumption`), a memo has a length. `NumberText`: at least two decimals. `ROInput`: the parts of a
transaction have the widths of `transaction.h` (`SamplesAssumption`). Below 2^255 are only the scalars and field elements
the app computes and the x of payer and source, whose address `sign_transaction` compares with its own key's; the
receiver's x is not, as `validate_address` looks at the checksum only and `read_public_key_compressed` copies all bytes.
`EllipticCurve`: field and order are prime, the generator is a point, and chords and tangents make a group whose size annuls
each element (`GroupAssumption`). That is the group law of elliptic curves and the theorem of Lagrange: mathematics about no
line of the app, out of reach of these provers, and checked by TLC on the small curve; what the code's formulas do with it
is proved. `Pallas`: 2^254 < order < 2^255 and the field is no larger, with `SCALAR_BITS` 256. `Poseidon`: the table
entries are field elements, the matrix has an inverse (`TablesAssumption`), and no two elements have one fifth power
(`FifthPowerAssumption`: 5 is prime to p - 1). `Signature`: a transaction's parts are field elements, and b = 5 is no square
modulo p (`CoeffAssumption`: x = 0 is then the point at infinity only, as `affine_to_group` takes it). `Base58`: both bases are
at least 2, and two characters hold a byte (`BaseAssumption`; the buffers are twice as long as the bytes for that). `Address`: keys, checksums
and the stack are bytes, texts are characters or foreign (`BytesAssumption`), nothing is empty (`SizesAssumption`), and behind
`VERSION` all numbers of `RawBytes` bytes have `MINA_ADDRESS_LEN` - 1 characters (`VersionAssumption`: 58^54 < 203 * 256^39 and
204 * 256^39 < 58^55). The checksum may be any function. The numerical ones were worked out for
the constants of `crypto.c` and the tables of `poseidon.c` outside of these modules: a 255-bit prime is beyond TLC.

*Signing, on screen.* `SignedAsShown` speaks of the moment a signature leaves; it is not inductive, since nothing in it says
what stands behind a review that is half drawn. The invariant is `IInv == TypeOK /\ ReviewInv /\ SignedAsShown`. `ReviewInv` says,
while a review or "Signing..." is on screen, that `_tx` and `_ui` come from one accepted request, that the flow is the
one chosen for it, that every page drawn still shows what `_ui` holds and that all pages up to the current one have
been drawn; that a signature leaves only with the idle screen coming up behind it; and that none is ever left in the buffer.
Steps that could break it fall in three groups: a sign request either starts a new review from scratch or ends, by its
error word, the one whose statics it half overwrote; a page drawn adds its own text and extends what has been drawn by one;
the last step needs that "Signing..." is reached only from the last pages, when all are drawn.
The proof has a lemma for each kind of screen change and one step per action of `Next`.

*The refinement* rests on `IInv` and on what `released` is for any sequence of answers: at most one of them is a
signature. Every action that leaves the three mapped variables alone is a stutter; a new review is an offer, or, when
a review is on screen already, another one in its place; Approve to "Signing..." is the consent; the signing timeout is the release.

*Answers.* `ErrorsCarryNoBody` and `PendingHasScreen` are inductive together with `TypeOK` and what `flags` and the staged
answer say of each other. `AddressAsShown` needs what the static `_address` is worth: while the address flow is past its
comfort page, `_generated` holds, `_address` is the account's and the pages drawn show it (`AddrInv`). With a host that waits
there is a ledger of what is owed: the request outstanding is either not yet answered, with one screen or
one staged word due to answer it, or answered, with nothing left that could (`Owed`, `HostInv`). That is what makes
`OneAnswerEach` and `NoScreenWithoutRequest` inductive.

*The wallet.* `WInv` says stage by stage what is known: the parameters are those of the command line, the expiry is the user's or
the one the node's transaction got, the node's two transactions are of the kind that was asked for, what the prompts showed,
and, once the device has answered, that the signature is over exactly these parameters. Two parts are less obvious. `check_tx`
compares neither the kind of transaction nor the amount of a delegation; that these survive comes from what `Altered`
lets a node change. And the device signs an expiry of the node's only if it is none, since a text cannot be formatted (`Writable`).

*Number texts.* The loop counts its turns; everything else is a function of the count. `LoopInv` says which digit is next,
that all shown digits stand at the places `Place` gives them, and that `end` is the number of turns left less the digits
not shown (`Measures`: the length worked out beforehand is exactly that). That the text starts at the first byte is then the case of no turn left.

*Random oracle input.* `ROInv` says how many calls have been made and that the buffers hold the operands of just these
(`Filled`), what the copy of the transaction's input holds, and what was made of the inputs of phases that are over. That every
call finds room is arithmetic on the lengths of all calls. The reading back is proved once for any bytes (`BytesBack`,
`NumberBack`: bits of bytes, little and big endian, 255 of 256), then for each part of the layout at its offset. What 255
bits give back of 32 bytes is `Cleared`; for a number below 2^255 that is the number itself.

*The curve.* `Represents(p, P)`: `p` is a Jacobian form of the point `P`. `DoubleForm` and `AddForm` show that the formulas
of `crypto.c` keep it: with the denominators cleared, the difference of both sides is a sum of multiples of things that are zero
modulo the prime (`Ideal`), whose coefficients the proofs give. `AddIs` needs that the two are not different forms of one
point; in the loop of `group_scalar_mul` the doubled point is an even multiple below the order (`PrefixIs`: the bits read so far
make at most half of the scalar), multiples below the order are distinct (`TimesDistinct`), and the point itself is the
first (`LoopStep`).

*Signatures.* `SignatureInv` is `LoopInvariant`'s multiple, then the key pair and the address it was compared with, then the
point of the nonce with the sign already turned, then the state of the sponge as a function of the blocks absorbed
(`Chain`). `Equation` is the verifier's: (k + e d) G - e (d G) = k G, whose y is even because `Nonce` negated or not. `SpongeRewinds`
goes the other way: each part of the permutation has an inverse (`KeyBack`, `RootBack`, `MatrixBack`), so does a block.

*Addresses.* Everything rests on `Value`, the number that digits write, and on two facts: it is below the power of the
base (`ValueBelow`), and digits of one length that write one number are the same (`SameDigits`). `b58_encode` keeps no
number at all, so its invariant `LoopInv` says that the bytes still to be divided, times the power of 58 for the
characters written, plus those, are the number it was given, and that the bytes before `startAt` are zero; a division
pass has an invariant of its own (`Halfway`). That the loop ends within two characters a byte is in `LoopInv` too:
after one pass the first byte is below 58, after a second it is zero, since 58 * 58 is at least 256, so `startAt`
moves on at least every other character (`Spent`). `b58_decode` keeps the number in limbs: `Multiplied` is the carry
through the last limbs, `TooBigIs` says that carry and mask together are exactly "more than `binsz` bytes", `Held`
what is in the limbs after each character, or that one before was refused. `BytesAre` cuts limbs into bytes, by what a
digit is of its number (`DigitOf`, `DigitsWrite`, `DigitOfResidue`). So decoding undoes encoding (`Base58ComesBack`),
whatever was in the buffer. `OneLength` is where the version comes in: the length `validate_address` insists on is the
length of every address. `AddressInv`, inductive over the four actions, says that the text of a key that has left is
still `generate_address` of it. `OnlyText` goes the other way, from a text that decodes to a standard address back to
this text, and is what `StandsFor` needs beyond the case analysis.

*Only model-checked.* `AnsweredOrDecided`, for liveness under fairness is out of the prover's reach: it stays with the
run `live`. Every safety property, action property and refinement that a passing run checks is also proved. The
library's induction theorems take an operator as a parameter, which the provers cannot instantiate; `NatLemmas` states
induction for sets of numbers instead (`InductionBySet`, `InductionTo`), and that is enough for the recursive
functions here.

## Where code and documents part

1. `crypto.c:578` ignores that an address did not decode and uses a buffer nothing has written; `tests/unit_tests.py:446`
   expects a refusal. The run signs such a request (`doc_corrupt`).
2. `get_address.c:24`: after a derivation that failed, Approve sends a blank address under `0x9000` (`doc_derive`).
3. `utils/mina_ledger_wallet.py:1016`: an expiry the node sets passes every check and then cannot be formatted
   (`wallet_expiry`).
4. `main.c:53`: the GET APP CONFIGURATION APDU that `doc/api.asc` and `tests/test_getconfig.py` give is refused
   (`LedgerApp!GetConf`; no run of its own, a single step shows it). The status words differ from the documented list.
5. `utils/mina_ledger_wallet.py:166`: a misspelt name ends every command with a node whose blockchain is "mina"
   (`Wallet!rosetta_network_request`; likewise).
6. `random_oracle_input.c:113`: of the receiver's x only 255 bits go into what the nonce is hashed from, all 256 into the
   challenge (`roinput_to_fields`), and no check keeps that bit clear. No document or test says anything of it (the comment
   at `crypto.c:648` names `input.fields` without a length). `DeriveDeterminesTx` holds the loss to
   this one bit; were it stated of the whole transaction, the `roinput` run would find it violated.
7. `crypto.c:324`: `group_add` takes two forms of one point for different points and loses their sum. `FormsAdd` says so;
   `LoopInvariant` shows that neither signing nor key generation ever gives it such a pair.

## Not modelled, and why

- BIP32, BLAKE2b and SHA-256, which belong to the operating system: `Signature` lets the first two return anything, `Address` takes
  any checksum. The modular arithmetic of the operating system (`cx_math_*`) is arithmetic.
- The numbers in the tables of `poseidon.c`, `curve_checks.h` and `crypto.h`: the modules are about what is done with them
  (for the vectors of `curve_checks.h`, `PROJECT.json` maps the layout of the first only), and a 255-bit prime is beyond TLC. That the prime orders of the real curve stand to each other as the assumptions of
  `EllipticCurve` and `Pallas` say was worked out apart, not here (see the assumptions above).
- The on-device unit-test build, the serial protocol of the SDK, drawing and scrolling inside a page, the first-run
  write of `N_storage`, and an `io_exchange` that throws inside `sendResponse` after the answer has left.
- A receiver's x at or above the order of the field in `Signature`, whose parts are field elements
  (`TransactionsAssumption`): no check refuses one, and what `cx_math_addm` makes of it is the operating system's. `ROInput`
  has it, as bytes.
- Guards no caller can reach: the -1 returns of `random_oracle_input.c` and the length test of `utils.c:269`, which
  `validate_address` made before.
- The token fields of a transaction, which are constants of `parse_tx.c`; `ROInput` has them, as they are signed.
- In the wallet, `get-address`, `get-balance` and `test-transaction` (one request, nothing kept) and `from_currency`, which
  multiplies floats and truncates.
- Requests whose addresses do not decode are left out of `Wallet` (see the first divergence).

## Plan

Done, by what can hurt a user: first what is signed, then what it is shown as, then who asks for it, then how it is signed.
`ParseTx`, `LedgerApp`, `TxApproval` and its refinement, `NumberText`, `ROInput`, `Wallet`; then `EllipticCurve`, `Pallas`,
`CurveChecks`, `Poseidon`, `Signature`, `Base58`, `Address`. Then the proofs, in the order of the table above.

Next, `WalletAndApp`: the wallet's device replaced by `LedgerApp`. Both sides are proved to keep the signed message
(`SignedAsConfirmed`, `SignedAsShown`); the composition would add a device whose cable is pulled in the middle of the
wallet's request.
