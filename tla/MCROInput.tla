----------------------------- MODULE MCROInput -----------------------------
(***************************************************************************)
(* ROInput on transactions that differ in every single bit the code sets   *)
(* (parities, payment or delegation; the other bits of the tag and the     *)
(* lock are always 0) and whose other bytes are either spread over all     *)
(* values or all ones, the values with the most bits set.                  *)
(* The receiver's x comes with its 256th bit clear and set: two samples    *)
(* that differ in nothing else.                                            *)
(***************************************************************************)
EXTENDS ROInput

Fill(seed, n) == [k \in 1 .. n |-> IF seed = 0 THEN 255 ELSE (seed * 37 + k * k * 11) % 256]
\* A field element or a scalar: 32 bytes, big endian, below 2^254.
Number(seed) == <<63>> \o Fill(seed, 31)

Transaction(seed, payer, source, receiver, top, delegation) ==
    [fee_payer    |-> [x |-> Number(seed), is_odd |-> payer],
     source       |-> [x |-> Number(seed + 1), is_odd |-> source],
     receiver     |-> [x |-> [Number(seed + 2) EXCEPT ![1] = @ + 128 * top], is_odd |-> receiver],
     fee          |-> Fill(seed, 8),
     fee_token    |-> <<1, 0, 0, 0, 0, 0, 0, 0>>,
     nonce        |-> Fill(seed + 3, 4),
     valid_until  |-> Fill(seed, 4),
     memo         |-> Fill(seed + 4, 34),
     tag          |-> <<0, 0, delegation>>,
     token_id     |-> <<1, 0, 0, 0, 0, 0, 0, 0>>,
     amount       |-> Fill(seed + 5, 8),
     token_locked |-> 0]

SignedSamples ==
    {[tx |-> Transaction(seed, payer, source, receiver, top, delegation),
      pub |-> [x |-> Number(seed + 6), y |-> Number(seed + 7)],
      priv |-> Number(seed + 8), rx |-> Number(seed + 9), network_id |-> network] :
        seed \in {0, 5}, payer \in {0, 1}, source \in {0, 1}, receiver \in {0, 1},
        top \in {0, 1}, delegation \in {0, 1}, network \in {0, 1}}
=============================================================================
