----------------------------- MODULE SplitOrder -----------------------------
(***************************************************************************)
(* The arithmetic of src/homework/src/hash_table/split_ordered_list.rs on  *)
(* a W-bit usize: the ordering keys of data nodes and bucket sentinels     *)
(* (reverse_bits), get_top_bit, the parent bucket lookup_bucket recurses   *)
(* to, assert_valid_key and the bucket a key falls in.                     *)
(*                                                                         *)
(* The module has no state.  The properties of the arithmetic that hold  *)
(* for the bucket count a map has are stated in SplitOrderedList.          *)
(***************************************************************************)
EXTENDS Integers

CONSTANT W      \* bits in a usize

ASSUME W \in Nat /\ W >= 3

Word  == 0..(2^W - 1)
MaxSize == 2^(W - 1)
Sizes == {2^j : j \in 1..(W - 1)}

(* usize::reverse_bits on the low n bits of x: bit j goes to bit n-1-j. *)
RECURSIVE RevBits(_, _)
RevBits(x, n) ==
    IF n = 0 THEN 0 ELSE (x % 2) * 2^(n - 1) + RevBits(x \div 2, n - 1)

ReverseBits(x) == RevBits(x, W)

(* lookup_bucket: the sentinel of bucket index has key index.reverse_bits(). *)
SentinelKey(index) == ReverseBits(index)

(* find/insert: a data node has key key.reverse_bits() + 1 (wrapping). *)
RegularKey(key) == (ReverseBits(key) + 1) % 2^W

(* get_top_bit: `a = 1; while n >= a { a <<= 1 } a >>= 1`.  The shift      *)
(* drops the high bit, so for n >= 2^(W-1) a becomes 0 and the loop never  *)
(* ends: -1 stands for that, detected after W + 1 rounds.                 *)
RECURSIVE TopBitLoop(_, _, _)
TopBitLoop(n, a, fuel) ==
    IF fuel = 0 THEN -1
    ELSE IF n >= a THEN TopBitLoop(n, (2 * a) % 2^W, fuel - 1) ELSE a \div 2

GetTopBit(n) == TopBitLoop(n, 1, W + 1)

(* Bug variant of ParentBucket: the parent taken as index / 2. *)
ParentBucketHalf(index) == index \div 2

(* lookup_bucket: prev_bucket_ind = index - get_top_bit(index). *)
ParentBucket(index) == index - GetTopBit(index)

(* assert_valid_key: key.leading_zeros() != 0. *)
ValidKey(key) == key < 2^(W - 1)

(* Bug variant of BucketOf: the index taken modulo the bucket count     *)
(* before the last doubling.                                              *)
BucketOfHalf(key, size) == key % (size \div 2)

(* find: index = key % size. *)
BucketOf(key, size) == key % size

-----------------------------------------------------------------------------
(* Reference definitions. *)
Bit(x, j) == (x \div 2^j) % 2
RefTopBit(n) == CHOOSE p \in {2^j : j \in 0..(W - 1)} : p <= n /\ n < 2 * p

-----------------------------------------------------------------------------
(* Facts of the arithmetic alone, over every W-bit word, which TLC checks *)
(* when a model using this module starts.                                 *)

(* reverse_bits as written (recursively) moves bit j of every word to bit *)
(* W-1-j, as the reference says.                                          *)
ReverseBitsCorrect ==
    \A x \in Word, j \in 0..(W - 1) : Bit(ReverseBits(x), j) = Bit(x, W - 1 - j)

(* A valid key's data node and any bucket's sentinel never share an      *)
(* ordering key, and no two valid keys share one: data keys are odd,      *)
(* sentinel keys even.  An invalid key (high bit set) would collide,      *)
(* which is why assert_valid_key rejects it.                              *)
OrderingKeysDistinct ==
    \A k1, k2 \in Word :
        ValidKey(k1) =>
            /\ (ValidKey(k2) /\ k2 # k1 => RegularKey(k2) # RegularKey(k1))
            /\ \A i \in 0..(MaxSize - 1) : SentinelKey(i) # RegularKey(k1)

(* get_top_bit never returns for an index with the high bit set (the     *)
(* shift wraps to 0); a bucket index is always below it.                  *)
TopBitTerminates == \A k \in Word : ValidKey(k) <=> GetTopBit(k) # -1

ASSUME ReverseBitsCorrect /\ OrderingKeysDistinct /\ TopBitTerminates
=============================================================================
