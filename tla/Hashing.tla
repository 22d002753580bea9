------------------------------ MODULE Hashing ------------------------------
(***************************************************************************)
(* The two copies of the key hash: KeyToShard of shard/hashing.go, in      *)
(* fixed-width Go integers, and fnv1a_32 of the horizontal-scaling         *)
(* experiment, in unbounded Python integers with a mask.  Both take a key  *)
(* byte by byte.  The width, the offset and the prime are parameters, TLC  *)
(* having no integers of 32 bits without a sign.                           *)
(***************************************************************************)
EXTENDS Integers, Bitwise

CONSTANTS
    Width,              \* bits of the hash: 32 in the code
    IntWidth,           \* bits of Go's int
    FNV_OFFSET, FNV_PRIME,
    Byte,               \* the bytes a key is made of
    MaxKey,             \* bound: bytes of a key
    Shards              \* the numbers of shards looked at

VARIABLE hash              \* the hash of the bytes so far, in Go and in Python

HashInit == hash = [go |-> FNV_OFFSET, py |-> FNV_OFFSET, n |-> 0]

\* hash/fnv: uint32, so that the product wraps
GoByte(v, b) == ((v ^^ b) * FNV_PRIME) % 2^Width

PyByte(v, b) == ((v ^^ b) * FNV_PRIME) & (2^Width - 1)

NextByte ==
    /\ hash.n < MaxKey
    /\ \E b \in Byte :
         hash' = [go |-> GoByte(hash.go, b), py |-> PyByte(hash.py, b),
                  n |-> hash.n + 1]

\* Go's conversion to int, which keeps the bits, and its %, which takes the
\* sign of the dividend
ToInt(v, w) == IF v >= 2^(w - 1) THEN v - 2^w ELSE v

GoRem(a, n) == IF a >= 0 THEN a % n ELSE -((-a) % n)

\* Mutant: an int as wide as the hash.
KeyToShardNarrow(v, totalShards) == GoRem(ToInt(v, Width), totalShards)

KeyToShard(v, totalShards) == GoRem(ToInt(v, IntWidth), totalShards)

key_to_shard(v, total_shards) == v % total_shards

-----------------------------------------------------------------------------

(***************************************************************************)
(* A key has one shard: the Go router and the Python load test send it to  *)
(* the same one, and it is one of the shards there are.  On a build whose  *)
(* int is as wide as the hash it would not hold.                           *)
(***************************************************************************)
SameShard ==
    hash.n > 0 => \A total \in Shards :
      /\ KeyToShard(hash.go, total) = key_to_shard(hash.py, total)
      /\ KeyToShard(hash.go, total) \in 0..(total - 1)
=============================================================================
