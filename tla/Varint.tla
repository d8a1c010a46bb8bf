------------------------------- MODULE Varint --------------------------------
(***************************************************************************)
(* crates/fectp-core/src/codec/varint.rs: zigzag and LEB128, and the       *)
(* wrapping arithmetic numeric.rs puts them to.  A varint byte holds Group *)
(* payload values and one bit saying that more follow.  A machine word is  *)
(* Word wide.                                                              *)
(***************************************************************************)
EXTENDS Integers, Sequences

CONSTANTS
    Group,      \* payload values of one varint byte (128)
    Word,       \* values of an unsigned machine word (2^32)
    MaxLen      \* MAX_LEN, bytes a varint of a word can take (5)

\* The values of a byte.
ByteValues == 2 * Group

ASSUME VarintAssumption ==
    /\ Group \in Nat \ {0, 1} /\ MaxLen \in Nat \ {0}
    /\ Word \in Nat \ {0} /\ Word % 2 = 0

Unsigned == 0 .. Word - 1
SignedWord == -(Word \div 2) .. (Word \div 2) - 1
Bad == [ok |-> FALSE, value |-> 0, used |-> 0]

\* The word congruent to x: wrapping_add and wrapping_sub.
Wrap(x) == ((x + Word \div 2) % Word) - Word \div 2

\* (v << 1) ^ (v >> 31): even for what is not negative, odd for what is.
Zigzag(v) == IF v >= 0 THEN 2 * v ELSE -2 * v - 1

Unzigzag(u) == IF u % 2 = 0 THEN u \div 2 ELSE -((u + 1) \div 2)

\* encode: the low group first, the continuation bit on all but the last.
encode[v \in Nat] ==
    IF v < Group THEN <<v>> ELSE <<Group + (v % Group)>> \o encode[v \div Group]

\* The payload of s[1 .. n], the bytes before a byte that ends it.
payload(s) ==
    LET sum[n \in 0 .. Len(s)] ==
            IF n = 0 THEN 0 ELSE sum[n - 1] + (s[n] % Group) * Group^(n - 1)
    IN sum[Len(s)]

\* decode: the bytes up to the first without the continuation bit, within
\* MaxLen of them.  Refused: a value past the word, and a last byte of nothing
\* after another.
decode(s) ==
    LET ends == {n \in 1 .. MaxLen : n <= Len(s) /\ s[n] < Group}
        n == CHOOSE m \in ends : \A k \in ends : m <= k
    IN
    IF ends = {} THEN Bad
    ELSE IF payload(SubSeq(s, 1, n)) >= Word \/ (n > 1 /\ s[n] = 0) THEN Bad
    ELSE [ok |-> TRUE, value |-> payload(SubSeq(s, 1, n)), used |-> n]
=============================================================================
