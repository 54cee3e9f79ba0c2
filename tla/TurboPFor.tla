----------------------------- MODULE TurboPFor -----------------------------
(***************************************************************************)
(* The posting list format: what turbopfor-encode.h writes and what        *)
(* turbopfor.cpp reads.  A list is its first docid followed by blocks of   *)
(* BlockSize deltas; a delta is the distance to the docid before, less     *)
(* one.  Each block is of the type that decide_block_type() finds the      *)
(* smallest.                                                               *)
(*                                                                         *)
(* The encoded bytes are a sequence of 0 .. 255.  A bit writer is modelled *)
(* by the value that each bit of its output comes from, a bit reader by    *)
(* the place of each bit of a value: the two are written from their own    *)
(* side of the code.  Docids are below 2^28, which write_baseval() asserts.*)
(***************************************************************************)
EXTENDS Integers, Sequences, FiniteSets, SequencesExt

BlockSize == 128
FOR == 0
PFOR_VB == 1
PFOR_BITMAP == 2
ConstantBlock == 3

div_round_up(val, div) == (val + div - 1) \div div
bytes_for_packed_bits(num, bit_width) == div_round_up(num * bit_width, 8)
num_bits(x) == CHOOSE n \in 0 .. 30 : x < 2^n /\ (n > 0 => x >= 2^(n - 1))

Bit(val, k) == (val \div 2^k) % 2
write_le(val, n) == [k \in 1 .. n |-> (val \div 2^(8 * (k - 1))) % 256]
\* The number with bit(0), ..., bit(n - 1), the lowest first.
Number(bit(_), n) ==
    LET upto[k \in 0 .. n] == IF k = 0 THEN 0 ELSE upto[k - 1] + bit(k - 1) * 2^(k - 1)
    IN  upto[n]

\* P4NENC_BOUND: the size of the buffer a block is encoded in.
P4NENC_BOUND(n) == (n + 127) \div 128 + (n + 32) * 4

-----------------------------------------------------------------------------
(* Encoding.                                                               *)

write_baseval(val) ==
    CASE val < 128 -> <<val>>
      [] val \in 128 .. 16383 -> <<val \div 256 + 128, val % 256>>
      [] val \in 16384 .. 2097151 -> <<val \div 65536 + 192, val % 256, (val \div 256) % 256>>
      [] val >= 2097152 -> <<val \div 16777216 + 224, (val \div 65536) % 256,
                             (val \div 256) % 256, val % 256>>

write_vb(val) ==
    CASE val <= 176 -> <<val>>
      [] val \in 177 .. 16560 -> <<(val - 177) \div 256 + 177, (val - 177) % 256>>
      [] val \in 16561 .. 540848 -> <<(val - 16561) \div 65536 + 241>>
                                        \o write_le((val - 16561) % 65536, 2)
      [] val \in 540849 .. 16777215 -> <<249>> \o write_le(val, 3)
      [] val > 16777215 -> <<250>> \o write_le(val, 4)

\* Mutant of InterleavedBitWriter: the streams advance by one word, not by Stride.
InterleavedNoStride(q, bit_width) == [value |-> q \div bit_width, bit |-> q % bit_width]

\* The bit of the input that bit q of the output is: one stream, or four
\* streams whose 32-bit words alternate.
BitWriter(q, bit_width) == [value |-> q \div bit_width, bit |-> q % bit_width]
InterleavedBitWriter(q, bit_width) ==
    LET word == q \div 32
        pos == (word \div 4) * 32 + (q % 32)
    IN  [value |-> 4 * (pos \div bit_width) + (word % 4), bit |-> pos % bit_width]

encode_bitmap(in, bit_width, interleaved) ==
    LET from(q) == IF interleaved THEN InterleavedBitWriter(q, bit_width) ELSE BitWriter(q, bit_width)
        bit(q) == LET f == from(q) IN IF f.value < Len(in) THEN Bit(in[f.value + 1], f.bit) ELSE 0
    IN  [k \in 1 .. bytes_for_packed_bits(Len(in), bit_width) |->
            Number(LAMBDA b : bit(8 * (k - 1) + b), 8)]

\* The part of each value above the base bits, and the indexes where there is one.
Above(in, bit_width) == [i \in DOMAIN in |-> in[i] \div 2^bit_width]
ExceptionIndexes(in, bit_width) ==
    SelectSeq([i \in DOMAIN in |-> i], LAMBDA i : in[i] \div 2^bit_width # 0)
Exceptions(in, bit_width) == SelectSeq(Above(in, bit_width), LAMBDA val : val # 0)

encode_pfor_bitmap(in, bit_width, exception_bit_width, interleaved) ==
    LET above == Above(in, bit_width)
        exceptional == [i \in DOMAIN in |-> IF above[i] # 0 THEN 1 ELSE 0]
    IN  <<exception_bit_width>>
            \o encode_bitmap(exceptional, 1, FALSE)
            \o encode_bitmap(Exceptions(in, bit_width), exception_bit_width, FALSE)
            \o encode_bitmap(in, bit_width, interleaved)

encode_pfor_vb(in, bit_width, interleaved) ==
    LET exceptions == Exceptions(in, bit_width)
        indexes == ExceptionIndexes(in, bit_width)
    IN  <<Len(exceptions)>>
            \o encode_bitmap(in, bit_width, interleaved)
            \o FlattenSeq([i \in DOMAIN exceptions |-> write_vb(exceptions[i])])
            \o [i \in DOMAIN indexes |-> indexes[i] - 1]

\* The cheapest of the widths, and of equals the one that is tried first.
Cheapest(costs, downward) ==
    LET widths == {w \in DOMAIN costs : \A v \in DOMAIN costs : costs[w] <= costs[v]}
        width == CHOOSE w \in widths : \A v \in widths : IF downward THEN v <= w ELSE v >= w
    IN  [width |-> width, cost |-> costs[width]]

\* Mutant of VarbyteCost: the byte for the place of an exception is not counted.
VarbyteCostNoIndex(w, cumulative) ==
    cumulative[w + 1] + cumulative[w + 7] + cumulative[w + 14] + cumulative[w + 19]
        + cumulative[w + 24]

\* What the exceptions above w bits cost, at most.
VarbyteCost(w, cumulative) ==
    2 * cumulative[w + 1] + cumulative[w + 7] + cumulative[w + 14] + cumulative[w + 19]
        + cumulative[w + 24]

\* The loops keep the first width that is cheaper than all before it; the one
\* for varbyte exceptions ends where the base values alone are not cheaper.
decide_block_type(in) ==
    LET num == Len(in)
        bits == [i \in DOMAIN in |-> num_bits(in[i])]
        max_bits == CHOOSE b \in {bits[i] : i \in DOMAIN in} : \A i \in DOMAIN in : bits[i] <= b
        cumulative == [b \in 0 .. max_bits + 24 |-> Cardinality({i \in DOMAIN in : bits[i] >= b})]
        forCost == bytes_for_packed_bits(num, max_bits)
        bitmap == Cheapest([w \in 0 .. max_bits - 1 |->
                      1 + bytes_for_packed_bits(num, 1) + bytes_for_packed_bits(num, w)
                        + bytes_for_packed_bits(cumulative[w + 1], max_bits - w)], TRUE)
        vb == Cheapest([w \in 0 .. max_bits - 1 |->
                      1 + bytes_for_packed_bits(num, w) + VarbyteCost(w, cumulative)], FALSE)
    IN  CASE \A i \in DOMAIN in : in[i] = in[1] ->
                 [type |-> ConstantBlock, bit_width |-> num_bits(in[1]), max_bits |-> max_bits]
          [] OTHER ->
                 IF vb.cost < forCost /\ vb.cost < bitmap.cost
                 THEN [type |-> PFOR_VB, bit_width |-> vb.width, max_bits |-> max_bits]
                 ELSE IF bitmap.cost < forCost
                 THEN [type |-> PFOR_BITMAP, bit_width |-> bitmap.width, max_bits |-> max_bits]
                 ELSE [type |-> FOR, bit_width |-> max_bits, max_bits |-> max_bits]

encode_pfor_single_block(in, interleaved) ==
    LET d == decide_block_type(in)
    IN  <<d.type * 64 + d.bit_width>> \o
            CASE d.type = ConstantBlock -> write_le(in[1], div_round_up(d.bit_width, 8))
              [] d.type = FOR -> encode_bitmap(in, d.bit_width, interleaved)
              [] d.type = PFOR_BITMAP ->
                     encode_pfor_bitmap(in, d.bit_width, d.max_bits - d.bit_width, interleaved)
              [] d.type = PFOR_VB -> encode_pfor_vb(in, d.bit_width, interleaved)

-----------------------------------------------------------------------------
(* Decoding.  A decoder returns what it read and where it stopped; bytes   *)
(* are numbered from 0.                                                    *)

At(in, k) == in[k + 1]
read_le(in, at, n) ==
    LET upto[k \in 0 .. n] == IF k = 0 THEN 0 ELSE upto[k - 1] + At(in, at + k - 1) * 256^(k - 1)
    IN  upto[n]

read_baseval(in, at) ==
    LET b == At(in, at)
    IN  CASE b < 128 -> [val |-> b, at |-> at + 1]
          [] b \in 128 .. 191 -> [val |-> (b * 256 + At(in, at + 1)) % 16384, at |-> at + 2]
          [] b \in 192 .. 223 -> [val |-> (b % 32) * 65536 + At(in, at + 2) * 256 + At(in, at + 1),
                                  at |-> at + 3]
          [] b \in 224 .. 239 -> [val |-> (b % 16) * 16777216 + At(in, at + 1) * 65536
                                              + At(in, at + 2) * 256 + At(in, at + 3),
                                  at |-> at + 4]

read_vb(in, at) ==
    LET b == At(in, at)
    IN  CASE b <= 176 -> [val |-> b, at |-> at + 1]
          [] b \in 177 .. 240 -> [val |-> (b - 177) * 256 + At(in, at + 1) + 177, at |-> at + 2]
          [] b \in 241 .. 248 -> [val |-> (b - 241) * 65536 + read_le(in, at + 1, 2) + 16561,
                                  at |-> at + 3]
          [] b = 249 -> [val |-> read_le(in, at + 1, 3), at |-> at + 4]
          [] b = 250 -> [val |-> read_le(in, at + 1, 4), at |-> at + 5]

\* Where bit k of value i is.
BitReader(i, k, bit_width) == i * bit_width + k
InterleavedBitReader(i, k, bit_width) ==
    LET pos == (i \div 4) * bit_width + k
    IN  ((pos \div 32) * 4 + (i % 4)) * 32 + (pos % 32)

decode_bitmap(in, at, num, bit_width, interleaved) ==
    LET place(i, k) == IF interleaved THEN InterleavedBitReader(i, k, bit_width)
                       ELSE BitReader(i, k, bit_width)
        bit(i, k) == LET q == place(i, k) IN Bit(At(in, at + q \div 8), q % 8)
    IN  [i \in 1 .. num |-> Number(LAMBDA k : bit(i - 1, k), bit_width)]

Deltas(out, at) == [out |-> out, at |-> at]

decode_constant(in, at, num) ==
    LET bit_width == At(in, at) % 64
        bytes == div_round_up(bit_width, 8)
        val == read_le(in, at + 1, bytes) % 2^bit_width
    IN  Deltas([i \in 1 .. num |-> val], at + 1 + bytes)

decode_for(in, at, num, interleaved) ==
    LET bit_width == At(in, at) % 64
    IN  Deltas(decode_bitmap(in, at + 1, num, bit_width, interleaved),
               at + 1 + bytes_for_packed_bits(num, bit_width))

decode_pfor_bitmap_exceptions(in, at, num) ==
    LET exception_bit_width == At(in, at)
        bitmap == decode_bitmap(in, at + 1, num, 1, FALSE)
        first == at + 1 + div_round_up(num, 8)
        indexes == SelectSeq([i \in 1 .. num |-> i], LAMBDA i : bitmap[i] = 1)
        vals == decode_bitmap(in, first, Len(indexes), exception_bit_width, FALSE)
    IN  Deltas([i \in 1 .. num |->
                   IF bitmap[i] = 1 THEN vals[CHOOSE e \in DOMAIN indexes : indexes[e] = i] ELSE 0],
               first + bytes_for_packed_bits(Len(indexes), exception_bit_width))

decode_pfor_bitmap(in, at, num, interleaved) ==
    LET bit_width == At(in, at) % 64
        exceptions == decode_pfor_bitmap_exceptions(in, at + 1, num)
        base == decode_bitmap(in, exceptions.at, num, bit_width, interleaved)
    IN  Deltas([i \in 1 .. num |-> exceptions.out[i] * 2^bit_width + base[i]],
               exceptions.at + bytes_for_packed_bits(num, bit_width))

decode_pfor_vb(in, at, num, interleaved) ==
    LET bit_width == At(in, at) % 64
        num_exceptions == At(in, at + 1)
        base == decode_bitmap(in, at + 2, num, bit_width, interleaved)
        first == at + 2 + bytes_for_packed_bits(num, bit_width)
        raw == At(in, first) = 255
        read[e \in 0 .. num_exceptions] ==   \* after e exceptions: the last, and where it ends
            IF e = 0 THEN [val |-> 0, at |-> IF raw THEN first + 1 ELSE first]
            ELSE LET prev == read[e - 1]
                 IN  IF raw THEN [val |-> read_le(in, prev.at, 4), at |-> prev.at + 4]
                     ELSE read_vb(in, prev.at)
        exceptions == [e \in 1 .. num_exceptions |-> read[e].val]
        end == read[num_exceptions].at
        indexes == [e \in 1 .. num_exceptions |-> At(in, end + e - 1) + 1]
        above(i) == LET es == {e \in DOMAIN indexes : indexes[e] = i}
                    IN  IF es = {} THEN 0 ELSE exceptions[CHOOSE e \in es : TRUE]
    IN  Deltas([i \in 1 .. num |-> base[i] + above(i) * 2^bit_width], end + num_exceptions)

\* One block, of any type.
DecodeBlock(in, at, num, interleaved) ==
    LET type == At(in, at) \div 64
    IN  CASE type = FOR -> decode_for(in, at, num, interleaved)
          [] type = PFOR_VB -> decode_pfor_vb(in, at, num, interleaved)
          [] type = PFOR_BITMAP -> decode_pfor_bitmap(in, at, num, interleaved)
          [] type = ConstantBlock -> decode_constant(in, at, num)

\* The docids that follow prev at these distances.
DeltaDecode(deltas, prev) ==
    LET out[i \in 0 .. Len(deltas)] == IF i = 0 THEN prev ELSE out[i - 1] + deltas[i] + 1
    IN  [i \in DOMAIN deltas |-> out[i]]

decode_pfor_delta1(in, num, interleaved) ==
    LET blocks == div_round_up(num - 1, BlockSize)
        first == read_baseval(in, 0)
        after[k \in 0 .. blocks] ==
            IF k = 0 THEN Deltas(<<first.val>>, first.at)
            ELSE LET prev == after[k - 1]
                     left == num - 1 - (k - 1) * BlockSize
                     size == IF left < BlockSize THEN left ELSE BlockSize
                     block == DecodeBlock(in, prev.at, size, interleaved /\ size = BlockSize)
                 IN  Deltas(prev.out \o DeltaDecode(block.out, prev.out[Len(prev.out)]), block.at)
    IN  IF num = 0 THEN Deltas(<<>>, 0) ELSE after[blocks]
=============================================================================
