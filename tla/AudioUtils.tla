----------------------------- MODULE AudioUtils -----------------------------
(***************************************************************************)
(* The conversions between sample formats, in the blocks in which the      *)
(* vector loops do them.                                                   *)
(*                                                                         *)
(* A volume and a float sample are counted in halves, their product in     *)
(* quarters; the 16 bits of a sample are MinSample .. MaxSample.           *)
(***************************************************************************)
EXTENDS Integers, Sequences

CONSTANTS
    Half,       \* xsimd::batch<float>::size
    Packs,      \* 128-bit parts of what is packed at once: 2 with AVX2, else 1
    MinSample,
    MaxSample

ASSUME AudioUtilsAssumption ==
    /\ Half \in Nat \ {0} /\ Packs \in Nat \ {0} /\ Half % Packs = 0
    /\ MinSample \in Int /\ MaxSample \in Nat /\ MinSample < 0

One == 2

Block == 2 * Half

\* std::round and xsimd::round: to the nearest, halves away from zero.
Round(quarters) ==
    IF quarters >= 0 THEN (quarters + 2) \div 4 ELSE - ((2 - quarters) \div 4)

Clamp(x) ==
    IF x < MinSample THEN MinSample ELSE IF x > MaxSample THEN MaxSample ELSE x

Scaled(f, volume) == Clamp(Round(f * volume))

\* packs works in each 128-bit part of its operands by itself.
NarrowSwapped(low, high) ==
    [i \in 1 .. Block |-> Clamp(IF i > Half THEN low[i - Half] ELSE high[i])]

narrow_int32_to_int16(low, high) ==
    LET w == Half \div Packs
    IN [i \in 1 .. Block |->
            LET part == (i - 1) \div (2 * w)
                place == ((i - 1) % (2 * w)) + 1
            IN Clamp(IF place <= w THEN low[part * w + place]
                                   ELSE high[part * w + place - w])]

\* The block of i is converted as two registers, what no block is left for one by one.
InBlocks(input, volume) ==
    [i \in DOMAIN input |->
        LET start == ((i - 1) \div Block) * Block
            Register(from) == [j \in 1 .. Half |-> Scaled(input[from + j], volume)]
        IN IF start + Block <= Len(input)
           THEN narrow_int32_to_int16(Register(start), Register(start + Half))[i - start]
           ELSE Scaled(input[i], volume)]

int16_to_float(input, volume) == [i \in DOMAIN input |-> input[i] * volume]

int32_to_float(input, volume) == [i \in DOMAIN input |-> input[i] * volume]

float_to_int16(input, volume) == InBlocks(input, volume)

adjust_int16_volume(input, volume) ==
    IF volume = One THEN input ELSE InBlocks(int16_to_float(input, One), volume)
=============================================================================
