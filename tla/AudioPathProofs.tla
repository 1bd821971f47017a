--------------------------- MODULE AudioPathProofs --------------------------
(***************************************************************************)
(* Proofs about AudioPath, for all songs and sizes: that its variables     *)
(* keep their types and bounds, that units are decoded in order and, of a  *)
(* file that fits in its buffer, without a gap but for reads that went     *)
(* astray; and that the packets hold what the song holds at its volume,    *)
(* with the exceptions HeardAsDecoded names.                               *)
(*                                                                         *)
(* AudioInv is the invariant.  The units of a song stand in one line, from *)
(* the first that was heard to the last that arrived; every step moves the *)
(* borders between those heard, taken, unread and collected, or takes      *)
(* units out of the line where nothing has to follow them.                 *)
(***************************************************************************)
EXTENDS AudioPath, SequenceLemmas

-----------------------------------------------------------------------------
(* The conversions of samples.                                             *)
\* Division by a positive number leaves a rest below it.
LEMMA Division ==
    ASSUME NEW a \in Nat, NEW b \in Nat \ {0}
    PROVE  /\ a \div b \in Nat /\ a % b \in 0 .. b - 1
           /\ a = b * (a \div b) + (a % b)
  OBVIOUS

\* The quotient of what lies below a multiple lies below its factor.
LEMMA DivisionBelow ==
    ASSUME NEW a \in Nat, NEW b \in Nat \ {0}, NEW n \in Nat, a < b * n
    PROVE  a \div b < n
<1> DEFINE q == a \div b  r == a % b
<1>1. q \in Nat /\ r \in 0 .. b - 1 /\ a = b * q + r
  BY Division
<1> HIDE DEF q, r
<1>2. CASE q >= n
  <2>1. b * q >= b * n  BY <1>1, <1>2
  <2> QED  BY <1>1, <2>1
<1> QED  BY <1>1, <1>2 DEF q

\* What is clamped is a sample; a sample stays what it is.
LEMMA ClampRange ==
    ASSUME NEW x \in Int
    PROVE  Clamp(x) \in Samples /\ (x \in Samples => Clamp(x) = x)
  BY AudioUtilsAssumption DEF Clamp, Samples

\* What is scaled is a sample, whatever the volume, and clamping it again changes nothing.
LEMMA ScaledRange ==
    ASSUME NEW f \in Int, NEW v \in Int
    PROVE  /\ Scaled(f, v) \in Samples /\ Scaled(f, v) \in Int
           /\ Clamp(Scaled(f, v)) = Scaled(f, v)
<1>1. f * v \in Int
  OBVIOUS
<1>2. Round(f * v) \in Int
  BY <1>1 DEF Round
<1>3. Scaled(f, v) \in Samples
  BY <1>2, ClampRange DEF Scaled
<1>4. Scaled(f, v) \in Int
  BY <1>3, AudioUtilsAssumption DEF Samples
<1> QED  BY <1>3, <1>4, ClampRange

\* The volume One changes no sample.
LEMMA ScaledByOne ==
    ASSUME NEW x \in Samples
    PROVE  Scaled(x * One, One) = x
<1>1. x \in Int
  BY AudioUtilsAssumption DEF Samples
<1>2. Round((x * One) * One) = x
  BY <1>1 DEF Round, One
<1> QED  BY <1>1, <1>2, ClampRange DEF Scaled

\* Wherever the parts of a register are put, they hold samples.
LEMMA NarrowRange ==
    ASSUME NEW low \in [1 .. Half -> Int], NEW high \in [1 .. Half -> Int], NEW i \in 1 .. Block
    PROVE  narrow_int32_to_int16(low, high)[i] \in Samples
<1> DEFINE w == Half \div Packs
           d == 2 * w
           part == (i - 1) \div d
           place == ((i - 1) % d) + 1
           first == part * w
<1>1. w \in Nat \ {0} /\ Half = Packs * w /\ Packs \in Nat \ {0} /\ Half \in Nat \ {0}
  <2>1. w \in Nat /\ Half = Packs * w + (Half % Packs)  BY AudioUtilsAssumption, Division
  <2>2. Half = Packs * w  BY <2>1, AudioUtilsAssumption
  <2> QED  BY <2>1, <2>2, AudioUtilsAssumption
<1>2. narrow_int32_to_int16(low, high)[i] =
        Clamp(IF place <= w THEN low[first + place] ELSE high[first + place - w])
  BY DEF narrow_int32_to_int16
<1> HIDE DEF w
<1>3. i - 1 \in Nat /\ d \in Nat \ {0} /\ i - 1 < d * Packs /\ d = 2 * w
  <2>1. i - 1 \in Nat /\ i - 1 < 2 * (Packs * w)  BY <1>1 DEF Block
  <2>2. 2 * (Packs * w) = d * Packs  BY <1>1
  <2> QED  BY <1>1, <2>1, <2>2
<1> HIDE DEF d
<1>4. part \in Nat /\ place \in 1 .. d /\ part < Packs
  <2>1. part \in Nat /\ (i - 1) % d \in 0 .. d - 1  BY <1>3, Division
  <2>2. part < Packs  BY <1>1, <1>3, DivisionBelow
  <2>3. place \in 1 .. d  BY <1>3, <2>1
  <2> QED  BY <2>1, <2>2, <2>3
<1> HIDE DEF part, place
<1>5. first + w <= Half /\ first \in Nat
  <2>1. (part + 1) * w <= Packs * w  BY <1>1, <1>4
  <2>2. (part + 1) * w = part * w + w  BY <1>1, <1>4
  <2> QED  BY <1>1, <1>4, <2>1, <2>2
<1> HIDE DEF first
<1>6. CASE place <= w
  <2>1. first + place \in 1 .. Half  BY <1>1, <1>3, <1>4, <1>5, <1>6
  <2>2. low[first + place] \in Int  BY <2>1
  <2> QED  BY <1>2, <1>6, <2>2, ClampRange
<1>7. CASE ~ (place <= w)
  <2>1. first + place - w \in 1 .. Half  BY <1>1, <1>3, <1>4, <1>5, <1>7
  <2>2. high[first + place - w] \in Int  BY <2>1
  <2> QED  BY <1>2, <1>7, <2>2, ClampRange
<1> QED  BY <1>6, <1>7

\* Without AVX2 packs keeps the order.
LEMMA NarrowInOrder ==
    ASSUME Packs = 1, NEW low, NEW high, NEW i \in 1 .. Block
    PROVE  narrow_int32_to_int16(low, high)[i] =
             Clamp(IF i <= Half THEN low[i] ELSE high[i - Half])
<1>1. Half \in Nat \ {0} /\ Half \div Packs = Half /\ i - 1 \in 0 .. 2 * Half - 1
  BY AudioUtilsAssumption DEF Block
<1>2. (i - 1) \div (2 * Half) = 0 /\ (i - 1) % (2 * Half) = i - 1
  BY <1>1
<1>3. 0 * Half + ((i - 1) + 1) = i
  BY <1>1
<1>4. /\ (i - 1) + 1 = i /\ 0 * Half + i = i /\ 0 * Half + i - Half = i - Half
  BY <1>1
<1> QED  BY <1>1, <1>2, <1>4 DEF narrow_int32_to_int16

\* A block lies in the input.
LEMMA BlockOf ==
    ASSUME NEW i \in Nat \ {0}
    PROVE  LET start == ((i - 1) \div Block) * Block
           IN start \in Nat /\ i - start \in 1 .. Block
<1>1. Block \in Nat \ {0} /\ i - 1 \in Nat
  BY AudioUtilsAssumption DEF Block
<1> HIDE DEF Block
<1>2. /\ (i - 1) \div Block \in Nat /\ (i - 1) % Block \in 0 .. Block - 1
      /\ i - 1 = Block * ((i - 1) \div Block) + ((i - 1) % Block)
  BY <1>1, Division
<1> QED  BY <1>1, <1>2

\* Every sample is scaled to one of 16 bits, in a block or behind the last one.
LEMMA InBlocksRange ==
    ASSUME NEW input \in Seq(Int), NEW v \in Int
    PROVE  InBlocks(input, v) \in Seq(Samples) /\ Len(InBlocks(input, v)) = Len(input)
<1> DEFINE out == InBlocks(input, v)
<1>1. /\ DOMAIN input = 1 .. Len(input) /\ Len(input) \in Nat
      /\ \A i \in 1 .. Len(input) : input[i] \in Int
  OBVIOUS
<1>2. ASSUME NEW i \in 1 .. Len(input) PROVE out[i] \in Samples
  <2> DEFINE start == ((i - 1) \div Block) * Block
             Register(from) == [j \in 1 .. Half |-> Scaled(input[from + j], v)]
  <2>1. out[i] = IF start + Block <= Len(input)
                 THEN narrow_int32_to_int16(Register(start), Register(start + Half))[i - start]
                 ELSE Scaled(input[i], v)
    BY <1>1 DEF InBlocks
  <2>2. start \in Nat /\ i - start \in 1 .. Block
    BY BlockOf
  <2> HIDE DEF start
  <2>3. CASE start + Block <= Len(input)
    <3>1. Register(start) \in [1 .. Half -> Int] /\ Register(start + Half) \in [1 .. Half -> Int]
      <4>1. \A j \in 1 .. Half : /\ start + j \in 1 .. Len(input)
                                /\ start + Half + j \in 1 .. Len(input)
        BY <1>1, <2>2, <2>3, AudioUtilsAssumption DEF Block
      <4>2. \A j \in 1 .. Half : /\ Scaled(input[start + j], v) \in Int
                                /\ Scaled(input[start + Half + j], v) \in Int
        BY <1>1, <4>1, ScaledRange
      <4> QED  BY <4>2
    <3> HIDE DEF Register
    <3> QED  BY <2>1, <2>2, <2>3, <3>1, NarrowRange
  <2>4. CASE ~ (start + Block <= Len(input))
    BY <1>1, <2>1, <2>4, ScaledRange
  <2> QED  BY <2>3, <2>4
<1>3. out = [i \in 1 .. Len(input) |-> out[i]]
  BY <1>1 DEF InBlocks
<1> HIDE DEF out
<1>4. out \in Seq(Samples) /\ Len(out) = Len(input)
  BY <1>1, <1>2, <1>3
<1> QED  BY <1>4 DEF out

\* Without AVX2 the blocks make no difference.
LEMMA InBlocksInOrder ==
    ASSUME Packs = 1, NEW input \in Seq(Int), NEW v \in Int
    PROVE  \A i \in 1 .. Len(input) : InBlocks(input, v)[i] = Scaled(input[i], v)
<1>1. /\ DOMAIN input = 1 .. Len(input) /\ Len(input) \in Nat
      /\ \A i \in 1 .. Len(input) : input[i] \in Int
  OBVIOUS
<1> SUFFICES ASSUME NEW i \in 1 .. Len(input) PROVE InBlocks(input, v)[i] = Scaled(input[i], v)
  OBVIOUS
<1> DEFINE start == ((i - 1) \div Block) * Block
           Register(from) == [j \in 1 .. Half |-> Scaled(input[from + j], v)]
<1>2. InBlocks(input, v)[i] =
        IF start + Block <= Len(input)
        THEN narrow_int32_to_int16(Register(start), Register(start + Half))[i - start]
        ELSE Scaled(input[i], v)
  BY <1>1 DEF InBlocks
<1>3. start \in Nat /\ i - start \in 1 .. Block
  BY BlockOf
<1> HIDE DEF start
<1>4. CASE start + Block <= Len(input)
  <2>1. narrow_int32_to_int16(Register(start), Register(start + Half))[i - start] =
          Clamp(IF i - start <= Half THEN Register(start)[i - start]
                                     ELSE Register(start + Half)[i - start - Half])
    <3> HIDE DEF Register
    <3> QED  BY <1>3, NarrowInOrder
  <2>2. i - start <= Half => Register(start)[i - start] = Scaled(input[i], v)
    BY <1>3, AudioUtilsAssumption DEF Block
  <2>3. ~ (i - start <= Half) => Register(start + Half)[i - start - Half] = Scaled(input[i], v)
    BY <1>3, AudioUtilsAssumption DEF Block
  <2>4. Clamp(Scaled(input[i], v)) = Scaled(input[i], v)
    BY <1>1, ScaledRange
  <2> HIDE DEF Register
  <2> QED  BY <1>2, <1>4, <2>1, <2>2, <2>3, <2>4
<1>5. CASE ~ (start + Block <= Len(input))
  BY <1>2, <1>5
<1> QED  BY <1>4, <1>5

-----------------------------------------------------------------------------
(* The samples of a read.                                                  *)
\* The parameters are numbers.
LEMMA Parameters ==
    /\ {SongSize, MaxSongs, MaxChunk, FlushSize, QueueLimit, OpenSize} \subseteq Nat
    /\ {AvioSize, ReadSize, OpusFrame, 2 * OpusFrame} \subseteq Nat \ {0}
    /\ MaxDisturbances \in Nat
    /\ MinSample \in Int /\ MaxSample \in Nat /\ One = 2
  BY AudioPathAssumption, AudioUtilsAssumption DEF One

Song == [wrapper : {"Buffer", "IOBuf"}, container : {"mp3", "mov", "other"},
         packet : Nat \ {0}, encoding : {"S16", "S32", "FLT", "other"},
         channels : {1, 2}, rate : Nat \ {0}, capacity : Nat]

\* Every format is that of a song.
LEMMA FormatsAreSongs == \A f \in Formats : f \in Song
  BY AudioPathAssumption DEF Song

\* The channels of a song are one or two.
LEMMA ChannelsType ==
    ASSUME format \in Song
    PROVE  format.channels \in {1, 2} /\ format.channels \in Nat \ {0}
  BY DEF Song

\* Every sample of every channel of a song is one of 16 bits.
LEMMA RawRange ==
    ASSUME format \in Formats, NEW u \in Units, NEW c \in 1 .. format.channels
    PROVE  Raw(u, c) \in Samples /\ Raw(u, c) \in Int
<1> DEFINE m == format.channels
<1>1. m \in Nat \ {0} /\ SongSize \in Nat /\ MinSample \in Int /\ MaxSample \in Nat
  BY Parameters, FormatsAreSongs, ChannelsType
<1>2. m * SongSize <= MaxSample - MinSample
  BY SamplesFit
<1>3. Raw(u, c) = m * (u - 1) + c + MinSample /\ c \in 1 .. m
  BY DEF Raw
<1> HIDE DEF m
<1>4. u \in Nat \ {0} /\ u <= SongSize
  BY <1>1 DEF Units
<1>5. m * (u - 1) + m = m * u /\ m * (u - 1) \in Nat
  BY <1>1, <1>4
<1>6. m * u <= m * SongSize
  BY <1>1, <1>4
<1> QED  BY <1>1, <1>2, <1>3, <1>5, <1>6 DEF Samples

\* A song holds a sample of 16 bits for every channel of a unit.
LEMMA ValuesType ==
    ASSUME format \in Formats, NEW units \in Seq(Units)
    PROVE  /\ Values(units) \in Seq(Samples) /\ Values(units) \in Seq(Int)
           /\ Len(Values(units)) = format.channels * Len(units)
<1> DEFINE n == Len(units)
           m == format.channels
           value(k) == Raw(units[((k - 1) \div m) + 1], ((k - 1) % m) + 1)
           values == Values(units)
<1>1. n \in Nat /\ m \in Nat \ {0} /\ m * n \in Nat
  BY FormatsAreSongs, ChannelsType
<1>2. ASSUME NEW k \in 1 .. m * n PROVE value(k) \in Samples /\ value(k) \in Int
  <2>1. k - 1 \in Nat /\ k - 1 < m * n
    BY <1>1
  <2>2. (k - 1) \div m \in Nat /\ (k - 1) % m \in 0 .. m - 1
    BY <1>1, <2>1, Division
  <2>3. (k - 1) \div m < n
    BY <1>1, <2>1, DivisionBelow
  <2>4. units[((k - 1) \div m) + 1] \in Units
    BY <1>1, <2>2, <2>3
  <2>5. ((k - 1) % m) + 1 \in 1 .. m
    BY <1>1, <2>2
  <2> QED  BY <2>4, <2>5, RawRange
<1>3. values = [k \in 1 .. m * n |-> value(k)]
  BY DEF Values
<1> HIDE DEF value, values, m
<1>4. values \in Seq(Samples) /\ values \in Seq(Int) /\ Len(values) = m * n
  BY <1>1, <1>2, <1>3
<1> QED  BY <1>4 DEF values, m

\* The decoder gives every sample, at its worth in the encoding.
LEMMA RawSamplesType ==
    ASSUME format \in Formats, NEW units \in Seq(Units)
    PROVE  /\ RawSamples(units) \in Seq(Int)
           /\ Len(RawSamples(units)) = Len(Values(units))
           /\ \A k \in 1 .. Len(Values(units)) :
                 RawSamples(units)[k] = Worth * Values(units)[k]
           /\ format.encoding = "S16" => RawSamples(units) = Values(units)
<1> DEFINE values == Values(units)
           raw == RawSamples(units)
           n == Len(values)
<1>1. values \in Seq(Samples) /\ values \in Seq(Int)
  BY ValuesType
<1>2. raw = [k \in DOMAIN values |-> Worth * values[k]]
  BY DEF RawSamples
<1>3. Worth \in Int /\ (format.encoding = "S16" => Worth = 1)
  BY DEF Worth, Wide, One
<1> HIDE DEF values, raw
<1>4. n \in Nat /\ DOMAIN values = 1 .. n /\ \A k \in 1 .. n : values[k] \in Int
  BY <1>1
<1> HIDE DEF n
<1>5. \A k \in 1 .. n : Worth * values[k] \in Int
  BY <1>3, <1>4
<1>6. raw \in Seq(Int) /\ Len(raw) = n /\ \A k \in 1 .. n : raw[k] = Worth * values[k]
  BY <1>2, <1>4, <1>5
<1>7. ASSUME format.encoding = "S16" PROVE raw = values
  <2>1. Len(raw) = Len(values)  BY <1>6 DEF n
  <2>2. \A k \in 1 .. Len(raw) : raw[k] = values[k]  BY <1>3, <1>4, <1>6, <1>7
  <2> QED  BY <1>1, <1>6, <2>1, <2>2, SeqEqual
<1> QED  BY <1>6, <1>7 DEF raw, values, n

\* The origin of a resampled sample is a sample of f; at the rate of the target, itself.
LEMMA OriginOf ==
    ASSUME format \in Song, NEW n \in Nat,
           NEW k \in 1 .. format.rate * (format.channels * n)
    PROVE  Origin(k) \in 1 .. format.channels * n /\ (format.rate = 1 => Origin(k) = k)
<1> DEFINE c == format.channels  r == format.rate
           frame == (k - 1) \div c
           unit == frame \div r
           channel == (k - 1) % c
<1>1. c \in Nat \ {0} /\ r \in Nat \ {0} /\ r * n \in Nat
  BY ChannelsType DEF Song
<1>2. k \in 1 .. r * (c * n) /\ Origin(k) = c * unit + channel + 1
  BY DEF Origin
<1> HIDE DEF c, r
<1>3. k - 1 \in Nat /\ k - 1 < c * (r * n)
  <2>1. r * (c * n) = c * (r * n)  BY <1>1
  <2> QED  BY <1>1, <1>2, <2>1
<1>4. frame \in Nat /\ channel \in 0 .. c - 1 /\ k - 1 = c * frame + channel
  BY <1>1, <1>3, Division
<1>5. frame < r * n
  BY <1>1, <1>3, DivisionBelow
<1> HIDE DEF frame, channel
<1>6. unit \in Nat /\ unit < n
  BY <1>1, <1>4, <1>5, Division, DivisionBelow
<1>7. r = 1 => unit = frame
  BY <1>4
<1> HIDE DEF unit
<1>8. c * unit + c <= c * n /\ c * unit \in Nat
  <2>1. c * (unit + 1) <= c * n  BY <1>1, <1>6
  <2>2. c * (unit + 1) = c * unit + c  BY <1>1, <1>6
  <2> QED  BY <1>1, <1>6, <2>1, <2>2
<1>9. Origin(k) \in 1 .. c * n
  BY <1>1, <1>2, <1>4, <1>8
<1>10. r = 1 => Origin(k) = k
  BY <1>1, <1>2, <1>4, <1>7
<1> QED  BY <1>9, <1>10 DEF c, r

\* Resampling repeats samples of f, and gives rate times as many.
LEMMA ResampledType ==
    ASSUME format \in Song, NEW n \in Nat, NEW f \in Seq(Int), Len(f) = format.channels * n
    PROVE  /\ Resampled(f) \in Seq(Int) /\ Len(Resampled(f)) = format.rate * Len(f)
           /\ \A k \in 1 .. format.rate * Len(f) :
                 Origin(k) \in 1 .. Len(f) /\ Resampled(f)[k] = f[Origin(k)]
<1> DEFINE N == format.rate * Len(f)
           g == Resampled(f)
<1>1. Len(f) \in Nat /\ N \in Nat
  BY SMTT(30) DEF Song
<1>2. g = [k \in 1 .. N |-> f[Origin(k)]]
  BY DEF Resampled
<1>3. ASSUME NEW k \in 1 .. N PROVE Origin(k) \in 1 .. Len(f) /\ f[Origin(k)] \in Int
  BY <1>1, OriginOf
<1> HIDE DEF N, g
<1>4. g \in Seq(Int) /\ Len(g) = N /\ \A k \in 1 .. N : g[k] = f[Origin(k)]
  BY <1>1, <1>2, <1>3
<1> QED  BY <1>3, <1>4 DEF N, g

\* What is left to be resampled, scaled and clamped.
Converted(raw) ==
    IF format.encoding = "S16" THEN int16_to_float(raw, One)
    ELSE IF format.encoding = "S32" THEN int32_to_float(raw, One)
    ELSE raw

\* The conversions to float change no number of samples.
LEMMA LouderType ==
    ASSUME NEW raw \in Seq(Int)
    PROVE  /\ int16_to_float(raw, One) \in Seq(Int) /\ Len(int16_to_float(raw, One)) = Len(raw)
           /\ \A k \in 1 .. Len(raw) : int16_to_float(raw, One)[k] = raw[k] * One
           /\ int32_to_float(raw, One) = int16_to_float(raw, One)
<1> DEFINE louder == int16_to_float(raw, One)
<1>1. Len(raw) \in Nat /\ DOMAIN raw = 1 .. Len(raw) /\ \A k \in 1 .. Len(raw) : raw[k] \in Int
  OBVIOUS
<1>2. louder = [k \in 1 .. Len(raw) |-> raw[k] * One] /\ int32_to_float(raw, One) = louder
  BY <1>1 DEF int16_to_float, int32_to_float
<1> HIDE DEF louder
<1>3. louder \in Seq(Int) /\ Len(louder) = Len(raw)
  BY <1>1, <1>2 DEF One
<1> QED  BY <1>1, <1>2, <1>3 DEF louder

\* The conversions keep the number of samples; of 16 bits or floats, they give every sample of
\* the song in full.
LEMMA ConvertedType ==
    ASSUME format \in Formats, NEW units \in Seq(Units)
    PROVE  LET f == Converted(RawSamples(units))
           IN  /\ f \in Seq(Int) /\ Len(f) = Len(Values(units))
               /\ format.encoding \in {"S16", "FLT"} =>
                     \A k \in 1 .. Len(f) : f[k] = One * Values(units)[k]
<1> DEFINE values == Values(units)
           raw == RawSamples(units)
           f == Converted(raw)
<1>1. /\ raw \in Seq(Int) /\ Len(raw) = Len(values)
      /\ \A k \in 1 .. Len(values) : raw[k] = Worth * values[k]
  BY RawSamplesType
<1>2. values \in Seq(Int)
  BY ValuesType
<1> HIDE DEF values, raw
<1>3. Len(values) \in Nat /\ \A k \in 1 .. Len(values) : values[k] \in Int
  BY <1>2
<1>4. CASE format.encoding \in {"S16", "S32"}
  <2>1. /\ f \in Seq(Int) /\ Len(f) = Len(raw) /\ \A k \in 1 .. Len(raw) : f[k] = raw[k] * One
    BY <1>1, <1>4, LouderType DEF Converted
  <2>2. format.encoding = "S16" => Worth = 1
    BY DEF Worth
  <2> HIDE DEF f
  <2>3. format.encoding = "S16" => \A k \in 1 .. Len(f) : f[k] = One * values[k]
    BY <1>1, <1>3, <2>1, <2>2 DEF One
  <2> QED  BY <1>1, <1>4, <2>1, <2>3 DEF f, raw, values
<1>5. CASE format.encoding \notin {"S16", "S32"}
  <2>1. f = raw /\ (format.encoding = "FLT" => Worth = One)
    BY <1>5 DEF Converted, Worth
  <2> HIDE DEF f
  <2>2. format.encoding = "FLT" => \A k \in 1 .. Len(f) : f[k] = One * values[k]
    BY <1>1, <2>1
  <2> QED  BY <1>1, <1>5, <2>1, <2>2 DEF f, raw, values
<1> QED  BY <1>4, <1>5

\* process_audio_frame gives samples of 16 bits, for every encoding, rate and volume.
LEMMA ProcessType ==
    ASSUME format \in Formats, volume \in Nat, NEW units \in Seq(Units)
    PROVE  process_audio_frame(RawSamples(units)) \in Seq(Samples)
<1> DEFINE raw == RawSamples(units)
           f == Converted(raw)
<1>1. raw \in Seq(Int) /\ (format.encoding = "S16" => raw \in Seq(Samples))
  BY RawSamplesType, ValuesType
<1>2. f \in Seq(Int) /\ Len(f) = format.channels * Len(units) /\ Len(units) \in Nat
  BY ConvertedType, ValuesType
<1>3. process_audio_frame(raw) =
        IF format.rate # 1 THEN InBlocks(Resampled(f), volume)
        ELSE IF format.encoding # "S16" THEN InBlocks(f, volume)
        ELSE IF volume # One THEN adjust_int16_volume(raw, volume)
        ELSE raw
  BY DEF process_audio_frame, Converted, resample_audio, float_to_int16
<1> HIDE DEF raw, f
<1>4. Resampled(f) \in Seq(Int)
  BY <1>2, FormatsAreSongs, ResampledType
<1>5. InBlocks(Resampled(f), volume) \in Seq(Samples) /\ InBlocks(f, volume) \in Seq(Samples)
  BY <1>2, <1>4, InBlocksRange
<1>6. volume # One => adjust_int16_volume(raw, volume) \in Seq(Samples)
  BY <1>1, LouderType, InBlocksRange DEF adjust_int16_volume
<1> QED  BY <1>1, <1>3, <1>5, <1>6 DEF raw

\* What is to be heard are samples of 16 bits: those of the song, each at its volume.
LEMMA ReferenceType ==
    ASSUME format \in Formats, volume \in Nat, NEW units \in Seq(Units)
    PROVE  LET values == Values(units)
           IN  /\ Reference(units) \in Seq(Samples)
               /\ Len(Reference(units)) = format.rate * Len(values)
               /\ \A k \in 1 .. format.rate * Len(values) :
                     Reference(units)[k] = Scaled(One * values[Origin(k)], volume)
<1> DEFINE values == Values(units)
           N == format.rate * Len(values)
           out == Reference(units)
           song == Resampled(values)
<1>1. values \in Seq(Int) /\ Len(values) = format.channels * Len(units) /\ Len(units) \in Nat
  BY ValuesType
<1>2. out = [k \in DOMAIN song |-> Scaled(One * song[k], volume)]
  BY DEF Reference
<1>3. format \in Song
  BY FormatsAreSongs
<1> HIDE DEF values, out
<1>4. /\ N \in Nat /\ song \in Seq(Int) /\ Len(song) = N
      /\ \A k \in 1 .. N : Origin(k) \in 1 .. Len(values) /\ song[k] = values[Origin(k)]
  BY <1>1, <1>3, ResampledType DEF Song
<1> HIDE DEF N, song
<1>5. ASSUME NEW k \in 1 .. N
      PROVE  song[k] = values[Origin(k)] /\ Scaled(One * song[k], volume) \in Samples
  <2> DEFINE x == One * song[k]
  <2>1. x \in Int /\ volume \in Int  BY <1>4 DEF One
  <2> HIDE DEF x
  <2>2. Scaled(x, volume) \in Samples  BY <2>1, ScaledRange
  <2> QED  BY <1>4, <2>2 DEF x
<1>6. DOMAIN song = 1 .. N
  BY <1>4
<1>7. out \in Seq(Samples) /\ Len(out) = N
  <2> DEFINE loud(k) == Scaled(One * song[k], volume)
  <2>1. out = [k \in 1 .. N |-> loud(k)] /\ N \in Nat
    BY <1>2, <1>4, <1>6
  <2>2. \A k \in 1 .. N : loud(k) \in Samples
    BY <1>5
  <2> HIDE DEF loud
  <2>3. out \in [1 .. N -> Samples]
    BY <2>1, <2>2
  <2> QED  BY <2>1, <2>3
<1>8. ASSUME NEW k \in 1 .. N
      PROVE  out[k] = Scaled(One * values[Origin(k)], volume)
  BY <1>2, <1>5, <1>6
<1> QED  BY <1>7, <1>8 DEF values, out, N

\* Without AVX2 the listener gets every sample at its volume, of a song whose
\* samples are of 16 bits or floats.
LEMMA ProcessIsReference ==
    ASSUME Packs = 1, format \in Formats, format.encoding \in {"S16", "FLT"}, volume \in Nat,
           NEW units \in Seq(Units)
    PROVE  process_audio_frame(RawSamples(units)) = Reference(units)
<1> DEFINE values == Values(units)
           raw == RawSamples(units)
           f == Converted(raw)
           N == format.rate * Len(values)
           out == process_audio_frame(raw)
<1>1. /\ values \in Seq(Samples) /\ values \in Seq(Int)
      /\ Len(values) = format.channels * Len(units) /\ Len(units) \in Nat
  BY ValuesType
<1>2. /\ f \in Seq(Int) /\ Len(f) = Len(values)
      /\ \A k \in 1 .. Len(f) : f[k] = One * values[k]
  BY ConvertedType
<1>3. out = IF format.rate # 1 THEN InBlocks(Resampled(f), volume)
            ELSE IF format.encoding # "S16" THEN InBlocks(f, volume)
            ELSE IF volume # One THEN adjust_int16_volume(raw, volume)
            ELSE raw
  BY DEF process_audio_frame, Converted, resample_audio, float_to_int16
<1>4. out \in Seq(Samples)
  BY ProcessType
<1>5. /\ Reference(units) \in Seq(Samples) /\ Len(Reference(units)) = N
      /\ \A k \in 1 .. N : Reference(units)[k] = Scaled(One * values[Origin(k)], volume)
  BY ReferenceType
<1>6. format.encoding = "S16" => int16_to_float(raw, One) = f /\ raw = values
  BY RawSamplesType DEF Converted
<1>7. format \in Song
  BY FormatsAreSongs
<1> HIDE DEF values, raw, f, out
<1>8. format.rate \in Nat \ {0} /\ Len(values) \in Nat /\ N \in Nat
  BY <1>1, <1>7 DEF Song
<1>9. \A k \in 1 .. N : Origin(k) \in 1 .. Len(values) /\ (format.rate = 1 => Origin(k) = k)
  BY <1>1, <1>7, <1>8, OriginOf
<1>10. CASE format.rate # 1
  <2>1. /\ Resampled(f) \in Seq(Int) /\ Len(Resampled(f)) = N
        /\ \A k \in 1 .. N : Resampled(f)[k] = f[Origin(k)]
    BY <1>1, <1>2, <1>7, ResampledType
  <2>2. /\ Len(out) = N
        /\ \A k \in 1 .. N : out[k] = Scaled(Resampled(f)[k], volume)
    BY <1>3, <1>10, <2>1, InBlocksRange, InBlocksInOrder
  <2>3. \A k \in 1 .. N : out[k] = Reference(units)[k]
    BY <1>2, <1>5, <1>9, <2>1, <2>2
  <2> QED  BY <1>4, <1>5, <2>2, <2>3, SeqEqual DEF out, raw
<1>11. CASE format.rate = 1 /\ ~ (format.encoding = "S16" /\ volume = One)
  <2>1. out = InBlocks(f, volume)
    BY <1>3, <1>6, <1>11 DEF adjust_int16_volume
  <2>2. N = Len(values)
    BY <1>8, <1>11
  <2>3. Len(out) = N /\ \A k \in 1 .. N : out[k] = Scaled(f[k], volume)
    BY <1>2, <2>1, <2>2, InBlocksRange, InBlocksInOrder
  <2>4. \A k \in 1 .. N : out[k] = Reference(units)[k]
    BY <1>2, <1>5, <1>9, <1>11, <2>2, <2>3
  <2> QED  BY <1>4, <1>5, <2>3, <2>4, SeqEqual DEF out, raw
<1>12. CASE format.rate = 1 /\ format.encoding = "S16" /\ volume = One
  <2>1. out = values
    BY <1>3, <1>6, <1>12
  <2>2. N = Len(values)
    BY <1>8, <1>12
  <2>3. \A k \in 1 .. N : out[k] = Reference(units)[k]
    <3>1. ASSUME NEW k \in 1 .. N PROVE Scaled(One * values[k], One) = values[k]
      <4>1. values[k] \in Samples  BY <1>1, <1>8, <2>2
      <4>2. One * values[k] = values[k] * One
        BY <4>1, AudioUtilsAssumption DEF Samples, One
      <4> QED  BY <4>1, <4>2, ScaledByOne
    <3> QED  BY <1>5, <1>9, <1>12, <2>1, <3>1
  <2> QED  BY <1>4, <1>5, <2>1, <2>2, <2>3, SeqEqual DEF out, raw
<1> QED  BY <1>10, <1>11, <1>12

-----------------------------------------------------------------------------
(* What is stored, and what a read takes from it.                          *)
Stored ==
    /\ item \in [arrived : 0 .. SongSize, data : Seq(Seq(Units)), write_queue : Seq(Units),
                 paused : BOOLEAN, cut : BOOLEAN, finished : BOOLEAN, skipped : BOOLEAN]
    /\ wrapper \in [pos : 0 .. SongSize, is_eof : BOOLEAN]
    /\ fed \in Seq(Units)
    /\ format \in Song

\* Nothing is stored that has not arrived, and nothing is read that was not stored.
Placed ==
    IF IsStream
    THEN wrapper.pos + Size + Len(item.write_queue) <= item.arrived
    ELSE wrapper.pos <= Size /\ Size <= item.arrived /\ item.write_queue = <<>>

\* Min of two numbers.
LEMMA MinOfTwo ==
    ASSUME NEW a \in Int, NEW b \in Int
    PROVE  Min({a, b}) \in {a, b} /\ Min({a, b}) <= a /\ Min({a, b}) <= b
<1>1. \E x \in {a, b} : \A y \in {a, b} : x <= y
  <2>1. CASE a <= b
    BY <2>1
  <2>2. CASE b <= a
    BY <2>2
  <2> QED  BY <2>1, <2>2
<1> QED  BY <1>1 DEF Min

\* The buffers of the queue together are units.
LEMMA BytesType ==
    ASSUME Stored
    PROVE  Bytes \in Seq(Units) /\ Size \in Nat
  BY FlattenType DEF Stored, Bytes, Size

\* What is unread are units: all of a queue, what lies behind pos in a buffer.
LEMMA UnreadType ==
    ASSUME Stored, Placed
    PROVE  /\ Unread \in Seq(Units) /\ Len(Unread) \in Nat
           /\ Len(Unread) = IF IsStream THEN Size ELSE Size - wrapper.pos
<1>1. Bytes \in Seq(Units) /\ Size \in Nat /\ Size = Len(Bytes)
  BY BytesType DEF Size
<1>2. ~IsStream => wrapper.pos \in 0 .. Len(Bytes)
  BY <1>1 DEF Stored, Placed
<1> QED  BY <1>1, <1>2, SplitSeq DEF Unread, Size

\* A reader is asked for no more than there is; it gives what a read needs, or all.
LEMMA AskedRange ==
    ASSUME Stored, Placed, NEW n \in Nat
    PROVE  /\ Asked(n) \in 0 .. Len(Unread)
           /\ Asked(n) = Len(Unread) \/ Len(fed) + Asked(n) >= n
<1>1. Len(fed) \in Nat /\ Len(Unread) \in Nat /\ AvioSize \in Nat \ {0}
  BY UnreadType, Parameters DEF Stored
<1> DEFINE missing == IF n > Len(fed) THEN n - Len(fed) ELSE 0
           blocks == (missing + AvioSize - 1) \div AvioSize
           most == blocks * AvioSize
<1>2. missing \in Nat /\ Len(fed) + missing >= n
  BY <1>1
<1>3. Asked(n) = Min({most, Len(Unread)})
  BY DEF Asked
<1> HIDE DEF missing
<1>4. most \in Nat /\ most >= missing
  <2> DEFINE m == missing + AvioSize - 1
  <2>1. m \in Nat  BY <1>1, <1>2
  <2>2. /\ blocks \in Nat /\ m % AvioSize \in 0 .. AvioSize - 1
        /\ m = AvioSize * blocks + (m % AvioSize)
    BY <1>1, <2>1, Division
  <2>3. AvioSize * blocks = blocks * AvioSize  BY <1>1, <2>2
  <2> HIDE DEF blocks
  <2>4. blocks * AvioSize \in Nat  BY <1>1, <2>2
  <2> QED  BY <1>1, <1>2, <2>2, <2>3, <2>4
<1> HIDE DEF most
<1>5. Asked(n) \in {most, Len(Unread)} /\ Asked(n) <= Len(Unread) /\ Asked(n) <= most
  <2> DEFINE l == Len(Unread)
  <2>1. most \in Int /\ l \in Int  BY <1>1, <1>4
  <2> HIDE DEF l
  <2>2. Min({most, l}) \in {most, l} /\ Min({most, l}) <= most /\ Min({most, l}) <= l
    BY <2>1, MinOfTwo
  <2> QED  BY <1>3, <2>2 DEF l
<1> QED  BY <1>1, <1>2, <1>4, <1>5

\* The rest of the rest.
LEMMA RestOfRest ==
    ASSUME NEW S, NEW s \in Seq(S), NEW p \in 0 .. Len(s), NEW a \in 0 .. Len(s) - p
    PROVE  SubSeq(SubSeq(s, p + 1, Len(s)), a + 1, Len(s) - p) = SubSeq(s, (p + a) + 1, Len(s))
<1> DEFINE t == SubSeq(s, p + 1, Len(s))
           u == SubSeq(t, a + 1, Len(t))
           v == SubSeq(s, (p + a) + 1, Len(s))
<1>1. t \in Seq(S) /\ Len(t) = Len(s) - p /\ \A i \in 1 .. Len(s) - p : t[i] = s[p + i]
  BY SplitSeq
<1>2. Len(s) \in Nat /\ p + a \in 0 .. Len(s)
  OBVIOUS
<1>3. /\ v \in Seq(S) /\ Len(v) = Len(s) - (p + a)
      /\ \A i \in 1 .. Len(s) - (p + a) : v[i] = s[(p + a) + i]
  BY <1>2, SplitSeq
<1> HIDE DEF t, v
<1>4. /\ u \in Seq(S) /\ Len(u) = Len(t) - a
      /\ \A i \in 1 .. Len(t) - a : u[i] = t[a + i]
  BY <1>1, SplitSeq
<1> HIDE DEF u
<1>5. ASSUME NEW i \in 1 .. Len(u) PROVE u[i] = v[i]
  <2>1. i \in 1 .. Len(t) - a /\ a + i \in 1 .. Len(s) - p /\ i \in 1 .. Len(s) - (p + a)
    BY <1>1, <1>2, <1>4
  <2>2. u[i] = t[a + i] /\ t[a + i] = s[p + (a + i)] /\ v[i] = s[(p + a) + i]
    BY <1>1, <1>3, <1>4, <2>1
  <2>3. p + (a + i) = (p + a) + i  BY <1>2
  <2> QED  BY <2>2, <2>3
<1>6. Len(u) = Len(v)
  BY <1>1, <1>2, <1>3, <1>4
<1>7. u = v
  BY <1>3, <1>4, <1>5, <1>6, SeqEqual
<1> QED  BY <1>1, <1>7 DEF u, v, t

\* A read takes the front of what is unread; a reader gives as much as it is asked
\* for, or all it has.
LEMMA TakeEffect ==
    ASSUME Stored, Placed, NEW n \in Nat, format' = format,
           item'.data = Remaining(n), wrapper'.pos = MoveReader(n).pos
    PROVE  /\ \E x \in Seq(Units) : Input(n) = fed \o x /\ Unread = x \o Unread'
           /\ Unread' \in Seq(Units)
           /\ ~IsStream => /\ Bytes' = Bytes /\ wrapper'.pos \in wrapper.pos .. Size
                           /\ Unread' = <<>> \/ Len(Input(n)) >= n
           /\ IsStream => /\ wrapper'.pos \in Nat
                          /\ wrapper.pos <= wrapper'.pos
                          /\ wrapper'.pos + Size' <= wrapper.pos + Size
<1>1. /\ Bytes \in Seq(Units) /\ Size \in Nat /\ Size = Len(Bytes) /\ wrapper.pos \in Nat
      /\ fed \in Seq(Units) /\ item.data \in Seq(Seq(Units))
  BY BytesType DEF Size, Stored
<1>2. /\ Unread \in Seq(Units) /\ Len(Unread) \in Nat
      /\ Len(Unread) = IF IsStream THEN Size ELSE Size - wrapper.pos
  BY UnreadType
<1>3. Asked(n) \in 0 .. Len(Unread) /\ (Asked(n) = Len(Unread) \/ Len(fed) + Asked(n) >= n)
  BY AskedRange
<1> DEFINE front == SubSeq(Unread, 1, Asked(n))
           rest == SubSeq(Unread, Asked(n) + 1, Len(Unread))
<1>4. /\ front \in Seq(Units) /\ rest \in Seq(Units)
      /\ Len(front) = Asked(n) /\ Len(rest) = Len(Unread) - Asked(n)
      /\ front \o rest = Unread
  BY <1>2, <1>3, SplitParts
<1>5. IsStream' = IsStream /\ IsMpg123' = IsMpg123
  BY DEF IsStream, IsMpg123
<1>6. wrapper'.pos = wrapper.pos + IF Popped THEN 0 ELSE Asked(n)
  BY DEF MoveReader, Stored
<1>7. CASE ~IsStream
  <2>1. Bytes' = Bytes /\ Size' = Size
    BY <1>7 DEF Bytes, Size, Remaining
  <2>2. wrapper'.pos = wrapper.pos + Asked(n) /\ Input(n) = fed \o front
    BY <1>6, <1>7 DEF Popped, Input
  <2>3. wrapper.pos \in 0 .. Len(Bytes) /\ Asked(n) \in 0 .. Len(Bytes) - wrapper.pos
    BY <1>1, <1>2, <1>3, <1>7 DEF Placed
  <2>4. Unread' = SubSeq(Bytes, (wrapper.pos + Asked(n)) + 1, Len(Bytes))
    BY <1>1, <1>5, <1>7, <2>1, <2>2 DEF Unread
  <2>5. /\ Unread = SubSeq(Bytes, wrapper.pos + 1, Len(Bytes))
        /\ Len(Unread) = Len(Bytes) - wrapper.pos
    BY <1>1, <1>2, <1>7 DEF Unread
  <2>6. Unread' = rest
    BY <1>1, <2>3, <2>4, <2>5, RestOfRest
  <2>7. Len(Input(n)) = Len(fed) + Asked(n)
    BY <1>1, <1>4, <2>2, ConcatProperties
  <2>8. Unread' = <<>> \/ Len(Input(n)) >= n
    BY <1>2, <1>3, <1>4, <2>6, <2>7, EmptySeq
  <2>9. wrapper'.pos \in wrapper.pos .. Size
    BY <1>1, <2>2, <2>3
  <2> HIDE DEF front, rest
  <2> QED  BY <1>4, <1>7, <2>1, <2>2, <2>6, <2>8, <2>9
<1>8. CASE IsStream /\ item.data = <<>>
  <2>1. Bytes = <<>> /\ Bytes' = <<>> /\ Unread = <<>> /\ Unread' = <<>>
    BY <1>5, <1>8, FlattenEmpty DEF Bytes, Unread, Remaining
  <2>2. Asked(n) = 0
    BY <1>3, <2>1
  <2>3. Input(n) = fed \o <<>>
    <3>1. front = <<>>  BY <1>4, <2>2, EmptySeq
    <3> HIDE DEF front
    <3>2. Input(n) = fed \o front \/ Input(n) = fed \o <<>>  BY <1>8 DEF Input, front
    <3> QED  BY <3>1, <3>2
  <2>4. Size = 0 /\ Size' = 0 /\ wrapper'.pos = wrapper.pos
    BY <1>1, <1>6, <2>1, <2>2 DEF Size
  <2>5. <<>> \in Seq(Units) /\ Unread = <<>> \o Unread'
    BY <2>1, EmptySeq, ConcatEmptySeq
  <2>6. \E x \in Seq(Units) : Input(n) = fed \o x /\ Unread = x \o Unread'
    BY <2>3, <2>5
  <2>7. Unread' \in Seq(Units)
    BY <2>1, EmptySeq
  <2>8. /\ wrapper'.pos \in Nat /\ wrapper.pos <= wrapper'.pos
        /\ wrapper'.pos + Size' <= wrapper.pos + Size
    BY <1>1, <2>4
  <2> QED  BY <1>8, <2>6, <2>7, <2>8
<1>9. CASE IsStream /\ item.data # <<>> /\ IsMpg123
  <2>1. Remaining(n) = Tail(item.data) /\ Input(n) = fed \o Head(item.data) /\ Popped
    BY <1>9 DEF Remaining, Input, Popped
  <2>2. Head(item.data) \in Seq(Units) /\ Tail(item.data) \in Seq(Seq(Units))
    BY <1>1, <1>9, HeadTailProperties
  <2>3. Unread = Bytes /\ Unread' = Bytes' /\ Bytes' = FlattenSeq(Tail(item.data))
    BY <1>5, <1>9, <2>1 DEF Unread, Bytes
  <2>4. Bytes' \in Seq(Units)
    BY <2>2, <2>3, FlattenType
  <2>5. Bytes = Head(item.data) \o Bytes'
    BY <1>1, <1>9, <2>3, FlattenHead DEF Bytes
  <2>6. Len(Bytes') \in Nat /\ Len(Bytes') <= Len(Bytes)
    BY <2>2, <2>4, <2>5, ConcatProperties
  <2>7. wrapper'.pos = wrapper.pos /\ Size' = Len(Bytes')
    BY <1>1, <1>6, <2>1 DEF Size
  <2>8. \E x \in Seq(Units) : Input(n) = fed \o x /\ Unread = x \o Unread'
    BY <2>1, <2>2, <2>3, <2>5, Zenon
  <2>9. /\ wrapper'.pos \in Nat /\ wrapper.pos <= wrapper'.pos
        /\ wrapper'.pos + Size' <= wrapper.pos + Size
    BY <1>1, <2>6, <2>7
  <2> QED  BY <1>9, <2>3, <2>4, <2>8, <2>9
<1>10. CASE IsStream /\ item.data # <<>> /\ ~IsMpg123
  <2>1. Remaining(n) = <<SubSeq(Bytes, Asked(n) + 1, Size)>> /\ Input(n) = fed \o front
    BY <1>10 DEF Remaining, Input, Popped
  <2>2. Unread = Bytes /\ Unread' = Bytes' /\ Len(Unread) = Size
    BY <1>1, <1>5, <1>10 DEF Unread
  <2>3. Bytes' = rest
    BY <1>4, <2>1, <2>2, FlattenOne DEF Bytes
  <2>4. wrapper'.pos = wrapper.pos + Asked(n) /\ Size' = Size - Asked(n)
    BY <1>4, <1>6, <1>10, <2>2, <2>3 DEF Popped, Size
  <2> HIDE DEF front, rest
  <2>5. \E x \in Seq(Units) : Input(n) = fed \o x /\ Unread = x \o Unread'
    BY <1>4, <2>1, <2>2, <2>3, Zenon
  <2>6. /\ wrapper'.pos \in Nat /\ wrapper.pos <= wrapper'.pos
        /\ wrapper'.pos + Size' <= wrapper.pos + Size
    BY <1>1, <1>3, <2>2, <2>4
  <2> QED  BY <1>4, <1>10, <2>2, <2>3, <2>5, <2>6
<1> QED  BY <1>7, <1>8, <1>9, <1>10

-----------------------------------------------------------------------------
(* The invariant.                                                          *)
Bounded ==
    /\ Len(item.write_queue) <= FlushSize
    /\ Size <= IF IsStream THEN QueueLimit + FlushSize + MaxChunk ELSE format.capacity

\* A decoder's format is known, and a reader's end, only in some stages.
Steady ==
    /\ stage \in {"idle", "probing", "opening", "asking"} => ~decoder.found
    /\ decoder.found => decoder.open
    /\ wrapper.is_eof => stage \in {"idle", "playing", "astray"}

Control ==
    /\ stage \in {"idle", "probing", "opening", "asking", "ticking", "eof", "playing", "astray"}
    /\ format \in Formats
    /\ events \in [feed : BOOLEAN, readFinshed : BOOLEAN]
    /\ decoder \in [open : BOOLEAN, known : BOOLEAN, found : BOOLEAN,
                    err_count : 0 .. EarlyAttempts]
    /\ volume \in Volumes \cup {One}
    /\ count \in [songs : Nat, disturbances : Nat, skipping : BOOLEAN]
    /\ Steady

Packet == [samples : Seq(Samples \cup {Stale}), whole : BOOLEAN]

Encoders == [runs : BOOLEAN, wanted : {OpusFrame, 2 * OpusFrame}, temp : Seq(Samples),
             size : Nat, mono : BOOLEAN]

\* A frame of one channel is only asked for while the encoder is marked so.
Sound ==
    /\ pcm \in Seq(Samples)
    /\ encoder \in Encoders
    /\ Len(encoder.temp) < 2 * OpusFrame
    /\ ~encoder.runs => pcm = <<>>
    /\ encoder.runs /\ ~encoder.mono => encoder.wanted = 2 * OpusFrame
    /\ decoded \in Seq(Samples) /\ frames \in Seq(Packet)

\* What the decoder has still to be given, and what it has taken of it.
Waiting == fed \o Unread

\* The line from the last unit heard to the last one that arrived.
InLine ==
    /\ heard \in Seq(Units)
    /\ Sorted(heard) /\ Sorted(Waiting) /\ Sorted(item.write_queue)
    /\ Below(heard, Waiting) /\ Below(heard, item.write_queue)
    /\ Below(Waiting, item.write_queue)
    /\ UpTo(heard, item.arrived) /\ UpTo(Waiting, item.arrived)
    /\ UpTo(item.write_queue, item.arrived)
    /\ ~IsStream => Sorted(Bytes) /\ UpTo(Bytes, item.arrived)

\* Of these songs nothing may be left out.
WholeFile == ~IsStream /\ SongSize <= format.capacity

\* Songs that read() can give at all.
Readable == format.encoding # "other" /\ Fitting = ReadSize

\* The control cycle of a song.
InCycle == stage \notin {"idle", "astray"}

\* No read of this cycle will fill its output again before a seek: nothing more arrives and too
\* little is left, or the decoder is not fed any more.
Exhausted ==
    \/ (item.finished \/ item.cut) /\ Len(Waiting) < ReadSize
    \/ stage = "playing" /\ ~events.feed

\* The units of s follow one another, up to n.
Ends(s, n) == \A i \in 1 .. Len(s) : s[i] = n - Len(s) + i
Follow(s) == \A i \in 1 .. Len(s) : s[i] = s[1] + i - 1

\* What can be heard in a song's cycle, till a read cannot be filled, follows up to the last unit
\* that arrived.
Gapless ==
    WholeFile =>
       /\ Size = item.arrived /\ \A i \in 1 .. Size : Bytes[i] = i
       /\ stage # "astray" => Follow(heard)
       /\ InCycle /\ ~decoder.found => heard = <<>>
       /\ InCycle /\ Readable /\ ~Exhausted => Ends(heard \o Waiting, item.arrived)

Store == Stored /\ Placed /\ Bounded

AudioInv == Store /\ Control /\ Sound /\ InLine /\ Gapless

\* Units are numbers.
LEMMA UnitsAreNumbers == Units \subseteq Nat /\ Seq(Units) \subseteq Seq(Int)
  BY Parameters DEF Units

\* What waits is what the decoder has taken, and what it has not.
LEMMA WaitingType ==
    ASSUME Store
    PROVE  Waiting \in Seq(Units) /\ Len(Waiting) = Len(fed) + Len(Unread)
  BY UnreadType, ConcatProperties DEF Store, Stored, Waiting

\* Of units that follow one another up to n, the last do so too, and the first follow one
\* another.
LEMMA EndsParts ==
    ASSUME NEW a \in Seq(Int), NEW b \in Seq(Int), NEW n \in Int, Ends(a \o b, n)
    PROVE  Ends(b, n) /\ Follow(a)
<1>1. /\ Len(a \o b) = Len(a) + Len(b) /\ Len(a) \in Nat /\ Len(b) \in Nat
      /\ \A i \in 1 .. Len(a) : i \in 1 .. Len(a \o b) /\ (a \o b)[i] = a[i]
      /\ \A i \in 1 .. Len(b) : Len(a) + i \in 1 .. Len(a \o b) /\ (a \o b)[Len(a) + i] = b[i]
  BY ConcatIndex, ConcatProperties
<1> DEFINE c == a \o b
<1> HIDE DEF c
<1>2. /\ Len(c) = Len(a) + Len(b)
      /\ \A i \in 1 .. Len(a) : i \in 1 .. Len(c) /\ c[i] = a[i]
      /\ \A i \in 1 .. Len(b) : Len(a) + i \in 1 .. Len(c) /\ c[Len(a) + i] = b[i]
      /\ \A i \in 1 .. Len(c) : c[i] = n - Len(c) + i
  BY <1>1 DEF c, Ends
<1>3. ASSUME NEW i \in 1 .. Len(b) PROVE b[i] = n - Len(b) + i
  <2>1. b[i] = n - Len(c) + (Len(a) + i)  BY <1>2
  <2> QED  BY <1>1, <1>2, <2>1
<1>4. ASSUME NEW i \in 1 .. Len(a) PROVE a[i] = a[1] + i - 1
  <2>1. 1 \in 1 .. Len(a)  BY <1>1
  <2>2. a[i] = n - Len(c) + i /\ a[1] = n - Len(c) + 1  BY <1>2, <2>1
  <2> QED  BY <1>1, <1>2, <2>2
<1> QED  BY <1>3, <1>4 DEF Ends, Follow

\* Nothing begins a cycle but StartSong, nothing in it takes back what is known of its format or
\* of its end, and ctl feeds the decoder no more when it has set is_eof.
StagesOn ==
    /\ stage' # "astray" => stage # "astray"
    /\ InCycle' => InCycle /\ (decoder.found => decoder'.found)
    /\ stage = "playing" /\ ~events.feed =>
          ~InCycle' \/ (stage' = "playing" /\ ~events'.feed)
    /\ item.finished => item'.finished
    /\ item.cut => item'.cut

\* An item whose units stay.
SameItem ==
    [arrived : {item.arrived}, data : {item.data}, write_queue : {item.write_queue},
     paused : BOOLEAN, cut : BOOLEAN, finished : BOOLEAN, skipped : BOOLEAN]

\* Where the units and their places stay, so does the line.
LEMMA SameKeeps ==
    ASSUME AudioInv, format' = format, fed' = fed, heard' = heard,
           wrapper' \in [pos : {wrapper.pos}, is_eof : BOOLEAN],
           item' \in SameItem, StagesOn
    PROVE  Store' /\ InLine' /\ Gapless'
<1>1. /\ item'.arrived = item.arrived /\ item'.data = item.data
      /\ item'.write_queue = item.write_queue /\ wrapper'.pos = wrapper.pos
  BY DEF SameItem
<1>2. /\ Bytes' = Bytes /\ Size' = Size /\ IsStream' = IsStream /\ Unread' = Unread
      /\ Waiting' = Waiting /\ WholeFile' = WholeFile /\ Readable' = Readable
  BY <1>1 DEF Bytes, Size, IsStream, Unread, Waiting, WholeFile, Readable, Fitting, Whole
<1>3. Stored'
  BY DEF AudioInv, Store, Stored, SameItem
<1>4. Placed' /\ Bounded'
  BY <1>1, <1>2 DEF AudioInv, Store, Placed, Bounded
<1>5. InLine'
  BY <1>1, <1>2 DEF AudioInv, InLine
<1>6. Exhausted => ~InCycle' \/ Exhausted'
  BY <1>1, <1>2 DEF StagesOn, Exhausted
<1>7. Gapless'
  BY <1>1, <1>2, <1>6 DEF AudioInv, Gapless, StagesOn
<1> QED  BY <1>3, <1>4, <1>5, <1>7 DEF Store

\* Whole packets of n units are no more than n; those of a read fill it when n does.
LEMMA WholeRange ==
    ASSUME format \in Song, NEW n \in Nat
    PROVE  /\ Whole(n) \in 0 .. n
           /\ Readable /\ n >= ReadSize => Whole(n) >= ReadSize
<1> DEFINE p == format.packet
<1>1. p \in Nat \ {0} /\ ReadSize \in Nat \ {0}
  BY Parameters DEF Song
<1>2. Whole(n) = n - (n % p) /\ Fitting = ReadSize - (ReadSize % p)
  BY DEF Whole, Fitting
<1> HIDE DEF p
<1> DEFINE q == n \div p  Q == ReadSize \div p
<1>3. q \in Nat /\ n % p \in 0 .. p - 1 /\ n = p * q + (n % p)
  BY <1>1, Division
<1>4. Q \in Nat /\ ReadSize % p \in 0 .. p - 1 /\ ReadSize = p * Q + (ReadSize % p)
  BY <1>1, Division
<1> HIDE DEF q, Q
<1>5. p * q \in Nat
  BY <1>1, <1>3
<1>6. Whole(n) \in 0 .. n /\ Whole(n) = p * q
  BY <1>1, <1>2, <1>3, <1>5
<1>7. ASSUME Readable, n >= ReadSize PROVE Whole(n) >= ReadSize
  <2>1. ReadSize = p * Q
    <3>1. Fitting = ReadSize  BY <1>7 DEF Readable
    <3> HIDE DEF Fitting
    <3> QED  BY <1>1, <1>2, <1>4, <3>1
  <2>2. CASE q >= Q
    BY <1>1, <1>3, <1>4, <1>6, <2>1, <2>2
  <2>3. CASE q + 1 <= Q
    <3>1. p * (q + 1) <= p * Q  BY <1>1, <1>3, <1>4, <2>3
    <3>2. p * (q + 1) = p * q + p  BY <1>1, <1>3
    <3>3. n < p * q + p  BY <1>1, <1>3, <1>5
    <3> QED  BY <1>1, <1>5, <1>7, <2>1, <3>1, <3>2, <3>3
  <2> QED  BY <1>3, <1>4, <2>2, <2>3
<1> QED  BY <1>6, <1>7

\* The item after a read.
ReadItem(n) ==
    [arrived : {item.arrived}, data : {Remaining(n)}, write_queue : {item.write_queue},
     paused : BOOLEAN, cut : BOOLEAN, finished : BOOLEAN, skipped : BOOLEAN]

\* What a read takes leaves the line at its front, and it is heard or lost.
ReadStep(n, k) ==
    /\ format' = format
    /\ item' \in ReadItem(n)
    /\ wrapper' = MoveReader(n)
    /\ fed' = SubSeq(Input(n), k + 1, Len(Input(n)))
    /\ StagesOn

\* A read takes k units from the front of the line and leaves the rest of it.
LEMMA ReadTakes ==
    ASSUME AudioInv, NEW n \in Nat, NEW k \in 0 .. Len(Input(n)), ReadStep(n, k)
    PROVE  /\ Input(n) \in Seq(Units) /\ Len(Input(n)) <= Len(Waiting)
           /\ SubSeq(Input(n), 1, k) \in Seq(Units) /\ Len(SubSeq(Input(n), 1, k)) = k
           /\ Store' /\ Waiting = SubSeq(Input(n), 1, k) \o Waiting'
           /\ Len(Waiting') = Len(Waiting) - k
           /\ ~IsStream => /\ Bytes' = Bytes /\ Size' = Size
                           /\ Len(Input(n)) >= n \/ Len(Waiting) = Len(Input(n))
           /\ item'.arrived = item.arrived /\ item'.write_queue = item.write_queue
<1>1. Stored /\ Placed /\ Bounded
  BY DEF AudioInv, Store
<1>2. /\ item'.arrived = item.arrived /\ item'.write_queue = item.write_queue
      /\ item'.data = Remaining(n) /\ wrapper'.pos = MoveReader(n).pos
      /\ wrapper'.is_eof = wrapper.is_eof /\ format' = format
      /\ item' \in ReadItem(n)
  BY DEF ReadStep, MoveReader, ReadItem
<1>3. /\ \E x \in Seq(Units) : Input(n) = fed \o x /\ Unread = x \o Unread'
      /\ Unread' \in Seq(Units)
      /\ ~IsStream => /\ Bytes' = Bytes /\ wrapper'.pos \in wrapper.pos .. Size
                      /\ Unread' = <<>> \/ Len(Input(n)) >= n
      /\ IsStream => /\ wrapper'.pos \in Nat
                     /\ wrapper.pos <= wrapper'.pos /\ wrapper'.pos + Size' <= wrapper.pos + Size
  BY <1>1, <1>2, TakeEffect
<1>4. PICK x \in Seq(Units) : Input(n) = fed \o x /\ Unread = x \o Unread'
  BY <1>3
<1>5. fed \in Seq(Units) /\ Waiting = fed \o Unread /\ Waiting' = fed' \o Unread'
  BY <1>1 DEF Stored, Waiting
<1> DEFINE inp == Input(n)  rest == Unread'  new == fed'
           taken == SubSeq(inp, 1, k)
<1>6. inp \in Seq(Units) /\ inp = fed \o x /\ Len(inp) = Len(fed) + Len(x)
  BY <1>4, <1>5, ConcatProperties
<1>7. new = SubSeq(inp, k + 1, Len(inp))
  BY DEF ReadStep
<1>8. rest \in Seq(Units) /\ Unread = x \o rest
  BY <1>3, <1>4
<1>9. k \in 0 .. Len(inp)
  OBVIOUS
<1>10. Waiting = fed \o (x \o rest) /\ Waiting' = new \o rest
  BY <1>5, <1>8
<1> HIDE DEF inp, rest, new
<1>11. /\ taken \in Seq(Units) /\ new \in Seq(Units) /\ taken \o new = inp
       /\ Len(taken) = k /\ Len(new) = Len(inp) - k
  <2>1. /\ SubSeq(inp, 1, k) \in Seq(Units) /\ SubSeq(inp, k + 1, Len(inp)) \in Seq(Units)
        /\ Len(SubSeq(inp, 1, k)) = k /\ Len(SubSeq(inp, k + 1, Len(inp))) = Len(inp) - k
        /\ SubSeq(inp, 1, k) \o SubSeq(inp, k + 1, Len(inp)) = inp
    BY <1>6, <1>9, SplitParts
  <2> QED  BY <1>7, <2>1, Zenon
<1> HIDE DEF taken
<1>12. (fed \o x) \o rest = fed \o (x \o rest)
  <2>1. Regroups(fed, x, rest)  BY <1>5, <1>8, SequencesRegroup
  <2> QED  BY <2>1 DEF Regroups
<1>13. (taken \o new) \o rest = taken \o (new \o rest)
  <2>1. taken \in Seq(Units) /\ new \in Seq(Units) /\ rest \in Seq(Units)  BY <1>8, <1>11
  <2>2. Regroups(taken, new, rest)  BY <2>1, SequencesRegroup
  <2> QED  BY <2>2 DEF Regroups
<1>14. Waiting = taken \o Waiting' /\ Waiting = inp \o rest
  BY <1>6, <1>10, <1>11, <1>12, <1>13
<1>15. /\ Len(Waiting') = Len(new) + Len(rest) /\ Len(Waiting) = Len(inp) + Len(rest)
       /\ Len(rest) \in Nat /\ Len(inp) \in Nat /\ Len(new) \in Nat
  <2>1. Len(new \o rest) = Len(new) + Len(rest)
    <3>1. new \in Seq(Units) /\ rest \in Seq(Units)  BY <1>8, <1>11
    <3> QED  BY <3>1, ConcatProperties
  <2>2. Len(inp \o rest) = Len(inp) + Len(rest)
    <3>1. inp \in Seq(Units) /\ rest \in Seq(Units)  BY <1>6, <1>8
    <3> QED  BY <3>1, ConcatProperties
  <2>3. Len(rest) \in Nat /\ Len(inp) \in Nat /\ Len(new) \in Nat
    BY <1>6, <1>8, <1>11, LenProperties
  <2> QED  BY <1>10, <1>14, <2>1, <2>2, <2>3
<1>16. Len(inp) <= Len(Waiting) /\ Len(Waiting') = Len(Waiting) - k
  BY <1>11, <1>15
<1>17. IsStream' = IsStream
  BY <1>2 DEF IsStream
<1>18. /\ Size \in Nat /\ item.arrived \in 0 .. SongSize /\ SongSize \in Nat
       /\ wrapper.pos \in Nat /\ Len(item.write_queue) \in Nat
  BY <1>1, BytesType, Parameters DEF Stored
<1>19. Remaining(n) \in Seq(Seq(Units))
  <2>1. item.data \in Seq(Seq(Units))  BY <1>1 DEF Stored
  <2>2. CASE ~IsStream \/ item.data = <<>>
    BY <2>1, <2>2 DEF Remaining
  <2>3. CASE IsStream /\ item.data # <<>> /\ IsMpg123
    BY <2>1, <2>3, HeadTailProperties DEF Remaining
  <2>4. CASE IsStream /\ item.data # <<>> /\ ~IsMpg123
    <3> DEFINE s == SubSeq(Bytes, Asked(n) + 1, Size)
    <3>1. Bytes \in Seq(Units) /\ Size = Len(Bytes)  BY <1>1, BytesType DEF Size
    <3>2. Asked(n) \in 0 .. Len(Bytes)  BY <1>1, <2>4, AskedRange DEF Unread
    <3>3. s \in Seq(Units)  BY <3>1, <3>2, SplitSeq
    <3>4. Remaining(n) = <<s>>  BY <2>4 DEF Remaining
    <3> HIDE DEF s
    <3> QED  BY <3>3, <3>4
  <2> QED  BY <2>2, <2>3, <2>4
<1>20. Bytes' \in Seq(Units) /\ Size' \in Nat
  <2>1. item'.data \in Seq(Seq(Units))  BY <1>2, <1>19
  <2>2. Bytes' = FlattenSeq(item'.data) /\ Size' = Len(Bytes')  BY DEF Bytes, Size
  <2>3. FlattenSeq(item'.data) \in Seq(Units)  BY <2>1, FlattenType
  <2> QED  BY <2>2, <2>3
<1>21. /\ wrapper'.pos \in 0 .. SongSize
       /\ Placed' /\ Bounded'
  <2>1. CASE ~IsStream
    <3>1. Size' = Size  BY <1>3, <2>1 DEF Size
    <3> QED  BY <1>1, <1>2, <1>3, <1>17, <1>18, <2>1, <3>1, SMTT(30) DEF Placed, Bounded
  <2>2. CASE IsStream
    <3>1. /\ wrapper'.pos \in Nat /\ wrapper.pos <= wrapper'.pos
          /\ wrapper'.pos + Size' <= wrapper.pos + Size
      BY <1>3, <2>2
    <3>2. Size' <= Size  BY <1>18, <1>20, <3>1
    <3>3. wrapper.pos + Size + Len(item.write_queue) <= item.arrived  BY <1>1, <2>2 DEF Placed
    <3>4. wrapper'.pos + Size' + Len(item.write_queue) <= item.arrived
      <4> DEFINE p == wrapper.pos  q == wrapper'.pos  a == Size  b == Size'
                 c == Len(item.write_queue)  d == item.arrived
      <4>1. /\ p \in Int /\ q \in Int /\ a \in Int /\ b \in Int /\ c \in Int /\ d \in Int
            /\ q + b <= p + a /\ p + a + c <= d
        BY <1>18, <1>20, <3>1, <3>3, SMTT(30)
      <4> HIDE DEF p, q, a, b, c, d
      <4>2. q + b + c <= d  BY <4>1
      <4> QED  BY <4>2 DEF p, q, a, b, c, d
    <3>5. wrapper'.pos \in 0 .. SongSize  BY <1>18, <1>20, <3>1, <3>4, SMTT(30)
    <3>6. Placed'  BY <1>2, <1>17, <2>2, <3>4 DEF Placed
    <3>7. Size <= QueueLimit + FlushSize + MaxChunk /\ Len(item.write_queue) <= FlushSize
      BY <1>1, <2>2 DEF Bounded
    <3>8. Size' <= QueueLimit + FlushSize + MaxChunk
      <4>1. QueueLimit + FlushSize + MaxChunk \in Nat  BY Parameters, SMTT(30)
      <4> QED  BY <1>18, <1>20, <3>2, <3>7, <4>1
    <3>9. Bounded'  BY <1>2, <1>17, <2>2, <3>7, <3>8 DEF Bounded
    <3> QED  BY <3>5, <3>6, <3>9
  <2> QED  BY <2>1, <2>2
<1> QED
  <2>1. Stored'
    <3>1. format' \in Song  BY <1>1, <1>2 DEF Stored
    <3>2. fed' \in Seq(Units)  BY <1>11 DEF new
    <3>3. wrapper' \in [pos : 0 .. SongSize, is_eof : BOOLEAN]
      BY <1>1, <1>2, <1>21 DEF ReadStep, MoveReader, Stored
    <3>4. item' \in [arrived : 0 .. SongSize, data : Seq(Seq(Units)), write_queue : Seq(Units),
                     paused : BOOLEAN, cut : BOOLEAN, finished : BOOLEAN, skipped : BOOLEAN]
      BY <1>1, <1>2, <1>19 DEF Stored, ReadItem
    <3> QED  BY <3>1, <3>2, <3>3, <3>4 DEF Stored
  <2>2. Store'
    BY <2>1, <1>21 DEF Store
  <2>3. ~IsStream => /\ Bytes' = Bytes /\ Size' = Size
                     /\ Len(inp) >= n \/ Len(Waiting) = Len(inp)
    <3>1. ~IsStream => Size' = Size  BY <1>3 DEF Size
    <3>2. rest = <<>> => Len(Waiting) = Len(inp)  BY <1>15
    <3> QED  BY <1>3, <3>1, <3>2 DEF inp, rest
  <2> QED  BY <1>2, <1>6, <1>11, <1>14, <1>16, <2>2, <2>3 DEF inp, taken

\* What is taken from the line is heard, in the song's cycle or astray; or it is lost where
\* nothing has to follow it.
Heard(n, k) ==
    /\ heard' = heard \o SubSeq(Input(n), 1, k)
    /\ \/ stage' = "astray"
       \/ /\ InCycle /\ events.feed /\ decoder'.found
          /\ Readable /\ Len(Input(n)) >= ReadSize

Lost(n, k) ==
    /\ heard' = heard
    /\ \/ k = 0
       \/ WholeFile /\ InCycle => heard = <<>>
       \/ ~Readable
       \/ /\ n = ReadSize /\ Ready /\ stage' = stage /\ ~events'.feed
          /\ Readable => Len(Input(n)) < ReadSize

\* When what is taken is heard, or lost where nothing has to follow it, the line stays one.
LEMMA ReadKeeps ==
    ASSUME AudioInv, NEW n \in Nat, NEW k \in 0 .. Len(Input(n)), ReadStep(n, k),
           Heard(n, k) \/ Lost(n, k)
    PROVE  Store' /\ InLine' /\ Gapless'
<1> DEFINE taken == SubSeq(Input(n), 1, k)
           queue == item.write_queue
           far == item.arrived
           line == Waiting
           next == Waiting'
<1>1. /\ Input(n) \in Seq(Units) /\ Len(Input(n)) <= Len(Waiting)
      /\ taken \in Seq(Units) /\ Len(taken) = k
      /\ Store' /\ Waiting = taken \o Waiting'
      /\ Len(Waiting') = Len(Waiting) - k
      /\ ~IsStream => /\ Bytes' = Bytes /\ Size' = Size
                      /\ Len(Input(n)) >= n \/ Len(Waiting) = Len(Input(n))
      /\ item'.arrived = item.arrived /\ item'.write_queue = item.write_queue
  BY ReadTakes
<1>2. /\ IsStream' = IsStream /\ WholeFile' = WholeFile /\ Readable' = Readable
  BY DEF ReadStep, IsStream, WholeFile, Readable, Fitting, Whole
<1>3. line \in Seq(Units) /\ next \in Seq(Units) /\ heard \in Seq(Units) /\ queue \in Seq(Units)
  <2>1. line \in Seq(Units)  BY WaitingType DEF AudioInv
  <2>2. next \in Seq(Units)
    <3>1. fed' \in Seq(Units) /\ Unread' \in Seq(Units)
      <4>1. Stored' /\ Placed'  BY <1>1 DEF Store
      <4>2. fed' \in Seq(Units)  BY <4>1 DEF Stored
      <4>3. Bytes' \in Seq(Units)  BY <4>1, FlattenType DEF Stored, Bytes
      <4>4. IsStream => Unread' \in Seq(Units)
        BY <1>2, <4>3 DEF Unread
      <4>5. ASSUME ~IsStream PROVE Unread' \in Seq(Units)
        <5>1. wrapper'.pos \in 0 .. Len(Bytes') /\ Size' = Len(Bytes')
          BY <1>2, <4>1, <4>3, <4>5 DEF Placed, Stored, Size
        <5>2. Unread' = SubSeq(Bytes', wrapper'.pos + 1, Len(Bytes'))
          BY <1>2, <4>5, <5>1 DEF Unread
        <5> QED  BY <4>3, <5>1, <5>2, SplitSeq
      <4> QED  BY <4>2, <4>4, <4>5
    <3> QED  BY <3>1, ConcatProperties DEF Waiting
  <2>3. heard \in Seq(Units) /\ queue \in Seq(Units)  BY DEF AudioInv, InLine, Store, Stored
  <2> QED  BY <2>1, <2>2, <2>3
<1>4. far \in Int /\ k \in Nat /\ Len(line) \in Nat /\ Len(next) = Len(line) - k
  <2>1. far \in Int  BY DEF AudioInv, Store, Stored
  <2>2. Len(Input(n)) \in Nat  BY <1>1
  <2> QED  BY <1>1, <1>3, <2>1, <2>2
<1>5. line = taken \o next
  BY <1>1
<1>6. /\ Sorted(heard) /\ Sorted(line) /\ Sorted(queue) /\ Below(heard, line)
      /\ Below(heard, queue) /\ Below(line, queue)
      /\ UpTo(heard, far) /\ UpTo(line, far) /\ UpTo(queue, far)
      /\ ~IsStream => Sorted(Bytes) /\ UpTo(Bytes, far)
  BY DEF AudioInv, InLine
<1>7. heard' = heard \/ heard' = heard \o taken
  BY DEF Heard, Lost
<1>8. WholeFile =>
         /\ Size = far /\ \A i \in 1 .. Size : Bytes[i] = i
         /\ stage # "astray" => Follow(heard)
         /\ InCycle /\ ~decoder.found => heard = <<>>
         /\ InCycle /\ Readable /\ ~Exhausted => Ends(heard \o line, far)
  BY DEF AudioInv, Gapless
<1>9. /\ taken \in Seq(Int) /\ line \in Seq(Int) /\ next \in Seq(Int)
      /\ heard \in Seq(Int) /\ queue \in Seq(Int)
  BY <1>1, <1>3, UnitsAreNumbers
<1>10. StagesOn
  BY DEF ReadStep
<1>11. Exhausted' <=> \/ (item'.finished \/ item'.cut) /\ Len(next) < ReadSize
                      \/ stage' = "playing" /\ ~events'.feed
  BY DEF Exhausted
<1>12. Exhausted <=> \/ (item.finished \/ item.cut) /\ Len(line) < ReadSize
                     \/ stage = "playing" /\ ~events.feed
  BY DEF Exhausted
<1>13. Bytes \in Seq(Units) /\ ReadSize \in Nat
  BY BytesType, Parameters DEF AudioInv, Store
<1> HIDE DEF line, next, queue, far, taken
<1>14. /\ Sorted(taken) /\ Sorted(next) /\ Below(taken, next)
       /\ Below(heard, taken) /\ Below(heard, next)
       /\ Below(taken, queue) /\ Below(next, queue)
       /\ UpTo(taken, far) /\ UpTo(next, far)
  <2>1. Sorted(taken) /\ Sorted(next) /\ Below(taken, next)
    BY <1>5, <1>6, <1>9, ConcatSorted
  <2>2. Below(heard, taken) /\ Below(heard, next) /\ Below(taken, queue) /\ Below(next, queue)
    BY <1>5, <1>6, <1>9, ConcatBelow
  <2>3. UpTo(taken, far) /\ UpTo(next, far)
    BY <1>4, <1>5, <1>6, <1>9, ConcatUpTo
  <2> QED  BY <2>1, <2>2, <2>3
<1>15. /\ heard' \in Seq(Units) /\ Sorted(heard') /\ Below(heard', next) /\ Below(heard', queue)
       /\ UpTo(heard', far)
  <2>1. CASE heard' = heard
    BY <1>3, <1>6, <1>14, <2>1
  <2>2. CASE heard' = heard \o taken
    <3>1. heard \o taken \in Seq(Units)
      <4>1. heard \in Seq(Units) /\ taken \in Seq(Units)  BY <1>1, <1>3 DEF taken
      <4> QED  BY <4>1, ConcatProperties
    <3>2. Sorted(heard \o taken)
      BY <1>6, <1>9, <1>14, ConcatSorted
    <3>3. Below(heard \o taken, next) /\ Below(heard \o taken, queue)
      BY <1>6, <1>9, <1>14, ConcatBelow
    <3>4. UpTo(heard \o taken, far)
      BY <1>4, <1>6, <1>9, <1>14, ConcatUpTo
    <3> QED  BY <2>2, <3>1, <3>2, <3>3, <3>4
  <2> QED  BY <1>7, <2>1, <2>2
<1>16. InLine'
  <2>1. item'.arrived = far /\ item'.write_queue = queue /\ Waiting' = next
    BY <1>1 DEF far, queue, next
  <2>2. ~IsStream => Sorted(Bytes') /\ UpTo(Bytes', far)
    BY <1>1, <1>6
  <2> QED  BY <1>2, <1>6, <1>14, <1>15, <2>1, <2>2 DEF InLine
<1>17. Gapless'
  <2> SUFFICES ASSUME WholeFile
               PROVE  /\ Size' = item'.arrived /\ \A i \in 1 .. Size' : Bytes'[i] = i
                      /\ stage' # "astray" => Follow(heard')
                      /\ InCycle' /\ ~decoder'.found => heard' = <<>>
                      /\ InCycle' /\ Readable /\ ~Exhausted' =>
                            Ends(heard' \o next, item'.arrived)
    BY <1>2 DEF Gapless, next
  <2>1. Size' = item'.arrived /\ item'.arrived = far /\ \A i \in 1 .. Size' : Bytes'[i] = i
    BY <1>1, <1>8 DEF WholeFile, far
  <2>2. CASE Heard(n, k) /\ stage' = "astray"
    BY <2>1, <2>2 DEF InCycle
  <2>3. CASE Heard(n, k) /\ stage' # "astray"
    <3>1. heard' = heard \o taken /\ InCycle /\ events.feed /\ decoder'.found /\ Readable
      BY <2>3 DEF Heard, taken
    <3>2. Len(Input(n)) >= ReadSize /\ Len(Input(n)) <= Len(line) /\ Len(Input(n)) \in Nat
      BY <1>1, <2>3 DEF Heard, line
    <3>3. ~Exhausted
      BY <1>4, <1>12, <1>13, <3>1, <3>2
    <3>4. Ends(heard \o line, far)
      BY <1>8, <3>1, <3>3
    <3>5. (heard \o taken) \o next = heard \o (taken \o next)
      <4>1. heard \in Seq(Units) /\ taken \in Seq(Units) /\ next \in Seq(Units)  BY <1>1, <1>3
      <4>2. Regroups(heard, taken, next)  BY <4>1, SequencesRegroup
      <4> QED  BY <4>2 DEF Regroups
    <3>6. Ends(heard' \o next, far)
      BY <1>5, <3>1, <3>4, <3>5
    <3>7. heard' \in Seq(Int)
      BY <1>15, UnitsAreNumbers
    <3>8. Follow(heard')
      BY <1>4, <1>9, <3>6, <3>7, EndsParts
    <3> QED  BY <2>1, <3>1, <3>6, <3>8
  <2>4. CASE Lost(n, k)
    <3>1. heard' = heard /\ (stage' # "astray" => Follow(heard'))
      BY <1>8, <1>10, <2>4 DEF Lost, StagesOn
    <3>2. InCycle' /\ ~decoder'.found => heard' = <<>>
      BY <1>8, <1>10, <3>1 DEF StagesOn
    <3>3. ASSUME InCycle', Readable, ~Exhausted' PROVE Ends(heard \o next, far)
      <4>1. InCycle /\ ~Exhausted
        BY <1>4, <1>10, <1>11, <1>12, <1>13, <3>3 DEF StagesOn
      <4>2. Ends(heard \o line, far)
        BY <1>8, <3>3, <4>1
      <4>3. CASE k = 0
        <5>1. taken = <<>>  BY <1>1, <4>3, EmptySeq DEF taken
        <5>2. line = next  BY <1>5, <1>9, <5>1, ConcatEmptySeq
        <5> QED  BY <4>2, <5>2
      <4>4. CASE heard = <<>>
        <5>1. heard \o line = line /\ heard \o next = next  BY <1>9, <4>4, ConcatEmptySeq
        <5>2. Ends(taken \o next, far)  BY <1>5, <4>2, <5>1
        <5>3. Ends(next, far)  BY <1>4, <1>9, <5>2, EndsParts
        <5> QED  BY <5>1, <5>3
      <4>5. CASE /\ n = ReadSize /\ Ready /\ stage' = stage /\ ~events'.feed
                 /\ Len(Input(n)) < ReadSize
        <5>1. ~IsStream  BY DEF WholeFile
        <5>2. Len(line) = Len(Input(n))
          BY <1>1, <4>5, <5>1, <1>13 DEF line
        <5>3. Len(line) < ReadSize /\ Len(next) < ReadSize  BY <1>4, <1>13, <4>5, <5>2
        <5>4. Len(line) = Len(fed) + Len(Unread)
          BY WaitingType DEF AudioInv, line
        <5>5. item.finished \/ item.cut \/ wrapper.is_eof
          BY <4>5, <5>1, <5>3, <5>4 DEF Ready
        <5>6. wrapper.is_eof => stage = "playing"
          BY <4>1 DEF AudioInv, Control, Steady, InCycle
        <5>7. Exhausted'
          BY <1>10, <1>11, <4>5, <5>3, <5>5, <5>6 DEF StagesOn
        <5> QED  BY <3>3, <5>7
      <4> QED  BY <2>4, <3>3, <4>1, <4>3, <4>4, <4>5 DEF Lost
    <3> QED  BY <2>1, <3>1, <3>2, <3>3
  <2> QED  BY <2>2, <2>3, <2>4
<1> QED  BY <1>1, <1>16, <1>17

\* What the decoder has for a read are units.
LEMMA InputType ==
    ASSUME Store, NEW n \in Nat
    PROVE  Input(n) \in Seq(Units) /\ Len(Input(n)) \in Nat
<1>1. fed \in Seq(Units) /\ item.data \in Seq(Seq(Units)) /\ Stored /\ Placed
  BY DEF Store, Stored
<1>2. CASE ~Popped
  <2> DEFINE x == SubSeq(Unread, 1, Asked(n))
  <2>1. x \in Seq(Units)
    BY <1>1, UnreadType, AskedRange, SplitSeq
  <2>2. Input(n) = fed \o x
    BY <1>2 DEF Input
  <2> HIDE DEF x
  <2> QED  BY <1>1, <2>1, <2>2, ConcatProperties
<1>3. CASE Popped /\ item.data = <<>>
  <2>1. Input(n) = fed \o <<>>
    BY <1>3 DEF Input
  <2> QED  BY <1>1, <2>1, ConcatEmptySeq
<1>4. CASE Popped /\ item.data # <<>>
  <2> DEFINE x == Head(item.data)
  <2>1. x \in Seq(Units)
    BY <1>1, <1>4, HeadTailProperties
  <2>2. Input(n) = fed \o x
    BY <1>4 DEF Input
  <2> HIDE DEF x
  <2> QED  BY <1>1, <2>1, <2>2, ConcatProperties
<1> QED  BY <1>2, <1>3, <1>4

\* A decoder that has enough for a read of whole packets fills its output.
LEMMA AvailableRange ==
    ASSUME Store
    PROVE  /\ Available \in 0 .. Len(Input(ReadSize)) /\ Fitting \in 0 .. ReadSize
           /\ ReadSize \in Nat \ {0}
           /\ Readable /\ Len(Input(ReadSize)) >= ReadSize => Available >= ReadSize
<1>1. ReadSize \in Nat \ {0} /\ format \in Song
  BY Parameters DEF Store, Stored
<1>2. Len(Input(ReadSize)) \in Nat
  BY <1>1, InputType
<1> QED  BY <1>1, <1>2, WholeRange DEF Available, Fitting

\* All of a sequence, and nothing of it.
LEMMA WholeSeq ==
    ASSUME NEW S, NEW s \in Seq(S)
    PROVE  /\ SubSeq(s, 0 + 1, Len(s)) = s
           /\ SubSeq(s, Len(s) + 1, Len(s)) = <<>>
<1>1. Len(s) \in Nat /\ 0 \in 0 .. Len(s) /\ Len(s) \in 0 .. Len(s)
  OBVIOUS
<1>2. SubSeq(s, 0 + 1, Len(s)) = s
  <2> DEFINE t == SubSeq(s, 0 + 1, Len(s))
  <2>1. t \in Seq(S) /\ Len(t) = Len(s) - 0 /\ \A i \in 1 .. Len(s) - 0 : t[i] = s[0 + i]
    BY <1>1, SplitSeq
  <2> HIDE DEF t
  <2>2. Len(t) = Len(s) /\ \A i \in 1 .. Len(s) : t[i] = s[i]
    BY <1>1, <2>1
  <2>3. t = s
    BY <2>1, <2>2, SeqEqual
  <2> QED  BY <2>3 DEF t
<1>3. SubSeq(s, Len(s) + 1, Len(s)) = <<>>
  <2> DEFINE t == SubSeq(s, Len(s) + 1, Len(s))
  <2>1. t \in Seq(S) /\ Len(t) = Len(s) - Len(s)
    BY <1>1, SplitSeq
  <2> HIDE DEF t
  <2>2. t = <<>>
    BY <1>1, <2>1, EmptySeq
  <2> QED  BY <2>2 DEF t
<1> QED  BY <1>2, <1>3

\* A read that drops a packet has that packet.
LEMMA DroppedRange ==
    ASSUME Store, Available > Fitting
    PROVE  Fitting + format.packet \in 0 .. Len(Input(ReadSize))
<1> DEFINE p == format.packet  n == Len(Input(ReadSize))
           q == n \div p  Q == ReadSize \div p
<1>1. p \in Nat \ {0} /\ ReadSize \in Nat /\ n \in Nat
  BY Parameters, InputType DEF Store, Stored, Song
<1>2. Available = n - (n % p) /\ Fitting = ReadSize - (ReadSize % p)
  BY DEF Available, Fitting, Whole
<1> HIDE DEF p, n
<1>3. q \in Nat /\ n % p \in 0 .. p - 1 /\ n = p * q + (n % p)
  BY <1>1, Division
<1>4. Q \in Nat /\ ReadSize % p \in 0 .. p - 1 /\ ReadSize = p * Q + (ReadSize % p)
  BY <1>1, Division
<1> HIDE DEF q, Q
<1>5. p * q \in Nat /\ p * Q \in Nat
  BY <1>1, <1>3, <1>4
<1>6. Available = p * q /\ Fitting = p * Q
  BY <1>1, <1>2, <1>3, <1>4, <1>5
<1>7. q > Q
  <2> SUFFICES ASSUME q <= Q PROVE FALSE
    BY <1>3, <1>4
  <2>1. p * q <= p * Q  BY <1>1, <1>3, <1>4
  <2> QED  BY <1>5, <1>6, <2>1
<1>8. p * (Q + 1) <= p * q /\ p * (Q + 1) = p * Q + p
  BY <1>1, <1>3, <1>4, <1>7
<1>9. p * Q + p \in 0 .. n
  BY <1>1, <1>3, <1>5, <1>8
<1> QED  BY <1>6, <1>9 DEF p, n

\* A coroutine that runs on leaves the stages as they are.
LEMMA StagesStay ==
    ASSUME AudioInv, stage' = stage, decoder.found => decoder'.found,
           stage = "playing" /\ ~events.feed => ~events'.feed,
           item.finished => item'.finished, item.cut => item'.cut
    PROVE  StagesOn
  BY DEF StagesOn, InCycle

\* The item after a read, in the ways in which it is written.
LEMMA ReadItems ==
    ASSUME Stored, NEW n
    PROVE  /\ [item EXCEPT !.data = Remaining(n)] \in ReadItem(n)
           /\ [item EXCEPT !.data = Remaining(n), !.paused = FALSE] \in ReadItem(n)
           /\ [item EXCEPT !.data = Remaining(n), !.skipped = TRUE] \in ReadItem(n)
           /\ \A i \in {[item EXCEPT !.data = Remaining(n)],
                        [item EXCEPT !.data = Remaining(n), !.paused = FALSE],
                        [item EXCEPT !.data = Remaining(n), !.skipped = TRUE]} :
                 i.finished = item.finished /\ i.cut = item.cut
  BY DEF Stored, ReadItem

\* A full output of a song whose format is known comes from a song that can be read.
LEMMA FullHas ==
    ASSUME Store, Full
    PROVE  /\ ReadSize \in 0 .. Len(Input(ReadSize)) /\ Len(Input(ReadSize)) >= ReadSize
           /\ format.encoding # "other" => Readable
<1>1. Available \in 0 .. Len(Input(ReadSize)) /\ ReadSize \in Nat
  BY AvailableRange
<1>2. Len(Input(ReadSize)) \in Nat
  BY <1>1, InputType
<1> QED  BY <1>1, <1>2 DEF Full, Readable

\* The reads of start_consumer: what fills the output is heard; what does not is lost only
\* at the end of the song, or of a song that read() cannot give.
LEMMA DecodeLine ==
    ASSUME AudioInv, start_consumer, Decode
    PROVE  Store' /\ InLine' /\ Gapless'
<1>1. /\ Store /\ Stored /\ format' = format /\ HasTask /\ events.feed /\ Ready
      /\ decoder' = [decoder EXCEPT !.open = TRUE, !.known = @ \/ ~IsMpg123]
  BY DEF AudioInv, Store, start_consumer, Decode
<1>2. /\ decoder'.found = decoder.found /\ stage # "astray"
      /\ decoder.found => InCycle
  BY <1>1 DEF AudioInv, Control, Steady, HasTask, InCycle
<1>3. /\ Available \in 0 .. Len(Input(ReadSize)) /\ ReadSize \in Nat
      /\ Readable /\ Len(Input(ReadSize)) >= ReadSize => Available >= ReadSize
  BY <1>1, AvailableRange
<1>4. Len(Input(ReadSize)) \in Nat
  BY <1>1, <1>3, InputType
<1>5. CASE ReadOk \/ ResampleFails
  <2>1. /\ Full /\ decoder.found /\ format.encoding # "other" /\ Take(ReadSize)
        /\ Leave(ReadSize) /\ heard' = heard \o Decoded /\ stage' = stage /\ events' = events
    BY <1>5 DEF ReadOk, ResampleFails
  <2>2. item' = [item EXCEPT !.data = Remaining(ReadSize)] /\ wrapper' = MoveReader(ReadSize)
    BY <2>1 DEF Take
  <2>3. /\ item' \in ReadItem(ReadSize)
        /\ item'.finished = item.finished /\ item'.cut = item.cut
    BY <1>1, <2>2, ReadItems
  <2>4. StagesOn
    BY <1>2, <2>1, <2>3, StagesStay
  <2>5. ReadStep(ReadSize, ReadSize)
    BY <1>1, <2>1, <2>2, <2>3, <2>4 DEF Leave, ReadStep
  <2>6. ReadSize \in 0 .. Len(Input(ReadSize)) /\ Heard(ReadSize, ReadSize)
    BY <1>1, <1>2, <2>1, FullHas DEF Heard, Decoded
  <2> QED  BY <1>3, <2>5, <2>6, ReadKeeps
<1>6. CASE ReadUnsupported
  <2>1. /\ Full /\ format.encoding = "other" /\ Leave(ReadSize) /\ heard' = heard
        /\ item' = [item EXCEPT !.data = Remaining(ReadSize), !.skipped = TRUE]
        /\ wrapper' = MoveReader(ReadSize) /\ stage' = stage /\ ~events'.feed
    BY <1>6 DEF ReadUnsupported
  <2>2. /\ item' \in ReadItem(ReadSize)
        /\ item'.finished = item.finished /\ item'.cut = item.cut
    BY <1>1, <2>1, ReadItems
  <2>3. StagesOn
    BY <1>2, <2>1, <2>2, StagesStay
  <2>4. ReadStep(ReadSize, ReadSize)
    BY <1>1, <2>1, <2>2, <2>3 DEF Leave, ReadStep
  <2>5. ReadSize \in 0 .. Len(Input(ReadSize)) /\ Lost(ReadSize, ReadSize)
    BY <1>1, <2>1, FullHas DEF Lost, Readable
  <2> QED  BY <1>3, <2>4, <2>5, ReadKeeps
<1>7. CASE ReadUnknown
  <2>1. /\ Full /\ Take(ReadSize) /\ Leave(ReadSize) /\ heard' = heard \o Decoded
        /\ stage' = "astray"
    BY <1>7 DEF ReadUnknown
  <2>2. item' = [item EXCEPT !.data = Remaining(ReadSize)] /\ wrapper' = MoveReader(ReadSize)
    BY <2>1 DEF Take
  <2>3. /\ item' \in ReadItem(ReadSize)
        /\ item'.finished = item.finished /\ item'.cut = item.cut
    BY <1>1, <2>2, ReadItems
  <2>4. StagesOn
    BY <2>1, <2>3 DEF StagesOn, InCycle
  <2>5. ReadStep(ReadSize, ReadSize)
    BY <1>1, <2>1, <2>2, <2>3, <2>4 DEF Leave, ReadStep
  <2>6. ReadSize \in 0 .. Len(Input(ReadSize)) /\ Heard(ReadSize, ReadSize)
    BY <1>1, <2>1, FullHas DEF Heard, Decoded
  <2> QED  BY <1>3, <2>5, <2>6, ReadKeeps
<1>8. CASE ReadError
  <2> DEFINE k == Fitting + format.packet
  <2>1. /\ Available > Fitting /\ Fitting < ReadSize /\ Take(ReadSize) /\ Leave(k)
        /\ heard' = heard /\ stage' = stage /\ events' = [events EXCEPT !.feed = FALSE]
    BY <1>8 DEF ReadError
  <2>2. item' = [item EXCEPT !.data = Remaining(ReadSize)] /\ wrapper' = MoveReader(ReadSize)
    BY <2>1 DEF Take
  <2>3. /\ item' \in ReadItem(ReadSize)
        /\ item'.finished = item.finished /\ item'.cut = item.cut
    BY <1>1, <2>2, ReadItems
  <2>4. StagesOn
    BY <1>1, <1>2, <2>1, <2>3 DEF StagesOn, InCycle, AudioInv, Control
  <2>5. k \in 0 .. Len(Input(ReadSize))
    BY <1>1, <2>1, DroppedRange
  <2>6. ~Readable
    BY <1>3, <2>1 DEF Readable
  <2> HIDE DEF k
  <2>7. ReadStep(ReadSize, k)
    BY <1>1, <2>1, <2>2, <2>3, <2>4 DEF Leave, ReadStep
  <2>8. Lost(ReadSize, k)
    BY <2>1, <2>6 DEF Lost
  <2> QED  BY <1>3, <2>5, <2>7, <2>8, ReadKeeps
<1>9. CASE ReadDone \/ ReadNeedMore
  <2>1. /\ Available <= Fitting /\ Available < ReadSize /\ Leave(Available)
        /\ wrapper' = MoveReader(ReadSize) /\ heard' = heard /\ stage' = stage
    BY <1>9 DEF ReadDone, ReadNeedMore, ReadTooLittle
  <2>2. ~events'.feed
    BY <1>9 DEF ReadDone, ReadNeedMore, AudioInv, Control
  <2>3. /\ item' \in ReadItem(ReadSize)
        /\ item'.finished = item.finished /\ item'.cut = item.cut
    BY <1>1, <1>9, ReadItems DEF ReadDone, ReadNeedMore
  <2>4. StagesOn
    BY <1>2, <2>1, <2>2, <2>3, StagesStay
  <2>5. ReadStep(ReadSize, Available)
    BY <1>1, <2>1, <2>3, <2>4 DEF Leave, ReadStep
  <2>6. Readable => Len(Input(ReadSize)) < ReadSize
    BY <1>3, <1>4, <2>1
  <2>7. Lost(ReadSize, Available)
    BY <1>1, <2>1, <2>2, <2>6 DEF Lost
  <2> QED  BY <1>3, <2>5, <2>7, ReadKeeps
<1> QED  BY <1>5, <1>6, <1>7, <1>8, <1>9 DEF Decode

\* What a closed decoder takes is lost, of a song nobody has heard, or when its cycle is over.
LEMMA ClosedLine ==
    ASSUME AudioInv, start_consumer, ReadClosed
    PROVE  Store' /\ InLine' /\ Gapless'
<1> DEFINE n == IF IsMpg123 THEN 0 ELSE 1
           k == Len(Input(n))
<1>1. /\ Store /\ Stored /\ format' = format /\ Take(n) /\ fed' = <<>> /\ heard' = heard
      /\ stage' = stage /\ decoder' = decoder /\ ~decoder.open
      /\ events' = [events EXCEPT !.feed = FALSE]
  BY DEF AudioInv, Store, start_consumer, ReadClosed
<1>2. n \in Nat
  OBVIOUS
<1> HIDE DEF n
<1>3. Input(n) \in Seq(Units) /\ k \in Nat
  BY <1>1, <1>2, InputType
<1>4. SubSeq(Input(n), k + 1, Len(Input(n))) = <<>> /\ k \in 0 .. Len(Input(n))
  BY <1>3, WholeSeq
<1>5. item' = [item EXCEPT !.data = Remaining(n)] /\ wrapper' = MoveReader(n)
  BY <1>1 DEF Take
<1>6. item' \in ReadItem(n) /\ item'.finished = item.finished /\ item'.cut = item.cut
  BY <1>1, <1>5, ReadItems
<1>7. StagesOn
  BY <1>1, <1>6 DEF StagesOn, InCycle, AudioInv, Control
<1>8. ReadStep(n, k)
  BY <1>1, <1>4, <1>5, <1>6, <1>7 DEF ReadStep
<1>9. WholeFile /\ InCycle => heard = <<>>
  BY <1>1 DEF AudioInv, Control, Steady, Gapless
<1> HIDE DEF k
<1>10. Lost(n, k)
  BY <1>1, <1>9 DEF Lost
<1> QED  BY <1>2, <1>4, <1>8, <1>10, ReadKeeps

\* A read of start_consumer keeps the line.
LEMMA ReadLine ==
    ASSUME AudioInv, start_consumer
    PROVE  Store' /\ InLine' /\ Gapless'
  BY DecodeLine, ClosedLine DEF start_consumer

\* getAudioFormat keeps what it takes; when it fails, what it has thrown away is the head
\* of a song nobody has heard.
LEMMA OpenLine ==
    ASSUME AudioInv, Open
    PROVE  Store' /\ InLine' /\ Gapless'
<1>1. /\ Store /\ Stored /\ stage = "asking" /\ format' = format /\ Take(1) /\ heard' = heard
      /\ ~decoder.found
      /\ OpenSucceeds \/ OpenAgain \/ FeedUnopened
  BY DEF AudioInv, Store, Open, Control, Steady
<1>2. Input(1) \in Seq(Units) /\ Len(Input(1)) \in Nat /\ 1 \in Nat
  BY <1>1, InputType
<1>3. /\ SubSeq(Input(1), 0 + 1, Len(Input(1))) = Input(1)
      /\ SubSeq(Input(1), Len(Input(1)) + 1, Len(Input(1))) = <<>>
  BY <1>2, WholeSeq
<1>4. item' = [item EXCEPT !.data = Remaining(1)] /\ wrapper' = MoveReader(1)
  BY <1>1 DEF Take
<1>5. item' \in ReadItem(1) /\ item'.finished = item.finished /\ item'.cut = item.cut
  BY <1>1, <1>4, ReadItems
<1>6. StagesOn
  BY <1>1, <1>5 DEF StagesOn, InCycle
<1>7. WholeFile /\ InCycle => heard = <<>>
  BY <1>1 DEF AudioInv, Gapless
<1>8. CASE fed' = Input(1)
  <2>1. ReadStep(1, 0)
    BY <1>1, <1>3, <1>4, <1>5, <1>6, <1>8 DEF ReadStep
  <2>2. Lost(1, 0) /\ 0 \in 0 .. Len(Input(1))
    BY <1>1, <1>2 DEF Lost
  <2> QED  BY <1>2, <2>1, <2>2, ReadKeeps
<1>9. CASE fed' = <<>>
  <2>1. ReadStep(1, Len(Input(1)))
    BY <1>1, <1>3, <1>4, <1>5, <1>6, <1>9 DEF ReadStep
  <2>2. Lost(1, Len(Input(1))) /\ Len(Input(1)) \in 0 .. Len(Input(1))
    BY <1>1, <1>2, <1>7 DEF Lost
  <2> QED  BY <1>2, <2>1, <2>2, ReadKeeps
<1>10. fed' = Input(1) \/ fed' = <<>>
  BY <1>1 DEF OpenSucceeds, OpenAgain, FeedUnopened, OpenFails
<1> QED  BY <1>8, <1>9, <1>10

-----------------------------------------------------------------------------
(* The other steps along the line.                                         *)
\* Steps that move no unit.
LEMMA SameLine ==
    ASSUME AudioInv,
           \/ Setup \/ Enough \/ FeedDecoder \/ SetEof \/ DownloadFinished
           \/ cancelTask \/ doSkip \/ setVolume \/ encode_opus_frame
    PROVE  Store' /\ InLine' /\ Gapless'
<1>1. Stored /\ Control /\ (stage \in {"probing", "opening"} => ~decoder.found)
  BY DEF AudioInv, Store, Control, Steady
<1>2. wrapper \in [pos : {wrapper.pos}, is_eof : BOOLEAN] /\ item \in SameItem
  BY <1>1 DEF Stored, SameItem
<1>3. CASE Setup \/ Enough
  <2>1. StagesOn
    BY <1>1, <1>3 DEF Setup, Enough, StagesOn, InCycle
  <2> QED  BY <1>2, <1>3, <2>1, SameKeeps DEF Setup, Enough
<1>4. CASE FeedDecoder
  <2>1. StagesOn
    BY <1>4 DEF FeedDecoder, StagesOn, InCycle
  <2> QED  BY <1>2, <1>4, <2>1, SameKeeps DEF FeedDecoder
<1>5. CASE SetEof
  <2>1. StagesOn
    BY <1>5 DEF SetEof, StagesOn, InCycle
  <2>2. wrapper' \in [pos : {wrapper.pos}, is_eof : BOOLEAN]
    BY <1>1, <1>5 DEF SetEof, Stored
  <2> QED  BY <1>2, <1>5, <2>1, <2>2, SameKeeps DEF SetEof
<1>6. CASE DownloadFinished \/ cancelTask \/ doSkip
  <2>1. /\ item' \in SameItem /\ (item.finished => item'.finished) /\ (item.cut => item'.cut)
    BY <1>1, <1>6 DEF DownloadFinished, cancelTask, doSkip, Stored, SameItem
  <2>2. stage' = stage /\ decoder' = decoder /\ (events' = events \/ ~events'.feed)
    BY <1>6 DEF DownloadFinished, cancelTask, doSkip
  <2>3. StagesOn
    BY <2>1, <2>2, StagesStay
  <2> QED  BY <1>2, <1>6, <2>1, <2>3, SameKeeps DEF DownloadFinished, cancelTask, doSkip
<1>7. CASE setVolume \/ encode_opus_frame
  <2>1. /\ format' = format /\ fed' = fed /\ heard' = heard /\ wrapper' = wrapper
        /\ item' = item /\ decoder' = decoder /\ events' = events
        /\ stage' = stage \/ (stage' = "astray" /\ stage # "astray")
    BY <1>7 DEF setVolume, encode_opus_frame, EncodeFrame, EncodeOverrun, EncodeFails, KeepRest
  <2>2. StagesOn
    BY <2>1 DEF StagesOn, InCycle
  <2> QED  BY <1>2, <2>1, <2>2, SameKeeps
<1> QED  BY <1>3, <1>4, <1>5, <1>6, <1>7

\* What the reset decoder throws away is not missed between songs.
LEMMA EndSongLine ==
    ASSUME AudioInv, EndSong
    PROVE  Store' /\ InLine' /\ Gapless'
<1>1. /\ format' = format /\ item' = item /\ wrapper' = wrapper /\ heard' = heard
      /\ fed' = <<>> /\ stage' = "idle"
  BY DEF EndSong
<1>2. /\ Bytes' = Bytes /\ Size' = Size /\ IsStream' = IsStream /\ Unread' = Unread
      /\ WholeFile' = WholeFile
  BY <1>1 DEF Bytes, Size, IsStream, Unread, WholeFile
<1>3. Store'
  BY <1>1, <1>2, EmptySeq DEF AudioInv, Store, Stored, Placed, Bounded
<1>4. fed \in Seq(Units) /\ Unread \in Seq(Units)
  BY UnreadType DEF AudioInv, Store, Stored
<1>5. Waiting' = Unread
  BY <1>1, <1>2, <1>4, ConcatEmptySeq DEF Waiting
<1>6. InLine'
  <2>1. /\ fed \in Seq(Int) /\ Unread \in Seq(Int) /\ heard \in Seq(Int)
        /\ item.write_queue \in Seq(Int) /\ item.arrived \in Int
    BY <1>4, UnitsAreNumbers DEF AudioInv, InLine, Store, Stored
  <2>2. Sorted(Unread) /\ Below(heard, Unread) /\ Below(Unread, item.write_queue)
    BY <2>1, ConcatSorted, ConcatBelow DEF AudioInv, InLine, Waiting
  <2>3. UpTo(Unread, item.arrived)
    BY <2>1, ConcatUpTo DEF AudioInv, InLine, Waiting
  <2> QED  BY <1>1, <1>2, <1>5, <2>2, <2>3 DEF AudioInv, InLine
<1>7. Gapless'
  BY <1>1, <1>2 DEF AudioInv, Gapless, InCycle, EndSong
<1> QED  BY <1>3, <1>6, <1>7

\* The empty sequence is a line, before and after every other.
LEMMA EmptyLine ==
    /\ Len(<<>>) = 0 /\ Sorted(<<>>) /\ Follow(<<>>)
    /\ \A s : Below(<<>>, s) /\ Below(s, <<>>)
    /\ \A n : UpTo(<<>>, n) /\ Ends(<<>>, n)
  BY DEF Sorted, Follow, Below, UpTo, Ends

\* A song begins with an empty line.
LEMMA StartSongLine ==
    ASSUME AudioInv, StartSong
    PROVE  Store' /\ InLine' /\ Gapless'
<1>1. /\ format' \in Song /\ item' = NewItem /\ wrapper' = [pos |-> 0, is_eof |-> FALSE]
      /\ fed' = <<>> /\ heard' = <<>>
  BY FormatsAreSongs DEF StartSong
<1>2. Bytes' = <<>> /\ Size' = 0
  BY <1>1, FlattenEmpty DEF Bytes, Size, NewItem
<1>3. Unread' = <<>>
  <2>1. CASE IsStream'
    BY <1>2, <2>1 DEF Unread
  <2>2. CASE ~IsStream'
    <3>1. SubSeq(<<>>, 0 + 1, 0) = <<>>
      OBVIOUS
    <3> QED  BY <1>1, <1>2, <2>2, <3>1 DEF Unread
  <2> QED  BY <2>1, <2>2
<1>4. Waiting' = <<>> /\ <<>> \o <<>> = <<>>
  BY <1>1, <1>3 DEF Waiting
<1>5. Store'
  <2>1. Stored'
    BY <1>1, Parameters, EmptySeq DEF Stored, NewItem
  <2>2. Placed'
    BY <1>1, <1>2 DEF Placed, NewItem
  <2>3. Bounded'
    BY <1>1, <1>2, Parameters, SMTT(30) DEF Bounded, NewItem, Song
  <2> QED  BY <2>1, <2>2, <2>3 DEF Store
<1>6. InLine'
  BY <1>1, <1>2, <1>4, EmptyLine, EmptySeq DEF InLine, NewItem
<1>7. Gapless'
  BY <1>1, <1>2, <1>4, EmptyLine DEF Gapless, NewItem
<1> QED  BY <1>5, <1>6, <1>7

\* So does the program.
LEMMA InitLine == AudioInit => Store /\ InLine /\ Gapless
<1> SUFFICES ASSUME AudioInit PROVE Store /\ InLine /\ Gapless
  OBVIOUS
<1>1. /\ format \in Song /\ item = NewItem /\ wrapper = [pos |-> 0, is_eof |-> FALSE]
      /\ fed = <<>> /\ heard = <<>> /\ stage = "idle"
  BY FormatsAreSongs DEF AudioInit
<1>2. Bytes = <<>> /\ Size = 0
  BY <1>1, FlattenEmpty DEF Bytes, Size, NewItem
<1>3. Unread = <<>>
  <2>1. CASE IsStream
    BY <1>2, <2>1 DEF Unread
  <2>2. CASE ~IsStream
    <3>1. SubSeq(<<>>, 0 + 1, 0) = <<>>
      OBVIOUS
    <3> QED  BY <1>1, <1>2, <2>2, <3>1 DEF Unread
  <2> QED  BY <2>1, <2>2
<1>4. Waiting = <<>> /\ <<>> \o <<>> = <<>>
  BY <1>1, <1>3 DEF Waiting
<1>5. Store
  <2>1. Stored
    BY <1>1, Parameters, EmptySeq DEF Stored, NewItem
  <2>2. Placed
    BY <1>1, <1>2 DEF Placed, NewItem
  <2>3. Bounded
    BY <1>1, <1>2, Parameters, SMTT(30) DEF Bounded, NewItem, Song
  <2> QED  BY <2>1, <2>2, <2>3 DEF Store
<1>6. InLine
  BY <1>1, <1>2, <1>4, EmptyLine, EmptySeq DEF InLine, NewItem
<1>7. Gapless
  BY <1>1, <1>2, <1>4, EmptyLine DEF Gapless, NewItem
<1> QED  BY <1>5, <1>6, <1>7

\* The place of a seek lies in what has arrived; the line begins there anew.
LEMMA SeekLine ==
    ASSUME AudioInv, seekSecond
    PROVE  Store' /\ InLine' /\ Gapless'
<1>1. /\ Store /\ Stored /\ Placed /\ ~IsStream /\ format' = format /\ item' = item
      /\ fed' = <<>> /\ heard' = <<>>
  BY DEF AudioInv, Store, seekSecond, Request, MoveTo
<1>2. PICK place \in 0 .. Size : MoveTo(Landed(place))
  BY DEF seekSecond
<1>3. Bytes \in Seq(Units) /\ Size \in Nat /\ Size = Len(Bytes) /\ Size <= item.arrived
  BY <1>1, BytesType DEF Placed, Size
<1>4. item.arrived \in 0 .. SongSize /\ SongSize \in Nat
  BY <1>1, Parameters DEF Stored
<1> DEFINE p == Landed(place)
<1>5. p \in 0 .. Size
  <2>1. CASE IsMpg123
    BY <1>2, <2>1 DEF Landed
  <2>2. CASE ~IsMpg123
    <3> DEFINE q == place + format.packet  s == Size
    <3>1. q \in Nat /\ s \in Nat  BY <1>1, <1>2, <1>3 DEF Stored, Song
    <3>2. p = Min({q, s})  BY <2>2 DEF Landed
    <3> HIDE DEF p, q, s
    <3>3. p \in {q, s} /\ p <= s  BY <3>1, <3>2, MinOfTwo
    <3>4. p \in 0 .. s  BY <3>1, <3>3
    <3> QED  BY <3>4 DEF s
  <2> QED  BY <2>1, <2>2
<1>6. wrapper' = [wrapper EXCEPT !.pos = p]
  BY <1>2 DEF MoveTo
<1> HIDE DEF p
<1>7. /\ Bytes' = Bytes /\ Size' = Size /\ IsStream' = IsStream /\ WholeFile' = WholeFile
  BY <1>1 DEF Bytes, Size, IsStream, WholeFile
<1>8. wrapper' \in [pos : {p}, is_eof : BOOLEAN]
  BY <1>1, <1>6 DEF Stored
<1>9. Store'
  <2>1. Stored'
    <3>1. wrapper' \in [pos : 0 .. SongSize, is_eof : BOOLEAN]
      <4>1. p \in 0 .. SongSize  BY <1>3, <1>4, <1>5
      <4> QED  BY <1>8, <4>1
    <3> QED  BY <1>1, <3>1, EmptySeq DEF Stored
  <2>2. Placed' /\ Bounded'
    BY <1>1, <1>5, <1>7, <1>8 DEF Store, Placed, Bounded
  <2> QED  BY <2>1, <2>2 DEF Store
<1> DEFINE rest == SubSeq(Bytes, p + 1, Len(Bytes))
<1>10. /\ rest \in Seq(Units) /\ Len(rest) = Len(Bytes) - p
       /\ \A i \in 1 .. Len(Bytes) - p : rest[i] = Bytes[p + i]
  BY <1>3, <1>5, SplitSeq
<1>11. Unread' = rest
  BY <1>1, <1>3, <1>7, <1>8 DEF Unread
<1> HIDE DEF rest
<1>12. Waiting' = rest
  BY <1>1, <1>10, <1>11, ConcatEmptySeq DEF Waiting
<1>13. \A i \in 1 .. Len(rest) : /\ p + i \in 1 .. Len(Bytes) /\ rest[i] = Bytes[p + i]
  BY <1>3, <1>5, <1>10
<1>14. InLine'
  <2>1. Sorted(Bytes) /\ UpTo(Bytes, item.arrived) /\ Sorted(item.write_queue)
        /\ UpTo(item.write_queue, item.arrived)
    BY <1>1 DEF AudioInv, InLine
  <2>2. Sorted(rest)
    <3> SUFFICES ASSUME NEW i \in 1 .. Len(rest), NEW j \in 1 .. Len(rest), i < j
                 PROVE  rest[i] < rest[j]
      BY DEF Sorted
    <3>1. p + i < p + j  BY <1>3, <1>5, <1>10
    <3> QED  BY <1>13, <2>1, <3>1 DEF Sorted
  <2>3. UpTo(rest, item.arrived)
    BY <1>13, <2>1 DEF UpTo
  <2>4. item.write_queue = <<>>
    BY <1>1 DEF Placed
  <2> QED  BY <1>1, <1>7, <1>12, <2>1, <2>2, <2>3, <2>4, EmptyLine, EmptySeq DEF InLine
<1>15. Gapless'
  <2> SUFFICES ASSUME WholeFile
               PROVE  /\ Size' = item'.arrived /\ \A i \in 1 .. Size' : Bytes'[i] = i
                      /\ Follow(heard') /\ Ends(heard' \o Waiting', item'.arrived)
    BY <1>1, <1>7 DEF Gapless
  <2>1. Size = item.arrived /\ \A i \in 1 .. Size : Bytes[i] = i
    BY DEF AudioInv, Gapless
  <2>2. Ends(rest, item.arrived)
    <3> SUFFICES ASSUME NEW i \in 1 .. Len(rest) PROVE rest[i] = item.arrived - Len(rest) + i
      BY DEF Ends
    <3>1. rest[i] = p + i  BY <1>3, <1>13, <2>1
    <3> QED  BY <1>3, <1>5, <1>10, <2>1, <3>1, SMTT(30)
  <2>3. heard' \o Waiting' = rest
    BY <1>1, <1>10, <1>12, ConcatEmptySeq
  <2> QED  BY <1>1, <1>7, <2>1, <2>2, <2>3, EmptyLine
<1> QED  BY <1>9, <1>14, <1>15

-----------------------------------------------------------------------------
(* What arrives joins the end of the line, or is lost there.               *)
\* The units of a chunk.
LEMMA IntervalIs ==
    ASSUME NEW a \in 0 .. SongSize, NEW n \in Nat \ {0}, a + n <= SongSize
    PROVE  /\ Interval(a + 1, a + n) \in Seq(Units) /\ Len(Interval(a + 1, a + n)) = n
           /\ \A i \in 1 .. n : Interval(a + 1, a + n)[i] = a + i
<1> DEFINE u == Interval(a + 1, a + n)
<1>1. a \in Nat /\ SongSize \in Nat /\ (a + n) - (a + 1) + 1 = n
  BY Parameters
<1>2. u = [i \in 1 .. n |-> (a + 1) + i - 1]
  BY <1>1 DEF Interval
<1> HIDE DEF u
<1>3. \A i \in 1 .. n : (a + 1) + i - 1 = a + i /\ a + i \in Units
  BY <1>1 DEF Units
<1>4. \A i \in 1 .. n : u[i] = a + i
  BY <1>2, <1>3
<1>5. u \in Seq(Units) /\ Len(u) = n
  BY <1>2, <1>3
<1> QED  BY <1>4, <1>5 DEF u

\* A chunk begins where the last one has ended: it comes behind all that has arrived.
LEMMA IntervalInLine ==
    ASSUME NEW a \in Nat, NEW n \in Nat, NEW u \in Seq(Int), Len(u) = n,
           \A i \in 1 .. n : u[i] = a + i
    PROVE  /\ Sorted(u) /\ UpTo(u, a + n)
           /\ \A s \in Seq(Int) : UpTo(s, a) => Below(s, u) /\ UpTo(s, a + n)
<1>1. Sorted(u)
  <2> SUFFICES ASSUME NEW i \in 1 .. Len(u), NEW j \in 1 .. Len(u), i < j PROVE u[i] < u[j]
    BY DEF Sorted
  <2>1. u[i] = a + i /\ u[j] = a + j  OBVIOUS
  <2> QED  BY <2>1
<1>2. UpTo(u, a + n)
  BY DEF UpTo
<1>3. ASSUME NEW s \in Seq(Int), UpTo(s, a) PROVE Below(s, u) /\ UpTo(s, a + n)
  <2>1. \A i \in 1 .. Len(s) : s[i] \in Int /\ s[i] <= a  BY <1>3 DEF UpTo
  <2>2. \A i \in 1 .. Len(u) : u[i] = a + i  OBVIOUS
  <2>3. ASSUME NEW i \in 1 .. Len(s), NEW j \in 1 .. Len(u) PROVE s[i] < u[j]
    BY <2>1, <2>2
  <2>4. ASSUME NEW i \in 1 .. Len(s) PROVE s[i] <= a + n
    BY <2>1
  <2> QED  BY <2>3, <2>4 DEF Below, UpTo
<1> QED  BY <1>1, <1>2, <1>3

OnLine(h, w, q, a) ==
    /\ h \in Seq(Units) /\ w \in Seq(Units) /\ q \in Seq(Units)
    /\ Sorted(h) /\ Sorted(w) /\ Sorted(q) /\ Below(h, w) /\ Below(h, q) /\ Below(w, q)
    /\ UpTo(h, a) /\ UpTo(w, a) /\ UpTo(q, a)

Arrives(u, a, n) == u \in Seq(Units) /\ Len(u) = n /\ \A i \in 1 .. n : u[i] = a + i

Joins(u, w, q, w1, q1) ==
    \/ w1 = w \o (q \o u) /\ q1 = <<>>
    \/ w1 = w /\ q1 = <<>>
    \/ w1 = w /\ q1 = q \o u

\* However the end of the line is divided between the queues, or lost, it is a line.
LEMMA LineGrows ==
    ASSUME NEW h, NEW w, NEW q, NEW u, NEW a \in Nat, NEW n \in Nat, NEW w1, NEW q1,
           OnLine(h, w, q, a), Arrives(u, a, n), Joins(u, w, q, w1, q1)
    PROVE  OnLine(h, w1, q1, a + n)
<1>0. /\ h \in Seq(Units) /\ w \in Seq(Units) /\ q \in Seq(Units) /\ u \in Seq(Units)
      /\ Sorted(h) /\ Sorted(w) /\ Sorted(q) /\ Below(h, w) /\ Below(h, q) /\ Below(w, q)
      /\ UpTo(h, a) /\ UpTo(w, a) /\ UpTo(q, a)
      /\ Len(u) = n /\ \A i \in 1 .. n : u[i] = a + i
  BY DEF OnLine, Arrives
<1>1. /\ h \in Seq(Int) /\ w \in Seq(Int) /\ q \in Seq(Int) /\ u \in Seq(Int) /\ a + n \in Int
  BY <1>0, UnitsAreNumbers
<1>2. /\ Sorted(u) /\ UpTo(u, a + n)
      /\ Below(h, u) /\ UpTo(h, a + n) /\ Below(w, u) /\ UpTo(w, a + n)
      /\ Below(q, u) /\ UpTo(q, a + n)
  BY <1>0, <1>1, IntervalInLine
<1> DEFINE c == q \o u
<1>3. c \in Seq(Units) /\ c \in Seq(Int)
  <2>1. c \in Seq(Units)  BY <1>0, ConcatProperties
  <2> QED  BY <2>1, UnitsAreNumbers
<1>4. Sorted(c) /\ Below(h, c) /\ Below(w, c) /\ UpTo(c, a + n)
  BY <1>0, <1>1, <1>2, ConcatSorted, ConcatBelow, ConcatUpTo
<1> HIDE DEF c
<1>5. CASE w1 = w \o c /\ q1 = <<>>
  <2> DEFINE d == w \o c
  <2>1. d \in Seq(Units)  BY <1>0, <1>3, ConcatProperties
  <2>2. Sorted(d) /\ Below(h, d) /\ UpTo(d, a + n)
    BY <1>0, <1>1, <1>2, <1>3, <1>4, ConcatSorted, ConcatBelow, ConcatUpTo
  <2> HIDE DEF d
  <2>3. w1 = d  BY <1>5 DEF d
  <2> QED  BY <1>0, <1>2, <1>5, <2>1, <2>2, <2>3, EmptyLine, EmptySeq DEF OnLine
<1>6. CASE w1 = w /\ q1 = <<>>
  BY <1>0, <1>2, <1>6, EmptyLine, EmptySeq DEF OnLine
<1>7. CASE w1 = w /\ q1 = c
  BY <1>0, <1>2, <1>3, <1>4, <1>7 DEF OnLine
<1> QED  BY <1>5, <1>6, <1>7 DEF c, Joins

\* Units that follow one another up to a are followed by the next chunk.
LEMMA EndsExtended ==
    ASSUME NEW s \in Seq(Int), NEW a \in Nat, NEW n \in Nat, Ends(s, a),
           NEW u \in Seq(Int), Len(u) = n, \A i \in 1 .. n : u[i] = a + i
    PROVE  Ends(s \o u, a + n)
<1> DEFINE d == s \o u
<1>1. Len(d) = Len(s) + n /\ Len(s) \in Nat
  BY ConcatLength
<1>2. \A k \in 1 .. Len(d) : \/ k \in 1 .. Len(s) /\ d[k] = s[k]
                             \/ k - Len(s) \in 1 .. Len(u) /\ d[k] = u[k - Len(s)]
  BY ConcatIndex
<1> HIDE DEF d
<1>3. ASSUME NEW k \in 1 .. Len(d) PROVE d[k] = (a + n) - Len(d) + k
  <2>1. CASE k \in 1 .. Len(s) /\ d[k] = s[k]
    <3>1. s[k] = a - Len(s) + k  BY <2>1 DEF Ends
    <3> QED  BY <1>1, <2>1, <3>1
  <2>2. CASE k - Len(s) \in 1 .. Len(u) /\ d[k] = u[k - Len(s)]
    <3>1. u[k - Len(s)] = a + (k - Len(s))  BY <2>2
    <3> QED  BY <1>1, <2>2, <3>1
  <2> QED  BY <1>2, <2>1, <2>2
<1>4. Ends(d, a + n)
  BY <1>3 DEF Ends
<1> QED  BY <1>4 DEF d

\* How the chunks of a stream are kept.
LEMMA StreamCases ==
    ASSUME Stored, NEW u \in Seq(Units), WriteStream(u)
    PROVE  LET c == item.write_queue \o u
           IN  /\ IsStream /\ c \in Seq(Units) /\ Len(c) = Len(item.write_queue) + Len(u)
               /\ item'.arrived = item.arrived + Len(u) /\ item'.paused \in BOOLEAN
               /\ \/ /\ Len(c) > FlushSize /\ ~(Size > QueueLimit)
                     /\ item'.data = Append(item.data, c) /\ item'.write_queue = <<>>
                  \/ item'.data = item.data /\ item'.write_queue = <<>>
                  \/ /\ ~(Len(c) > FlushSize)
                     /\ item'.data = item.data /\ item'.write_queue = c
<1> DEFINE c == item.write_queue \o u
           flush == Len(c) > FlushSize
           full == Size > QueueLimit
<1>1. c \in Seq(Units) /\ Len(c) = Len(item.write_queue) + Len(u)
  BY ConcatProperties DEF Stored
<1>2. /\ IsStream
      /\ item' = [item EXCEPT
            !.arrived = @ + Len(u),
            !.write_queue = IF flush THEN <<>> ELSE c,
            !.data = IF flush /\ ~full THEN Append(@, c) ELSE @,
            !.paused = flush /\ full]
  BY DEF WriteStream
<1>3. full \in BOOLEAN /\ flush \in BOOLEAN
  OBVIOUS
<1>4. /\ item'.arrived = item.arrived + Len(u)
      /\ item'.paused = (flush /\ full)
      /\ item'.write_queue = IF flush THEN <<>> ELSE c
      /\ item'.data = IF flush /\ ~full THEN Append(item.data, c) ELSE item.data
  <2> HIDE DEF c, flush, full
  <2> QED  BY <1>2, <1>3 DEF Stored
<1> QED  BY <1>1, <1>2, <1>3, <1>4

\* What is stored behind comes behind what is unread.
LEMMA RestConcat ==
    ASSUME NEW S, NEW s \in Seq(S), NEW u \in Seq(S), NEW p \in 0 .. Len(s)
    PROVE  SubSeq(s \o u, p + 1, Len(s \o u)) = SubSeq(s, p + 1, Len(s)) \o u
<1> DEFINE c == s \o u
           r == SubSeq(s, p + 1, Len(s))
           t == SubSeq(c, p + 1, Len(c))
<1>1. /\ c \in Seq(S) /\ Len(c) = Len(s) + Len(u) /\ Len(s) \in Nat /\ Len(u) \in Nat
      /\ p \in 0 .. Len(c)
  BY ConcatProperties
<1>2. /\ \A i \in 1 .. Len(s) : c[i] = s[i]
      /\ \A i \in 1 .. Len(u) : c[Len(s) + i] = u[i]
  BY ConcatIndex
<1>3. /\ r \in Seq(S) /\ Len(r) = Len(s) - p /\ \A i \in 1 .. Len(s) - p : r[i] = s[p + i]
  BY SplitSeq
<1> HIDE DEF c, r
<1>4. /\ t \in Seq(S) /\ Len(t) = Len(c) - p /\ \A i \in 1 .. Len(c) - p : t[i] = c[p + i]
  BY <1>1, SplitSeq
<1> HIDE DEF t
<1> DEFINE ru == r \o u
<1>5. /\ ru \in Seq(S) /\ Len(ru) = Len(r) + Len(u)
      /\ \A k \in 1 .. Len(ru) : \/ k \in 1 .. Len(r) /\ ru[k] = r[k]
                                 \/ /\ k > Len(r) /\ k - Len(r) \in 1 .. Len(u)
                                    /\ ru[k] = u[k - Len(r)]
  <2>1. ru \in Seq(S) /\ Len(ru) = Len(r) + Len(u)
    BY <1>3, ConcatProperties
  <2>2. HasTheirs(ru, r, u)
    BY <1>3, ConcatHasTheirs
  <2> QED  BY <2>1, <2>2, Zenon DEF HasTheirs
<1> HIDE DEF ru
<1>6. Len(t) = Len(ru)
  BY <1>1, <1>3, <1>4, <1>5
<1>7. ASSUME NEW k \in 1 .. Len(t) PROVE t[k] = ru[k]
  <2>1. t[k] = c[p + k]  BY <1>1, <1>4
  <2>2. CASE k \in 1 .. Len(r) /\ ru[k] = r[k]
    <3>1. p + k \in 1 .. Len(s) /\ r[k] = s[p + k]  BY <1>1, <1>3, <2>2
    <3> QED  BY <1>2, <2>1, <2>2, <3>1
  <2>3. CASE k > Len(r) /\ k - Len(r) \in 1 .. Len(u) /\ ru[k] = u[k - Len(r)]
    <3>1. p + k = Len(s) + (k - Len(r))  BY <1>1, <1>3
    <3> QED  BY <1>2, <2>1, <2>3, <3>1
  <2> QED  BY <1>5, <1>6, <2>2, <2>3
<1>8. t = ru
  BY <1>4, <1>5, <1>6, <1>7, SeqEqual
<1> QED  BY <1>8 DEF t, ru, r, c

\* The events of a file's chunk: it is stored at the end or refused.
LEMMA BufferCases ==
    ASSUME Store, NEW u \in Seq(Units), WriteBuffer(u), wrapper' = wrapper,
           format' = format, fed' = fed
    PROVE  /\ ~IsStream /\ item'.arrived = item.arrived + Len(u)
           /\ item' \in [arrived : {item'.arrived}, data : Seq(Seq(Units)),
                         write_queue : {<<>>}, paused : BOOLEAN, cut : {item.cut},
                         finished : {item.finished}, skipped : BOOLEAN]
           /\ Size + Len(u) <= format.capacity =>
                 Bytes' = Bytes \o u /\ Size' = Size + Len(u) /\ Waiting' = Waiting \o u
           /\ ~(Size + Len(u) <= format.capacity) =>
                 Bytes' = Bytes /\ Size' = Size /\ Waiting' = Waiting
<1>1. /\ Stored /\ Placed /\ ~IsStream /\ IsStream' = IsStream
      /\ item' = [item EXCEPT !.arrived = @ + Len(u), !.data = Inserted(u)]
  BY DEF Store, WriteBuffer, IsStream
<1>2. /\ item'.arrived = item.arrived + Len(u) /\ item'.data = Inserted(u)
      /\ item'.write_queue = <<>> /\ item'.finished = item.finished /\ item'.cut = item.cut
  BY <1>1 DEF Stored, Placed
<1>3. Bytes \in Seq(Units) /\ Size = Len(Bytes) /\ Size \in Nat /\ wrapper.pos \in 0 .. Len(Bytes)
  BY <1>1, BytesType DEF Size, Placed, Stored
<1>4. Unread = SubSeq(Bytes, wrapper.pos + 1, Len(Bytes))
  BY <1>1, <1>3 DEF Unread
<1>5. fed \in Seq(Units) /\ Unread \in Seq(Units)
  BY <1>1, UnreadType DEF Stored
<1>6. CASE Size + Len(u) <= format.capacity
  <2> DEFINE b == Bytes \o u
  <2>1. b \in Seq(Units) /\ Len(b) = Size + Len(u)
    BY <1>3, ConcatProperties
  <2>2. item'.data = <<b>>
    BY <1>2, <1>6 DEF Inserted
  <2> HIDE DEF b
  <2>3. Bytes' = b /\ item'.data \in Seq(Seq(Units))
    BY <2>1, <2>2, FlattenOne DEF Bytes
  <2>4. Size' = Size + Len(u)
    BY <2>1, <2>3 DEF Size
  <2>5. Unread' = SubSeq(b, wrapper.pos + 1, Len(b))
    BY <1>1, <2>1, <2>3, <2>4 DEF Unread
  <2>6. Unread' = Unread \o u
    BY <1>3, <1>4, <2>5, RestConcat DEF b
  <2>7. Waiting' = fed \o (Unread \o u)
    BY <2>6 DEF Waiting
  <2>8. (fed \o Unread) \o u = fed \o (Unread \o u)
    <3>1. Regroups(fed, Unread, u)  BY <1>5, SequencesRegroup
    <3> QED  BY <3>1 DEF Regroups
  <2>9. Waiting' = Waiting \o u
    BY <2>7, <2>8 DEF Waiting
  <2>10. item' \in [arrived : {item'.arrived}, data : Seq(Seq(Units)),
                    write_queue : {<<>>}, paused : BOOLEAN, cut : {item.cut},
                    finished : {item.finished}, skipped : BOOLEAN]
    BY <1>1, <1>2, <2>3 DEF Stored
  <2> QED  BY <1>1, <1>2, <1>6, <2>3, <2>4, <2>9, <2>10 DEF b
<1>7. CASE ~(Size + Len(u) <= format.capacity)
  <2>1. item'.data = item.data
    BY <1>2, <1>7 DEF Inserted
  <2>2. Bytes' = Bytes /\ Size' = Size /\ Unread' = Unread
    <3>1. Bytes' = Bytes  BY <2>1 DEF Bytes
    <3>2. Size' = Size  BY <3>1 DEF Size
    <3> QED  BY <1>1, <3>1, <3>2 DEF Unread
  <2>3. Waiting' = Waiting
    BY <2>2 DEF Waiting
  <2>4. item' \in [arrived : {item'.arrived}, data : Seq(Seq(Units)),
                   write_queue : {<<>>}, paused : BOOLEAN, cut : {item.cut},
                   finished : {item.finished}, skipped : BOOLEAN]
    BY <1>1, <1>2, <2>1 DEF Stored
  <2> QED  BY <1>1, <1>2, <1>7, <2>2, <2>3, <2>4
<1> QED  BY <1>6, <1>7

\* A chunk joins the end of the line, or is lost there; of a file that fits in its buffer
\* none is lost.
LEMMA WriteLine ==
    ASSUME AudioInv, write_callback
    PROVE  Store' /\ InLine' /\ Gapless'
<1>1. /\ Store /\ Stored /\ Placed /\ Bounded /\ InLine
      /\ stage' = stage /\ format' = format /\ wrapper' = wrapper
      /\ decoder' = decoder /\ events' = events
      /\ fed' = fed /\ heard' = heard /\ ~item.finished /\ ~item.cut /\ IsStream' = IsStream
  BY DEF AudioInv, Store, write_callback, IsStream
<1>2. PICK n \in 1 .. MaxChunk :
         /\ item.arrived + n <= SongSize
         /\ \/ WriteBuffer(Interval(item.arrived + 1, item.arrived + n))
            \/ WriteStream(Interval(item.arrived + 1, item.arrived + n))
  BY DEF write_callback
<1>3. /\ item.arrived \in 0 .. SongSize /\ item.arrived \in Nat /\ SongSize \in Nat
      /\ MaxChunk \in Nat /\ FlushSize \in Nat /\ QueueLimit \in Nat
      /\ n \in Nat \ {0} /\ n \in Nat /\ n <= MaxChunk /\ item.arrived + n <= SongSize
  BY <1>1, <1>2, Parameters DEF Stored
<1> DEFINE a == item.arrived
           u == Interval(a + 1, a + n)
           q == item.write_queue
<1>4. u \in Seq(Units) /\ Len(u) = n /\ \A i \in 1 .. n : u[i] = a + i
  BY <1>3, IntervalIs
<1>5. WriteBuffer(u) \/ WriteStream(u)
  BY <1>2
<1>6. /\ Bytes \in Seq(Units) /\ Size \in Nat /\ Size = Len(Bytes) /\ q \in Seq(Units)
      /\ Len(q) \in Nat /\ fed \in Seq(Units) /\ Unread \in Seq(Units)
      /\ Waiting \in Seq(Units) /\ heard \in Seq(Units) /\ wrapper.pos \in Nat
  BY <1>1, BytesType, UnreadType, WaitingType DEF Size, Stored, InLine
<1> HIDE DEF u
<1>7. OnLine(heard, Waiting, q, a)
  BY <1>1, <1>6 DEF InLine, OnLine
<1>8. Arrives(u, a, n)
  BY <1>4 DEF Arrives
<1>9. CASE WriteBuffer(u)
  <2> DEFINE fits == Size + n <= format.capacity
  <2>1. /\ ~IsStream /\ item'.arrived = a + n
        /\ item' \in [arrived : {item'.arrived}, data : Seq(Seq(Units)),
                      write_queue : {<<>>}, paused : BOOLEAN, cut : {item.cut},
                      finished : {item.finished}, skipped : BOOLEAN]
        /\ fits => Bytes' = Bytes \o u /\ Size' = Size + n /\ Waiting' = Waiting \o u
        /\ ~fits => Bytes' = Bytes /\ Size' = Size /\ Waiting' = Waiting
    BY <1>1, <1>4, <1>9, BufferCases
  <2>2. q = <<>> /\ wrapper.pos <= Size /\ Size <= a /\ Size <= format.capacity
    BY <1>1, <2>1 DEF Placed, Bounded
  <2>3. Store'
    <3>1. Stored'
      <4>1. item'.arrived \in 0 .. SongSize  BY <1>3, <2>1
      <4>2. item' \in [arrived : 0 .. SongSize, data : Seq(Seq(Units)), write_queue : Seq(Units),
                       paused : BOOLEAN, cut : BOOLEAN, finished : BOOLEAN, skipped : BOOLEAN]
        BY <1>1, <2>1, <4>1, EmptySeq, ZenonT(40) DEF Stored
      <4> QED  BY <1>1, <4>2 DEF Stored
    <3>2. Placed' /\ Bounded'
      <4>1. (fits => Size' = Size + n) /\ (~fits => Size' = Size)
        BY <2>1, Zenon
      <4>2. wrapper.pos <= Size' /\ Size' <= a + n /\ Size' <= format.capacity
        <5> DEFINE s1 == Size'  s == Size  p == wrapper.pos  m == format.capacity
        <5>1. /\ s \in Nat /\ p \in Nat /\ a \in Nat /\ p <= s /\ s <= a /\ s <= m
              /\ (s1 = s + n /\ s + n <= m) \/ s1 = s
          BY <1>3, <1>6, <2>2, <4>1
        <5> HIDE DEF s1, s, p, m, a
        <5>2. p <= s1 /\ s1 <= a + n /\ s1 <= m
          BY <1>3, <5>1
        <5> QED  BY <5>2 DEF s1, s, p, m
      <4>3. item'.write_queue = <<>> /\ Len(<<>>) = 0  BY <2>1
      <4> QED  BY <1>1, <1>3, <2>1, <4>2, <4>3 DEF Placed, Bounded
    <3> QED  BY <3>1, <3>2 DEF Store
  <2>4. q \o u = u
    BY <1>4, <2>2, ConcatEmptySeq
  <2>5. Joins(u, Waiting, q, Waiting', item'.write_queue)
    <3>1. item'.write_queue = <<>>  BY <2>1
    <3>2. Waiting' = Waiting \o u \/ Waiting' = Waiting  BY <2>1, Zenon
    <3> QED  BY <2>4, <3>1, <3>2 DEF Joins
  <2>6. InLine'
    <3>1. Sorted(Bytes) /\ UpTo(Bytes, a)
      BY <1>1, <2>1 DEF InLine
    <3>3. OnLine(heard, Waiting', item'.write_queue, a + n)
      BY <1>3, <1>7, <1>8, <2>5, LineGrows
    <3>4. Sorted(Bytes') /\ UpTo(Bytes', a + n)
      <4>1. Bytes \in Seq(Int) /\ u \in Seq(Int) /\ a + n \in Int
        BY <1>3, <1>4, <1>6, UnitsAreNumbers
      <4>2. Sorted(u) /\ UpTo(u, a + n) /\ Below(Bytes, u) /\ UpTo(Bytes, a + n)
        BY <1>3, <1>4, <3>1, <4>1, IntervalInLine
      <4>3. Sorted(Bytes \o u) /\ UpTo(Bytes \o u, a + n)
        BY <3>1, <4>1, <4>2, ConcatSorted, ConcatUpTo
      <4>4. Bytes' = Bytes \o u \/ Bytes' = Bytes  BY <2>1, Zenon
      <4> QED  BY <3>1, <4>2, <4>3, <4>4
    <3> QED  BY <1>1, <2>1, <3>3, <3>4 DEF InLine, OnLine
  <2>7. Gapless'
    <3> SUFFICES ASSUME WholeFile
                 PROVE  /\ Size' = a + n /\ \A i \in 1 .. Size' : Bytes'[i] = i
                        /\ stage # "astray" => Follow(heard)
                        /\ InCycle /\ ~decoder.found => heard = <<>>
                        /\ InCycle /\ Readable /\ ~(stage = "playing" /\ ~events.feed)
                              => Ends(heard \o Waiting', a + n)
      <4>1. WholeFile' = WholeFile /\ Readable' = Readable
        BY <1>1 DEF WholeFile, Readable, Fitting, Whole
      <4>2. /\ InCycle' = InCycle
            /\ ~Exhausted' => ~(stage = "playing" /\ ~events.feed)
        BY <1>1 DEF InCycle, Exhausted
      <4> QED  BY <1>1, <2>1, <4>1, <4>2 DEF Gapless
    <3>1. /\ Size = a /\ \A i \in 1 .. Size : Bytes[i] = i
          /\ stage # "astray" => Follow(heard)
          /\ InCycle /\ ~decoder.found => heard = <<>>
          /\ InCycle /\ Readable /\ ~Exhausted => Ends(heard \o Waiting, a)
      BY <1>1 DEF AudioInv, Gapless
    <3>2. Size + n <= format.capacity
      <4>1. format.capacity \in Nat /\ SongSize <= format.capacity
        BY <1>1 DEF WholeFile, Stored, Song
      <4> QED  BY <1>3, <3>1, <4>1
    <3>3. Bytes' = Bytes \o u /\ Size' = Size + n /\ Waiting' = Waiting \o u
      BY <2>1, <3>2
    <3>4. \A i \in 1 .. Size' : Bytes'[i] = i
      <4> DEFINE b == Bytes \o u
      <4>1. \A k \in 1 .. Len(b) :
               \/ k \in 1 .. Len(Bytes) /\ b[k] = Bytes[k]
               \/ k - Len(Bytes) \in 1 .. Len(u) /\ b[k] = u[k - Len(Bytes)]
        BY <1>4, <1>6, ConcatIndex
      <4>2. Len(b) = Size + n
        BY <1>4, <1>6, ConcatLength
      <4> HIDE DEF b
      <4>3. ASSUME NEW k \in 1 .. Size + n PROVE b[k] = k
        <5>1. CASE k \in 1 .. Len(Bytes) /\ b[k] = Bytes[k]
          BY <1>6, <3>1, <5>1
        <5>2. CASE k - Len(Bytes) \in 1 .. Len(u) /\ b[k] = u[k - Len(Bytes)]
          <6> DEFINE j == k - Len(Bytes)
          <6>1. j \in 1 .. n /\ b[k] = u[j]  BY <1>4, <5>2
          <6>2. Len(Bytes) = a  BY <1>6, <3>1
          <6>3. a + j = k  BY <1>3, <1>6, <6>2
          <6> HIDE DEF j
          <6>4. u[j] = a + j  BY <1>4, <6>1
          <6> QED  BY <6>1, <6>3, <6>4
        <5> QED  BY <4>1, <4>2, <5>1, <5>2
      <4> QED  BY <3>3, <4>3 DEF b
    <3>5. ASSUME InCycle, Readable, ~(stage = "playing" /\ ~events.feed)
          PROVE  Ends(heard \o Waiting', a + n)
      <4>1. Ends(heard \o Waiting, a)
        BY <1>1, <3>1, <3>5 DEF Exhausted
      <4> DEFINE w == Waiting
      <4>2. w \in Seq(Units)  BY <1>6
      <4>3. Ends(heard \o w, a)  BY <4>1
      <4>4. Waiting' = w \o u  BY <3>3
      <4> HIDE DEF w
      <4> DEFINE l == heard \o w
      <4>5. l \in Seq(Units)  BY <1>6, <4>2, ConcatProperties
      <4>6. (heard \o w) \o u = heard \o (w \o u)
        <5>1. heard \in Seq(Units) /\ w \in Seq(Units) /\ u \in Seq(Units)  BY <1>4, <1>6, <4>2
        <5>2. Regroups(heard, w, u)  BY <5>1, SequencesRegroup
        <5> QED  BY <5>2 DEF Regroups
      <4>7. l \in Seq(Int) /\ u \in Seq(Int) /\ Ends(l, a)
        BY <1>4, <4>3, <4>5, UnitsAreNumbers
      <4> HIDE DEF l
      <4>8. Ends(l \o u, a + n)
        BY <1>3, <1>4, <4>7, EndsExtended
      <4> QED  BY <4>4, <4>6, <4>8 DEF l
    <3> QED  BY <1>3, <3>1, <3>3, <3>4, <3>5
  <2> QED  BY <2>3, <2>6, <2>7
<1>10. CASE WriteStream(u)
  <2> DEFINE c == q \o u
  <2>1. /\ IsStream /\ c \in Seq(Units) /\ Len(c) = Len(q) + n
        /\ item'.arrived = a + n /\ item'.paused \in BOOLEAN
        /\ \/ /\ Len(c) > FlushSize /\ ~(Size > QueueLimit)
              /\ item'.data = Append(item.data, c) /\ item'.write_queue = <<>>
           \/ item'.data = item.data /\ item'.write_queue = <<>>
           \/ /\ ~(Len(c) > FlushSize)
              /\ item'.data = item.data /\ item'.write_queue = c
    BY <1>1, <1>4, <1>10, StreamCases
  <2>2. item' = [item EXCEPT !.arrived = item'.arrived, !.write_queue = item'.write_queue,
                             !.data = item'.data, !.paused = item'.paused]
    BY <1>1, <1>10 DEF WriteStream, Stored
  <2>3. wrapper.pos + Size + Len(q) <= a /\ Len(q) <= FlushSize
        /\ Size <= QueueLimit + FlushSize + MaxChunk
    BY <1>1, <2>1 DEF Placed, Bounded
  <2>4. Unread = Bytes /\ Unread' = Bytes'
    BY <1>1, <2>1, SMTT(30) DEF Unread
  <2> DEFINE w1 == Waiting'  q1 == item'.write_queue  s1 == Size'
  <2>5. /\ item'.data \in Seq(Seq(Units)) /\ q1 \in Seq(Units)
        /\ \/ w1 = Waiting \o c /\ q1 = <<>>
           \/ w1 = Waiting /\ q1 = <<>>
           \/ w1 = Waiting /\ q1 = c
        /\ s1 \in Nat /\ wrapper.pos + s1 + Len(q1) <= a + n
        /\ Len(q1) <= FlushSize /\ s1 <= QueueLimit + FlushSize + MaxChunk
    <3>1. item.data \in Seq(Seq(Units)) /\ <<>> \in Seq(Units) /\ Len(<<>>) = 0
      BY <1>1, EmptySeq DEF Stored
    <3>2. CASE /\ Len(c) > FlushSize /\ ~(Size > QueueLimit)
               /\ item'.data = Append(item.data, c) /\ q1 = <<>>
      <4> HIDE DEF c
      <4>1. item'.data \in Seq(Seq(Units))
        BY <2>1, <3>1, <3>2, AppendProperties
      <4>2. Bytes' = Bytes \o c
        BY <2>1, <3>1, <3>2, FlattenAppend DEF Bytes
      <4>3. w1 = fed \o (Bytes \o c)
        BY <1>1, <2>4, <4>2 DEF Waiting
      <4>4. (fed \o Bytes) \o c = fed \o (Bytes \o c)
        <5>1. fed \in Seq(Units) /\ Bytes \in Seq(Units) /\ c \in Seq(Units)  BY <1>6, <2>1
        <5>2. Regroups(fed, Bytes, c)  BY <5>1, SequencesRegroup
        <5> QED  BY <5>2 DEF Regroups
      <4>5. w1 = Waiting \o c
        BY <2>4, <4>3, <4>4 DEF Waiting
      <4>6. s1 = Len(Bytes \o c)
        BY <4>2 DEF Size
      <4>7. Len(Bytes \o c) = Len(Bytes) + Len(c)
        BY <1>6, <2>1, ConcatLength
      <4>8. s1 = Size + Len(q) + n
        BY <1>6, <2>1, <4>6, <4>7
      <4> HIDE DEF s1, w1, q1, q
      <4>9. /\ s1 \in Nat /\ wrapper.pos + s1 + 0 <= a + n
            /\ s1 <= QueueLimit + FlushSize + MaxChunk
        <5> DEFINE p == wrapper.pos  z == Size  l == Len(q)
        <5>1. /\ p \in Nat /\ z \in Nat /\ l \in Nat /\ p + z + l <= a /\ l <= FlushSize
              /\ z <= QueueLimit /\ s1 = z + l + n
          BY <1>3, <1>6, <2>3, <3>2, <4>8 DEF q
        <5> HIDE DEF p, z, l, a
        <5>2. a \in Nat  BY <1>3 DEF a
        <5>3. s1 \in Nat /\ p + s1 + 0 <= a + n /\ s1 <= QueueLimit + FlushSize + MaxChunk
          BY <1>3, <5>1, <5>2
        <5> QED  BY <5>3 DEF p
      <4> QED  BY <1>3, <3>1, <3>2, <4>1, <4>5, <4>9
    <3>3. CASE item'.data = item.data /\ q1 = <<>>
      <4>1. Bytes' = Bytes  BY <3>3 DEF Bytes
      <4>2. w1 = Waiting  BY <1>1, <2>4, <4>1 DEF Waiting
      <4>3. s1 = Size  BY <4>1 DEF Size
      <4> HIDE DEF s1, w1, q1
      <4>4. /\ s1 \in Nat /\ wrapper.pos + s1 + 0 <= a + n
            /\ s1 <= QueueLimit + FlushSize + MaxChunk
        <5> DEFINE p == wrapper.pos  l == Len(q)
        <5>1. /\ p \in Nat /\ s1 \in Nat /\ l \in Nat /\ p + s1 + l <= a
              /\ s1 <= QueueLimit + FlushSize + MaxChunk
          BY <1>6, <2>3, <4>3
        <5> HIDE DEF p, l, a
        <5>2. a \in Nat  BY <1>3 DEF a
        <5>3. p + s1 + 0 <= a + n  BY <1>3, <5>1, <5>2
        <5> QED  BY <5>1, <5>3 DEF p
      <4> QED  BY <1>3, <3>1, <3>3, <4>2, <4>4
    <3>4. CASE ~(Len(c) > FlushSize) /\ item'.data = item.data /\ q1 = c
      <4>1. Bytes' = Bytes  BY <3>4 DEF Bytes
      <4>2. w1 = Waiting  BY <1>1, <2>4, <4>1 DEF Waiting
      <4>3. s1 = Size  BY <4>1 DEF Size
      <4> HIDE DEF s1, w1, q1, c
      <4>4. /\ s1 \in Nat /\ wrapper.pos + s1 + Len(c) <= a + n
            /\ s1 <= QueueLimit + FlushSize + MaxChunk /\ Len(c) <= FlushSize
        <5> DEFINE p == wrapper.pos  l == Len(q)  m == Len(c)
        <5>1. /\ p \in Nat /\ s1 \in Nat /\ l \in Nat /\ p + s1 + l <= a
              /\ s1 <= QueueLimit + FlushSize + MaxChunk /\ m = l + n /\ m <= FlushSize
          BY <1>3, <1>6, <2>1, <2>3, <3>4, <4>3
        <5> HIDE DEF p, l, a, m
        <5>2. a \in Nat  BY <1>3 DEF a
        <5>3. p + s1 + m <= a + n  BY <1>3, <5>1, <5>2
        <5> QED  BY <5>1, <5>3 DEF p, m
      <4> QED  BY <2>1, <3>1, <3>4, <4>2, <4>4
    <3> QED  BY <2>1, <3>2, <3>3, <3>4
  <2>6. Store'
    <3>1. Stored'
      <4>1. item'.arrived \in 0 .. SongSize  BY <1>3, <2>1
      <4> QED  BY <1>1, <2>1, <2>2, <2>5, <4>1 DEF Stored
    <3>2. Placed' /\ Bounded'
      BY <1>1, <2>1, <2>5 DEF Placed, Bounded
    <3> QED  BY <3>1, <3>2 DEF Store
  <2>7. InLine'
    <3>1. Joins(u, Waiting, q, w1, q1)
      BY <2>5 DEF Joins
    <3>2. OnLine(heard, w1, q1, a + n)
      <4> HIDE DEF w1, q1
      <4> QED  BY <1>3, <1>7, <1>8, <3>1, LineGrows
    <3> QED  BY <1>1, <2>1, <3>2 DEF InLine, OnLine
  <2>8. Gapless'
    BY <1>1, <2>1 DEF Gapless, WholeFile
  <2> QED  BY <2>6, <2>7, <2>8
<1> QED  BY <1>5, <1>9, <1>10

\* Every step keeps the line.
LEMMA LineKept ==
    ASSUME AudioInv, AudioNext
    PROVE  Store' /\ InLine' /\ Gapless'
<1>1. CASE StartSong
  BY <1>1, StartSongLine
<1>2. CASE write_callback
  BY <1>2, WriteLine
<1>3. CASE Open
  BY <1>3, OpenLine
<1>4. CASE EndSong
  BY <1>4, EndSongLine
<1>5. CASE start_consumer
  BY <1>5, ReadLine
<1>6. CASE seekSecond
  BY <1>6, SeekLine
<1>7. CASE \/ Setup \/ Enough \/ FeedDecoder \/ SetEof \/ DownloadFinished
           \/ cancelTask \/ doSkip \/ setVolume \/ encode_opus_frame
  BY <1>7, SameLine
<1> QED  BY <1>1, <1>2, <1>3, <1>4, <1>5, <1>6, <1>7 DEF AudioNext, CoroutineStep, ControlStep

-----------------------------------------------------------------------------
(* The coroutines and the samples.                                         *)
\* The events of feeding and of a finished read.
EventTypes == [feed : BOOLEAN, readFinshed : BOOLEAN]
CountTypes == [songs : Nat, disturbances : Nat, skipping : BOOLEAN]
DecoderTypes == [open : BOOLEAN, known : BOOLEAN, found : BOOLEAN, err_count : 0 .. EarlyAttempts]

\* Every step of the control coroutine keeps the types of its variables.
LEMMA ControlStepKeeps ==
    ASSUME AudioInv, ControlStep
    PROVE  Control'
<1>1. /\ Control /\ Steady /\ events \in EventTypes /\ decoder \in DecoderTypes
      /\ wrapper \in [pos : 0 .. SongSize, is_eof : BOOLEAN]
  BY DEF AudioInv, Control, EventTypes, DecoderTypes, Store, Stored
<1>2. /\ format' = format /\ volume' = volume /\ count' = count
  BY DEF ControlStep, Setup, Enough, Open, FeedDecoder, SetEof, EndSong
<1>3. CASE Setup
  <2>1. decoder' = [decoder EXCEPT !.open = IsMpg123] /\ IsMpg123 \in BOOLEAN
    BY <1>3 DEF Setup, IsMpg123
  <2>2. decoder' \in DecoderTypes /\ decoder'.found = decoder.found
    BY <1>1, <2>1 DEF DecoderTypes
  <2>3. /\ stage = "probing" /\ stage' = "opening" /\ events' = events /\ wrapper' = wrapper
    BY <1>3 DEF Setup
  <2> QED  BY <1>1, <1>2, <2>2, <2>3 DEF Control, Steady, DecoderTypes
<1>4. CASE Enough
  BY <1>1, <1>2, <1>4 DEF Enough, Control, Steady
<1>5. CASE Open
  <2>1. /\ stage = "asking" /\ wrapper'.is_eof = wrapper.is_eof
        /\ OpenSucceeds \/ OpenAgain \/ FeedUnopened
    BY <1>1, <1>5 DEF Open, Take, MoveReader
  <2>2. ~wrapper'.is_eof /\ ~decoder.found
    BY <1>1, <2>1 DEF Steady
  <2>3. CASE OpenAgain
    <3>1. /\ decoder' = [decoder EXCEPT !.err_count = @ + 1] /\ decoder.err_count < EarlyAttempts
          /\ stage' = stage /\ events' = events
      BY <2>3 DEF OpenAgain
    <3>2. decoder' \in DecoderTypes /\ ~decoder'.found
      BY <1>1, <2>2, <3>1 DEF DecoderTypes, EarlyAttempts
    <3> QED  BY <1>1, <1>2, <2>1, <2>2, <3>1, <3>2 DEF Control, Steady, DecoderTypes, EventTypes
  <2>4. CASE OpenSucceeds \/ FeedUnopened
    <3>1. /\ events' = [events EXCEPT !.feed = TRUE] /\ stage' \in {"eof", "ticking"}
      BY <2>4 DEF OpenSucceeds, FeedUnopened, StartFeeding
    <3>2. events' \in EventTypes
      BY <1>1, <3>1 DEF EventTypes
    <3>3. decoder' \in DecoderTypes /\ (decoder'.found => decoder'.open)
      <4>1. CASE OpenSucceeds
        <5>1. decoder' = [open |-> TRUE, known |-> decoder.known \/ ~IsMpg123, found |-> TRUE,
                          err_count |-> 0]
          BY <4>1 DEF OpenSucceeds
        <5>2. (decoder.known \/ ~IsMpg123) \in BOOLEAN
          OBVIOUS
        <5> QED  BY <5>1, <5>2 DEF DecoderTypes, EarlyAttempts
      <4>2. CASE FeedUnopened
        <5>1. decoder' = [decoder EXCEPT !.err_count = 0]
          BY <4>2 DEF FeedUnopened
        <5> QED  BY <1>1, <2>2, <5>1 DEF DecoderTypes, EarlyAttempts
      <4> QED  BY <2>4, <4>1, <4>2
    <3> QED  BY <1>1, <1>2, <2>2, <3>1, <3>2, <3>3 DEF Control, Steady, DecoderTypes, EventTypes
  <2> QED  BY <2>1, <2>3, <2>4
<1>6. CASE FeedDecoder
  <2>1. /\ stage = "ticking" /\ stage' \in {"ticking", "eof"} /\ decoder' = decoder
        /\ wrapper' = wrapper /\ events' = [events EXCEPT !.feed = TRUE]
    BY <1>6 DEF FeedDecoder
  <2>2. events' \in EventTypes
    BY <1>1, <2>1 DEF EventTypes
  <2> QED  BY <1>1, <1>2, <2>1, <2>2 DEF Control, Steady, EventTypes
<1>7. CASE SetEof
  BY <1>1, <1>2, <1>7 DEF SetEof, Control, Steady
<1>8. CASE EndSong
  <2>1. /\ stage' = "idle" /\ wrapper' = wrapper
        /\ events' = [events EXCEPT !.readFinshed = FALSE]
        /\ decoder' = [decoder EXCEPT !.open = FALSE, !.found = FALSE]
    BY <1>8 DEF EndSong
  <2>2. events' \in EventTypes /\ decoder' \in DecoderTypes /\ ~decoder'.found
    BY <1>1, <2>1 DEF EventTypes, DecoderTypes
  <2> QED  BY <1>1, <1>2, <2>1, <2>2 DEF Control, Steady, EventTypes, DecoderTypes
<1> QED  BY <1>3, <1>4, <1>5, <1>6, <1>7, <1>8 DEF ControlStep

\* So does every read.
LEMMA ReadControl ==
    ASSUME AudioInv, start_consumer
    PROVE  Control'
<1>1. /\ Control /\ Steady /\ events \in EventTypes /\ decoder \in DecoderTypes
      /\ count \in CountTypes
      /\ wrapper \in [pos : 0 .. SongSize, is_eof : BOOLEAN]
      /\ format' = format /\ volume' = volume /\ stage # "astray"
  BY DEF AudioInv, Control, EventTypes, DecoderTypes, CountTypes, Store, Stored,
         start_consumer, HasTask
<1>2. wrapper'.is_eof = wrapper.is_eof
  BY <1>1 DEF start_consumer, Decode, ReadOk, ResampleFails, ReadUnsupported, ReadUnknown,
              ReadError, ReadDone, ReadNeedMore, ReadTooLittle, ReadClosed, Take, MoveReader
<1>3. /\ decoder' \in DecoderTypes /\ decoder'.found = decoder.found
      /\ decoder'.found => decoder'.open
  <2>1. CASE decoder' = decoder
    BY <1>1, <2>1 DEF Steady
  <2>2. CASE decoder' = [decoder EXCEPT !.open = TRUE, !.known = @ \/ ~IsMpg123]
    <3>1. (decoder.known \/ ~IsMpg123) \in BOOLEAN
      OBVIOUS
    <3> QED  BY <1>1, <2>2, <3>1 DEF DecoderTypes
  <2> QED  BY <2>1, <2>2 DEF start_consumer, Decode, ReadClosed
<1>4. stage' \in {stage, "astray"}
  BY DEF start_consumer, Decode, ReadOk, ResampleFails, ReadUnsupported, ReadUnknown,
         ReadError, ReadDone, ReadNeedMore, ReadTooLittle, ReadClosed
<1>5. events' \in EventTypes
  <2>1. \/ events' = events
        \/ events' = [feed |-> FALSE, readFinshed |-> TRUE]
        \/ events' = [events EXCEPT !.feed = FALSE]
    BY DEF start_consumer, Decode, ReadOk, ResampleFails, ReadUnsupported, ReadUnknown,
           ReadError, ReadDone, ReadNeedMore, ReadTooLittle, ReadClosed
  <2>2. [events EXCEPT !.feed = FALSE] \in EventTypes  BY <1>1 DEF EventTypes
  <2>3. [feed |-> FALSE, readFinshed |-> TRUE] \in EventTypes  BY DEF EventTypes
  <2> QED  BY <1>1, <2>1, <2>2, <2>3
<1>6. count' \in CountTypes
  <2>1. count' = count \/ Disturbance
    BY DEF start_consumer, Decode, ReadOk, ResampleFails, ReadUnsupported, ReadUnknown,
           ReadError, ReadDone, ReadNeedMore, ReadTooLittle, ReadClosed
  <2> QED  BY <1>1, <2>1 DEF Disturbance, CountTypes
<1> QED
  BY <1>1, <1>2, <1>3, <1>4, <1>5, <1>6
     DEF Control, Steady, EventTypes, DecoderTypes, CountTypes

\* Every step keeps the types of the coroutines' variables.
LEMMA ControlKept ==
    ASSUME AudioInv, AudioNext
    PROVE  Control'
<1>1. /\ Control /\ Steady /\ events \in EventTypes /\ decoder \in DecoderTypes
      /\ count \in CountTypes
  BY DEF AudioInv, Control, EventTypes, DecoderTypes, CountTypes
<1>2. Disturbance => count' \in CountTypes
  BY <1>1 DEF Disturbance, CountTypes
<1>3. CASE StartSong
  <2>1. /\ stage = "idle" /\ stage' \in {"probing", "astray"} /\ format' \in Formats
        /\ count' = [count EXCEPT !.songs = @ + 1] /\ decoder' = decoder /\ events' = events
        /\ volume' = volume /\ ~wrapper'.is_eof
    BY <1>3 DEF StartSong
  <2>2. count' \in CountTypes
    BY <1>1, <2>1 DEF CountTypes
  <2> QED  BY <1>1, <2>1, <2>2 DEF Control, Steady, CountTypes
<1>4. CASE write_callback \/ DownloadFinished
  BY <1>1, <1>4 DEF write_callback, DownloadFinished, Control, Steady
<1>5. CASE encode_opus_frame
  <2>1. count' = count \/ Disturbance
    BY <1>5 DEF encode_opus_frame, EncodeFrame, EncodeOverrun, EncodeFails, KeepRest
  <2>2. count' \in CountTypes
    BY <1>1, <1>2, <2>1
  <2>3. /\ format' = format /\ events' = events /\ decoder' = decoder /\ volume' = volume
        /\ wrapper' = wrapper /\ stage # "astray" /\ stage' \in {stage, "astray"}
    BY <1>5 DEF encode_opus_frame, EncodeFrame, EncodeOverrun, EncodeFails, KeepRest
  <2> QED  BY <1>1, <2>2, <2>3 DEF Control, Steady, CountTypes
<1>6. CASE ControlStep
  BY <1>6, ControlStepKeeps
<1>7. CASE start_consumer
  BY <1>7, ReadControl
<1>8. CASE setVolume \/ seekSecond
  <2>1. /\ Disturbance /\ stage' = stage /\ format' = format /\ decoder' = decoder
        /\ events' = events
    BY <1>8 DEF setVolume, seekSecond, Request
  <2>2. volume' \in Volumes \cup {One}
    BY <1>1, <1>8 DEF setVolume, seekSecond, Control
  <2>3. wrapper'.is_eof = wrapper.is_eof
    <3>1. wrapper \in [pos : 0 .. SongSize, is_eof : BOOLEAN]  BY DEF AudioInv, Store, Stored
    <3> QED  BY <1>8, <3>1 DEF setVolume, seekSecond, MoveTo
  <2>4. count' \in CountTypes
    BY <1>2, <2>1
  <2> QED  BY <1>1, <2>1, <2>2, <2>3, <2>4 DEF Control, Steady, CountTypes
<1>9. CASE cancelTask \/ doSkip
  <2>1. /\ stage' = stage /\ format' = format /\ decoder' = decoder /\ volume' = volume
        /\ wrapper' = wrapper
        /\ events' = events \/ events' = [feed |-> FALSE, readFinshed |-> TRUE]
    BY <1>9 DEF cancelTask, doSkip
  <2>2. events' \in EventTypes
    <3>1. [feed |-> FALSE, readFinshed |-> TRUE] \in EventTypes  BY DEF EventTypes
    <3> QED  BY <1>1, <2>1, <3>1
  <2>3. count' \in CountTypes
    <3>1. CASE cancelTask
      <4>1. count' = [count EXCEPT !.disturbances = @ + 1, !.skipping = TRUE]
        BY <3>1 DEF cancelTask
      <4>2. count.songs \in Nat /\ count.disturbances + 1 \in Nat
        BY <1>1 DEF CountTypes
      <4>3. count' = [songs |-> count.songs, disturbances |-> count.disturbances + 1,
                      skipping |-> TRUE]
        BY <1>1, <4>1 DEF CountTypes
      <4> QED  BY <4>2, <4>3 DEF CountTypes
    <3>2. CASE doSkip
      <4>1. count' = [count EXCEPT !.skipping = FALSE]
        BY <3>2 DEF doSkip
      <4> QED  BY <1>1, <4>1 DEF CountTypes
    <3> QED  BY <1>9, <3>1, <3>2
  <2> QED  BY <1>1, <2>1, <2>2, <2>3 DEF Control, Steady, EventTypes, CountTypes
<1> QED
  BY <1>3, <1>4, <1>5, <1>6, <1>7, <1>8, <1>9 DEF AudioNext, CoroutineStep

\* The front of a sequence.
LEMMA FrontType ==
    ASSUME NEW S, NEW s \in Seq(S), NEW m \in Int, m <= Len(s)
    PROVE  SubSeq(s, 1, m) \in Seq(S)
<1>1. CASE m >= 0
  <2>1. m \in 0 .. Len(s)  BY <1>1
  <2> QED  BY <2>1, SplitSeq
<1>2. CASE m < 0
  <2>1. SubSeq(s, 1, m) = <<>>  BY <1>2
  <2> QED  BY <2>1, EmptySeq
<1> QED  BY <1>1, <1>2

\* A packet has two channels of OpusFrame samples: those it is given, and what lies behind
\* them in memory.
LEMMA FrameType ==
    ASSUME Sound, NEW samples \in Seq(Samples), NEW size \in EncodedSizes
    PROVE  /\ Frame(samples, size) \in Packet
           /\ Len(Frame(samples, size).samples) = 2 * OpusFrame
           /\ \A k \in 1 .. 2 * OpusFrame : k <= Len(samples) =>
                 Frame(samples, size).samples[k] = samples[k]
<1> DEFINE N == 2 * OpusFrame
           out == [k \in 1 .. N |-> IF k <= Len(samples) THEN samples[k] ELSE Stale]
           whole == size <= encoder.size
<1>1. N \in Nat /\ Len(samples) \in Nat
  BY Parameters
<1>2. whole \in BOOLEAN
  OBVIOUS
<1>3. Frame(samples, size) = [samples |-> out, whole |-> whole]
  BY DEF Frame
<1>4. \A k \in 1 .. N : /\ out[k] \in Samples \cup {Stale}
                        /\ k <= Len(samples) => out[k] = samples[k]
  BY <1>1
<1>5. out \in Seq(Samples \cup {Stale}) /\ Len(out) = N
  BY <1>1
<1> HIDE DEF out, whole, N
<1> QED  BY <1>2, <1>3, <1>4, <1>5 DEF Packet, N

\* What is encoded, and what is left: a packet takes the samples that are wanted.
LEMMA Needed ==
    ASSUME Sound, Len(pcm) + Len(encoder.temp) >= encoder.wanted,
           Len(encoder.temp) <= encoder.wanted
    PROVE  LET needed == encoder.wanted - Len(encoder.temp)
           IN  /\ needed \in 0 .. Len(pcm) /\ Len(encoder.temp) + needed = encoder.wanted
               /\ encoder.temp = <<>> => needed = encoder.wanted
<1>1. Len(pcm) \in Nat /\ Len(encoder.temp) \in Nat /\ encoder.wanted \in Nat
  BY Parameters DEF Sound, Encoders
<1>2. encoder.temp = <<>> => Len(encoder.temp) = 0
  OBVIOUS
<1> QED  BY <1>1, <1>2

\* Either way to encode takes what is kept back and the front of the read.
LEMMA EncodeParts ==
    ASSUME Sound, EncodeFrame
    PROVE  \E size \in EncodedSizes, front \in Seq(Samples), rest \in Seq(Samples) :
              /\ pcm = front \o rest /\ pcm' = rest
              /\ Len(encoder.temp \o front) = encoder.wanted
              /\ \/ frames' = Append(frames, Frame(encoder.temp \o front, size))
                 \/ encoder.temp = <<>> /\ frames' = Append(frames, Frame(pcm, size))
              /\ encoder' = [encoder EXCEPT !.temp = <<>>, !.size = size]
<1>1. PICK size \in EncodedSizes :
         IF encoder.temp # <<>> THEN EncodeWithTemp(size) ELSE EncodeDirectly(size)
  BY DEF EncodeFrame
<1> DEFINE needed == encoder.wanted - Len(encoder.temp)
           front == SubSeq(pcm, 1, needed)
           rest == SubSeq(pcm, needed + 1, Len(pcm))
<1>2. /\ needed \in 0 .. Len(pcm) /\ Len(encoder.temp) + needed = encoder.wanted
      /\ encoder.temp = <<>> => needed = encoder.wanted
  BY Needed DEF EncodeFrame
<1>3. pcm \in Seq(Samples) /\ encoder.temp \in Seq(Samples)
  BY DEF Sound, Encoders
<1>4. /\ front \in Seq(Samples) /\ rest \in Seq(Samples) /\ Len(front) = needed
      /\ front \o rest = pcm
  BY <1>2, <1>3, SplitParts
<1>5. Len(encoder.temp \o front) = encoder.wanted
  <2> HIDE DEF front, needed
  <2> QED  BY <1>2, <1>3, <1>4, ConcatLength
<1>6. /\ pcm' = rest
      /\ \/ frames' = Append(frames, Frame(encoder.temp \o front, size))
         \/ encoder.temp = <<>> /\ frames' = Append(frames, Frame(pcm, size))
      /\ encoder' = [encoder EXCEPT !.temp = <<>>, !.size = size]
  <2>1. CASE encoder.temp # <<>>
    BY <1>1, <2>1 DEF EncodeWithTemp
  <2>2. CASE encoder.temp = <<>>
    <3>1. EncodeDirectly(size) /\ needed = encoder.wanted  BY <1>1, <1>2, <2>2
    <3>2. pcm' = rest /\ frames' = Append(frames, Frame(pcm, size))
      <4> HIDE DEF needed
      <4> QED  BY <3>1 DEF EncodeDirectly
    <3>3. encoder' = [encoder EXCEPT !.temp = <<>>, !.size = size]
      BY <2>2, <3>1 DEF EncodeDirectly, Sound, Encoders
    <3> QED  BY <2>2, <3>2, <3>3
  <2> QED  BY <2>1, <2>2
<1>7. pcm = front \o rest
  BY <1>4
<1> HIDE DEF front, rest
<1> QED  BY <1>4, <1>5, <1>6, <1>7

\* The volume is a number of halves.
LEMMA VolumeIsNat == Control => volume \in Nat
<1>1. Volumes \subseteq Nat /\ One \in Nat
  BY AudioPathAssumption, Parameters
<1>2. Control => volume \in Volumes \cup {One}
  BY DEF Control
<1> QED  BY <1>1, <1>2

\* A read begins when everything of the last one is encoded.
LEMMA ReadSound ==
    ASSUME AudioInv, ReadOk, ~encoder.runs
    PROVE  /\ Decoded \in Seq(Units) /\ pcm = <<>>
           /\ pcm' = process_audio_frame(RawSamples(Decoded)) /\ pcm' \in Seq(Samples)
           /\ Reference(Decoded) \in Seq(Samples) /\ decoded' = decoded \o Reference(Decoded)
           /\ encoder'.temp = encoder.temp /\ encoder'.runs /\ encoder' \in Encoders
           /\ encoder'.mono = (encoder.mono \/ format.channels = 1)
           /\ encoder'.wanted = OpusFrame * format.channels
<1>1. /\ ReadSize \in 0 .. Len(Input(ReadSize)) /\ Input(ReadSize) \in Seq(Units)
      /\ ReadSize \in Nat
  BY AvailableRange, FullHas, InputType DEF AudioInv, ReadOk
<1>2. Decoded \in Seq(Units)
  BY <1>1, SplitSeq DEF Decoded
<1>3. /\ pcm' = process_audio_frame(RawSamples(Decoded))
      /\ decoded' = decoded \o Reference(Decoded)
      /\ encoder' = [encoder EXCEPT !.runs = TRUE, !.size = ReadSize,
                                    !.wanted = OpusFrame * format.channels,
                                    !.mono = @ \/ format.channels = 1]
  BY DEF ReadOk
<1>4. format \in Formats /\ volume \in Nat
  BY VolumeIsNat DEF AudioInv, Control
<1>5. pcm' \in Seq(Samples) /\ Reference(Decoded) \in Seq(Samples)
  BY <1>2, <1>3, <1>4, ProcessType, ReferenceType
<1>6. pcm = <<>> /\ encoder \in Encoders
  BY DEF AudioInv, Sound
<1>7. OpusFrame * format.channels \in {OpusFrame, 2 * OpusFrame}
  <2>1. OpusFrame \in Nat  BY Parameters
  <2>2. format.channels = 1 \/ format.channels = 2  BY <1>4, FormatsAreSongs, ChannelsType
  <2> QED  BY <2>1, <2>2
<1>8. (encoder.mono \/ format.channels = 1) \in BOOLEAN
  OBVIOUS
<1> DEFINE w == OpusFrame * format.channels  m == encoder.mono \/ format.channels = 1
<1> HIDE DEF w, m
<1>9. /\ encoder' = [encoder EXCEPT !.runs = TRUE, !.size = ReadSize, !.wanted = w, !.mono = m]
      /\ w \in {OpusFrame, 2 * OpusFrame} /\ m \in BOOLEAN
  BY <1>3, <1>7, <1>8 DEF w, m
<1>10. /\ encoder'.temp = encoder.temp /\ encoder'.runs /\ encoder' \in Encoders
       /\ encoder'.mono = m /\ encoder'.wanted = w
  BY <1>1, <1>6, <1>9 DEF Encoders
<1> QED  BY <1>2, <1>3, <1>5, <1>6, <1>10 DEF w, m

\* The steps that touch samples.
LEMMA SoundSteps ==
    AudioNext => \/ UNCHANGED <<pcm, encoder, decoded, frames>>
                 \/ StartSong \/ (start_consumer /\ ReadOk)
                 \/ (encode_opus_frame /\ (EncodeFrame \/ EncodeFails \/ KeepRest))
<1>1. write_callback \/ DownloadFinished \/ setVolume \/ seekSecond \/ cancelTask \/ doSkip
          => UNCHANGED <<pcm, encoder, decoded, frames>>
  BY DEF write_callback, DownloadFinished, setVolume, seekSecond, cancelTask, doSkip
<1>2. ControlStep => UNCHANGED <<pcm, encoder, decoded, frames>>
  BY DEF ControlStep, Setup, Enough, Open, FeedDecoder, SetEof, EndSong
<1>3. start_consumer /\ ~ReadOk => UNCHANGED <<pcm, encoder, decoded, frames>>
  BY DEF start_consumer, Decode, ReadClosed, ResampleFails, ReadUnsupported, ReadUnknown,
         ReadError, ReadDone, ReadNeedMore, ReadTooLittle
<1>4. encode_opus_frame => \/ EncodeFrame \/ EncodeFails \/ KeepRest
                           \/ UNCHANGED <<pcm, encoder, decoded, frames>>
  BY DEF encode_opus_frame, EncodeOverrun
<1> QED  BY <1>1, <1>2, <1>3, <1>4 DEF AudioNext, CoroutineStep

\* A song keeps its format; only the next one is marked afresh as of one channel.
LEMMA SongGoesOn ==
    ASSUME AudioInv, AudioNext, ~StartSong
    PROVE  format' = format /\ (~encoder'.mono => ~encoder.mono)
<1>1. encoder \in Encoders
  BY DEF AudioInv, Sound
<1>2. format' = format
  BY DEF AudioNext, CoroutineStep, ControlStep, write_callback, DownloadFinished, setVolume,
         seekSecond, cancelTask, doSkip, Setup, Enough, Open, FeedDecoder, SetEof, EndSong,
         start_consumer, encode_opus_frame
<1>3. CASE UNCHANGED <<pcm, encoder, decoded, frames>>
  BY <1>2, <1>3
<1>4. CASE start_consumer /\ ReadOk
  BY <1>2, <1>4, ReadSound DEF start_consumer
<1>5. CASE encode_opus_frame /\ (EncodeFrame \/ EncodeFails \/ KeepRest)
  BY <1>1, <1>2, <1>5 DEF EncodeFrame, EncodeWithTemp, EncodeDirectly, EncodeFails, KeepRest,
                          Encoders
<1> QED  BY <1>3, <1>4, <1>5, SoundSteps

\* Every step keeps the samples, and less than a packet of two channels is kept back.
LEMMA SoundKept ==
    ASSUME AudioInv, AudioNext
    PROVE  Sound'
<1>1. /\ Sound /\ pcm \in Seq(Samples) /\ encoder.temp \in Seq(Samples)
      /\ encoder \in Encoders
      /\ decoded \in Seq(Samples) /\ frames \in Seq(Packet)
      /\ Len(encoder.temp) < 2 * OpusFrame
      /\ encoder.runs /\ ~encoder.mono => encoder.wanted = 2 * OpusFrame
      /\ ~encoder.runs => pcm = <<>>
  BY DEF AudioInv, Sound, Encoders
<1>2. OpusFrame \in Nat \ {0} /\ 2 * OpusFrame \in Nat \ {0}
  BY Parameters
<1>3. CASE UNCHANGED <<pcm, encoder, decoded, frames>>
  BY <1>1, <1>3 DEF Sound
<1>4. CASE StartSong
  <2> DEFINE m == encoder.mono /\ encoder.runs
  <2>1. /\ decoded' = encoder.temp \o pcm /\ frames' = <<>> /\ pcm' = pcm
        /\ encoder' = [encoder EXCEPT !.mono = m]
    BY <1>4 DEF StartSong
  <2>2. m \in BOOLEAN
    OBVIOUS
  <2> HIDE DEF m
  <2>3. /\ encoder' \in Encoders /\ encoder'.temp = encoder.temp /\ encoder'.mono = m
        /\ encoder'.runs = encoder.runs /\ encoder'.wanted = encoder.wanted
    BY <1>1, <2>1, <2>2 DEF Encoders
  <2>4. encoder.temp \o pcm \in Seq(Samples) /\ <<>> \in Seq(Packet)
    BY <1>1, ConcatProperties, EmptySeq
  <2>5. encoder'.runs /\ ~encoder'.mono => encoder'.wanted = 2 * OpusFrame
    BY <1>1, <2>3 DEF m
  <2> QED  BY <1>1, <2>1, <2>3, <2>4, <2>5 DEF Sound
<1>5. CASE start_consumer /\ ReadOk
  <2>1. /\ pcm' \in Seq(Samples) /\ Reference(Decoded) \in Seq(Samples)
        /\ decoded' = decoded \o Reference(Decoded)
        /\ encoder'.temp = encoder.temp /\ encoder'.runs /\ encoder' \in Encoders
        /\ encoder'.mono = (encoder.mono \/ format.channels = 1)
        /\ encoder'.wanted = OpusFrame * format.channels
    BY <1>5, ReadSound DEF start_consumer
  <2>2. frames' = frames
    BY <1>5 DEF start_consumer
  <2>3. decoded' \in Seq(Samples)
    BY <1>1, <2>1, ConcatProperties
  <2>4. ~encoder'.mono => encoder'.wanted = 2 * OpusFrame
    <3>1. format.channels \in {1, 2}  BY ChannelsType DEF AudioInv, Store, Stored
    <3>2. ~encoder'.mono => format.channels # 1
      <4>1. encoder'.mono \in BOOLEAN  BY <2>1 DEF Encoders
      <4> QED  BY <2>1, <4>1
    <3>3. format.channels = 2 => encoder'.wanted = 2 * OpusFrame
      BY <1>2, <2>1
    <3> QED  BY <3>1, <3>2, <3>3
  <2> QED  BY <1>1, <2>1, <2>2, <2>3, <2>4 DEF Sound
<1>6. CASE encode_opus_frame /\ EncodeFrame
  <2>1. PICK size \in EncodedSizes, front \in Seq(Samples), rest \in Seq(Samples) :
              /\ pcm = front \o rest /\ pcm' = rest
              /\ Len(encoder.temp \o front) = encoder.wanted
              /\ \/ frames' = Append(frames, Frame(encoder.temp \o front, size))
                 \/ encoder.temp = <<>> /\ frames' = Append(frames, Frame(pcm, size))
              /\ encoder' = [encoder EXCEPT !.temp = <<>>, !.size = size]
    BY <1>1, <1>6, EncodeParts
  <2>2. encoder.temp \o front \in Seq(Samples)
    BY <1>1, ConcatProperties
  <2>3. Frame(encoder.temp \o front, size) \in Packet /\ Frame(pcm, size) \in Packet
    BY <1>1, <2>2, FrameType
  <2>4. frames' \in Seq(Packet)
    <3>1. PICK p \in Packet : frames' = Append(frames, p)  BY <2>1, <2>3, Zenon
    <3> QED  BY <1>1, <3>1, AppendProperties
  <2>5. size \in Nat
    BY AudioPathAssumption
  <2>6. /\ encoder' \in Encoders /\ encoder'.temp = <<>> /\ encoder'.runs
        /\ encoder'.wanted = encoder.wanted /\ encoder'.mono = encoder.mono
    <3>1. <<>> \in Seq(Samples)  BY EmptySeq
    <3>2. encoder.runs  BY <1>6 DEF encode_opus_frame
    <3>3. encoder' = [encoder EXCEPT !.temp = <<>>, !.size = size]  BY <2>1
    <3> QED  BY <1>1, <2>5, <3>1, <3>2, <3>3 DEF Encoders
  <2>7. decoded' = decoded /\ pcm' \in Seq(Samples)
    BY <1>6, <2>1 DEF EncodeFrame
  <2>8. encoder.runs
    BY <1>6 DEF encode_opus_frame
  <2>9. Len(encoder'.temp) < 2 * OpusFrame
    BY <1>2, <2>6
  <2> QED  BY <1>1, <2>4, <2>6, <2>7, <2>8, <2>9 DEF Sound
<1>7. CASE encode_opus_frame /\ EncodeFails
  <2>1. /\ pcm' = <<>> /\ frames' = frames /\ encoder' = [encoder EXCEPT !.runs = FALSE]
        /\ decoded' = SubSeq(decoded, 1, Len(decoded) - Len(pcm))
    BY <1>7 DEF EncodeFails
  <2>2. decoded' \in Seq(Samples)
    <3> DEFINE m == Len(decoded) - Len(pcm)
    <3>1. m \in Int /\ m <= Len(decoded)  BY <1>1, LenProperties
    <3> HIDE DEF m
    <3>2. SubSeq(decoded, 1, m) \in Seq(Samples)  BY <1>1, <3>1, FrontType
    <3> QED  BY <2>1, <3>2 DEF m
  <2>3. <<>> \in Seq(Samples)
    BY EmptySeq
  <2>4. encoder' \in Encoders /\ encoder'.temp = encoder.temp /\ ~encoder'.runs
    BY <1>1, <2>1 DEF Encoders
  <2> QED  BY <1>1, <2>1, <2>2, <2>3, <2>4 DEF Sound
<1>8. CASE encode_opus_frame /\ KeepRest
  <2>1. /\ pcm' = <<>> /\ frames' = frames /\ decoded' = decoded
        /\ encoder' = [encoder EXCEPT !.runs = FALSE, !.temp = encoder.temp \o pcm]
        /\ Len(pcm) + Len(encoder.temp) < encoder.wanted
    BY <1>8 DEF KeepRest
  <2>2. /\ encoder.temp \o pcm \in Seq(Samples)
        /\ Len(encoder.temp \o pcm) = Len(encoder.temp) + Len(pcm)
    BY <1>1, ConcatProperties
  <2>3. Len(encoder.temp \o pcm) < 2 * OpusFrame
    <3>1. Len(pcm) \in Nat /\ Len(encoder.temp) \in Nat  BY <1>1, LenProperties
    <3>2. encoder.wanted \in {OpusFrame, 2 * OpusFrame}  BY <1>1 DEF Encoders
    <3> QED  BY <1>2, <2>1, <2>2, <3>1, <3>2
  <2>4. <<>> \in Seq(Samples)
    BY EmptySeq
  <2> DEFINE t == encoder.temp \o pcm
  <2>5. /\ t \in Seq(Samples) /\ Len(t) < 2 * OpusFrame
        /\ encoder' = [encoder EXCEPT !.runs = FALSE, !.temp = t]
    BY <2>1, <2>2, <2>3
  <2> HIDE DEF t
  <2>6. encoder' \in Encoders /\ encoder'.temp = t /\ ~encoder'.runs
    BY <1>1, <2>5 DEF Encoders
  <2> QED  BY <1>1, <2>1, <2>4, <2>5, <2>6 DEF Sound
<1> QED  BY <1>3, <1>4, <1>5, <1>6, <1>7, <1>8, SoundSteps

-----------------------------------------------------------------------------
(* The theorems.                                                           *)
\* The program begins with the invariant.
LEMMA AudioInit_Inv == AudioInit => AudioInv
<1> SUFFICES ASSUME AudioInit PROVE AudioInv
  OBVIOUS
<1>1. Control
  <2>1. format \in Formats /\ stage = "idle" /\ events = NoEvents /\ volume = One
        /\ count = [songs |-> 0, disturbances |-> 0, skipping |-> FALSE]
        /\ decoder = [open |-> FALSE, known |-> FALSE, found |-> FALSE, err_count |-> 0]
        /\ wrapper = [pos |-> 0, is_eof |-> FALSE]
    BY DEF AudioInit
  <2> QED  BY <2>1 DEF Control, Steady, NoEvents, EarlyAttempts
<1>2. Sound
  <2>1. /\ pcm = <<>> /\ frames = <<>> /\ decoded = <<>>
        /\ encoder = [runs |-> FALSE, wanted |-> 2 * OpusFrame, temp |-> <<>>, size |-> 0,
                      mono |-> FALSE]
    BY DEF AudioInit
  <2>2. <<>> \in Seq(Samples) /\ <<>> \in Seq(Packet) /\ Len(<<>>) = 0
    BY EmptySeq
  <2> QED  BY <2>1, <2>2, Parameters DEF Sound, Encoders
<1> QED  BY <1>1, <1>2, InitLine DEF AudioInv

\* Every step keeps the invariant.
LEMMA AudioNext_Inv == AudioInv /\ [AudioNext]_audioVars => AudioInv'
<1> SUFFICES ASSUME AudioInv, [AudioNext]_audioVars PROVE AudioInv'
  OBVIOUS
<1>1. CASE AudioNext
  BY <1>1, LineKept, ControlKept, SoundKept DEF AudioInv
<1>2. CASE UNCHANGED audioVars
  <2>1. Store' /\ InLine' /\ Gapless'
    <3>1. /\ item' = item /\ wrapper' = wrapper /\ format' = format /\ fed' = fed
          /\ heard' = heard /\ stage' = stage /\ decoder' = decoder /\ events' = events
      BY <1>2 DEF audioVars
    <3>2. StagesOn
      BY <3>1, StagesStay
    <3>3. item' \in SameItem /\ wrapper' \in [pos : {wrapper.pos}, is_eof : BOOLEAN]
      BY <3>1 DEF AudioInv, Store, Stored, SameItem
    <3> QED  BY <3>1, <3>2, <3>3, SameKeeps
  <2>2. Control'
    BY <1>2 DEF audioVars, AudioInv, Control, Steady
  <2>3. Sound'
    <3>1. UNCHANGED <<pcm, encoder, decoded, frames>>  BY <1>2 DEF audioVars
    <3> QED  BY <3>1 DEF AudioInv, Sound
  <2> QED  BY <2>1, <2>2, <2>3 DEF AudioInv
<1> QED  BY <1>1, <1>2

\* The invariant holds for all songs, sizes of reads, packets and chunks.
THEOREM AudioInvariant == AudioSpec => []AudioInv
  BY AudioInit_Inv, AudioNext_Inv, PTL DEF AudioSpec

\* What the program keeps has its type: the write queue stays below FlushSize, the queue
\* at most a flush over its limit, a buffer within its capacity, temp_buffer below a packet
\* (AudioDataBuffer.cpp:8-15, DownloadManager.cpp:282-334, AudioSender_encoder.cpp:11-61).
THEOREM AudioTypes == AudioSpec => []AudioTypeOK
<1>1. AudioInv => AudioTypeOK
  BY DEF AudioInv, AudioTypeOK, Store, Stored, Bounded, Control, Sound, Encoders
<1> QED  BY <1>1, AudioInvariant, PTL

\* A line is in order.
LEMMA InOrder == AudioInv => DecodedInOrder
<1> SUFFICES ASSUME AudioInv PROVE DecodedInOrder
  OBVIOUS
<1> DEFINE h == heard  f == fed  r == Unread  q == item.write_queue
<1>1. h \in Seq(Units) /\ f \in Seq(Units) /\ r \in Seq(Units) /\ q \in Seq(Units)
  BY UnreadType DEF AudioInv, InLine, Store, Stored
<1>2. /\ Sorted(h) /\ Sorted(f \o r) /\ Sorted(q) /\ Below(h, f \o r) /\ Below(h, q)
      /\ Below(f \o r, q)
  BY DEF AudioInv, InLine, Waiting
<1>3. Rises(h \o f \o r \o q)
  <2> HIDE DEF h, f, r, q
  <2> DEFINE w == f \o r
             l == h \o w
             all == l \o q
  <2>1. w \in Seq(Units)  BY <1>1, ConcatProperties
  <2>2. (h \o f) \o r = h \o (f \o r)
    <3>1. Regroups(h, f, r)  BY <1>1, SequencesRegroup
    <3> QED  BY <3>1 DEF Regroups
  <2>3. Sorted(w) /\ Below(h, w) /\ Below(w, q)  BY <1>2
  <2> HIDE DEF w
  <2>4. l \in Seq(Units)  BY <1>1, <2>1, ConcatProperties
  <2>5. h \in Seq(Int) /\ w \in Seq(Int) /\ q \in Seq(Int) /\ l \in Seq(Int)
    BY <1>1, <2>1, <2>4, UnitsAreNumbers
  <2>6. Sorted(l)  BY <1>2, <2>3, <2>5, ConcatSorted
  <2>7. Below(l, q)  BY <1>2, <2>3, <2>5, ConcatBelow
  <2> HIDE DEF l
  <2>8. Sorted(all)  BY <1>2, <2>5, <2>6, <2>7, ConcatSorted
  <2>9. Len(all) \in Nat  BY <1>1, <2>4, ConcatProperties
  <2> HIDE DEF all
  <2>10. Rises(all)
    <3> SUFFICES ASSUME NEW i \in 1 .. Len(all) - 1 PROVE all[i] < all[i + 1]
      BY DEF Rises
    <3>1. i \in 1 .. Len(all) /\ i + 1 \in 1 .. Len(all) /\ i < i + 1  BY <2>9
    <3> QED  BY <2>8, <3>1 DEF Sorted
  <2> QED  BY <2>2, <2>10 DEF all, l, w
<1>4. ~IsStream /\ SongSize <= format.capacity /\ stage # "astray" /\ heard # <<>> =>
        Last(heard) - Head(heard) + 1 = Len(heard)
  <2> SUFFICES ASSUME WholeFile, stage # "astray", heard # <<>>
               PROVE  Last(heard) - Head(heard) + 1 = Len(heard)
    BY DEF WholeFile
  <2>1. Follow(heard)  BY DEF AudioInv, Gapless
  <2>2. /\ Len(heard) \in Nat \ {0} /\ \A i \in 1 .. Len(heard) : heard[i] \in Nat
    BY <1>1, UnitsAreNumbers
  <2>3. heard[Len(heard)] = heard[1] + Len(heard) - 1 /\ heard[1] \in Nat
    BY <2>1, <2>2 DEF Follow
  <2> QED  BY <2>2, <2>3 DEF Last
<1> QED  BY <1>3, <1>4 DEF DecodedInOrder

\* Units are decoded in their order and none twice, and of a file that fits in its buffer
\* none is left out but for reads astray, for every size of reads, packets and chunks, also
\* of a song that was skipped or that ffmpeg failed to open (IO_Mpg123.cpp:8-18,
\* IO_FFmpeg.cpp:11-23, IOBuf_FFmpeg.cpp:31-48, AudioDataBuffer.cpp:8-15).
THEOREM AudioInOrder == AudioSpec => []DecodedInOrder
  BY InOrder, AudioInvariant, PTL

\* What the packets hold.
Sent == FlattenSeq([i \in DOMAIN frames |-> frames[i].samples])
Audible == Seq(Samples \cup {Stale})

\* The packets hold samples, or what lay behind them in memory.
LEMMA SentType ==
    ASSUME NEW fs \in Seq(Packet)
    PROVE  [i \in DOMAIN fs |-> fs[i].samples] \in Seq(Audible)
<1>1. ASSUME NEW i \in 1 .. Len(fs) PROVE fs[i].samples \in Audible
  <2>1. fs[i] \in Packet  OBVIOUS
  <2> QED  BY <2>1 DEF Packet, Audible
<1>2. Len(fs) \in Nat /\ DOMAIN fs = 1 .. Len(fs)
  OBVIOUS
<1> QED  BY <1>1, <1>2

\* Samples are among what packets hold.
LEMMA SamplesAreAudible == Seq(Samples) \subseteq Audible
  BY DEF Audible

\* A packet's samples are sent after those of the packets before it.
LEMMA SentGrows ==
    ASSUME frames \in Seq(Packet), NEW p \in Packet, frames' = Append(frames, p)
    PROVE  Sent' = Sent \o p.samples
<1> DEFINE s == [i \in DOMAIN frames |-> frames[i].samples]
           t == [i \in DOMAIN frames' |-> frames'[i].samples]
           x == p.samples
<1>1. s \in Seq(Audible) /\ x \in Audible
  BY SentType DEF Packet, Audible
<1>2. /\ frames' \in Seq(Packet) /\ Len(frames') = Len(frames) + 1 /\ Len(frames) \in Nat
      /\ frames'[Len(frames) + 1] = p /\ \A i \in 1 .. Len(frames) : frames'[i] = frames[i]
  BY AppendProperties
<1>3. t \in Seq(Audible) /\ Len(t) = Len(frames) + 1 /\ Len(s) = Len(frames)
  <2>1. Len(s) = Len(frames)  OBVIOUS
  <2> DEFINE g == frames'
  <2>2. g \in Seq(Packet) /\ Len(g) = Len(frames) + 1  BY <1>2
  <2> HIDE DEF g
  <2>3. [i \in DOMAIN g |-> g[i].samples] \in Seq(Audible)  BY <2>2, SentType
  <2>4. Len([i \in DOMAIN g |-> g[i].samples]) = Len(g)  BY <2>2
  <2> QED  BY <2>1, <2>2, <2>3, <2>4 DEF g
<1>4. \A i \in 1 .. Len(frames) : t[i] = s[i]
  BY <1>2
<1>5. t[Len(frames) + 1] = x
  BY <1>2
<1>6. Sent = FlattenSeq(s) /\ Sent' = FlattenSeq(t)
  BY DEF Sent
<1> HIDE DEF s, t, x
<1>7. t = Append(s, x)
  <2> DEFINE a == Append(s, x)
  <2>1. /\ a \in Seq(Audible) /\ Len(a) = Len(s) + 1
        /\ a[Len(s) + 1] = x /\ \A i \in 1 .. Len(s) : a[i] = s[i]
    BY <1>1, AppendProperties
  <2> HIDE DEF a
  <2>2. Len(t) = Len(a)  BY <1>3, <2>1
  <2>3. ASSUME NEW i \in 1 .. Len(t) PROVE t[i] = a[i]
    <3>1. i \in 1 .. Len(frames) \/ i = Len(frames) + 1  BY <1>2, <1>3
    <3>2. CASE i \in 1 .. Len(frames)
      BY <1>3, <1>4, <2>1, <3>2
    <3>3. CASE i = Len(frames) + 1
      BY <1>3, <1>5, <2>1, <3>3
    <3> QED  BY <3>1, <3>2, <3>3
  <2>4. t = a  BY <1>3, <2>1, <2>2, <2>3, SeqEqual
  <2> QED  BY <2>4 DEF a
<1>8. s \in Seq(Seq(Samples \cup {Stale})) /\ x \in Seq(Samples \cup {Stale})
  BY <1>1 DEF Audible
<1>9. FlattenSeq(Append(s, x)) = FlattenSeq(s) \o x
  BY <1>8, FlattenAppend
<1> QED  BY <1>6, <1>7, <1>9 DEF x

\* What is sent is what packets hold.
LEMMA SentIsAudible == frames \in Seq(Packet) => Sent \in Audible
  BY SentType, FlattenType DEF Sent, Audible

\* A packet of as many samples as it has room for holds them.
LEMMA FrameIsWhole ==
    ASSUME Sound, NEW samples \in Seq(Samples), NEW size \in EncodedSizes,
           NEW front \in Seq(Samples), Len(front) = 2 * OpusFrame,
           Len(front) <= Len(samples), \A k \in 1 .. Len(front) : samples[k] = front[k]
    PROVE  Frame(samples, size).samples = front
<1> DEFINE out == Frame(samples, size).samples
<1>1. /\ out \in Audible /\ Len(out) = 2 * OpusFrame
      /\ \A k \in 1 .. 2 * OpusFrame : k <= Len(samples) => out[k] = samples[k]
  BY FrameType DEF Packet, Audible
<1>2. OpusFrame \in Nat /\ Len(samples) \in Nat
  BY Parameters
<1> HIDE DEF out
<1>3. Len(out) = Len(front) /\ \A k \in 1 .. Len(out) : out[k] = front[k]
  BY <1>1, <1>2
<1>4. front \in Audible
  BY SamplesAreAudible
<1>5. out = front
  BY <1>1, <1>3, <1>4, SeqEqual DEF Audible
<1> QED  BY <1>5 DEF out

\* The packets, temp_buffer and the read in hand together are what was decoded.
SoundIs == (Sent \o encoder.temp) \o pcm = decoded

\* Of the songs of which nothing is said, the next one is not the same.
Sounding == Packs = 1 /\ format.encoding # "S32" /\ ~encoder.mono

\* Every step keeps them together.
LEMMA HeardKept ==
    ASSUME AudioInv, HeardAsDecoded, [AudioNext]_audioVars
    PROVE  HeardAsDecoded'
<1> DEFINE temp == encoder.temp
<1>1. /\ Sound /\ pcm \in Seq(Samples) /\ temp \in Seq(Samples)
      /\ decoded \in Seq(Samples) /\ frames \in Seq(Packet)
      /\ encoder \in Encoders
  BY DEF AudioInv, Sound, Encoders
<1>2. /\ pcm \in Audible /\ temp \in Audible /\ Sent \in Audible /\ <<>> \in Audible
  BY <1>1, SamplesAreAudible, SentIsAudible, EmptySeq
<1>3. SUFFICES ASSUME Sounding' PROVE SoundIs'
  BY DEF HeardAsDecoded, Sent, SoundIs, Sounding
<1>4. CASE StartSong
  <2>1. /\ frames' = <<>> /\ decoded' = temp \o pcm /\ pcm' = pcm /\ temp' = temp
    BY <1>1, <1>4 DEF StartSong, Encoders
  <2>2. Sent' = <<>>
    <3>1. [i \in DOMAIN <<>> |-> <<>>[i].samples] = <<>>  OBVIOUS
    <3> QED  BY <2>1, <3>1, FlattenEmpty DEF Sent
  <2>3. <<>> \o temp = temp  BY <1>2, ConcatEmptySeq DEF Audible
  <2> QED  BY <2>1, <2>2, <2>3 DEF SoundIs
<1>5. ASSUME ~StartSong PROVE Sounding /\ SoundIs
  <2>1. CASE AudioNext
    <3>1. Sounding  BY <1>3, <1>5, <2>1, SongGoesOn DEF Sounding
    <3> QED  BY <3>1 DEF HeardAsDecoded, Sent, SoundIs, Sounding
  <2>2. CASE UNCHANGED audioVars
    <3>1. Sounding  BY <1>3, <2>2 DEF Sounding, audioVars
    <3> QED  BY <3>1 DEF HeardAsDecoded, Sent, SoundIs, Sounding
  <2> QED  BY <2>1, <2>2
<1>6. CASE UNCHANGED <<pcm, encoder, decoded, frames>> /\ ~StartSong
  <2>1. Sent' = Sent  BY <1>6 DEF Sent
  <2> QED  BY <1>5, <1>6, <2>1 DEF SoundIs
<1>7. CASE start_consumer /\ ReadOk /\ ~StartSong
  <2>1. /\ Decoded \in Seq(Units) /\ pcm = <<>>
        /\ pcm' = process_audio_frame(RawSamples(Decoded))
        /\ Reference(Decoded) \in Seq(Samples) /\ decoded' = decoded \o Reference(Decoded)
        /\ temp' = temp
    BY <1>7, ReadSound DEF start_consumer
  <2>2. frames' = frames /\ format.encoding # "other"
    BY <1>7 DEF start_consumer, ReadOk
  <2>3. format \in Formats /\ format \in Song /\ volume \in Nat
    BY VolumeIsNat DEF AudioInv, Control, Store, Stored
  <2>4. Packs = 1 /\ format.encoding \in {"S16", "FLT"}
    BY <1>5, <1>7, <2>2, <2>3 DEF Sounding, Song
  <2>5. pcm' = Reference(Decoded)
    BY <2>1, <2>3, <2>4, ProcessIsReference
  <2>6. Sent' = Sent
    BY <2>2 DEF Sent
  <2>7. (Sent \o temp) \o <<>> = Sent \o temp
    <3> HIDE DEF temp
    <3>1. Sent \o temp \in Audible  BY <1>2, ConcatProperties DEF Audible
    <3> QED  BY <3>1, ConcatEmptySeq DEF Audible
  <2>8. decoded = Sent \o temp
    BY <1>5, <1>7, <2>1, <2>7 DEF SoundIs
  <2>9. SoundIs' <=> (Sent' \o temp') \o pcm' = decoded'
    BY DEF SoundIs
  <2> HIDE DEF temp
  <2> QED  BY <2>1, <2>5, <2>6, <2>8, <2>9
<1>8. CASE encode_opus_frame /\ EncodeFrame /\ ~StartSong
  <2>0. encoder.wanted = 2 * OpusFrame
    BY <1>5, <1>8 DEF Sounding, AudioInv, Sound, encode_opus_frame
  <2>1. PICK size \in EncodedSizes, front \in Seq(Samples), rest \in Seq(Samples) :
              /\ pcm = front \o rest /\ pcm' = rest
              /\ Len(temp \o front) = 2 * OpusFrame
              /\ \/ frames' = Append(frames, Frame(temp \o front, size))
                 \/ temp = <<>> /\ frames' = Append(frames, Frame(pcm, size))
              /\ encoder' = [encoder EXCEPT !.temp = <<>>, !.size = size]
    BY <1>1, <1>8, EncodeParts, <2>0
  <2> DEFINE packet == temp \o front
  <2>2. packet \in Seq(Samples) /\ Len(packet) = 2 * OpusFrame /\ Len(packet) \in Nat
    BY <1>1, <2>1, ConcatProperties
  <2>3. temp' = <<>> /\ decoded' = decoded
    <3>1. decoded' = decoded  BY <1>8 DEF EncodeFrame
    <3>2. encoder'.temp = <<>>  BY <1>1, <2>1
    <3> QED  BY <3>1, <3>2
  <2>4. PICK p \in Packet : frames' = Append(frames, p) /\ p.samples = packet
    <3>1. CASE frames' = Append(frames, Frame(packet, size))
      <4> HIDE DEF packet
      <4>1. Frame(packet, size) \in Packet /\ Frame(packet, size).samples = packet
        <5>1. Frame(packet, size) \in Packet  BY <1>1, <2>2, FrameType
        <5>2. Len(packet) <= Len(packet)  BY <2>2
        <5>3. Frame(packet, size).samples = packet  BY <1>1, <2>2, <5>2, FrameIsWhole
        <5> QED  BY <5>1, <5>3
      <4> QED  BY <3>1, <4>1
    <3>2. CASE temp = <<>> /\ frames' = Append(frames, Frame(pcm, size))
      <4>1. packet = front  BY <3>2, ConcatEmptySeq
      <4>2. /\ Len(pcm) = Len(front) + Len(rest) /\ Len(front) \in Nat /\ Len(rest) \in Nat
            /\ \A k \in 1 .. Len(front) : pcm[k] = front[k]
        BY <2>1, ConcatLength, ConcatIndex
      <4>3. Len(front) = 2 * OpusFrame /\ Len(front) <= Len(pcm)
        BY <2>1, <4>1, <4>2
      <4>4. Frame(pcm, size) \in Packet /\ Frame(pcm, size).samples = front
        BY <1>1, <4>2, <4>3, FrameType, FrameIsWhole
      <4> QED  BY <3>2, <4>1, <4>4
    <3> QED  BY <2>1, <3>1, <3>2
  <2>5. Sent' = Sent \o packet
    BY <1>1, <2>4, SentGrows
  <2>6. ((Sent \o (temp \o front)) \o <<>>) \o rest = (Sent \o temp) \o (front \o rest)
    <3> DEFINE S == Samples \cup {Stale}  s == Sent
    <3>1. front \in Seq(S) /\ rest \in Seq(S) /\ temp \in Seq(S) /\ s \in Seq(S)
      BY <1>2, SamplesAreAudible DEF Audible
    <3> HIDE DEF S, temp, s
    <3> DEFINE st == s \o temp
               stf == s \o (temp \o front)
    <3>2. st \in Seq(S) /\ temp \o front \in Seq(S)
      BY <3>1, ConcatProperties
    <3>3. stf \in Seq(S)
      BY <3>1, <3>2, ConcatProperties
    <3> HIDE DEF st, stf
    <3>4. Regroups(s, temp, front) /\ Regroups(st, front, rest)
      BY <3>1, <3>2, SequencesRegroup
    <3>5. stf \o <<>> = stf
      BY <3>3, ConcatEmptySeq
    <3> QED  BY <3>4, <3>5 DEF Regroups, s, st, stf
  <2>7. (Sent \o temp) \o pcm = decoded /\ (SoundIs' <=> (Sent' \o temp') \o pcm' = decoded')
    BY <1>5, <1>8 DEF SoundIs
  <2> HIDE DEF temp
  <2> QED  BY <2>1, <2>3, <2>5, <2>6, <2>7
<1>9. CASE encode_opus_frame /\ EncodeFails /\ ~StartSong
  <2>1. /\ pcm' = <<>> /\ Sent' = Sent /\ temp' = temp
        /\ decoded' = SubSeq(decoded, 1, Len(decoded) - Len(pcm))
    BY <1>1, <1>9 DEF EncodeFails, Sent, Encoders
  <2> DEFINE a == Sent \o temp
  <2>2. a \in Audible
    BY <1>2, ConcatProperties DEF Audible
  <2>3. a \o pcm = decoded
    BY <1>5, <1>9 DEF SoundIs
  <2> HIDE DEF a
  <2>4. /\ Len(decoded) = Len(a) + Len(pcm) /\ Len(a) \in Nat /\ Len(pcm) \in Nat
        /\ \A k \in 1 .. Len(a) : decoded[k] = a[k]
    BY <1>2, <2>2, <2>3, ConcatLength, ConcatIndex DEF Audible
  <2>5. Len(decoded) - Len(pcm) = Len(a) /\ Len(a) \in 0 .. Len(decoded)
    BY <2>4
  <2> DEFINE b == SubSeq(decoded, 1, Len(a))
  <2>6. b \in Seq(Samples) /\ Len(b) = Len(a) /\ \A k \in 1 .. Len(a) : b[k] = decoded[k]
    BY <1>1, <2>5, SplitSeq
  <2> HIDE DEF b
  <2>7. b = a
    <3>1. b \in Audible  BY <2>6, SamplesAreAudible
    <3>2. \A k \in 1 .. Len(b) : b[k] = a[k]  BY <2>4, <2>6
    <3> QED  BY <2>2, <2>6, <3>1, <3>2, SeqEqual DEF Audible
  <2>8. a \o <<>> = a
    BY <2>2, ConcatEmptySeq DEF Audible
  <2>9. decoded' = a
    BY <2>1, <2>5, <2>7 DEF b
  <2>10. (Sent' \o temp') \o pcm' = a \o <<>>
    BY <2>1 DEF a
  <2> QED  BY <2>8, <2>9, <2>10 DEF SoundIs
<1>10. CASE encode_opus_frame /\ KeepRest /\ ~StartSong
  <2>1. /\ pcm' = <<>> /\ decoded' = decoded /\ Sent' = Sent /\ temp' = temp \o pcm
    BY <1>1, <1>10 DEF KeepRest, Sent, Encoders
  <2>2. (Sent \o (temp \o pcm)) \o <<>> = (Sent \o temp) \o pcm
    <3> HIDE DEF temp
    <3>1. (Sent \o temp) \o pcm = Sent \o (temp \o pcm)
      BY <1>2, ConcatAssociative DEF Audible
    <3>2. temp \o pcm \in Audible  BY <1>2, ConcatProperties DEF Audible
    <3>3. Sent \o (temp \o pcm) \in Audible  BY <1>2, <3>2, ConcatProperties DEF Audible
    <3> QED  BY <3>1, <3>3, ConcatEmptySeq DEF Audible
  <2>3. (Sent \o temp) \o pcm = decoded /\ (SoundIs' <=> (Sent' \o temp') \o pcm' = decoded')
    BY <1>5, <1>10 DEF SoundIs
  <2> HIDE DEF temp
  <2> QED  BY <2>1, <2>2, <2>3
<1>11. AudioNext \/ UNCHANGED <<pcm, encoder, decoded, frames>>
  BY DEF audioVars
<1> HIDE DEF temp
<1> QED  BY <1>4, <1>6, <1>7, <1>8, <1>9, <1>10, <1>11, SoundSteps

\* What the packets hold and what is kept back is what the song holds at its volume, sample by
\* sample, over reads, volumes and songs, without AVX2 and but for songs of 32 bits
\* or of one channel (AudioSender_encoder.cpp:11-61, AudioUtils.h:218-335).
THEOREM AudioHeard == AudioSpec => []HeardAsDecoded
<1>1. AudioInit => HeardAsDecoded
  <2> SUFFICES ASSUME AudioInit PROVE HeardAsDecoded
    OBVIOUS
  <2>1. frames = <<>> /\ pcm = <<>> /\ decoded = <<>> /\ encoder.temp = <<>>
    BY DEF AudioInit
  <2>2. [i \in DOMAIN <<>> |-> <<>>[i].samples] = <<>> /\ <<>> \o <<>> = <<>>
    OBVIOUS
  <2> QED  BY <2>1, <2>2, FlattenEmpty DEF HeardAsDecoded
<1>2. AudioInv /\ HeardAsDecoded /\ [AudioNext]_audioVars => HeardAsDecoded'
  BY HeardKept
<1> QED  BY <1>1, <1>2, AudioInvariant, PTL DEF AudioSpec
=============================================================================
