---------------------------- MODULE SizeClasses ----------------------------
(***************************************************************************)
(* The size classes: the tables, and the arithmetic that finds the class   *)
(* of a request without looking at them.  Sizes are real; a size_t has     *)
(* WordBits bits instead of 64, so that the largest requests overflow.     *)
(***************************************************************************)
EXTENDS Integers, Sequences, SequencesExt, FiniteSetsExt

CONSTANT WordBits     \* bits of a size_t

ASSUME WordAssumption == WordBits \in 20 .. 64

\* Arithmetic that the provers do not know.
ASSUME PowerAssumption ==
  \A k \in 0 .. WordBits - 1 : 2^k \in Nat /\ 2^(k + 1) = 2 * 2^k

Word == 2^WordBits
SIZE_MAX == Word - 1
PAGE_SIZE == 4096
min_align == 16

base_size_classes ==
  <<0, 16, 32, 48, 64, 80, 96, 112, 128, 160, 192, 224, 256, 320, 384, 448, 512,
    640, 768, 896, 1024, 1280, 1536, 1792, 2048, 2560, 3072, 3584, 4096,
    5120, 6144, 7168, 8192, 10240, 12288, 14336, 16384>>
extended_size_classes ==
  <<20480, 24576, 28672, 32768, 40960, 49152, 57344, 65536, 81920, 98304, 114688, 131072>>

base_size_class_slots ==
  <<256, 256, 128, 85, 64, 51, 42, 36, 64, 51, 64, 54, 64, 64, 64, 64, 64,
    64, 64, 64, 64, 16, 16, 16, 16, 8, 8, 8, 8, 8, 8, 8, 8, 6, 5, 4, 4>>

\* A slab of an extended class has one slot.
size_class_slots ==
  base_size_class_slots \o [c \in 1 .. Len(extended_size_classes) |-> 1]

\* With and without CONFIG_EXTENDED_SIZE_CLASSES; class 0 is the first.
size_classes(extended) ==
  IF extended THEN base_size_classes \o extended_size_classes ELSE base_size_classes
max_slab_size_class(extended) == IF extended THEN 131072 ELSE 16384
SizeOfClass(extended, class) == size_classes(extended)[class + 1]

\* (size + mask) & ~mask, which wraps around
FaultyAlign(size, to) == (((size + to) % Word) \div to) * to
align(size, to) == (((size + to - 1) % Word) \div to) * to
page_align(size) == align(size, PAGE_SIZE)
log2u64(x) == Max({k \in 0 .. WordBits - 1 : 2^k <= x})

\* Four classes for every doubling: the spacing of the classes is a quarter of
\* the power of two below the size.
SpacingShift(size) == log2u64(size - 1) - 2

get_size_info(size) ==
  LET shift == SpacingShift(size)
      real == align(size, 2^shift)
  IN  IF size = 0 THEN [size |-> 0, class |-> 0]
      ELSE IF size <= 128 THEN [size |-> align(size, 16), class |-> (size - 1) \div 16 + 1]
      ELSE [size |-> real, class |-> (shift - 4) * 4 + 5 + (real \div 2^shift) - 5]

\* The first class from there on that is a multiple of the alignment.
get_size_info_align(extended, size, alignment) ==
  LET start == Max({1, get_size_info(size).class})
      class == Min({c \in start .. Len(size_classes(extended)) - 1 :
                      /\ size <= SizeOfClass(extended, c)
                      /\ SizeOfClass(extended, c) % alignment = 0})
  IN  [size |-> SizeOfClass(extended, class), class |-> class]

\* 0 on overflow; large: CONFIG_LARGE_SIZE_CLASSES
get_large_size_class(large, size) ==
  IF large THEN get_size_info(Max({size, PAGE_SIZE})).size ELSE page_align(size)

get_slab_size(slots, size) == page_align(slots * size)
=============================================================================
