------------------------------ MODULE FraWindow ------------------------------
(***************************************************************************)
(* leaders::cache and leaders::window: an epoch's leader file is checked   *)
(* and loaded, its slots are compressed to a bitmap of those led from the  *)
(* allowed regions, and a 64-bit window slides over the bitmap.  Slots     *)
(* come from packets, so slide_to may be called with any u64.              *)
(*                                                                         *)
(* A word is the set of its bits that are set.                             *)
(***************************************************************************)
EXTENDS Integers, Sequences

CONSTANTS
    Files,     \* leader files: what the producer may have written
    Names,     \* region names
    TwoTo64    \* slots are below it: u64 wraps here (a bound in TLC's runs)

UNKNOWN_REGION_CODE == 255
MAX_REGIONS == 64
HALF_WINDOW == 31

U64 == 0 .. TwoTo64 - 1
Bits == 0 .. 63

ASSUME WindowAssumption ==
    /\ TwoTo64 \in Nat /\ TwoTo64 > 64
    /\ \A f \in Files :
         /\ f \in [epoch_start_slot : U64, epoch_end_slot : U64, slots_in_epoch : U64,
                   regions : Seq(Names), slots : Seq(0 .. 255)]
         /\ f.epoch_start_slot + Len(f.slots) <= TwoTo64

VARIABLES
    file, allowed,     \* the loaded EpochLeaderMap, the allowed region names
    presence,          \* the bitmap: a word for each word index
    base, mask,        \* its first slot, and its 64 bits
    strayed            \* history: slide_to was called with a slot of another epoch

window == <<file, allowed, presence, base, mask, strayed>>

\* EpochLeaderMap::from_wire; epochEndSlot - epochStartSlot saturates.
span(f) == IF f.epoch_end_slot < f.epoch_start_slot THEN 1
           ELSE f.epoch_end_slot - f.epoch_start_slot + 1

from_wire(f) ==
    /\ Len(f.slots) = f.slots_in_epoch
    /\ span(f) = f.slots_in_epoch
    /\ Len(f.regions) <= MAX_REGIONS
    /\ \A i \in DOMAIN f.slots : f.slots[i] = UNKNOWN_REGION_CODE \/ f.slots[i] < Len(f.regions)

\* The codes of the allowed names: of a name that is there twice, the first.
allowed_mask(f, names) ==
    {c \in Bits : /\ c < Len(f.regions) /\ f.regions[c + 1] \in names
                  /\ \A d \in 1 .. c : f.regions[d] # f.regions[c + 1]}

\* ceil(len / 64) words; an unknown code is above every bit of the mask.
words(f) == 0 .. ((Len(f.slots) + 63) \div 64) - 1
build_presence_bitmap(f, codes) ==
    [w \in words(f) |->
        {b \in Bits : 64 * w + b < Len(f.slots) /\ f.slots[64 * w + b + 1] \in codes}]
-----------------------------------------------------------------------------
\* 64 bits from bit offset off on; what is past the end reads as zero.
word(bits, w) == IF w \in DOMAIN bits THEN bits[w] ELSE {}

read_u64_at_bit_offset(bits, off) ==
    LET w == off \div 64
        shift == off % 64
        lo == {i \in Bits : i + shift \in word(bits, w)}
        hi == {i \in Bits : i - (64 - shift) \in word(bits, w + 1)}
    IN IF shift = 0 THEN lo ELSE lo \cup hi

wrapping_sub(a, b) == IF a >= b THEN a - b ELSE a - b + TwoTo64
wrapping_add(a, b) == IF a + b < TwoTo64 THEN a + b ELSE a + b - TwoTo64
\* Mutant: the subtraction does not saturate.
saturating_sub_Plain(a, b) == a - b

saturating_sub(a, b) == IF a >= b THEN a - b ELSE 0

\* wrapping_shr takes the offset modulo 64, and in_range zeroes what that aliases.
contains(slot) ==
    LET off == wrapping_sub(slot, base) IN (off % 64) \in mask /\ off < 64

WindowInit ==
    /\ file \in Files /\ from_wire(file)
    /\ allowed \in SUBSET Names
    /\ presence = build_presence_bitmap(file, allowed_mask(file, allowed))
    /\ base = file.epoch_start_slot
    /\ mask = read_u64_at_bit_offset(presence, 0)
    /\ strayed = FALSE

covered(highest) == highest <= wrapping_add(base, 63) /\ highest >= base
outside(highest) == highest < file.epoch_start_slot \/ highest > file.epoch_end_slot

Covered(highest) == covered(highest) /\ UNCHANGED window

\* Mutant: a slot of another epoch moves the window and leaves the mask.
Stray_KeepsMask(highest) ==
    /\ ~covered(highest) /\ outside(highest)
    /\ base' = saturating_sub(highest, HALF_WINDOW)
    /\ strayed' = TRUE
    /\ UNCHANGED <<file, allowed, presence, mask>>

\* Refuse to match anything until the caller rotates to another bitmap.
Stray(highest) ==
    /\ ~covered(highest) /\ outside(highest)
    /\ mask' = {}
    /\ base' = saturating_sub(highest, HALF_WINDOW)
    /\ strayed' = TRUE
    /\ UNCHANGED <<file, allowed, presence>>

new_base(highest) ==
    LET b == saturating_sub(highest, HALF_WINDOW) IN
    IF b < file.epoch_start_slot THEN file.epoch_start_slot ELSE b

\* Mutant: the window is not clamped to the epoch's start.
Slide_Unclamped(highest) ==
    /\ ~covered(highest) /\ ~outside(highest)
    /\ base' = saturating_sub(highest, HALF_WINDOW)
    /\ mask' = read_u64_at_bit_offset(presence, wrapping_sub(base', file.epoch_start_slot))
    /\ UNCHANGED <<file, allowed, presence, strayed>>

Slide(highest) ==
    /\ ~covered(highest) /\ ~outside(highest)
    /\ base' = new_base(highest)
    /\ mask' = read_u64_at_bit_offset(presence, wrapping_sub(base', file.epoch_start_slot))
    /\ UNCHANGED <<file, allowed, presence, strayed>>

slide_to(highest) == Covered(highest) \/ Stray(highest) \/ Slide(highest)

WindowNext == \E highest \in U64 : slide_to(highest)

WindowSpec == WindowInit /\ [][WindowNext]_window
-----------------------------------------------------------------------------
WindowTypeOK ==
    /\ file \in Files /\ from_wire(file) /\ allowed \in SUBSET Names
    /\ presence \in [words(file) -> SUBSET Bits]
    /\ base \in U64 /\ mask \in SUBSET Bits
    /\ strayed \in BOOLEAN

\* Is slot one of the epoch's, with a leader in one of the allowed regions?
\* Regions are interned by fetch.rs, so a name has one code.
InRegion(slot) ==
    LET i == slot - file.epoch_start_slot + 1 IN
    /\ i \in DOMAIN file.slots
    /\ file.slots[i] # UNKNOWN_REGION_CODE
    /\ file.regions[file.slots[i] + 1] \in allowed

\* Whatever slots the window was slid to, it never lets through a slot of another
\* epoch, of a region that is not allowed or of an unknown one (window.rs:107-115).
Sound == \A slot \in U64 : contains(slot) => InRegion(slot)

Interned == \A c, d \in DOMAIN file.regions : file.regions[c] = file.regions[d] => c = d

\* As long as it was slid to slots of its epoch only, the window answers exactly for
\* each of the slots it covers.
Exact ==
    Interned /\ ~strayed =>
        \A slot \in U64 : slot - base \in Bits => (contains(slot) <=> InRegion(slot))
=============================================================================
