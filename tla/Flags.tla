-------------------------------- MODULE Flags --------------------------------
(***************************************************************************)
(* The class Flags of include/Utilities.h: a std::bitset<Size> indexed by  *)
(* the value of an enumerator.  bits is the set of bits that are set in    *)
(* the word of the bitset.                                                 *)
(*                                                                         *)
(* Flag_Values[Value] does not check its index.  Past the end the program  *)
(* is undefined; what the library does is to take the index modulo the     *)
(* bits of the machine word the bitset is stored in, WordBits.  test()     *)
(* checks its index and throws std::out_of_range.                          *)
(***************************************************************************)
EXTENDS Naturals

CONSTANTS
    Size,       \* template argument of Flags
    WordBits    \* bits in the word std::bitset<Size> is stored in

(* The word is an unsigned long, whose bits no template argument exceeds. *)
ASSUME FlagsAssumption == Size \in Nat /\ WordBits \in {32, 64} /\ Size <= WordBits

Bit(Value) == Value % WordBits

SetFlag(bits, Value) == bits \cup {Bit(Value)}
SetFlags(bits, Values) == bits \cup {Bit(Value) : Value \in Values}
RemoveFlag(bits, Value) == bits \ {Bit(Value)}

(* HasFlag answers only for a Value that Throws does not hold of. *)
Throws(Value) == Value >= Size
HasFlag(bits, Value) == Value \in bits

=============================================================================
