------------------------------ MODULE HeiInput -----------------------------
(***************************************************************************)
(* device::read_input (hei/hei_device.cpp): one discrete input of a module *)
(* out of the bytes of its input memory.  A byte is the set of its bits    *)
(* that are 1; read_data is external and gives the byte at an address.     *)
(***************************************************************************)
EXTENDS Integers

CONSTANT MaxUnsigned   \* the largest unsigned: 2^32 - 1 in the code

(* An unsigned has 16 bits at least. *)
ASSUME MaxUnsignedAssumption == MaxUnsigned \in Nat /\ 256 * 256 <= MaxUnsigned + 1

Unsigned(n) == n % (MaxUnsigned + 1)

(* Input 0 wraps round and asks for an address far outside the module.     *)
read_input(memory, offset, input) ==
  LET address == Unsigned(offset + Unsigned(input - 1) \div 8)
      bit == Unsigned(input - 1) % 8
  IN  bit \in memory[address]

(* Reference: a module that packs its inputs, counted from 1, into bytes   *)
(* from offset on, the lowest bit first; `on` are the inputs that are on.  *)
Packed(on, offset, size) ==
  [a \in offset .. offset + size - 1 |->
     {b \in 0 .. 7 : 8 * (a - offset) + b + 1 \in on}]
=============================================================================
