-------------------------------- MODULE Hei --------------------------------
(***************************************************************************)
(* hei::device and the interface counter behind it (hei/hei_device.hpp,    *)
(* hei/hei_device.cpp).  Every device opens the HEI library, a transport   *)
(* and a device; close(), which is also the destructor, gives all three    *)
(* back.  The library is external: it is open while HEIOpen was called     *)
(* more often than HEIClose.                                               *)
(***************************************************************************)
EXTENDS Integers, FiniteSets

CONSTANTS
  Objs,       \* device objects
  Handles,    \* transport/device pairs the library hands out, each used once
  Null,       \* the null pointer
  MaxClose    \* bound: explicit calls of close() on one object

ASSUME HandlesAssumption == Null \notin Handles /\ IsFiniteSet(Objs)
ASSUME MaxCloseAssumption == MaxClose \in Nat

VARIABLES
  count,      \* interface::count
  lib,        \* calls of HEIOpen less calls of HEIClose
  transport, device,  \* the library's view of a handle: "unused", "open", "closed"
  live,       \* the objects that exist
  tran, dev,  \* _M_tran and _M_dev
  closes,     \* explicit close() calls so far (for the bound only)
  failed,     \* history: constructors that threw
  careless    \* history: an object without a device was closed or destroyed

vars == <<count, lib, transport, device, live, tran, dev, closes, failed, careless>>

Stages == {"unused", "open", "closed"}

Init ==
  /\ count = 0 /\ lib = 0
  /\ transport = [h \in Handles |-> "unused"]
  /\ device = [h \in Handles |-> "unused"]
  /\ live = {}
  /\ tran = [o \in Objs |-> Null]
  /\ dev = [o \in Objs |-> Null]
  /\ closes = [o \in Objs |-> 0]
  /\ failed = 0 /\ careless = FALSE

----------------------------------------------------------------------------
(* struct interface: open() is open_library, close() is close_library.     *)

open_library == count' = count + 1 /\ lib' = lib + 1

(* Mutant: HEIClose whatever the counter says. *)
close_libraryAlways == count' = count - 1 /\ lib' = lib - 1

close_library ==
  IF count # 0 THEN count' = count - 1 /\ lib' = lib - 1
               ELSE UNCHANGED <<count, lib>>

DefaultConstruct(o) ==
  /\ o \notin live
  /\ live' = live \cup {o}
  /\ UNCHANGED <<count, lib, transport, device, tran, dev, closes, failed, careless>>

Open(o, h) ==
  /\ o \notin live /\ transport[h] = "unused"
  /\ open_library
  /\ transport' = [transport EXCEPT ![h] = "open"]
  /\ device' = [device EXCEPT ![h] = "open"]
  /\ tran' = [tran EXCEPT ![o] = h]
  /\ dev' = [dev EXCEPT ![o] = h]
  /\ live' = live \cup {o}
  /\ UNCHANGED <<closes, failed, careless>>

(* Where the constructor throws decides what stays open: no destructor     *)
(* runs, and neither the transport nor the count is given back.            *)
OpenThrows(o, h, where) ==
  /\ o \notin live /\ transport[h] = "unused"
  /\ open_library
  /\ transport' = [transport EXCEPT ![h] = IF where = "transport" THEN "closed" ELSE "open"]
  /\ device' = [device EXCEPT ![h] = IF where = "read" THEN "open" ELSE @]
  /\ failed' = failed + 1
  /\ UNCHANGED <<live, tran, dev, closes, careless>>

(* Mutant: close() keeps its pointers. *)
CloseKeepsPointers(o) ==
  /\ device' = [h \in Handles |-> IF h = dev[o] THEN "closed" ELSE device[h]]
  /\ transport' = [h \in Handles |-> IF h = tran[o] THEN "closed" ELSE transport[h]]
  /\ UNCHANGED <<tran, dev>>
  /\ close_library
  /\ careless' = (careless \/ dev[o] = Null)

(* device::close() *)
Closing(o) ==
  /\ device' = [h \in Handles |-> IF h = dev[o] THEN "closed" ELSE device[h]]
  /\ transport' = [h \in Handles |-> IF h = tran[o] THEN "closed" ELSE transport[h]]
  /\ dev' = [dev EXCEPT ![o] = Null]
  /\ tran' = [tran EXCEPT ![o] = Null]
  /\ close_library
  /\ careless' = (careless \/ dev[o] = Null)

Close(o) ==
  /\ o \in live /\ closes[o] < MaxClose
  /\ closes' = [closes EXCEPT ![o] = @ + 1]
  /\ Closing(o)
  /\ UNCHANGED <<live, failed>>

Destroy(o) ==
  /\ o \in live
  /\ live' = live \ {o}
  /\ Closing(o)
  /\ UNCHANGED <<closes, failed>>

(* Mutant: a move that leaves the pointers in both objects. *)
SwapCopies(a, b) ==
  /\ a \in live /\ b \in live /\ a # b
  /\ tran' = [tran EXCEPT ![a] = tran[b]]
  /\ dev' = [dev EXCEPT ![a] = dev[b]]
  /\ UNCHANGED <<count, lib, transport, device, live, closes, failed, careless>>

(* Move construction, move assignment and swap. *)
Swap(a, b) ==
  /\ a \in live /\ b \in live /\ a # b
  /\ tran' = [tran EXCEPT ![a] = tran[b], ![b] = tran[a]]
  /\ dev' = [dev EXCEPT ![a] = dev[b], ![b] = dev[a]]
  /\ UNCHANGED <<count, lib, transport, device, live, closes, failed, careless>>

Next ==
  \E o \in Objs :
    \/ DefaultConstruct(o)
    \/ \E h \in Handles : Open(o, h)
    \/ \E h \in Handles, where \in {"transport", "query", "read"} : OpenThrows(o, h, where)
    \/ Close(o) \/ Destroy(o)
    \/ \E b \in Objs : Swap(o, b)

Spec == Init /\ [][Next]_vars

----------------------------------------------------------------------------
TypeOK ==
  /\ count \in Nat /\ lib \in Int
  /\ transport \in [Handles -> Stages] /\ device \in [Handles -> Stages]
  /\ live \subseteq Objs
  /\ tran \in [Objs -> Handles \cup {Null}] /\ dev \in [Objs -> Handles \cup {Null}]
  /\ closes \in [Objs -> 0 .. MaxClose]
  /\ failed \in Nat /\ careless \in BOOLEAN

Opened == {o \in Objs : dev[o] # Null}

(* Whatever is moved, closed or destroyed, a transport and a device are    *)
(* owned by one object, together, and are open as long as they are owned:  *)
(* nothing is closed twice and no request goes to a closed device.  Only a *)
(* constructor that throws leaves a transport or a device open and unowned. *)
OwnedOnceAndOpen ==
  /\ Cardinality({h \in Handles : transport[h] = "open" \/ device[h] = "open"}
                   \ {dev[o] : o \in Objs}) <= failed
  /\ \A a \in Objs :
       /\ tran[a] = dev[a]
       /\ dev[a] # Null => /\ a \in live
                           /\ transport[dev[a]] = "open" /\ device[dev[a]] = "open"
                           /\ \A b \in Objs : dev[b] = dev[a] => b = a

(* As long as no empty device object is closed or destroyed, the library   *)
(* is opened once for every open device and every constructor that threw:  *)
(* it stays open until the last device is closed.  Once the last object is *)
(* gone, and no constructor threw, the library is shut down.               *)
InterfaceAccount ==
  /\ ~careless => lib = count /\ count = Cardinality(Opened) + failed
  /\ live = {} /\ failed = 0 => lib = 0

(* The library is open as long as a device is.  It is not: the destructor  *)
(* of a default constructed or moved-from object, or a second close(),     *)
(* shuts it under a device that is open (see MCHeiShut.cfg).               *)
InterfaceWhileOpen == Opened # {} => lib > 0
=============================================================================
