----------------------------- MODULE HeiProofs -----------------------------
(***************************************************************************)
(* Proofs about Hei: for every finite set of device objects and every set  *)
(* of handles, a handle has one owner and is open while it has, and the    *)
(* counter of the interface is what it should be.                          *)
(***************************************************************************)
EXTENDS Hei, FiniteSetTheorems, TLAPS

(* Handles that are open although no object has them. *)
Orphans == {h \in Handles : transport[h] = "open" \/ device[h] = "open"} \ {dev[o] : o \in Objs}

Owned ==
  \A a \in Objs :
    /\ tran[a] = dev[a]
    /\ dev[a] # Null => /\ a \in live
                        /\ transport[dev[a]] = "open" /\ device[dev[a]] = "open"
                        /\ \A b \in Objs : dev[b] = dev[a] => b = a

(* A device is opened through its transport. *)
Opening == \A h \in Handles : transport[h] = "unused" => device[h] = "unused"

Few == IsFiniteSet(Orphans) /\ Cardinality(Orphans) <= failed

(* The counter and the library go together; the counter may be too small,  *)
(* since a careless close() takes what another object has added, but not   *)
(* too large, and never stops at zero in a close() that is not careless.   *)
Counted ==
  /\ lib = count
  /\ count <= Cardinality(Opened) + failed
  /\ ~careless => count = Cardinality(Opened) + failed

Inv == TypeOK /\ Owned /\ Opening /\ Few /\ Counted

----------------------------------------------------------------------------
LEMMA NullType == Null \notin Handles /\ IsFiniteSet(Objs)
  BY HandlesAssumption

LEMMA OpenedFinite == IsFiniteSet(Opened) /\ Cardinality(Opened) \in Nat
<1>1. Opened \in SUBSET Objs
  BY DEF Opened
<1> QED
  BY <1>1, NullType, FS_Subset, FS_CardinalityType

(* Fewer orphans keep the bound. *)
LEMMA FewerOrphans ==
  ASSUME Inv, Orphans' \subseteq Orphans, failed' = failed
  PROVE  Few'
<1>1. /\ IsFiniteSet(Orphans') /\ Cardinality(Orphans') <= Cardinality(Orphans)
      /\ Cardinality(Orphans') \in Nat /\ Cardinality(Orphans) \in Nat
  BY FS_Subset, FS_CardinalityType DEF Inv, Few
<1> QED
  BY <1>1 DEF Inv, Few, TypeOK

LEMMA InitInv == Init => Inv
<1> SUFFICES ASSUME Init PROVE Inv
  OBVIOUS
<1>1. TypeOK
  <2>1. closes \in [Objs -> 0 .. MaxClose]
    BY MaxCloseAssumption DEF Init
  <2>2. tran \in [Objs -> Handles \cup {Null}] /\ dev \in [Objs -> Handles \cup {Null}]
    BY DEF Init
  <2>3. transport \in [Handles -> Stages] /\ device \in [Handles -> Stages]
    BY DEF Init, Stages
  <2>4. count \in Nat /\ lib \in Int /\ live \subseteq Objs /\ failed \in Nat
    BY DEF Init
  <2>5. careless \in BOOLEAN
    BY Zenon DEF Init
  <2> QED
    BY <2>1, <2>2, <2>3, <2>4, <2>5 DEF TypeOK
<1>2. Owned /\ Opening
  BY DEF Init, Owned, Opening
<1>3. Orphans = {} /\ Opened = {}
  BY DEF Init, Orphans, Opened
<1>4. Few /\ Counted
  BY <1>3, FS_EmptySet DEF Init, Few, Counted
<1> QED
  BY <1>1, <1>2, <1>4 DEF Inv

LEMMA OpenInv ==
  ASSUME Inv, NEW o \in Objs, NEW h \in Handles, Open(o, h)
  PROVE  Inv'
<1> USE DEF Inv, Open
<1>0. /\ dev[o] = Null /\ tran[o] = Null /\ device[h] = "unused"
      /\ \A a \in Objs : dev[a] # h
  BY NullType DEF Owned, Opening, TypeOK
<1>1. TypeOK'
  BY DEF TypeOK, open_library, Stages
<1>2. Owned' /\ Opening'
  BY <1>0, NullType DEF TypeOK, Owned, Opening
<1>3. Orphans' \subseteq Orphans
  <2>1. dev'[o] = h /\ \A a \in Objs \ {o} : dev'[a] = dev[a]
    BY DEF TypeOK
  <2>2. \A x \in Handles \ {h} : transport'[x] = transport[x] /\ device'[x] = device[x]
    BY DEF TypeOK
  <2>3. \A x \in Orphans' : x \in Handles \ {h} /\ \A a \in Objs : x # dev[a]
    BY <1>0, <2>1, NullType DEF Orphans
  <2> QED
    BY <2>2, <2>3 DEF Orphans
<1>4. Few'
  BY <1>3, FewerOrphans
<1>5. Opened' = Opened \cup {o} /\ o \notin Opened
  BY <1>0, NullType DEF Opened, TypeOK
<1>6. Cardinality(Opened') = Cardinality(Opened) + 1
  BY <1>5, OpenedFinite, FS_AddElement
<1>7. Counted'
  BY <1>6, OpenedFinite DEF Counted, TypeOK, open_library
<1> QED
  BY <1>1, <1>2, <1>4, <1>7

LEMMA OpenThrowsInv ==
  ASSUME Inv, NEW o \in Objs, NEW h \in Handles, NEW where \in {"transport", "query", "read"},
         OpenThrows(o, h, where)
  PROVE  Inv'
<1> USE DEF Inv, OpenThrows
<1>0. device[h] = "unused" /\ \A a \in Objs : dev[a] # h
  BY NullType DEF Owned, Opening, TypeOK
<1>1. TypeOK'
  BY DEF TypeOK, open_library, Stages
<1>2. Owned' /\ Opening'
  BY <1>0, NullType DEF TypeOK, Owned, Opening
<1>3. Orphans' \in SUBSET (Orphans \cup {h})
  BY <1>0 DEF Orphans, TypeOK
<1>4. Few'
  <2>1. /\ IsFiniteSet(Orphans \cup {h}) /\ Cardinality(Orphans) \in Nat
        /\ Cardinality(Orphans \cup {h}) <= Cardinality(Orphans) + 1
    <3>1. IsFiniteSet(Orphans) /\ Cardinality(Orphans) \in Nat
      BY FS_CardinalityType DEF Few
    <3>2. /\ IsFiniteSet(Orphans \cup {h})
          /\ Cardinality(Orphans \cup {h}) \in {Cardinality(Orphans), Cardinality(Orphans) + 1}
      BY <3>1, FS_AddElement
    <3> QED
      BY <3>1, <3>2
  <2>2. IsFiniteSet(Orphans') /\ Cardinality(Orphans') <= Cardinality(Orphans \cup {h})
    BY <1>3, <2>1, FS_Subset
  <2>3. Cardinality(Orphans') \in Nat /\ Cardinality(Orphans \cup {h}) \in Nat
    BY <2>1, <2>2, FS_CardinalityType
  <2> QED
    BY <2>1, <2>2, <2>3 DEF Few, TypeOK
<1>5. Opened' = Opened
  BY DEF Opened
<1>6. Counted'
  BY <1>5, OpenedFinite DEF Counted, TypeOK, open_library
<1> QED
  BY <1>1, <1>2, <1>4, <1>6

(* close() and the destructor. *)
LEMMA ClosingInv ==
  ASSUME Inv, NEW o \in Objs, Close(o) \/ Destroy(o)
  PROVE  Inv'
<1> USE DEF Inv
<1>0. /\ Closing(o) /\ failed' = failed
      /\ live' = live \/ live' = live \ {o}
      /\ closes' \in [Objs -> 0 .. MaxClose]
  BY MaxCloseAssumption DEF Close, Destroy, TypeOK
<1>1. TypeOK'
  <2>1. count' \in Nat /\ lib' \in Int
    BY <1>0 DEF Closing, close_library, TypeOK
  <2> QED
    BY <1>0, <2>1 DEF Closing, TypeOK, Stages
<1>2. Owned' /\ Opening'
  BY <1>0, NullType DEF Closing, TypeOK, Owned, Opening
<1>3. Orphans' \subseteq Orphans
  BY <1>0, NullType DEF Closing, Orphans, Owned, TypeOK
<1>4. Few'
  BY <1>0, <1>3, FewerOrphans
<1>5. Counted'
  <2>1. CASE dev[o] = Null
    <3>1. Opened' = Opened /\ careless'
      BY <1>0, <2>1 DEF Closing, Opened, TypeOK
    <3> QED
      BY <1>0, <3>1, OpenedFinite DEF Closing, close_library, Counted, TypeOK
  <2>2. CASE dev[o] # Null
    <3>1. Opened' = Opened \ {o} /\ o \in Opened /\ careless' = careless
      BY <1>0, <2>2 DEF Closing, Opened, TypeOK
    <3>2. Cardinality(Opened') = Cardinality(Opened) - 1 /\ Cardinality(Opened') \in Nat
      BY <3>1, OpenedFinite, FS_RemoveElement, FS_CardinalityType
    <3> QED
      BY <1>0, <3>1, <3>2, OpenedFinite DEF Closing, close_library, Counted, TypeOK
  <2> QED
    BY <2>1, <2>2
<1> QED
  BY <1>1, <1>2, <1>4, <1>5

(* To replace an open object by another one changes no number. *)
LEMMA Exchange ==
  ASSUME NEW a \in Opened, NEW b \in Objs \ Opened
  PROVE  Cardinality((Opened \ {a}) \cup {b}) = Cardinality(Opened)
<1>1. IsFiniteSet(Opened \ {a}) /\ Cardinality(Opened \ {a}) = Cardinality(Opened) - 1
  BY OpenedFinite, FS_RemoveElement
<1>2. Cardinality((Opened \ {a}) \cup {b}) = Cardinality(Opened \ {a}) + 1
  BY <1>1, FS_AddElement
<1> QED
  BY <1>1, <1>2, OpenedFinite

LEMMA SwapInv ==
  ASSUME Inv, NEW a \in Objs, NEW b \in Objs, Swap(a, b)
  PROVE  Inv'
<1> USE DEF Inv, Swap
<1>1. TypeOK'
  BY DEF TypeOK
<1>2. Owned' /\ Opening'
  BY DEF TypeOK, Owned, Opening
<1>3. Orphans' \subseteq Orphans
  <2>1. \A o \in Objs : \E p \in Objs : dev'[p] = dev[o]
    <3>1. dev'[a] = dev[b] /\ dev'[b] = dev[a] /\ \A o \in Objs \ {a, b} : dev'[o] = dev[o]
      BY DEF TypeOK
    <3> QED
      BY <3>1
  <2> QED
    BY <2>1, SMT DEF Orphans, TypeOK
<1>4. Few'
  BY <1>3, FewerOrphans
<1>5. Cardinality(Opened') = Cardinality(Opened)
  <2>1. CASE (dev[a] = Null) <=> (dev[b] = Null)
    <3>1. Opened' = Opened
      BY <2>1 DEF Opened, TypeOK
    <3> QED
      BY <3>1
  <2>2. CASE dev[a] = Null /\ dev[b] # Null
    <3>1. Opened' = (Opened \ {b}) \cup {a} /\ b \in Opened /\ a \notin Opened
      BY <2>2 DEF Opened, TypeOK
    <3> QED
      BY <3>1, Exchange
  <2>3. CASE dev[a] # Null /\ dev[b] = Null
    <3>1. Opened' = (Opened \ {a}) \cup {b} /\ a \in Opened /\ b \notin Opened
      BY <2>3 DEF Opened, TypeOK
    <3> QED
      BY <3>1, Exchange
  <2> QED
    BY <2>1, <2>2, <2>3
<1>6. Counted'
  BY <1>5 DEF Counted
<1> QED
  BY <1>1, <1>2, <1>4, <1>6

LEMMA StepInv == Inv /\ [Next]_vars => Inv'
<1> SUFFICES ASSUME Inv, [Next]_vars PROVE Inv'
  OBVIOUS
<1>1. ASSUME NEW o \in Objs, DefaultConstruct(o) PROVE Inv'
  <2>1. TypeOK' /\ Owned' /\ Opening'
    BY <1>1 DEF Inv, DefaultConstruct, TypeOK, Owned, Opening
  <2>2. Orphans' = Orphans /\ Opened' = Opened
    BY <1>1 DEF DefaultConstruct, Orphans, Opened
  <2> QED
    BY <1>1, <2>1, <2>2 DEF Inv, DefaultConstruct, Few, Counted
<1>2. CASE UNCHANGED vars
  <2>1. TypeOK' /\ Owned' /\ Opening'
    BY <1>2 DEF Inv, vars, TypeOK, Owned, Opening
  <2>2. Orphans' = Orphans /\ Opened' = Opened
    BY <1>2 DEF vars, Orphans, Opened
  <2> QED
    BY <1>2, <2>1, <2>2 DEF Inv, vars, Few, Counted
<1> QED
  BY <1>1, <1>2, OpenInv, OpenThrowsInv, ClosingInv, SwapInv DEF Next

LEMMA Invariance == Spec => []Inv
  BY InitInv, StepInv, PTL DEF Spec

----------------------------------------------------------------------------
(* The types are kept. *)
THEOREM TypeCorrect == Spec => []TypeOK
<1>1. Inv => TypeOK
  BY DEF Inv
<1> QED
  BY Invariance, <1>1, PTL

(* Transport and device belong to one object and are open while they do;   *)
(* only constructors that throw leave some behind, one each.               *)
THEOREM OneOwner == Spec => []OwnedOnceAndOpen
<1>1. Inv => OwnedOnceAndOpen
  BY DEF Inv, OwnedOnceAndOpen, Few, Orphans, Owned
<1> QED
  BY Invariance, <1>1, PTL

(* The counter of the interface, and the library shut at the end. *)
THEOREM CounterTrue == Spec => []InterfaceAccount
<1>1. Inv => InterfaceAccount
  <2> SUFFICES ASSUME Inv PROVE InterfaceAccount
    OBVIOUS
  <2>1. ASSUME live = {}, failed = 0 PROVE lib = 0
    <3>1. Opened = {}
      BY <2>1 DEF Inv, Owned, Opened
    <3> QED
      BY <2>1, <3>1, FS_EmptySet DEF Inv, Counted, TypeOK
  <2> QED
    BY <2>1 DEF Inv, Counted, InterfaceAccount
<1> QED
  BY Invariance, <1>1, PTL
=============================================================================
