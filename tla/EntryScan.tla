----------------------------- MODULE EntryScan -----------------------------
(***************************************************************************)
(* storage::entry::get (storage/entry.cpp): scandir with the filter and    *)
(* the comparison of the caller, which are kept in two static variables    *)
(* while it runs.  Filter and comparison are the caller's code and may     *)
(* scan another directory themselves.  scandir is external: it calls the   *)
(* filter for one entry after the other, and then sorts.                   *)
(***************************************************************************)
EXTENDS Integers, Sequences, FiniteSets, SequencesExt

CONSTANTS
  Entries,   \* the entries of a directory, numbers
  Filters,   \* filter functions: sets of entries
  Orders,    \* comparison functions: "up", "down"
  MaxDepth,  \* scans within one another
  MaxScans   \* scans in one behaviour

ASSUME EntriesAssumption == Entries \subseteq Nat /\ IsFiniteSet(Entries)
ASSUME FiltersAssumption == Filters \subseteq SUBSET Entries /\ Orders \subseteq {"up", "down"}
ASSUME ScansAssumption == MaxDepth \in Nat /\ MaxScans \in Nat

VARIABLES
  scans,     \* the scans that are running, the innermost one last
  statics,   \* _M_filter and _M_compare
  returns,   \* the scan that returned last, with its result
  started    \* how many scans there have been

scan_vars == <<scans, statics, returns, started>>

Nothing == [filter |-> {}, compare |-> "none"]

(* A scan: what it was asked for, the entries it has not filtered yet, the *)
(* one whose callback is scanning, the names it has kept, and the entries  *)
(* that were filtered after a callback had scanned (history).              *)
NoEntry == -1
Asked(filter, compare) ==
  [filter |-> filter, compare |-> compare, left |-> Entries, at |-> NoEntry, kept |-> {},
   late |-> {}, disturbed |-> FALSE]

ScanInit == scans = <<>> /\ statics = Nothing /\ returns = <<>> /\ started = 0

Top == scans[Len(scans)]
SetTop(s) == [scans EXCEPT ![Len(scans)] = s]

(* The program calls get(), or the filter of the innermost scan does for  *)
(* entry e, or its comparison does once all entries have been filtered.    *)
OuterTwice(e) ==
  IF scans = <<>> THEN scans
  ELSE SetTop([Top EXCEPT !.at = e, !.disturbed = TRUE,
                          !.late = IF e = NoEntry THEN @ ELSE @ \cup {e}])
Outer(e) ==
  IF scans = <<>> THEN scans
  ELSE SetTop([Top EXCEPT !.left = @ \ {e}, !.at = e, !.disturbed = TRUE,
                          !.late = IF e = NoEntry THEN @ ELSE @ \cup {e}])
Calls(e) == IF scans = <<>> \/ Top.left = {} THEN e = NoEntry ELSE e \in Top.left

(* Mutant: the comparison is only stored by the first scan. *)
GetKeepsCompare(filter, compare, e) ==
  /\ Calls(e) /\ Len(scans) < MaxDepth /\ started < MaxScans
  /\ statics' = [filter |-> filter,
                 compare |-> IF statics = Nothing THEN compare ELSE statics.compare]
  /\ scans' = Append(Outer(e), Asked(filter, compare))
  /\ started' = started + 1
  /\ UNCHANGED returns

Get(filter, compare, e) ==
  /\ Calls(e) /\ Len(scans) < MaxDepth /\ started < MaxScans
  /\ statics' = [filter |-> filter, compare |-> compare]
  /\ scans' = Append(Outer(e), Asked(filter, compare))
  /\ started' = started + 1
  /\ UNCHANGED returns

(* scandir reads the next entry and asks whatever filter is stored.        *)
FilterNext(e) ==
  /\ scans # <<>> /\ e \in Top.left
  /\ scans' = SetTop([Top EXCEPT !.left = @ \ {e},
                                 !.kept = IF e \in statics.filter THEN @ \cup {e} ELSE @,
                                 !.late = IF Top.disturbed THEN @ \cup {e} ELSE @])
  /\ UNCHANGED <<statics, returns, started>>

Before(compare, x, y) == IF compare = "up" THEN x < y ELSE x > y
Sorted(kept, compare) ==
  CHOOSE names \in SetToSeqs(kept) :
    \A i, j \in DOMAIN names : i < j => Before(compare, names[i], names[j])

(* A scan that was called by a callback leaves the static variables as     *)
(* they are, and has assigned to the function object that is running,      *)
(* which is undefined: what the callback returns for its entry is open.    *)
Popped(verdict) ==
  IF Len(scans) = 1 THEN <<>>
  ELSE LET outer == scans[Len(scans) - 1] IN
       Append(SubSeq(scans, 1, Len(scans) - 2),
              [outer EXCEPT !.kept = IF outer.at # NoEntry /\ verdict THEN @ \cup {outer.at} ELSE @])

(* The names are sorted and get() returns. *)
Return(verdict) ==
  /\ scans # <<>> /\ Top.left = {}
  /\ returns' = [asked |-> [filter |-> Top.filter, compare |-> Top.compare],
                 late |-> Top.late, disturbed |-> Top.disturbed,
                 names |-> Sorted(Top.kept, statics.compare)]
  /\ scans' = Popped(verdict)
  /\ UNCHANGED <<statics, started>>

(* scandir fails before it has called anything.  The exception ends every  *)
(* scan that is running, unless the callback catches it.                   *)
ScanFails(caught, verdict) ==
  /\ scans # <<>> /\ Top.left = Entries /\ ~Top.disturbed
  /\ scans' = IF caught THEN Popped(verdict) ELSE <<>>
  /\ UNCHANGED <<statics, returns, started>>

ScanNext ==
  \/ \E f \in Filters, c \in Orders, e \in Entries \cup {NoEntry} : Get(f, c, e)
  \/ \E e \in Entries : FilterNext(e)
  \/ \E verdict \in BOOLEAN : Return(verdict)
  \/ \E caught \in BOOLEAN, verdict \in BOOLEAN : ScanFails(caught, verdict)

ScanSpec == ScanInit /\ [][ScanNext]_scan_vars

----------------------------------------------------------------------------
ScanTypeOK ==
  /\ statics.filter \subseteq Entries /\ statics.compare \in Orders \cup {"none"}
  /\ Len(scans) <= MaxDepth /\ started \in 0 .. MaxScans
  /\ \A i \in DOMAIN scans :
       scans[i].left \subseteq Entries /\ scans[i].kept \subseteq Entries \ scans[i].left

(* A scan whose callbacks have not scanned anything themselves returns     *)
(* exactly the entries its own filter accepts, in its own order, also when *)
(* it runs inside another one.  A scan that was disturbed still has        *)
(* the entries that were filtered before right; the later ones, and the    *)
(* order of them all, are those of somebody else.                          *)
ScanAsAsked ==
  returns # <<>> =>
    /\ ~returns.disturbed =>
         returns.names = Sorted(returns.asked.filter, returns.asked.compare)
    /\ \A e \in Entries \ returns.late :
         e \in Range(returns.names) <=> e \in returns.asked.filter
=============================================================================
