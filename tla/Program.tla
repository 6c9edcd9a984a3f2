------------------------------ MODULE Program ------------------------------
(***************************************************************************)
(* A program that uses one of the small parts of the library: the pure     *)
(* functions of Values, the ids of the process, a scan of a directory, the *)
(* system log, or the connections and devices of Handles.  The parts share *)
(* no state, so that a behaviour uses one of them.                         *)
(***************************************************************************)
EXTENDS Values, Credentials, EntryScan, Syslog, Handles

VARIABLE part   \* the part in use

call_vars == <<call, returned, result>>
program_vars == <<part, call_vars, ids, scan_vars, log_vars, handle_vars>>

Parts == {"calls", "ids", "scan", "log", "handles"}
NoCall == [fn |-> "none"]

ProgramInit ==
  /\ part \in Parts
  /\ IF part = "calls" THEN Init ELSE call = NoCall /\ returned = FALSE /\ result = FALSE
  /\ IdsInit /\ (part # "ids" => user.real = root_uid)
  /\ ScanInit /\ LogInit /\ HandlesInit

Calling == part = "calls" /\ Next /\ UNCHANGED <<part, ids, scan_vars, log_vars, handle_vars>>
Morphing == part = "ids" /\ IdsNext /\ UNCHANGED <<part, call_vars, scan_vars, log_vars, handle_vars>>
Scanning == part = "scan" /\ ScanNext /\ UNCHANGED <<part, call_vars, ids, log_vars, handle_vars>>
Logging == part = "log" /\ LogNext /\ UNCHANGED <<part, call_vars, ids, scan_vars, handle_vars>>
Holding == part = "handles" /\ HandlesNext /\ UNCHANGED <<part, call_vars, ids, scan_vars, log_vars>>

ProgramNext == Calling \/ Morphing \/ Scanning \/ Logging \/ Holding

ProgramSpec == ProgramInit /\ [][ProgramNext]_program_vars

----------------------------------------------------------------------------
(* The types of every part. *)
TypeOK ==
  /\ part \in Parts /\ returned \in BOOLEAN
  /\ IdsTypeOK /\ ScanTypeOK /\ LogTypeOK /\ HandlesTypeOK
=============================================================================
