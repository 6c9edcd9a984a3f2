------------------------------ MODULE Handles ------------------------------
(***************************************************************************)
(* Two owners of a handle of an external library: slap::connection         *)
(* (slap/slap.cpp) of an LDAP connection and alsa::device                  *)
(* (alsa/alsa_device.cpp) of a PCM stream, with the state that stream is   *)
(* in.  One action is one member function; calls of the libraries may fail *)
(* wherever the code looks at the result.                                  *)
(***************************************************************************)
EXTENDS Naturals, FiniteSets

CONSTANTS
  Conns,        \* slap::connection objects
  Devices,      \* alsa::device objects
  LdapHandles,  \* what ldap_initialize may return
  PcmHandles,   \* what snd_pcm_open may return
  NoHandle      \* nullptr

ASSUME NoHandleAssumption ==
  /\ NoHandle \notin LdapHandles \cup PcmHandles
  /\ LdapHandles \cap PcmHandles = {} /\ Conns \cap Devices = {}

VARIABLES
  exists,   \* objects whose lifetime has begun and not ended
  handle,   \* per object: _M_ldap or _M_pcm
  status,   \* per handle: "unused", "open" or "closed"; a closed one may be
            \* given out again
  pcm,      \* per PCM handle: its state
  answer,   \* per PCM handle: what the last call that succeeded promised
  leaked    \* history: handles of a constructor that threw

handle_vars == <<exists, handle, status, pcm, answer, leaked>>

Owners == Conns \cup Devices
AllHandles == LdapHandles \cup PcmHandles
PcmStates == {"setup", "prepared", "running", "paused", "xrun"}

HandlesInit ==
  /\ exists = {}
  /\ handle = [o \in Owners |-> NoHandle]
  /\ status = [h \in AllHandles |-> "unused"]
  /\ pcm = [h \in PcmHandles |-> "setup"]
  /\ answer = [h \in PcmHandles |-> "none"]
  /\ leaked = {}

DefaultConstructs(o) ==
  /\ o \notin exists
  /\ exists' = exists \cup {o} /\ handle' = [handle EXCEPT ![o] = NoHandle]
  /\ UNCHANGED <<status, pcm, answer, leaked>>

(* The library gives out h; a later call of the constructor may fail, and  *)
(* nothing gives the handle back.                                          *)
Opens(o, h, throws) ==
  /\ o \notin exists /\ status[h] # "open"
  /\ status' = [status EXCEPT ![h] = "open"]
  /\ IF throws THEN /\ leaked' = leaked \cup {h} /\ UNCHANGED <<exists, handle>>
               ELSE /\ exists' = exists \cup {o} /\ handle' = [handle EXCEPT ![o] = h]
                    /\ UNCHANGED leaked

(* connection(uri, start_tls): ldap_initialize, then ldap_start_tls_s.     *)
ConnectionOpens(o, h, start_tls, throws) ==
  /\ throws => start_tls
  /\ Opens(o, h, throws)
  /\ UNCHANGED <<pcm, answer>>

(* The ten calls behind snd_pcm_open; the last one prepares the stream.    *)
DeviceOpens(o, h, throws) ==
  /\ Opens(o, h, throws)
  /\ pcm' = [pcm EXCEPT ![h] = IF throws THEN "setup" ELSE "prepared"]
  /\ answer' = [answer EXCEPT ![h] = IF throws THEN "none" ELSE "prepared"]

(* Mutant: close() does not forget the handle. *)
ShutsKeepsHandle(o) ==
  /\ status' = [h \in AllHandles |-> IF h = handle[o] THEN "closed" ELSE status[h]]
  /\ UNCHANGED handle

(* close(): nothing happens without a handle. *)
Shuts(o) ==
  /\ status' = [h \in AllHandles |-> IF h = handle[o] THEN "closed" ELSE status[h]]
  /\ handle' = [handle EXCEPT ![o] = NoHandle]

ConnectionCloses(o) ==
  o \in exists /\ Shuts(o) /\ UNCHANGED <<exists, pcm, answer, leaked>>
DeviceCloses(o) ==
  o \in exists /\ Shuts(o) /\ UNCHANGED <<exists, pcm, answer, leaked>>

Destructs(o) ==
  /\ o \in exists /\ Shuts(o) /\ exists' = exists \ {o}
  /\ UNCHANGED <<pcm, answer, leaked>>

(* Move construction of a new object, move assignment, swap.               *)
Exchanges(a, b) ==
  /\ b \in exists /\ a # b
  /\ exists' = exists \cup {a}
  /\ handle' = [handle EXCEPT ![a] = handle[b], ![b] = handle[a]]
  /\ UNCHANGED <<status, pcm, answer, leaked>>

(* What libasound does with a stream when it is asked, if it can.          *)
Prepares(s) == IF s = "running" THEN s ELSE "prepared"

Holder(o) == o \in exists /\ handle[o] # NoHandle

(* run(): prepare, then start; a stream that could be prepared and not     *)
(* started stays prepared, and run() returns false.                        *)
DeviceRuns(o, fails) ==
  /\ Holder(o)
  /\ LET h == handle[o]
         prepared == Prepares(pcm[h]) = "prepared" /\ fails # "prepare"
         runs == prepared /\ fails # "start"
     IN  /\ pcm' = [pcm EXCEPT ![h] = IF runs THEN "running" ELSE IF prepared THEN "prepared" ELSE @]
         /\ answer' = [answer EXCEPT ![h] = IF runs THEN "running"
                                            ELSE IF prepared THEN "prepared" ELSE @]
  /\ UNCHANGED <<exists, handle, status, leaked>>

DeviceChanges(o, from, state) ==
  /\ Holder(o) /\ pcm[handle[o]] \in from
  /\ pcm' = [pcm EXCEPT ![handle[o]] = state] /\ answer' = [answer EXCEPT ![handle[o]] = state]
  /\ UNCHANGED <<exists, handle, status, leaked>>

(* stop(drain), pause() and unpause(), when they return true.              *)
DeviceStops(o) == DeviceChanges(o, PcmStates, "setup")
DevicePauses(o) == DeviceChanges(o, {"running"}, "paused")
DeviceUnpauses(o) == DeviceChanges(o, {"paused"}, "running")

(* recover() from an underrun prepares the stream; run() must follow.      *)
DeviceRecovers(o) == DeviceChanges(o, {"xrun"}, "prepared")

(* The program has written too late: by itself the stream stops running.   *)
Underrun(h) ==
  /\ status[h] = "open" /\ pcm[h] = "running"
  /\ pcm' = [pcm EXCEPT ![h] = "xrun"]
  /\ UNCHANGED <<exists, handle, status, answer, leaked>>

running(o) == pcm[handle[o]] = "running"
paused(o) == pcm[handle[o]] = "paused"

HandlesNext ==
  \/ \E o \in Owners : DefaultConstructs(o) \/ Destructs(o)
  \/ \E o \in Conns : ConnectionCloses(o)
  \/ \E o \in Conns, h \in LdapHandles, start_tls, throws \in BOOLEAN :
       ConnectionOpens(o, h, start_tls, throws)
  \/ \E o \in Devices : DeviceCloses(o)
  \/ \E o \in Devices, h \in PcmHandles, throws \in BOOLEAN : DeviceOpens(o, h, throws)
  \/ \E a, b \in Conns : Exchanges(a, b)
  \/ \E a, b \in Devices : Exchanges(a, b)
  \/ \E o \in Devices, fails \in {"none", "prepare", "start"} : DeviceRuns(o, fails)
  \/ \E o \in Devices : DeviceStops(o) \/ DevicePauses(o) \/ DeviceUnpauses(o) \/ DeviceRecovers(o)
  \/ \E h \in PcmHandles : Underrun(h)

HandlesSpec == HandlesInit /\ [][HandlesNext]_handle_vars

----------------------------------------------------------------------------
HandlesTypeOK ==
  /\ exists \subseteq Owners
  /\ handle \in [Owners -> AllHandles \cup {NoHandle}]
  /\ \A o \in Conns : handle[o] \in LdapHandles \cup {NoHandle}
  /\ \A o \in Devices : handle[o] \in PcmHandles \cup {NoHandle}
  /\ status \in [AllHandles -> {"unused", "open", "closed"}]
  /\ pcm \in [PcmHandles -> PcmStates] /\ answer \in [PcmHandles -> PcmStates \cup {"none"}]
  /\ leaked \subseteq AllHandles

(* Whatever is moved, closed and destroyed, a handle belongs to one object *)
(* and is open as long as it does, so that nothing is closed twice and no  *)
(* request goes to a closed one; what is open and belongs to nobody was    *)
(* left behind by a constructor that threw, and is never closed.           *)
HandlesOwned ==
  /\ \A a \in Owners : handle[a] # NoHandle =>
       /\ a \in exists /\ status[handle[a]] = "open"
       /\ \A b \in Owners : handle[b] = handle[a] => b = a
  /\ \A h \in AllHandles :
       (\E o \in Owners : handle[o] = h) \/ (status[h] = "open" <=> h \in leaked)

(* What a device says of itself, running or paused, is what the last call  *)
(* that succeeded has promised, through moves of the object; only an       *)
(* underrun takes a device that was running out of that state.             *)
PlaysAsTold ==
  \A o \in Devices : Holder(o) =>
    /\ paused(o) <=> answer[handle[o]] = "paused"
    /\ running(o) => answer[handle[o]] = "running"
    /\ answer[handle[o]] = "running" => running(o) \/ pcm[handle[o]] = "xrun"

DevicesKept == HandlesOwned /\ PlaysAsTold
=============================================================================
