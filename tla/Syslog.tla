------------------------------- MODULE Syslog ------------------------------
(***************************************************************************)
(* app::syslog_stream (syslog.hpp): every stream has a buffer and a level; *)
(* the connection to the system log, with the name it shows, is one for    *)
(* the whole program.  A text written is a single token, or the end of a   *)
(* line, or the number of a level that operator<< of std::ostream printed. *)
(***************************************************************************)
EXTENDS Naturals, Sequences, SequencesExt

CONSTANTS
  Streams,    \* stream objects
  MaxWrites   \* texts written in one behaviour

ASSUME MaxWritesAssumption == MaxWrites \in Nat

ini_level == "info"
Levels == {"error", ini_level}
Texts == {"text", "nl", "number"}
Program == "program"    \* the name syslog(3) shows if none was given
Dangling == "dangling"  \* a name that is not there any more

(* No stream has the name of the program. *)
ASSUME ProgramAssumption == Program \notin Streams

VARIABLES
  alive,    \* streams that have been constructed
  buffer,   \* per stream: buffer
  level,    \* per stream: level
  ident,    \* the name messages go out under
  sent,     \* the message sent last
  since,    \* history: per stream, what was written and which level was set
            \* last since its last message
  opened,   \* history: the stream whose openlog is in force, or Program
  writes

log_vars == <<alive, buffer, level, ident, sent, since, opened, writes>>

NoMessage == [from |-> Program, level |-> ini_level, text |-> <<>>, ident |-> Program,
         wanted |-> <<>>, wanted_level |-> ini_level, opened |-> Program]

Blank == [text |-> <<>>, level |-> ini_level]

LogInit ==
  /\ alive = {}
  /\ buffer = [s \in Streams |-> <<>>] /\ level = [s \in Streams |-> ini_level]
  /\ since = [s \in Streams |-> Blank]
  /\ ident = Program /\ opened = Program /\ sent = NoMessage /\ writes = 0

(* openlog keeps the pointer: the name must outlive the stream, and a      *)
(* temporary does not.                                                     *)
LogConstruct(s, name) ==
  /\ s \notin alive
  /\ alive' = alive \cup {s}
  /\ ident' = CASE name = "kept" -> s [] name = "temporary" -> Dangling [] name = "empty" -> Program
  /\ opened' = s
  /\ buffer' = [buffer EXCEPT ![s] = <<>>] /\ level' = [level EXCEPT ![s] = ini_level]
  /\ since' = [since EXCEPT ![s] = Blank]
  /\ UNCHANGED <<sent, writes>>

(* closelog forgets the name; the buffer is not sent. *)
LogDestroy(s) ==
  /\ s \in alive
  /\ alive' = alive \ {s}
  /\ ident' = Program /\ opened' = Program
  /\ UNCHANGED <<buffer, level, sent, since, writes>>

(* overflow() for every character: there is no put area. *)
Write(s, text) ==
  /\ s \in alive /\ writes < MaxWrites
  /\ writes' = writes + 1
  /\ buffer' = [buffer EXCEPT ![s] = Append(@, text)]
  /\ since' = [since EXCEPT ![s].text = Append(@, text)]
  /\ UNCHANGED <<alive, level, ident, sent, opened>>

(* operator<< of a level, of the stream itself. *)
SetLevel(s, l) ==
  /\ s \in alive
  /\ level' = [level EXCEPT ![s] = l]
  /\ since' = [since EXCEPT ![s].level = l]
  /\ UNCHANGED <<alive, buffer, ident, sent, opened, writes>>

Message(s) == [from |-> s, level |-> level[s], text |-> buffer[s], ident |-> ident,
               wanted |-> since[s].text, wanted_level |-> since[s].level, opened |-> opened]

(* Mutant: the level stays for the next message. *)
SyncKeepsLevel(s) ==
  /\ s \in alive /\ buffer[s] # <<>>
  /\ sent' = Message(s)
  /\ buffer' = [buffer EXCEPT ![s] = <<>>]
  /\ since' = [since EXCEPT ![s] = Blank]
  /\ UNCHANGED <<alive, level, ident, opened, writes>>

(* sync(), from flush or the end of endl; nothing happens, and the level   *)
(* stays, if there is nothing to send.                                     *)
Sync(s) ==
  /\ s \in alive /\ buffer[s] # <<>>
  /\ sent' = Message(s)
  /\ buffer' = [buffer EXCEPT ![s] = <<>>] /\ level' = [level EXCEPT ![s] = ini_level]
  /\ since' = [since EXCEPT ![s] = Blank]
  /\ UNCHANGED <<alive, ident, opened, writes>>

LogNext ==
  \E s \in Streams :
    \/ \E name \in {"kept", "temporary", "empty"} : LogConstruct(s, name)
    \/ LogDestroy(s)
    \/ \E t \in Texts : Write(s, t)
    \/ \E l \in Levels : SetLevel(s, l)
    \/ Sync(s)

LogSpec == LogInit /\ [][LogNext]_log_vars

----------------------------------------------------------------------------
LogTypeOK ==
  /\ alive \subseteq Streams /\ writes \in 0 .. MaxWrites
  /\ level \in [Streams -> Levels]
  /\ \A s \in Streams : buffer[s] \in Seq(Texts)
  /\ ident \in Streams \cup {Program, Dangling}

(* A message is what one stream was given since its last message, the last *)
(* level set in that time, wherever in it (a level set earlier colours no  *)
(* later message), and nothing of another stream.  Its name is never that  *)
(* of another stream than the one constructed last, and the program's as   *)
(* soon as any stream has been destroyed.                                  *)
LogTells ==
  /\ sent.text = sent.wanted /\ sent.level = sent.wanted_level
  /\ sent.ident \in {sent.opened, Dangling, Program}
  /\ sent.opened = Program => sent.ident = Program
=============================================================================
