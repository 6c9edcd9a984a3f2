----------------------------- MODULE X11Server -----------------------------
(***************************************************************************)
(* x11::server (x11/server.cpp, x11/server.hpp): an X server started in a  *)
(* child process, and the display connection to it.  The child is held by  *)
(* an app::process, of which only the promise is used here: the steps of   *)
(* ChildHandle.  An X server may die at any moment, also between the       *)
(* question whether it runs and the call that relies on the answer.  The   *)
(* servers of one program have different names (":0", ":1", ...).          *)
(***************************************************************************)
EXTENDS Integers, FiniteSets

CONSTANTS
  Servers,  \* objects of class server
  Xs,       \* the X servers the program may start, one child each
  Nobody,   \* not one of Xs: no child, no display
  Attempts  \* attempts to connect: 10 in the code

ASSUME NobodyAssumption == Nobody \notin Xs
ASSUME AttemptsAssumption == Attempts \in Nat \ {0}

VARIABLES
  life, ending, held, told, \* the children and the member _M_process,
  dying, doomed,            \*   as ChildHandle has them
  display,  \* the member _M_display: the X server it is connected to, or Nobody
  open,     \* X servers to which Xlib has a connection
  live,     \* objects whose constructor has returned and that are not destroyed
  at, cur,  \* the place the thread has reached, the object it works on
  dtor,     \* the operation ends with the destruction of cur
  attempt,  \* the loop variable of the constructor
  thrown,   \* close() has thrown in ~server
  (* history *)
  strays,   \* X servers that setpgid could not put in a group (see Process)
  closed    \* objects that were closed or have nothing to close

processVars == <<life, ending, held, told, dying, doomed>>
history == <<strays, closed>>
place == <<at, cur, dtor, attempt, thrown>>
vars == <<processVars, display, open, live, place, history>>

Process == INSTANCE ChildHandle WITH
  Handles <- Servers, Children <- Xs, Endings <- {"ended"}, Unknown <- "running"

Places == {"idle", "cookie", "spawn", "group", "asleep", "connect", "closing",
           "disconnect", "dtor", "member", "grace", "gone"}

Init ==
  /\ Process!Init
  /\ display = [s \in Servers |-> Nobody] /\ open = {} /\ live = {}
  /\ at = "idle" /\ cur \in Servers /\ dtor = FALSE /\ attempt = 0 /\ thrown = FALSE
  /\ strays = {} /\ closed = {}

Goto(there) == at' = there /\ UNCHANGED <<cur, dtor, attempt, thrown>>
Return ==
  /\ at' = "idle" /\ dtor' = FALSE /\ attempt' = 0 /\ thrown' = FALSE
  /\ UNCHANGED cur

----------------------------------------------------------------------------
(* Construction.                                                           *)

DefaultConstruct(s) ==
  /\ at = "idle" /\ s \notin live
  /\ live' = live \cup {s} /\ closed' = closed \cup {s}
  /\ UNCHANGED <<processVars, display, open, place, strays>>

(* The constructor begins with set_cookie, which is also called by itself. *)
SetCookie(s) ==
  /\ at = "idle"
  /\ at' = "cookie" /\ cur' = s
  /\ UNCHANGED <<processVars, display, open, live, dtor, attempt, thrown, history>>

(* xauth has stored the cookie, and in the constructor XAUTHORITY follows; *)
(* or it cannot be started, or ends with an error or a signal, and         *)
(* set_cookie throws; or it dies before it has read its commands, and      *)
(* writing to its pipe ends the program with SIGPIPE.                      *)
XauthEnds ==
  /\ at = "cookie"
  /\ \/ cur \notin live /\ Goto("spawn")
     \/ Return
     \/ Goto("gone")
  /\ UNCHANGED <<processVars, display, open, live, history>>

Spawn(c) ==
  /\ at = "spawn"
  /\ Process!Spawn(cur, c)
  /\ Goto("group")
  /\ UNCHANGED <<display, open, live, history>>

SpawnThrows ==
  /\ at = "spawn"
  /\ Return
  /\ UNCHANGED <<processVars, display, open, live, history>>

Grouped ==
  /\ at = "group"
  /\ Goto("asleep")
  /\ UNCHANGED <<processVars, display, open, live, history>>

(* The child has replaced its image before setpgid: the constructor of the *)
(* process throws, and with it that of the server; nobody has the child.   *)
GroupThrows ==
  /\ at = "group"
  /\ Process!LetGo(cur)
  /\ strays' = strays \cup {held[cur]}
  /\ Return
  /\ UNCHANGED <<display, open, live, closed>>

(* A second later running() is true. *)
StillRunning ==
  /\ at = "asleep" /\ life[held[cur]] = "alive"
  /\ Goto("connect")
  /\ UNCHANGED <<processVars, display, open, live, history>>

(* running() has collected the child: the constructor throws and destroys  *)
(* the members it has made.                                                *)
FailedToStart ==
  /\ at = "asleep"
  /\ Process!Collect(cur)
  /\ Goto("dtor")
  /\ UNCHANGED <<display, open, live, history>>

Connected ==
  /\ at = "connect" /\ life[held[cur]] = "alive"
  /\ display' = [display EXCEPT ![cur] = held[cur]]
  /\ open' = open \cup {held[cur]}
  /\ live' = live \cup {cur}
  /\ Return
  /\ UNCHANGED <<processVars, history>>

(* Mutant: one attempt more. *)
NotConnectedOneMore ==
  /\ at = "connect"
  /\ IF attempt + 1 <= Attempts
     THEN at' = "asleep" /\ attempt' = attempt + 1 /\ UNCHANGED <<cur, dtor, thrown>>
     ELSE Goto("dtor")
  /\ UNCHANGED <<processVars, display, open, live, history>>

(* Mutant: the last attempt leaves the process it started behind. *)
NotConnectedLeaves ==
  /\ at = "connect"
  /\ IF attempt + 1 < Attempts
     THEN at' = "asleep" /\ attempt' = attempt + 1 /\ UNCHANGED <<cur, dtor, thrown>>
     ELSE Return
  /\ UNCHANGED <<processVars, display, open, live, history>>

(* XOpenDisplay returns null; after the last attempt the constructor       *)
(* throws.                                                                 *)
NotConnected ==
  /\ at = "connect"
  /\ IF attempt + 1 < Attempts
     THEN at' = "asleep" /\ attempt' = attempt + 1 /\ UNCHANGED <<cur, dtor, thrown>>
     ELSE Goto("dtor")
  /\ UNCHANGED <<processVars, display, open, live, history>>

----------------------------------------------------------------------------
(* close(), ~server, running() and moves.                                  *)

Close(s, andDestroy) ==
  /\ at = "idle" /\ s \in live
  /\ at' = "closing" /\ cur' = s /\ dtor' = andDestroy
  /\ UNCHANGED <<processVars, display, open, live, attempt, thrown, history>>

(* running() is false, after collecting the child if it has one: the       *)
(* display is neither closed nor forgotten.                                *)
CloseSkipped ==
  /\ at = "closing"
  /\ \/ held[cur] = Nobody /\ UNCHANGED processVars
     \/ Process!Collect(cur)
  /\ IF dtor THEN Goto("dtor") ELSE Return
  /\ closed' = closed \cup {cur}
  /\ UNCHANGED <<display, open, live, strays>>

CloseGoesOn ==
  /\ at = "closing" /\ held[cur] # Nobody /\ life[held[cur]] = "alive"
  /\ Goto("disconnect")
  /\ UNCHANGED <<processVars, display, open, live, history>>

(* XCloseDisplay, if there is a display, and a SIGHUP, after which an X    *)
(* server may go on.  If kill() refuses it (an X server may change its     *)
(* user id), close() throws, which the program that called it may catch.   *)
Disconnect ==
  /\ at = "disconnect"
  /\ display[cur] # Nobody => life[display[cur]] = "alive"
  /\ open' = open \ {display[cur]}
  /\ display' = [display EXCEPT ![cur] = Nobody]
  /\ closed' = closed \cup {cur}
  /\ IF dtor THEN /\ at' = "dtor" /\ thrown' \in BOOLEAN
                  /\ UNCHANGED <<cur, dtor, attempt>>
             ELSE Return
  /\ UNCHANGED <<processVars, live, strays>>

(* The X server has died since running(): Xlib ends the program. *)
DisconnectBroken ==
  /\ at = "disconnect" /\ display[cur] # Nobody /\ life[display[cur]] # "alive"
  /\ Goto("gone")
  /\ UNCHANGED <<processVars, display, open, live, history>>

(* Once its body has returned or thrown, ~server destroys the member       *)
(* _M_process, and so does the constructor that throws.  ~process polls it *)
(* ...                                                                     *)
MemberDestroyed ==
  /\ at = "dtor"
  /\ Process!Destroy(cur)
  /\ Goto("member")
  /\ UNCHANGED <<display, open, live, history>>

MemberCollected ==
  /\ at \in {"member", "grace"}
  /\ Process!Collect(cur)
  /\ UNCHANGED <<display, open, live, place, history>>

(* ... and gives a child that is alive a SIGTERM and three seconds. *)
MemberRunning ==
  /\ at = "member" /\ held[cur] # Nobody /\ life[held[cur]] = "alive"
  /\ Goto("grace")
  /\ UNCHANGED <<processVars, display, open, live, history>>

(* The storage is released, with whatever display it had; an exception of  *)
(* close() is thrown on by the function-try-block of ~server, which is     *)
(* noexcept, and std::terminate ends the program.                          *)
Released ==
  /\ display' = [display EXCEPT ![cur] = Nobody]
  /\ live' = live \ {cur} /\ closed' = closed \ {cur}
  /\ IF thrown THEN Goto("gone") ELSE Return
  /\ UNCHANGED <<open, strays>>

(* The three seconds are over: SIGKILL. *)
MemberKilled ==
  /\ at = "grace"
  /\ Process!Abandon(cur)
  /\ Released

(* SIGTERM or SIGKILL is refused: ~process ends the program (see Process). *)
MemberRefused ==
  /\ at = "grace" /\ held[cur] # Nobody
  /\ Goto("gone")
  /\ UNCHANGED <<processVars, display, open, live, history>>

Destroyed ==
  /\ at \in {"member", "grace"}
  /\ Process!Forget(cur)
  /\ Released

Running(s) ==
  /\ at = "idle" /\ s \in live
  /\ Process!Collect(s)
  /\ UNCHANGED <<display, open, live, place, history>>

Exchanged(S, a, b) ==
  (S \ {a, b}) \cup {s \in {a, b} : {a, b} \ {s} \subseteq S}

(* Mutant: swap forgets the display. *)
SwapKeepsDisplay(a, b) ==
  /\ at = "idle" /\ {a, b} \subseteq live /\ a # b
  /\ Process!Exchange(a, b)
  /\ closed' = Exchanged(closed, a, b)
  /\ UNCHANGED <<display, open, live, place, strays>>

(* Move construction, move assignment and swap. *)
Swap(a, b) ==
  /\ at = "idle" /\ {a, b} \subseteq live /\ a # b
  /\ Process!Exchange(a, b)
  /\ display' = [display EXCEPT ![a] = display[b], ![b] = display[a]]
  /\ closed' = Exchanged(closed, a, b)
  /\ UNCHANGED <<open, live, place, strays>>

(* An X server ends: by itself, through a signal, or because it cannot be  *)
(* executed.                                                               *)
XEnds(c) ==
  /\ Process!End(c, "ended")
  /\ UNCHANGED <<display, open, live, place, history>>

Next ==
  \/ \E s \in Servers :
       \/ DefaultConstruct(s) \/ SetCookie(s)
       \/ \E andDestroy \in BOOLEAN : Close(s, andDestroy)
       \/ Running(s)
       \/ \E b \in Servers : Swap(s, b)
  \/ \E c \in Xs : Spawn(c) \/ XEnds(c)
  \/ XauthEnds \/ SpawnThrows \/ Grouped \/ GroupThrows
  \/ StillRunning \/ FailedToStart \/ Connected \/ NotConnected
  \/ CloseSkipped \/ CloseGoesOn \/ Disconnect \/ DisconnectBroken
  \/ MemberDestroyed \/ MemberCollected \/ MemberRunning
  \/ MemberKilled \/ MemberRefused \/ Destroyed

Spec == Init /\ [][Next]_vars

----------------------------------------------------------------------------
TypeOK ==
  /\ life \in [Xs -> {"unborn", "alive", "dead", "collected"}]
  /\ ending \in [Xs -> {"ended", "running"}] /\ told \in [Servers -> {"ended", "running"}]
  /\ held \in [Servers -> Xs \cup {Nobody}] /\ display \in [Servers -> Xs \cup {Nobody}]
  /\ open \subseteq Xs /\ live \subseteq Servers
  /\ dying \subseteq Servers /\ doomed \subseteq Xs
  /\ at \in Places /\ cur \in Servers /\ dtor \in BOOLEAN /\ thrown \in BOOLEAN
  /\ attempt \in 0 .. Attempts - 1
  /\ strays \subseteq Xs /\ closed \subseteq live

(* A display belongs to one object, is open, and leads to the X server     *)
(* that this object has in its process, or had until it ended.  The other  *)
(* way round, a connection that no object has any more is one to a server  *)
(* that had ended before it could be closed (server.cpp:93).  The          *)
(* constructor that starts a server returns with a display or throws: an   *)
(* object without one was default constructed, has been closed, or has     *)
(* exchanged its state with such an object.                                *)
DisplayLedger ==
  /\ \A s \in live : display[s] = Nobody => s \in closed
  /\ \A s \in Servers : display[s] # Nobody =>
       /\ s \in live /\ display[s] \in open
       /\ \/ held[s] = display[s]
          \/ held[s] = Nobody /\ life[display[s]] = "collected"
       /\ \A t \in Servers : display[t] = display[s] => t = s
  /\ \A c \in open :
       (\E s \in Servers : display[s] = c) \/ life[c] = "collected"

(* An X server that runs belongs to an object, or to the constructor or    *)
(* destructor that is at work on it.  However the constructor throws and   *)
(* the object goes, none is left running that no SIGKILL awaits; the one   *)
(* exception is the process whose own constructor threw (GroupThrows).     *)
NoServerLeft ==
  at # "gone" =>
    \A c \in Xs : life[c] = "alive" =>
      \/ c \in doomed \cup strays
      \/ \E s \in Servers :
           /\ held[s] = c
           /\ s \in live \/ (s = cur /\ at # "idle")
=============================================================================
