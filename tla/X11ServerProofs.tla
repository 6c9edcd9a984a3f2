-------------------------- MODULE X11ServerProofs --------------------------
(***************************************************************************)
(* Proofs about X11Server: what a program holds of X servers and display   *)
(* connections, for every number of objects, X servers and attempts.       *)
(***************************************************************************)
EXTENDS X11Server, TLAPS

----------------------------------------------------------------------------
(* The inductive invariant: what the listed invariants need to know of the *)
(* children the objects hold and of the place the thread has reached.      *)

(* An X server is held by one object, and as long as it is not collected.  *)
Holding ==
  \A s \in Servers : held[s] # Nobody =>
    /\ life[held[s]] \in {"alive", "dead"}
    /\ \A t \in Servers : held[t] = held[s] => t = s

(* An object that is not constructed has no display, and holds an X server *)
(* only while its constructor runs or undoes what it did.                  *)
Unmade ==
  \A s \in Servers \ live :
    /\ display[s] = Nobody
    /\ held[s] # Nobody => s = cur /\ at \in {"group", "asleep", "connect", "dtor", "member", "grace", "gone"}

Place ==
  /\ at \in {"spawn", "group", "asleep", "connect"} => cur \notin live
  /\ at \in {"group", "asleep", "connect", "disconnect"} => held[cur] # Nobody
  /\ at \in {"closing", "disconnect"} => cur \in live
  /\ at \in {"dtor", "member", "grace"} => held[cur] = Nobody \/ display[cur] = Nobody
  /\ dying # {} => dying = {cur} /\ at \in {"member", "grace", "gone"}
  /\ at \in {"member", "grace"} => cur \in dying

(* An X server that runs is held, or was given up in one of the two ways.  *)
Kept == \A c \in Xs : life[c] = "alive" => c \in doomed \cup strays \/ \E s \in Servers : held[s] = c

Inv == TypeOK /\ Holding /\ Unmade /\ Place /\ Kept /\ DisplayLedger

LEMMA FirstAttempt == 0 \in 0 .. Attempts - 1
  BY AttemptsAssumption

LEMMA InitInv == Init => Inv
<1> SUFFICES ASSUME Init PROVE Inv
  OBVIOUS
<1> USE NobodyAssumption, AttemptsAssumption DEF Init, Process!Init
<1>1. TypeOK
  <2>1. attempt \in 0 .. Attempts - 1
    OBVIOUS
  <2>2. /\ life \in [Xs -> {"unborn", "alive", "dead", "collected"}]
        /\ ending \in [Xs -> {"ended", "running"}]
        /\ told \in [Servers -> {"ended", "running"}]
    OBVIOUS
  <2>3. held \in [Servers -> Xs \cup {Nobody}] /\ display \in [Servers -> Xs \cup {Nobody}]
    OBVIOUS
  <2> QED
    BY <2>1, <2>2, <2>3 DEF TypeOK, Places
<1>2. Holding /\ Unmade /\ Place
  BY DEF Holding, Unmade, Place
<1>3. Kept /\ DisplayLedger
  BY DEF Kept, DisplayLedger
<1> QED
  BY <1>1, <1>2, <1>3 DEF Inv

----------------------------------------------------------------------------
(* The steps of the thread that leave the children, what is held and the   *)
(* displays alone only move the place.                                     *)

Still == UNCHANGED <<processVars, display, open, live, history>>

LEMMA StillInv ==
  ASSUME Inv, Still,
         at' \in Places, cur' \in Servers, dtor' \in BOOLEAN, attempt' \in 0 .. Attempts - 1,
         thrown' \in BOOLEAN,
         Unmade', Place'
  PROVE  Inv'
  BY DEF Inv, Still, TypeOK, Holding, Kept, DisplayLedger, processVars, history

LEMMA PlaceInv ==
  ASSUME Inv,
         \/ \E s \in Servers : SetCookie(s) \/ \E andDestroy \in BOOLEAN : Close(s, andDestroy)
         \/ XauthEnds \/ SpawnThrows \/ Grouped \/ StillRunning \/ NotConnected
         \/ CloseGoesOn \/ DisconnectBroken \/ MemberRunning \/ MemberRefused
  PROVE  Inv'
<1> USE AttemptsAssumption DEF Inv, TypeOK, Places, Goto, Return, processVars, history
<1>1. Still
  BY DEF SetCookie, Close, XauthEnds, SpawnThrows, Grouped, StillRunning, NotConnected,
         CloseGoesOn, DisconnectBroken, MemberRunning, MemberRefused, Still
<1>2. /\ at' \in Places /\ cur' \in Servers /\ dtor' \in BOOLEAN
      /\ attempt' \in 0 .. Attempts - 1 /\ thrown' \in BOOLEAN
  <2>1. ASSUME NEW s \in Servers, SetCookie(s) 
      PROVE  /\ at' \in Places /\ cur' \in Servers /\ dtor' \in BOOLEAN
             /\ attempt' \in 0 .. Attempts - 1 /\ thrown' \in BOOLEAN
    BY <2>1 DEF SetCookie
  <2>2. ASSUME NEW s \in Servers, NEW andDestroy \in BOOLEAN, Close(s, andDestroy) 
      PROVE  /\ at' \in Places /\ cur' \in Servers /\ dtor' \in BOOLEAN
             /\ attempt' \in 0 .. Attempts - 1 /\ thrown' \in BOOLEAN
    BY <2>2 DEF Close
  <2>3. 0 \in 0 .. Attempts - 1
    OBVIOUS
  <2>4. CASE XauthEnds \/ SpawnThrows \/ Grouped \/ StillRunning
    BY <2>3, <2>4 DEF XauthEnds, SpawnThrows, Grouped, StillRunning
  <2>5. CASE NotConnected
    BY <2>5 DEF NotConnected
  <2>6. CASE CloseGoesOn \/ DisconnectBroken \/ MemberRunning \/ MemberRefused
    BY <2>6 DEF CloseGoesOn, DisconnectBroken, MemberRunning, MemberRefused
  <2> QED
    BY <2>1, <2>2, <2>4, <2>5, <2>6
<1>3. Unmade'
  BY DEF SetCookie, Close, XauthEnds, SpawnThrows, Grouped, StillRunning, NotConnected,
         CloseGoesOn, DisconnectBroken, MemberRunning, MemberRefused, Unmade, Place
<1>4. Place'
  BY DEF SetCookie, Close, XauthEnds, SpawnThrows, Grouped, StillRunning, NotConnected,
         CloseGoesOn, DisconnectBroken, MemberRunning, MemberRefused, Unmade, Place
<1> QED
  BY <1>1, <1>2, <1>3, <1>4, StillInv

----------------------------------------------------------------------------
(* running() collects: the object keeps its display, which now leads to a  *)
(* collected X server.                                                     *)
LEMMA Collecting ==
  ASSUME Inv, NEW s \in Servers, Process!Collect(s),
         UNCHANGED <<display, open, live, strays>>,
         closed \subseteq closed', closed' \subseteq live
  PROVE  /\ life' \in [Xs -> {"unborn", "alive", "dead", "collected"}]
         /\ ending' \in [Xs -> {"ended", "running"}] /\ told' \in [Servers -> {"ended", "running"}]
         /\ held' \in [Servers -> Xs \cup {Nobody}]
         /\ dying' \subseteq Servers /\ doomed' \subseteq Xs /\ dying' = dying
         /\ held'[s] = Nobody /\ \A t \in Servers \ {s} : held'[t] = held[t]
         /\ Holding' /\ Kept' /\ DisplayLedger'
<1> DEFINE c == held[s]
<1> USE NobodyAssumption DEF Inv, TypeOK
<1>1. /\ c \in Xs /\ life[c] = "dead"
      /\ life' = [life EXCEPT ![c] = "collected"]
      /\ told' = [told EXCEPT ![s] = ending[c]]
      /\ held' = [held EXCEPT ![s] = Nobody]
      /\ ending' = ending /\ UNCHANGED <<dying, doomed>>
  BY DEF Process!Collect
<1>2. /\ life' \in [Xs -> {"unborn", "alive", "dead", "collected"}]
      /\ ending' \in [Xs -> {"ended", "running"}] /\ told' \in [Servers -> {"ended", "running"}]
      /\ held' \in [Servers -> Xs \cup {Nobody}]
  BY <1>1
<1>3. held'[s] = Nobody /\ \A t \in Servers \ {s} : held'[t] = held[t]
  BY <1>1
<1>4. life'[c] = "collected" /\ \A x \in Xs \ {c} : life'[x] = life[x]
  BY <1>1
<1>5. \A t \in Servers \ {s} : held[t] # c
  BY <1>1 DEF Holding
<1> HIDE DEF c
<1>6. Holding'
  BY <1>2, <1>3, <1>4, <1>5 DEF Holding
<1>7. Kept'
  BY <1>1, <1>3, <1>4 DEF Kept, c
<1>8. \A t \in Servers : display[t] # Nobody => display[t] \in Xs
  OBVIOUS
<1>9. \A t \in Servers : display'[t] # Nobody =>
        \/ held'[t] = display'[t]
        \/ held'[t] = Nobody /\ life'[display'[t]] = "collected"
  BY <1>1, <1>3, <1>4, <1>8 DEF DisplayLedger, c
<1>10. DisplayLedger'
  BY <1>4, <1>8, <1>9 DEF DisplayLedger
<1> QED
  BY <1>1, <1>2, <1>3, <1>6, <1>7, <1>10

LEMMA CollectInv ==
  ASSUME Inv, FailedToStart \/ CloseSkipped \/ MemberCollected \/ \E s \in Servers : Running(s)
  PROVE  Inv'
<1> USE DEF Inv, TypeOK, Places, place, history, processVars
<1>1. ASSUME FailedToStart PROVE Inv'
  <2>1. /\ held'[cur] = Nobody /\ \A t \in Servers \ {cur} : held'[t] = held[t]
        /\ TypeOK' /\ Holding' /\ Kept' /\ DisplayLedger' /\ dying' = dying
    BY <1>1, Collecting DEF FailedToStart, Goto
  <2> QED
    BY <1>1, <2>1 DEF FailedToStart, Goto, Unmade, Place
<1>2. ASSUME MemberCollected PROVE Inv'
  <2>1. /\ held'[cur] = Nobody /\ \A t \in Servers \ {cur} : held'[t] = held[t]
        /\ TypeOK' /\ Holding' /\ Kept' /\ DisplayLedger' /\ dying' = dying
    BY <1>2, Collecting DEF MemberCollected
  <2> QED
    BY <1>2, <2>1 DEF MemberCollected, Unmade, Place
<1>3. ASSUME NEW s \in Servers, Running(s) PROVE Inv'
  <2>1. /\ held'[s] = Nobody /\ \A t \in Servers \ {s} : held'[t] = held[t]
        /\ TypeOK' /\ Holding' /\ Kept' /\ DisplayLedger' /\ dying' = dying
    BY <1>3, Collecting DEF Running
  <2> QED
    BY <1>3, <2>1 DEF Running, Unmade, Place
<1>4. ASSUME CloseSkipped PROVE Inv'
  <2>1. /\ at = "closing"
        /\ closed' = closed \cup {cur} /\ closed' \subseteq live /\ cur \in live
        /\ at' \in {"dtor", "idle"} /\ cur' = cur /\ dtor' \in BOOLEAN
        /\ attempt' \in 0 .. Attempts - 1 /\ thrown' \in BOOLEAN
        /\ UNCHANGED <<display, open, live, strays>>
    BY <1>4, FirstAttempt DEF CloseSkipped, Goto, Return, Place
  <2>2. CASE held[cur] = Nobody /\ UNCHANGED processVars
    BY <2>1, <2>2 DEF Holding, Unmade, Place, Kept, DisplayLedger
  <2>3. CASE Process!Collect(cur)
    <3>1. /\ held'[cur] = Nobody /\ \A t \in Servers \ {cur} : held'[t] = held[t]
          /\ TypeOK' /\ Holding' /\ Kept' /\ DisplayLedger' /\ dying' = dying
      BY <2>1, <2>3, Collecting
    <3> QED
      BY <2>1, <3>1 DEF Unmade, Place
  <2> QED
    BY <1>4, <2>2, <2>3 DEF CloseSkipped
<1> QED
  BY <1>1, <1>2, <1>3, <1>4

----------------------------------------------------------------------------
(* The other steps. *)

LEMMA DefaultConstructInv == ASSUME Inv, NEW s \in Servers, DefaultConstruct(s) PROVE Inv'
<1> USE DEF DefaultConstruct, Inv, processVars, place
<1>1. TypeOK'
  BY DEF TypeOK
<1>2. Holding' /\ Unmade' /\ Place' /\ Kept'
  BY DEF Holding, Unmade, Place, Kept
<1>3. DisplayLedger'
  BY DEF DisplayLedger
<1> QED
  BY <1>1, <1>2, <1>3

LEMMA SpawnInv == ASSUME Inv, NEW c \in Xs, Spawn(c) PROVE Inv'
<1> USE NobodyAssumption DEF Inv, TypeOK, Places
<1>1. /\ at = "spawn" /\ at' = "group" /\ cur \in Servers \ live
      /\ held[cur] = Nobody /\ display[cur] = Nobody /\ life[c] = "unborn"
      /\ life' = [life EXCEPT ![c] = "alive"] /\ held' = [held EXCEPT ![cur] = c]
      /\ UNCHANGED <<ending, told, dying, doomed, display, open, live, history>>
      /\ UNCHANGED <<cur, dtor, attempt, thrown>>
  BY DEF Spawn, Process!Spawn, Goto, Place, Unmade
<1>2. TypeOK'
  <2>1. display' \in [Servers -> Xs \cup {Nobody}] /\ open' \subseteq Xs /\ live' \subseteq Servers
    BY <1>1
  <2>2. at' \in Places /\ cur' \in Servers /\ dtor' \in BOOLEAN /\ attempt' \in 0 .. Attempts - 1 /\ thrown' \in BOOLEAN
    BY <1>1
  <2>3. dying' \subseteq Servers /\ doomed' \subseteq Xs /\ strays' \subseteq Xs /\ closed' \subseteq live'
    BY <1>1 DEF history
  <2>4. /\ life' \in [Xs -> {"unborn", "alive", "dead", "collected"}]
        /\ ending' \in [Xs -> {"ended", "running"}] /\ told' \in [Servers -> {"ended", "running"}]
        /\ held' \in [Servers -> Xs \cup {Nobody}]
    BY <1>1
  <2> QED
    BY <2>1, <2>2, <2>3, <2>4
<1>3. life'[c] = "alive" /\ \A x \in Xs \ {c} : life'[x] = life[x]
  BY <1>1
<1>4. held'[cur] = c /\ \A t \in Servers \ {cur} : held'[t] = held[t]
  BY <1>1
<1>5. \A t \in Servers : held[t] # c
  BY <1>1 DEF Holding
<1>6. Holding'
  BY <1>3, <1>4, <1>5 DEF Holding
<1>7. Unmade' /\ Place' /\ Kept'
  BY <1>1, <1>3, <1>4, <1>5 DEF Unmade, Place, Kept, history
<1>8. \A t \in Servers : display[t] # Nobody => display[t] \in Xs
  OBVIOUS
<1>9. DisplayLedger'
  BY <1>1, <1>3, <1>4, <1>5, <1>8 DEF DisplayLedger, history
<1> QED
  BY <1>2, <1>6, <1>7, <1>9

(* A child is given up by the constructor of the process that throws, or   *)
(* by its destructor after a SIGKILL; the object has no display then.      *)
LEMMA GivenUp ==
  ASSUME Inv, held[cur] \in Xs, display[cur] = Nobody, held' = [held EXCEPT ![cur] = Nobody],
         life[held[cur]] = "alive" => held[cur] \in doomed' \cup strays',
         doomed \subseteq doomed', strays \subseteq strays',
         UNCHANGED <<life, display, open>>,
         live' \subseteq live, live \ live' \subseteq {cur}, closed' = closed \cap live'
  PROVE  Holding' /\ Kept' /\ DisplayLedger'
<1> USE NobodyAssumption DEF Inv, TypeOK
<1>1. cur \in Servers /\ held'[cur] = Nobody /\ \A t \in Servers \ {cur} : held'[t] = held[t]
  OBVIOUS
<1>2. Holding'
  BY <1>1 DEF Holding
<1>3. Kept'
  BY <1>1 DEF Kept
<1>4. DisplayLedger'
  BY <1>1 DEF DisplayLedger
<1> QED
  BY <1>2, <1>3, <1>4

LEMMA GroupThrowsInv == ASSUME Inv, GroupThrows PROVE Inv'
<1> USE NobodyAssumption DEF Inv, TypeOK, Places
<1>1. /\ at = "group" /\ cur \in Servers /\ held[cur] \in Xs /\ display[cur] = Nobody
      /\ held' = [held EXCEPT ![cur] = Nobody] /\ strays' = strays \cup {held[cur]}
      /\ UNCHANGED <<life, ending, told, dying, doomed, display, open, live, closed, cur>>
      /\ at' = "idle" /\ dtor' = FALSE /\ attempt' = 0 /\ thrown' = FALSE
  BY DEF GroupThrows, Process!LetGo, Return, Place, Unmade
<1>2. TypeOK'
  BY <1>1, FirstAttempt
<1>3. Holding' /\ Kept' /\ DisplayLedger'
  BY <1>1, GivenUp
<1>4. Unmade' /\ Place'
  BY <1>1 DEF Unmade, Place
<1> QED
  BY <1>2, <1>3, <1>4

(* The end of an object, by either of the two steps that release it.       *)
LEMMA ReleasedType ==
  ASSUME Inv, Released, UNCHANGED <<life, ending>>,
         told' \in [Servers -> {"ended", "running"}], held' \in [Servers -> Xs \cup {Nobody}],
         dying' \subseteq Servers, doomed' \subseteq Xs
  PROVE  TypeOK'
<1> USE DEF Inv, TypeOK, Places
<1>1. /\ at' \in Places /\ cur' \in Servers /\ dtor' \in BOOLEAN
      /\ attempt' \in 0 .. Attempts - 1 /\ thrown' \in BOOLEAN
  BY FirstAttempt DEF Released, Goto, Return
<1>2. /\ display' \in [Servers -> Xs \cup {Nobody}] /\ open' \subseteq Xs /\ live' \subseteq Servers
      /\ strays' \subseteq Xs /\ closed' \subseteq live'
  BY DEF Released
<1> QED
  BY <1>1, <1>2

LEMMA MemberKilledInv == ASSUME Inv, MemberKilled PROVE Inv'
<1> USE NobodyAssumption DEF Inv, TypeOK
<1>1. /\ at = "grace" /\ cur \in Servers /\ held[cur] \in Xs /\ display[cur] = Nobody
      /\ held' = [held EXCEPT ![cur] = Nobody] /\ dying' = dying \ {cur}
      /\ doomed' = IF life[held[cur]] = "alive" THEN doomed \cup {held[cur]} ELSE doomed
      /\ UNCHANGED <<life, ending, told>>
  BY DEF MemberKilled, Process!Abandon, Place
<1>2. /\ display' = [display EXCEPT ![cur] = Nobody]
      /\ live' = live \ {cur} /\ closed' = closed \ {cur} /\ UNCHANGED <<open, strays, cur>>
      /\ at' \in {"idle", "gone"}
  BY DEF MemberKilled, Released, Goto, Return
<1>3. display' = display
  BY <1>1, <1>2
<1>4. TypeOK'
  BY <1>1, ReleasedType DEF MemberKilled
<1>5. Holding' /\ Kept' /\ DisplayLedger'
  BY <1>1, <1>2, <1>3, GivenUp
<1>6. Unmade'
  BY <1>1, <1>2, <1>3 DEF Unmade
<1>7. dying' = {}
  BY <1>1 DEF Place
<1>8. Place'
  BY <1>1, <1>2, <1>7 DEF Place
<1> QED
  BY <1>4, <1>5, <1>6, <1>8

(* The destructor of the member starts; nothing but its place changes.     *)
LEMMA MemberDestroyedInv == ASSUME Inv, MemberDestroyed PROVE Inv'
<1> USE DEF Inv, TypeOK, Places
<1>1. /\ at = "dtor" /\ at' = "member" /\ dying' = dying \cup {cur} /\ cur \in Servers
      /\ UNCHANGED <<life, ending, held, told, doomed, display, open, live, history>>
      /\ UNCHANGED <<cur, dtor, attempt, thrown>>
  BY DEF MemberDestroyed, Process!Destroy, Goto
<1>2. TypeOK'
  BY <1>1 DEF history
<1>3. Holding' /\ Kept' /\ DisplayLedger'
  BY <1>1 DEF Holding, Kept, DisplayLedger, history
<1>4. Unmade' /\ Place'
  BY <1>1 DEF Unmade, Place
<1> QED
  BY <1>2, <1>3, <1>4

LEMMA ConnectedInv == ASSUME Inv, Connected PROVE Inv'
<1> USE NobodyAssumption DEF Inv, TypeOK, Places
<1>1. /\ at = "connect"
      /\ cur \in Servers \ live /\ held[cur] \in Xs /\ life[held[cur]] = "alive"
      /\ display[cur] = Nobody
      /\ display' = [display EXCEPT ![cur] = held[cur]] /\ open' = open \cup {held[cur]}
      /\ live' = live \cup {cur} /\ at' = "idle" /\ cur' = cur
      /\ UNCHANGED <<life, ending, held, told, dying, doomed, history>>
  BY DEF Connected, Return, Place, Unmade, processVars
<1>2. TypeOK'
  <2>1. display' \in [Servers -> Xs \cup {Nobody}] /\ open' \subseteq Xs /\ live' \subseteq Servers
    BY <1>1
  <2>2. at' \in Places /\ cur' \in Servers /\ dtor' \in BOOLEAN /\ attempt' \in 0 .. Attempts - 1 /\ thrown' \in BOOLEAN
    BY FirstAttempt DEF Connected, Return
  <2>3. dying' \subseteq Servers /\ doomed' \subseteq Xs /\ strays' \subseteq Xs /\ closed' \subseteq live'
    BY <1>1 DEF history
  <2>4. /\ life' \in [Xs -> {"unborn", "alive", "dead", "collected"}]
        /\ ending' \in [Xs -> {"ended", "running"}] /\ told' \in [Servers -> {"ended", "running"}]
        /\ held' \in [Servers -> Xs \cup {Nobody}]
    BY <1>1
  <2> QED
    BY <2>1, <2>2, <2>3, <2>4
<1>3. Holding' /\ Unmade' /\ Place' /\ Kept'
  BY <1>1 DEF Holding, Unmade, Place, Kept, history
<1>4. \A t \in Servers : display[t] # held[cur]
  BY <1>1 DEF DisplayLedger, Holding
<1>5. DisplayLedger'
  BY <1>1, <1>4 DEF DisplayLedger, history
<1> QED
  BY <1>2, <1>3, <1>5

LEMMA DisconnectInv == ASSUME Inv, Disconnect PROVE Inv'
<1> USE NobodyAssumption DEF Inv, TypeOK, Places
<1>1. /\ at = "disconnect" /\ cur \in live /\ open' = open \ {display[cur]}
      /\ display' = [display EXCEPT ![cur] = Nobody] /\ closed' = closed \cup {cur}
      /\ at' \in {"idle", "dtor"} /\ cur' = cur
      /\ UNCHANGED <<life, ending, held, told, dying, doomed, live, strays>>
  BY DEF Disconnect, Goto, Return, Place, processVars
<1>2. TypeOK'
  <2>1. display' \in [Servers -> Xs \cup {Nobody}] /\ open' \subseteq Xs /\ live' \subseteq Servers
    BY <1>1
  <2>2. at' \in Places /\ cur' \in Servers /\ dtor' \in BOOLEAN /\ attempt' \in 0 .. Attempts - 1 /\ thrown' \in BOOLEAN
    BY <1>1, FirstAttempt DEF Disconnect, Goto, Return
  <2>3. dying' \subseteq Servers /\ doomed' \subseteq Xs /\ strays' \subseteq Xs /\ closed' \subseteq live'
    BY <1>1
  <2>4. /\ life' \in [Xs -> {"unborn", "alive", "dead", "collected"}]
        /\ ending' \in [Xs -> {"ended", "running"}] /\ told' \in [Servers -> {"ended", "running"}]
        /\ held' \in [Servers -> Xs \cup {Nobody}]
    BY <1>1
  <2> QED
    BY <2>1, <2>2, <2>3, <2>4
<1>3. Holding' /\ Unmade' /\ Place' /\ Kept'
  BY <1>1 DEF Holding, Unmade, Place, Kept
<1>4. DisplayLedger'
  BY <1>1 DEF DisplayLedger
<1> QED
  BY <1>2, <1>3, <1>4

LEMMA DestroyedInv == ASSUME Inv, Destroyed PROVE Inv'
<1> USE NobodyAssumption DEF Inv, TypeOK
<1>1. /\ cur \in Servers /\ held[cur] = Nobody /\ dying' = dying \ {cur}
      /\ at \in {"member", "grace"}
      /\ told' = [told EXCEPT ![cur] = "running"] /\ UNCHANGED <<life, ending, held, doomed>>
  BY DEF Destroyed, Process!Forget
<1>2. /\ display' = [display EXCEPT ![cur] = Nobody]
      /\ live' = live \ {cur} /\ closed' = closed \ {cur} /\ UNCHANGED <<open, strays, cur>>
      /\ at' \in {"idle", "gone"}
  BY DEF Destroyed, Released, Goto, Return
<1>3. TypeOK'
  BY <1>1, ReleasedType DEF Destroyed
<1>4. dying' = {}
  BY <1>1 DEF Place
<1>5. Holding' /\ Unmade' /\ Place' /\ Kept'
  BY <1>1, <1>2, <1>4 DEF Holding, Unmade, Place, Kept
<1>6. DisplayLedger'
  BY <1>1, <1>2 DEF DisplayLedger
<1> QED
  BY <1>3, <1>5, <1>6

(* Swap renames two objects: what held of one holds of the other.          *)
LEMMA SwapInv == ASSUME Inv, NEW a \in Servers, NEW b \in Servers, Swap(a, b) PROVE Inv'
<1> DEFINE from(s) == IF s = a THEN b ELSE IF s = b THEN a ELSE s
<1> USE NobodyAssumption DEF Inv, TypeOK
<1>1. \A s \in Servers : from(s) \in Servers /\ \A t \in Servers : from(s) = from(t) => s = t
  OBVIOUS
<1>2. \A s \in Servers : \E t \in Servers : from(t) = s
  <2> TAKE s \in Servers
  <2>1. from(from(s)) = s /\ from(s) \in Servers
    OBVIOUS
  <2> QED
    BY <2>1
<1>3. /\ at = "idle" /\ {a, b} \subseteq live
      /\ UNCHANGED <<life, ending, dying, doomed, open, live, strays>>
      /\ UNCHANGED <<at, cur, dtor, attempt, thrown>>
  BY DEF Swap, Process!Exchange, place
<1>4. TypeOK'
  BY <1>3 DEF Swap, Process!Exchange, Exchanged
<1>5. \A s \in Servers :
        /\ held'[s] = held[from(s)] /\ display'[s] = display[from(s)]
        /\ s \in live <=> from(s) \in live
  BY <1>3 DEF Swap, Process!Exchange
<1>6. \A s \in Servers : s \in closed' <=> from(s) \in closed
  BY DEF Swap, Exchanged
<1> HIDE DEF from
<1>7. Holding' /\ Unmade' /\ Place'
  BY <1>1, <1>3, <1>5 DEF Holding, Unmade, Place
<1>8. Kept'
  BY <1>2, <1>3, <1>5 DEF Kept
<1>9. \A s \in live' : display'[s] = Nobody => s \in closed'
  BY <1>1, <1>3, <1>5, <1>6 DEF DisplayLedger
<1>10. \A s \in Servers : display'[s] # Nobody =>
         /\ s \in live' /\ display'[s] \in open'
         /\ \/ held'[s] = display'[s]
            \/ held'[s] = Nobody /\ life'[display'[s]] = "collected"
         /\ \A t \in Servers : display'[t] = display'[s] => t = s
  BY <1>1, <1>3, <1>5 DEF DisplayLedger
<1>11. \A c \in open' : (\E s \in Servers : display'[s] = c) \/ life'[c] = "collected"
  BY <1>2, <1>3, <1>5 DEF DisplayLedger
<1> QED
  BY <1>4, <1>7, <1>8, <1>9, <1>10, <1>11 DEF DisplayLedger

LEMMA XEndsInv == ASSUME Inv, NEW c \in Xs, XEnds(c) PROVE Inv'
<1> USE NobodyAssumption DEF Inv, TypeOK, XEnds, place, history
<1>1. /\ life[c] = "alive" /\ life' = [life EXCEPT ![c] = "dead"]
      /\ ending' = [ending EXCEPT ![c] = "ended"] /\ doomed' = doomed \ {c}
      /\ UNCHANGED <<held, told, dying>>
  BY DEF Process!End
<1>2. TypeOK'
  BY <1>1
<1>3. life'[c] = "dead" /\ \A x \in Xs \ {c} : life'[x] = life[x]
  BY <1>1
<1>4. Holding' /\ Unmade' /\ Place' /\ Kept'
  BY <1>1, <1>3 DEF Holding, Unmade, Place, Kept
<1>5. \A t \in Servers : display[t] # Nobody => display[t] \in Xs
  OBVIOUS
<1>6. DisplayLedger'
  BY <1>1, <1>3, <1>5 DEF DisplayLedger
<1> QED
  BY <1>2, <1>4, <1>6

LEMMA Invariance == Spec => []Inv
<1>1. Inv /\ [Next]_vars => Inv'
  <2>1. Inv /\ UNCHANGED vars => Inv'
    BY DEF Inv, TypeOK, Holding, Unmade, Place, Kept, DisplayLedger, vars, processVars, place, history
  <2> QED
    BY <2>1, PlaceInv, CollectInv, DefaultConstructInv, SpawnInv, GroupThrowsInv,
       ConnectedInv, DisconnectInv, MemberDestroyedInv, MemberKilledInv, DestroyedInv, SwapInv, XEndsInv DEF Next
<1> QED
  BY InitInv, <1>1, PTL DEF Spec

----------------------------------------------------------------------------
(* Every variable keeps its type: in particular the constructor makes no   *)
(* more than Attempts attempts.                                            *)
THEOREM TypeCorrect == Spec => []TypeOK
<1>1. Inv => TypeOK
  BY DEF Inv
<1> QED
  BY Invariance, <1>1, PTL

(* A display has one owner and leads to the X server that this owner has,  *)
(* or had until it ended; a connection that no object has (server.cpp:93   *)
(* skips the XCloseDisplay of a server that has ended) leads to a server   *)
(* that was collected; and an object without a display was never given one *)
(* or has closed it.                                                       *)
THEOREM DisplaysAccounted == Spec => []DisplayLedger
<1>1. Inv => DisplayLedger
  BY DEF Inv
<1> QED
  BY Invariance, <1>1, PTL

(* As long as the program goes on, an X server that runs has an owner, or  *)
(* a SIGKILL awaits it, or setpgid lost it, however a constructor throws   *)
(* and an object goes.                                                     *)
THEOREM NoneLeftRunning == Spec => []NoServerLeft
<1>1. Inv => NoServerLeft
  <2> SUFFICES ASSUME Inv, NEW c \in Xs, life[c] = "alive", c \notin doomed \cup strays
               PROVE  \E s \in Servers : held[s] = c /\ (s \in live \/ (s = cur /\ at # "idle"))
    BY DEF NoServerLeft
  <2>1. PICK s \in Servers : held[s] = c
    BY DEF Inv, Kept
  <2>2. s \in live \/ (s = cur /\ at # "idle")
    BY <2>1, NobodyAssumption DEF Inv, Unmade
  <2> QED
    BY <2>1, <2>2
<1> QED
  BY Invariance, <1>1, PTL

(* Whatever the server does with its member _M_process are steps of the    *)
(* abstract handle, which app::process implements (Refinement): it relies  *)
(* on nothing else, and what a destroyed object told is forgotten before   *)
(* its storage is used again.  That a destructor leaves no X server alive  *)
(* without a SIGKILL is what the handle promises (Abandon), not a          *)
(* convention of this module.                                              *)
THEOREM UsesHandle == Spec => Process!Spec
<1>1. Init => Process!Init
  BY DEF Init
<1>2. Inv /\ [Next]_vars => [Process!Next]_(Process!vars)
  <2> SUFFICES ASSUME Inv, [Next]_vars, ~(UNCHANGED processVars) PROVE Process!Next
    BY DEF processVars, Process!vars
  <2>1. cur \in Servers /\ told \in [Servers -> {"ended", "running"}]
    BY DEF Inv, TypeOK
  <2>2. ASSUME NEW c \in Xs, Spawn(c) PROVE Process!Next
    BY <2>1, <2>2 DEF Spawn, Process!Next
  <2>3. ASSUME NEW c \in Xs, XEnds(c) PROVE Process!Next
    BY <2>3 DEF XEnds, Process!Next
  <2>4. CASE GroupThrows
    BY <2>1, <2>4 DEF GroupThrows, Process!Next
  <2>5. CASE FailedToStart \/ CloseSkipped \/ MemberCollected
    BY <2>1, <2>5 DEF FailedToStart, CloseSkipped, MemberCollected, Process!Next
  <2>6. CASE MemberDestroyed \/ MemberKilled
    BY <2>1, <2>6 DEF MemberDestroyed, MemberKilled, Process!Next
  <2>7. CASE Destroyed
    BY <2>1, <2>7 DEF Destroyed, Process!Next
  <2>8. ASSUME NEW s \in Servers, Running(s) PROVE Process!Next
    BY <2>8 DEF Running, Process!Next
  <2>9. ASSUME NEW a \in Servers, NEW b \in Servers, Swap(a, b) PROVE Process!Next
    BY <2>9 DEF Swap, Process!Next
  <2>10. CASE SpawnThrows \/ XauthEnds \/ Grouped \/ StillRunning \/ Connected \/ NotConnected \/ CloseGoesOn
              \/ Disconnect \/ DisconnectBroken \/ MemberRunning \/ MemberRefused
    BY <2>10 DEF SpawnThrows, XauthEnds, Grouped, StillRunning, Connected, NotConnected, CloseGoesOn,
                 Disconnect, DisconnectBroken, MemberRunning, MemberRefused
  <2>11. ASSUME NEW s \in Servers,
                DefaultConstruct(s) \/ SetCookie(s) \/ \E andDestroy \in BOOLEAN : Close(s, andDestroy)
         PROVE  Process!Next
    BY <2>11 DEF DefaultConstruct, SetCookie, Close
  <2> QED
    BY <2>2, <2>3, <2>4, <2>5, <2>6, <2>7, <2>8, <2>9, <2>10, <2>11 DEF Next, vars
<1> QED
  BY <1>1, <1>2, Invariance, PTL DEF Spec, Process!Spec
=============================================================================
