# libcore: models, checks and proofs

libcore is a small C++11 library over Linux: child processes with redirected
streams, files, sockets, credentials, options, XML, and wrappers of PAM, LDAP,
ALSA, the HEI controllers and an X server. It has no tests and no documentation
but the comments in its headers, so the models here are written from the code.
Line numbers are those of the files under `src/`.

Checking one module: `tlc -config MCProcess.cfg MCProcess.tla`.
Checking the proofs of one component: `tlapm ProcessProofs.tla`.

## 1. The system

| Part | State it keeps | Operations | What makes it hard |
|---|---|---|---|
| `app::process` (`process/process.*`) | child id, active and group flags, exit code | construct (fork), `running`, `signal`, `can_join`, `join`, move, `detach`, destroy | the child and the kernel run beside the thread; signals interrupt waits; pids are reused once reaped |
| redirected streams (`process.cpp` 41-154, `filebuf.hpp`) | descriptors of up to three pipes, three filebufs, three streams | the constructor's pipe/fork/dup2/fdopen sequence, move, destroy | any step fails; the descriptor table is copied by fork; streams and filebufs move separately |
| `hei::device` (`hei/hei_device.*`) | transport, device, and a static count of users of the library | open, close, move, `read_data`, `read_input` | shared count; constructors that throw half way |
| `pam::context` (`pam/pam.*`) | handle, conversation functions, credentials flag, last code | start, close, move, items, environment, sessions, the conversation callback | PAM calls back into an object that moves; sessions fail half way |
| `x11::server` (`x11/server.*`) | an X server process, a display connection, a cookie | start with retries, `close`, destroy | the server starts late, dies early or never answers |
| `storage::file`, `app::socket`, `net::`/`unix::socket` | one descriptor each | open, close, move, read and write with or without waiting, `eof`, `size`, `accept` | shared offsets, descriptors overwritten |
| `storage::entry` (`storage/entry.*`) | two static functions, a filter and a comparison | `get` | a filter that scans another directory replaces them under the outer scan |
| `app::credentials`, `this_user` (`credentials/`) | a copy of a passwd entry; the ids of the process | `morph_into`, `morph_into_real`, queries | three system calls in an order that matters, of which any may fail; an id of -1 means "unchanged" |
| `app::options` (`option/`) | values and counts of the options | `parse`, `usage` | errors after some options are assigned, a second parse, what an error message names |
| `xml` (`xml/`) | a tree of nodes | `parse`, `to_string`, `validate` | recursive descent over a text that is consumed; a text that ends early |
| `slap` (`slap/`) | an LDAP handle; entries as sets of attributes | search, add, modify, values of an attribute | insertion in the caller's order; a constructor that throws; errors behind `noexcept` |
| `alsa::device` (`alsa/`) | a PCM handle | open, run, stop, pause, recover, `can_read`/`can_write`, move | ten calls behind the one that opens; underruns; polling several descriptors |
| `syslog_stream` (`syslog.hpp`) | a buffer and a level; one log for the program | write, level, flush, construct, destroy | the name is kept as a pointer and shared by all streams |
| environment, arguments (`process/environ.*`, `arguments.*`) | a map, a vector; the environment of the program | to and from arrays of C strings, `insert`, `erase`, `get` | names with `=`, texts with NUL, names that occur twice |
| `tern`, `optional`, `convert`, `string`, `net::address`, `container`, `enum` | values | operators, conversions | overloads, flags that a move leaves behind, limits of integers |

How they interact: `x11::server` owns an `app::process`, replaces the image of
its child with `this_process::replace`, and drives `xauth` through a redirected
process; `pam::context` returns an `app::environ`; everything else only shares
the kernel (descriptors, the SIGCHLD disposition, the user ids). The library
starts no threads and has no locks. Concurrency comes from children, from the
kernel delivering signals, and from callbacks of PAM and of `scandir`.

What makes each part correct is listed below with the module that states it;
`PROJECT.json` lists under "hazards" the places where each part could go wrong.

## 2. Modules

| Module | Models | Runs | Proofs |
|---|---|---|---|
| `Process` | `app::process` with its children and the kernel | `MCProcess`, `MCProcessLive` | `ProcessProofs` |
| `ChildHandle` | abstract: what a process object promises | refined by `Process` in `MCProcess` | refinement in `ProcessProofs` |
| `Redirect` | pipes, descriptor tables, filebufs and streams of a redirected process | `MCRedirect`, `MCRedirectMoved` | `RedirectProofs` |
| `Hei` | the life of `hei::device` and the count of the interface | `MCHei`, `MCHeiShut` | `HeiProofs` |
| `Pam` | `pam::context` | `MCPam` | `PamProofs` |
| `X11Server` | `x11::server`, over the abstract process of `ChildHandle` | `MCX11Server` | `X11ServerProofs` |
| `Files` | descriptors of `storage::file` and the sockets; the offset across `eof()` and `size()` | `MCFiles` | `FilesProofs` |
| `Credentials` | the ids of the process and every way to change them | through `Program` | `ProgramProofs` |
| `EntryScan` | scans of directories within scans | through `Program` | `ProgramProofs` |
| `Syslog` | streams over one system log | through `Program` | `ProgramProofs` |
| `Handles` | LDAP connections and PCM devices as owners of a handle | through `Program` | `ProgramProofs` |
| `Tern`, `ExitStatus`, `HeiInput`, `Optional`, `Slap`, `Transfer`, `Filebuf`, `Options` | pure functions of one part of the library each | through `Values` | `FunctionsProofs` |
| `Convert`, `Environ` | texts to numbers and back, addresses; environments and arguments | through `Values` | `ProgramProofs` |
| `Xml` | the reader and writer of XML | through `Values` | |
| `Values` | a call of one of those functions, and what it should return | through `Program` | `FunctionsProofs`, `ProgramProofs` |
| `Program` | a program that uses one of `Values`, `Credentials`, `EntryScan`, `Syslog`, `Handles` | `MCProgram`, `MCShellMissing`, `MCPollTimeout` | `ProgramProofs` |

A module `MCx` gives the constants of `x` their values; the file after
"Runs" without a module of that name is a configuration of the same MC module.

### Process

One thread calls the operations of the objects. An operation is cut at its
system calls: `at` is the place it has reached, `cur` its object, `why` the
caller `running()` returns to. For example `can_join` (process.cpp 209-240) is

    CanJoin -> poll -> RunningTrue -> arm -> InstallHandler -> armed
            -> EnterSleep -> asleep -> (interrupted: poll again) or SleepElapses
            -> restore -> RestoreHandler

Between any two of these steps a child may return, throw, die of a signal,
ignore SIGTERM, call execve or change its user, and a signal handler may
interrupt a sleep or a blocking wait. `waitpid` is `WaitReaps` (a zombie is
collected and its status recorded) and `WaitFindsNone` (ECHILD). The status word
is modelled by what it keeps: eight bits of an exit value, or a signal. A pid is
handed out once; `OwnedUnreaped` states what makes reuse harmless.

Safety: an object that signals or waits has a child nobody has reaped
(`OwnedUnreaped`), which it owns alone (`SoleOwner`), and which leads its group
if the object says so (`GroupLed`); `exit_code` is none until the child is
collected and then the truth (`ExitCodeTruth`); the answer of `can_join`
agrees with the ownership (`JoinVerdict`); an unreaped child loses its owner in
three ways only (`AbandonedLegally`): the program detaches it, the constructor
throws after `fork` (process.cpp:138), or a destructor has waited for it and it is
dead by then or a SIGKILL awaits it.

`~process` is a function-try-block. The end of its handler `catch(...) { }`
(process.cpp:37) throws the exception on, as the handler of a destructor's
function-try-block does, and a destructor is noexcept: a `kill()` that is refused
because the child has changed its user id ends the program through
`std::terminate`. `DtorTerminates` and `DtorKills` then go to the place `gone`,
where the object keeps its storage, the children go on and the program does
nothing more (`ProgramEnded`).

Without negative timeouts the SIGCHLD disposition is put back (`HandlerRestored`)
and `join` collects, unless a handler of the program's own interrupts it
(`JoinCollects`). With a negative timeout `nanosleep` fails with EINVAL,
`can_join` throws past the `sigaction` that restores the handler
(process.cpp:233), and both are lost; `MCProcessLive` includes that behaviour.

Refinement: `ImplementsHandle` is `ChildHandle!Spec` under the mapping at the
end of `Process`. An object holds its child from `fork` until it collects it or
gives it up; `told` is its exit code, `dying` are the objects whose destructor is
at work, `doomed` the children a SIGKILL is on its way to. A handle that is
destroyed collects its child and is forgotten (`Forget`), or lets it go dead or
doomed (`Abandon`); there is no step with which it lets go a child that lives on.

Liveness: `DtorEnds` (the destructor returns and its child ends, or the program
ends because `kill()` was refused) and `WaitsEnd` (`can_join` returns, and `join`
does once the child is dead). Fairness
assumed (`Fairness`): the thread goes on (`WF(Continue)`: the scheduler);
the sleep ends (`SF(SleepElapses)`: it is strong because an interruption leaves
the sleep and comes back to it with the time that is left, process.cpp:223, so
the clock does not start again); the kernel carries out a SIGKILL
(`WF(ChildKilled(SIGKILL))`). Nothing is assumed of the children, who may run
for ever and ignore SIGTERM, nor of the program, who need not call anything.

### Redirect

Descriptor tables are functions from numbers to pipe ends. `pipe` takes the two
lowest free numbers, `fork` copies the table, closing a free number does
nothing. The constructor is `Begin`, one `Pipe` per redirected stream, `Fork`,
one `Open` per stream, `Return`; `Throw` can replace any of them. The child is
one `Dup` per stream and `Run`, in any interleaving with its parent.
`ChildWired`: the child's standard descriptors are the right ends, and an object
that was not moved reaches its child through its streams. `PrivateSide`: nobody else holds them, which is what end of file rests on.
`ParentExact`: between operations the program holds exactly the ends its
filebufs own, though the code closes numbers twice when it fails.

### Hei, Pam

Single-threaded objects over an external library that hands out handles. One
action is one member function; a call of the library may fail wherever the code
looks at its result. `Hei`: `OwnedOnceAndOpen`, and `InterfaceAccount` (as long
as no empty object is closed the library is opened once for every open device
and every constructor that threw, and it is shut when the last object is gone).
`Pam`: `OwnedOnce` (a handle has one living owner, and a conversation refused
half way frees what it allocated), `CallsOwnerBack` (PAM's callback pointer
follows the object that moves), `Ledgers` (what the object remembers against
what PAM has done; `pam_end` is never given an indeterminate code). `torn`,
`threw`, `refused`, `careless` and `failed` are history: they record that
something went
wrong which the code cannot repair and weaken the properties by exactly that.

### X11Server

The member `_M_process` is an instance of `ChildHandle`: the steps of that module
are the only ones with which the server touches its child, and `Process`
implements them. `at` is the place of
the thread: the constructor goes from `cookie` (xauth) over `spawn`, `group`
(setpgid) to the loop `asleep`, `connect`; `close()` from `closing` to
`disconnect`. At `dtor`, reached from `~server` and from the exceptions of the
constructor, `~process` of the member starts: it polls (`member`), gives a child
that is alive a SIGTERM and three seconds (`grace`), and kills. Its three outcomes
are those of `ChildHandle` and of `Process`: no child any more (`Destroyed`, after
`MemberCollected`), a child that is dead or doomed (`MemberKilled`), or a refused
signal (`MemberRefused`). An X server may die between any two of these steps.
`DisplayLedger` relates displays, connections and servers, and says that a
constructor that returns has connected; a connection that outlives its object
leads to a server that was collected before `close()` looked, which then leaves
the display alone (server.cpp:93). `NoServerLeft`: while the program goes on, an X
server that runs belongs to an object, or to the constructor or destructor at work
on it, or a SIGKILL awaits it, or `setpgid` failed for it (`strays`).
Three ways the program itself ends are modelled (`gone`): xauth dies
before it reads its commands and the write raises SIGPIPE; the X server dies
between `running()` and `XCloseDisplay` (server.cpp:93, 97) and Xlib exits; a
signal is refused in a destructor, be it one of `~process` or the hangup of
`close()` in `~server` (server.cpp:101), which is a function-try-block as well
(`thrown`: the exception goes on once the members are destroyed). A hangup that is
refused outside a destructor is an exception of `close()`, which changes nothing
more than a `close()` that returns. `closed` and `strays` are history.

### Files

`table` is the descriptor table; the kernel hands out the lowest free number.
`Accounted`: whatever is opened, accepted, moved, closed or destroyed, an object
holds an open descriptor of its kind alone, and nothing else stays open but what
was lost in two ways the code has: `accept()` into a socket that is open
(socket.cpp:74), and `file::close()`, which forgets the numbers 0 to 2 whatever
they are (file.cpp:38). `eof()` and `size()` are cut at their three seeks, between
which a child that shares the description may move the offset and any process
may write or truncate the file; `OnlyAsks` says that without such interference
(`quiet`) they answer with the truth and put the offset back.

### Credentials

A call of `morph_into` is its system calls in order (`setgroups`, `setresgid`,
`setresuid`, credentials.cpp 82-101), each of which may fail; the kernel's rule
for who may take which id is `MayBecome`. `IdentityWhole`: a call that returns
has changed every id it was asked to change, for the time being or for good, and
a process that has become an ordinary user for good stays that user, through any
sequence of calls, whichever of them throw half way. An accessor, `gid()`,
returns the user id (credentials.hpp:55); the model does too.

### EntryScan

`storage::entry::get` stores its two function objects in static variables and
calls `scandir`, which calls them back. A callback may call `get` in turn: the
stack of scans is `scans`. `Get` stores what it was given over what was there,
`FilterNext` reads whatever filter is stored by then. `ScanAsAsked`: a scan whose
callbacks have not scanned returns its own filter's entries in its own order,
inside another one too; a disturbed scan is right only about the entries in front
of the disturbance. A callback that has replaced the function it runs in is
undefined behaviour: the answer it gives afterwards is left open (`verdict`).

### Syslog

`openlog` keeps a pointer to the name it was given, and there is one log. The
name is that of a stream, of the program (`closelog`, or an empty name), or
dangling (a temporary string). `LogTells`: a message is what one stream was given
since its last message, at the level that was set in that time, and never goes
out under the name of a stream other than the one constructed last.

### Handles

`slap::connection` and `alsa::device` own what a C library has handed out, as
`Hei` and `Pam` do, and the PCM stream has a state of its own. `DevicesKept` is
`HandlesOwned` (one living owner, open while owned; only a constructor that threw
leaves one open, slap.cpp:84, alsa_device.cpp:78) and `PlaysAsTold` (`running()`
and `paused()` agree with the last call that succeeded; only an underrun takes a
running stream out of that state).

### Values and Program

Every behaviour of `Values` is one call of a function; the result is compared
with what it should be, in terms of the call and not of the code.

* `KleeneLogic`: all overloads of `&&` and `||` are minimum and maximum, and `!`
  exchanges them (`Tern`): `!true` is `false`, where the table above `operator!`
  (tern.hpp:34) has `true`.
* `Decodes`: every exit status and signal is decoded as it was encoded
  (`ExitStatus`); no input is read from the bit of another (`HeiInput`); a text
  is converted to the number or truth value it denotes, or throws (`Convert`); an
  environment is the same as an object, as an array and to `getenv`, which is given
  `name.data()` and sees a name up to its first NUL only (`Environ`);
  an optional holds what was stored in it last through any chain of assignments,
  moves and swaps (`Optional`); an address has its bytes in order.
* `ReadsTell`: a call that must not wait does not, and a count of zero means what
  it should; a loop over `getline` gets the lines of a file, the unterminated
  last one too; a poll waits without end exactly for a negative time, claims data
  only if there is some, and misses nothing if every descriptor has something
  (`Transfer`; `PollAsDocumented` has the rest); a C++ stream opened on a
  descriptor can do what was asked of it (`Filebuf`).
* `ParseTells`: what `parse` has counted and assigned when it returns and when it
  throws, and what the error names (`Options`). `getopt_long` is external and
  described by the events it returns.
* `XmlFaithful`: parsing a text gives the document it was put together from, or
  the first error in it; written and read again it is the same unless an
  attribute has a double quote (`Xml`).
* `LdapFaithful`: a search returns every entry once in the order asked for; a
  modification is what the caller put in but for a second change of the same
  attribute; what the readers of an attribute return, throw or end with (`Slap`).

`Program` puts these parts side by side. They share no state, so a behaviour uses
one of them (`part`) and the state spaces add up instead of multiplying.

## 3. Runs

| Run | Question | Instance | Distinct states |
|---|---|---|---|
| `process` | safety, and refinement of the handle | 2 objects, 2 children, which may change user, handlers of the program, returns -1 and 256 | 0.87 million |
| `process_live` | do waits and destructors end | 2 objects, 1 child, positive and negative timeouts | 27 thousand |
| `redirect` | who holds which end of which pipe | 2 objects, 2 children, 12 descriptors, 5 sets of streams | 0.24 million |
| `redirect_moved` | do moved streams reach the child: no | as above | violation |
| `hei` | ownership and the interface count | 3 objects, 3 handles | 3 thousand |
| `hei_shut` | is the library open while a device is: no | as above | violation |
| `pam` | ownership, callbacks, ledgers | 2 contexts, 2 handles, 3 messages | 26 thousand |
| `x11` | displays, connections and servers under races and exceptions | 2 objects, 3 X servers, 3 attempts | 14 thousand |
| `files` | descriptors and offsets | 2 files, 2 sockets, 5 descriptors, length 0-2 | 0.44 million |
| `values` | functions, ids, scans, log, handles | see below | 0.94 million |
| `execute_no_shell` | does `execute` throw when the shell cannot be started: no | the calls of `values`, of one step or piece less | violation |
| `poll_timeout` | does a poll say "not available" when its time is up: no | as above | violation |

Why the bounds are enough. Two objects and two children are the smallest
instance in which ownership can be confused by a move, a child can die during a
wait for another, and a second child inherits descriptors of the first; a third
object adds no operation with three participants. `Hei` has three because two
open devices and one careless object are needed for its interesting case. The
returned values are the sentinel -1 of `exit_code` and 256, a value beyond eight bits
that the status cuts to a success. Twelve descriptors hold one fully redirected child and the pipes of
the next; when both are fully redirected `pipe` runs out, which exercises EMFILE.
Three attempts stand for the ten of the X server: a first, a middle and a last
one. Three X servers let two objects each own one and a third be started after
both. In `values`: all operands of `tern`; exit statuses 0-255 and signals
1-64; 24 inputs at two offsets (three bytes, so that neighbours are in other
bytes); files of six characters, which hold three lines, empty ones and a missing
last delimiter; four arguments to three options, an option with its duplicate
and their arguments; documents of four pieces (an element, an attribute, a text
and an end, or any three and what breaks them); integers of four characters and of
eight bits (`MaxInt` is 127), on both sides of every limit; three entries of a search, two of which
are equal; root and two users, the smallest set in which one user could become
another; scans of three entries, nested twice, three altogether, so that an
outer scan goes on after the inner one; two streams and three texts; two
connections to one handle and two devices on two.
Bounds that appear in guards: `MaxClose` (explicit `close` calls per device),
`MaxMsgs` (messages of a conversation), `MaxFd`, `MaxLen`, `Closable` (standard
descriptors the program closes), `Attempts`, `MaxUnsigned`, `MaxDepth` and `MaxScans`
(scans within scans, and in all), `MaxWrites` (texts written to the log); of the
calls of `Values`: `MaxInput`, `MaxArgs`, `MaxText`, `MaxSteps`, `MaxInt`; and `Depth`, how deep
an XML document may be, which four pieces do not reach. Deadlock is checked
everywhere but in `Program`, where a call ends the behaviour and the other parts
run into their bounds, and in `X11Server`, where the program may be ended by a signal, by Xlib or by
`std::terminate`; in `Process` the program can always construct, poll or destroy something, and
`ProgramEnded` keeps a program that has ended in its place.

### Disagreements found

* `hei_shut`: `close()` and the destructor of an object without a device also
  decrement `interface::count` (hei_device.cpp:126) and so call `HEIClose` under
  another object's open device.
* `redirect_moved`: `process::swap` exchanges streams and filebufs, but the
  exchange of two streams leaves `rdbuf()` in place; the streams of a
  move-constructed process are not connected to its child
  (process.hpp:167-174, process.cpp:85).
* `execute_no_shell`: `execute` means to throw "Could not execute shell in the child
  process" (process.cpp:302), but compares the status word with 127, where a shell
  that cannot be started is the exit status 127, the word 127 * 256: it returns
  an ordinary exit code.
* `poll_timeout`: alsa_device.hpp:282-284 documents `can_read` as taking a timeout and
  returning available or not. The number of descriptors is overwritten with the
  number of those that are ready (alsa_device.cpp:221): after a timeout libasound is
  asked about none and the call throws, and of several descriptors it may miss the
  one that is ready. `ReadsTell` states only what holds beside that.

Recorded as hazards without a run of their own: a throwing `dup2` in
the child lets it escape into the caller's code (step `DupThrows`); a destructor
that may not signal its child ends the program, though process.cpp:37 and
server.cpp:88 look as if they swallowed the exception. Met while
modelling, with no comment or test that says otherwise: `parse` names
`argv[optind - 1]` in its error, which in the middle of a cluster of short
options is the argument in front of it; `read(wait = true)` of a nonblocking
descriptor throws EAGAIN; `validate_content` accepts only texts that begin with the
`>` it is there to refuse (xml.cpp:45: `npos && find_first_of(...)`);
`credentials::gid()` returns the user id (credentials.hpp:55); the
`noexcept` reader of an attribute ends the program for a value number past the
last (slap.hpp:140); the message about a duplicate option is made from `optopt`,
which `getopt_long` sets only for its own errors (option.cpp:103); the second
change of an attribute in one modification is dropped (slap.hpp:261);
constructors lose their handle when a later call fails (slap.cpp:84,
alsa_device.cpp:78); `filebuf::open` returns itself when `fdopen` has failed
(filebuf.hpp:128).

## 4. Proofs

Eight modules hold proofs. Every theorem is for all values of the constants,
under the named ASSUMEs of the component's module and nothing else, but for the
two hypotheses of `ProcessProofs` named below. Each proof of an invariant has
the same plan: an inductive invariant `Inv`, `InitInv` (it holds initially), one
lemma or step per action that it is kept, `StepInv` or `Invariance`, and the
theorems, which follow from `Inv`.

| Module | Theorems | Why the invariant is stronger than the property |
|---|---|---|
| `ProcessProofs` | `TypeCorrect`, `NoStranger` (`OwnedUnreaped`), `OneOwner` (`SoleOwner`), `GroupsAreLed`, `ExitCodesTrue`, `JoinVerdictTrue`, `Refinement` (`ImplementsHandle`), `AbandonedOnlyLegally`, `HandlerIsRestored`, `JoinAlwaysCollects` | see below |
| `RedirectProofs` | `TypeCorrect`, `NothingLeaks` (`ParentExact`), `EndsArePrivate` (`PrivateSide`), `ChildrenWired` (`ChildWired`) | see below |
| `X11ServerProofs` | `TypeCorrect`, `DisplaysAccounted` (`DisplayLedger`), `NoneLeftRunning` (`NoServerLeft`), `UsesHandle` | a process belongs to one server (`Holding`); a server that is not constructed has no display, and a process only while its constructor or destructor runs (`Unmade`); what each place of the thread implies (`Place`); whoever is alive is doomed (a SIGKILL awaits it), was given up, or is held (`Kept`) |
| `HeiProofs` | `TypeCorrect`, `OneOwner` (`OwnedOnceAndOpen`), `CounterTrue` (`InterfaceAccount`) | what is open and unowned are at most `failed` handles, which bounds a cardinality through every move (`Orphans`, `Few`); the counter is at most the devices that are open plus the constructors that threw, also when an empty object has been closed (`Counted`); a device is opened through its transport (`Opening`) |
| `PamProofs` | `TypeCorrect`, `HandleOwnedOnce` (`OwnedOnce`), `OneOwnerCalledBack` (`OwnedOnce`, `CallsOwnerBack`), `LedgersTrue` (`Ledgers`) | a handle PAM has not yet handed out has no credentials and no session, and a refusal means that some call threw (`Fresh`) |
| `FilesProofs` | `TypeCorrect`, `DescriptorsAccounted` (`Accounted`), `QuestionsOnly` (`OnlyAsks`) | what was lost is open and of a kind that can be lost (`LostOpen`), so that a number handed out again is not among it; what each place between the three seeks knows of the offset (`Asking`) |
| `FunctionsProofs` | `OverloadsAgree`, `StatusDecoded`, `InputsKeptApart`, `OptionalsHold`, `SearchFinds`, `OptionsTold`, `TagReadBack` | no state: see "Functions" |
| `ProgramProofs` | `ProgramTyped` (`TypeOK`), `LogicIsKleenes` (`KleeneLogic`), `InputsAreDecoded` (`Decodes`), `ReadersAreTold` (`ReadsTell`), `OptionsAreParsed` (`ParseTells`), `DirectoryIsFaithful` (`LdapFaithful`), `PartsAreKept`; of the parts `IdentityIsWhole` (`IdentityWhole`), `MessagesTold` (`LogTells`), `ScansAsAsked` (`ScanAsAsked`), `DevicesAreKept` (`DevicesKept`); of functions `AddressKept`, `SetenvKeeps`, `UnsetenvErases`, `EnvironmentRead`, `ArrayWhole`, `MeantDenotes`, `HexRead` | see "The program" |

### Process

`ProcessProofs` holds for every set of objects and children, every set of
returned values and every environment. That `can_join` still owns its child when
its sleep elapses depends on where the thread has been. `Inv` therefore adds
`Storage` (an object is under construction only between `fork` and the end of the
constructor, and storage that is free is blank), `Place` (what each place of the
thread implies: between `arm` and `restore` the object is active; a woken poll
that finds the object inactive has collected its child), `Loop` (inside the
waitpid loops the child is waitable until it is reaped) and `Ended` (a dead
child's status is never "none", the arithmetic fact that saves the sentinel -1).
`StartInv`, `ContinueInv` and `ChildrenInv` take the steps that begin an
operation, go on with one, and belong to the children and the kernel.

`Refinement` uses the same split. `Handle!Next` has few steps; one lemma shows
what each of them looks like in `Process`: `ForkSpawns`, `ReapingCollects`,
`SwapExchanges`, `DetachLetsGo`, `SignalKills`, `ReleasingForgets`,
`KillingAbandons`, `DyingEnds`. Every other step leaves the variables of the
mapping alone (`Stuttering`, `HoldsTellsNothing`). `StartLoses` and
`ContinueLoses` go through the same steps for `AbandonedLegally`.
`Inv` is needed where a child is collected: that nobody else holds it, and that
the code told of it is the one it ended with. `MCProcess` checks the
refinement in one environment, the theorem shows it in all of them.

`HandlerIsRestored` and `JoinAlwaysCollects` assume `Durations \subseteq
{"positive"}`, a constant of the environment, not of the code: a negative duration
makes `can_join` throw past the `sigaction` that restores the handler, and the
properties are false then. `MCProcess` has exactly this value; of the other safety
properties and the refinement the theorems, which assume nothing, also cover the
program that does give a negative timeout.

### Redirect

The locals of the constructor are `fd`, the numbers of the pipes it has made, and
`todo`, the streams it has still to treat; `Pending` and `Opened` are the streams
whose pipes it still owns and those it has handed to a filebuf. The invariant of
the parent, `ParentSide`, is: the one object under construction is the current
one (`Constructing`), a child belongs to one object (`OneParent`), a pending
pipe has both its ends open under its own numbers and every other local is -1
(`PipesMade`), a filebuf's number is open on its own end (`Owns`), and no pipe
end is open that is neither a filebuf's nor pending (`Ledger`). `ParentExact` is
`Owns` and `Ledger` when nothing is pending. That closing a number twice does
no harm is a consequence: between the two closes nothing opens.

A child inherits the table with everything in it, so `Kids` says of each child
what it still has to do (`Stage`), that it has of the other children's pipes only
what the parent had (`Foreign`), of its own the parent's ends only until `dup_if`
closes them (`Theirs`), and that its standard descriptors are right as far as it
has got, if they were open when it was forked (`Standards`). `StreamsWired`
relates streams and filebufs of an object that was not moved.

### X11Server

`UsesHandle` is the other half of the refinement of `Process`: every step of
`X11Server` is for its member process a step of `ChildHandle` or none at all. What
`X11Server` is proved to do rests on no more of `app::process` than `Refinement`
shows it to keep.

### The program

`ProgramInv` is the conjunction of what `Program` needs of its parts. As one part
runs and the others stand still, each step has to be shown to keep one conjunct.

* `IdsInv`: `IdentityWhole` needs that who has been changed to for good is not
  root (`Ordinary`) and so cannot take an id he has not.
* `LogInv`: `LogTells` needs that buffer and level are what was given since the
  last message, and that the name is that of the stream whose `openlog` is in
  force (`LogShape`, `LogCurrent`).
* `ScanInv`: `ScanAsAsked` needs of the whole stack of scans that each but the
  innermost is disturbed by the one it waits for, and has kept what its own filter
  accepts of what came before (`Nested`), and that the static variables are those
  of the innermost scan as long as it is undisturbed (`StaticsMine`). That sorting
  returns the entries once and in order is `SortedKeeps`: the position of an entry
  is one more than the number of those in front of it, a bijection onto the
  positions (`Ranking`).
* `HandlesInv`: what a constructor lost stays open for ever (`LeakedStay`).
* `CallsInv`: a call is one of those `Values` makes (`Asking`), and what it
  returned is what the function returns (`Answered`). Everything else about
  `Values` is a theorem about a function.

### Functions

A theorem about a function says what it returns for every argument; the invariants
of `Values`, which TLC evaluates for the arguments within its bounds, follow from it
for every bound. Nothing is assumed but the ASSUMEs of `Values`: the bounds are
natural numbers, an `unsigned` holds 16 bits at least, the options are options.

Most of these functions go through a sequence. The library's induction theorems take
an operator, which the provers cannot instantiate; but that `<` is well-founded
on `Nat` is a theorem about a relation (`NatLessThanWellFounded`, `WFMin`).
`Induction` restates it for sets of numbers, and a property of numbers becomes
the set of those that have it. `FoldLeft` is by its definition a function chosen
by recursion over sets of indices; the section "Folds over sequences" shows by the
same induction that there is one (`Folds`) and that it goes from state to state, one
element after the other (`FoldSteps`). For each function what remains is one step of
its fold, and what is true between two of them:

* `OptionalsHold`: each operation changes what two optionals show as it changes
  what was stored in them.
* `SearchFinds`: there is a place for every entry (`PlaceFound`), and putting it
  there leaves the others in order, those the order does not tell apart as they
  were sent (`Inserted`, `OrderKept`). `Modifying` and `Adding`: an entry holds the
  first change of every attribute, and a modification makes them in turn.
* `AllLines`: what `getline` has returned, each with its delimiter, and what is
  left of the file are the file (`Reading`); it ends because every call takes something away.
  `Polling` and `Streaming` go through the cases of `poll` and of the open modes.
* `OptionsTold`: of what `getopt_long` reports every event but the last is an
  option, and an error is about one argument (`EventsSound`). `Progress` holds
  between two events: nothing was refused, and counts and values are those of the
  events so far; or something was, at an event that explains it. A second `parse`
  is refused at the first single option, since the first has taken it
  (`ParsedTwice`); no other error can come first, as every argument converted
  before converts again.
* `SetenvKeeps`, `UnsetenvErases`, `EnvironmentRead`, `ArrayWhole`: the first entry
  of a name, cut at its first NUL (`NameCut`), is the one `getenv` finds, and none of the operations changes which one
  that is for another name.
* `MeantDenotes`, `HexRead`: the value of a row of digits is computed from the
  front and written from the back; both are the same sum (`Worth`).
* `TagReadBack`: a tag written by `tag::to_string` and read by `tag::parse` is the
  same, and what is behind it is left alone, for any number of attributes and any
  text behind the tag. It holds of the tags that can be written: the names are
  names, an attribute has one value, and no value has a double quote. Every
  attribute that is read leaves a shorter text (`TailExists`), so the loop over the
  attributes exists as a function on all texts; the rest is induction over the
  attributes not yet read, which are what is left of the written text.

### Only model-checked

* Liveness under fairness: `DtorEnds` and `WaitsEnd`. The prover has no rules for
  ENABLED and so none for fairness.
* `XmlFaithful`. That a tag is read as it was written is proved; of elements it is
  checked for all documents of up to four pieces. `parse_element`, `to_string` and
  `CloseAll` recur over a text and over trees at the same time: the induction is one
  over documents whose invariant relates a stack of calls with a stack of open
  elements, piece by piece, and needs beforehand that each of the recursive functions
  exists on its infinite domain. It is also true only of documents no deeper than
  `Depth`.

What `Transfer`, `Options`, `Environ` and `Convert` call of the C library
(`getopt_long`, `poll`, `strtol` under a stream) is proved about as it is
modelled, from how it is used and documented; that it does what the model says is
assumed.

## 5. Not modelled

Descendants of children: a child that forks before its parent has called
`setpgid` leaves a descendant outside the group, and `running()` is false once no
direct child is left although the group lives on (both are listed hazards).
Stopped children, a SIGCHLD disposition of SIG_IGN at the start, threads of the
program. The bytes in pipes, `O_NONBLOCK` and stream buffers; so also the
deadlock of `join` with a child that waits for the end of its input while the
object holds the writing end. Values of PAM items and of its environment.
`read_data`/`write_data` of the HEI device, which forward; so do bind, remove,
rename and compare of `slap::connection`, reading and writing samples and the
questions about formats and periods of `alsa::device`, and bind, connect and
listen of the sockets. `options::usage` and the layout of a nice XML text are
wording; clusters of short options beyond the first, and `optind` after a
successful parse, are those of `getopt_long`. `mod_deleter` frees with `delete`
what came from `new[]`, which no state shows. The iterators of `this_environ`, the
QString overloads, the error tables and the build files keep no state. The
remaining components are listed with their reasons in `PROJECT.json`.

## 6. Plan

1. A second level of `X11Server` in which xauth is a redirected process.
2. `Process` with descendants of a group leader.
3. The round trip of an XML document as a theorem, by induction over its depth
   from that of a tag (`TagReadBack`).
