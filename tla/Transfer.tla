------------------------------ MODULE Transfer -----------------------------
(***************************************************************************)
(* Receiving, sending and reading, with and without waiting                *)
(* (socket/socket.cpp, net/net_socket.cpp, unix/unix_socket.cpp,           *)
(* storage/file.cpp), and reading by lines.  What the kernel can do is     *)
(* the state of the descriptor at the time of the call: "ready" (n bytes   *)
(* or room for n), "empty" (nothing yet, or no room), "ended" or "broken". *)
(***************************************************************************)
EXTENDS Integers, Sequences, SequencesExt

States == [is : {"ready"}, n : 0 .. 1] \cup [is : {"empty", "ended", "broken"}, n : {0}]

Count(k) == [is |-> "count", n |-> k]
Again == [is |-> "again", n |-> 0]    \* EAGAIN
Blocks == [is |-> "blocks", n |-> 0]  \* the caller sleeps
Raises == [is |-> "throws", n |-> 0]

(* recv(2), send(2) and read(2) on a descriptor in state s. *)
Kernel(s, nonblocking) ==
  CASE s.is = "ready" -> Count(s.n)
    [] s.is = "ended" -> Count(0)
    [] s.is = "broken" -> Raises
    [] s.is = "empty" -> IF nonblocking THEN Again ELSE Blocks

(* Mutant: EAGAIN is an error like any other. *)
transferStrict(s, nonblocking, wait) ==
  LET r == Kernel(s, nonblocking \/ ~wait)
  IN  IF r = Again THEN Raises ELSE r

(* recv, recv_from, send and send_to: without waiting EAGAIN is a count of *)
(* zero.  A socket can also be made nonblocking (set_non_blocking).        *)
transfer(s, nonblocking, wait) ==
  LET r == Kernel(s, nonblocking \/ ~wait)
  IN  CASE r # Again -> r
        [] r = Again /\ ~wait -> Count(0)
        [] r = Again /\ wait -> Raises

(* recv_from of a datagram socket also gives the address of the sender: it *)
(* is zeroed first, so that its family tells whether the kernel stored it. *)
recv_from(s, nonblocking, wait) ==
  [got |-> transfer(s, nonblocking, wait),
   from |-> IF s.is = "ready" THEN "sender" ELSE "unchanged"]

(* pselect: data, the end and an error can all be read without waiting. *)
can_read(s) == s.is # "empty"

(* file::read.  When the question was asked the descriptor was in state    *)
(* asked; another process may have emptied it since.                       *)
read(asked, s, nonblocking, wait) ==
  IF wait \/ can_read(asked)
  THEN LET r == Kernel(s, nonblocking) IN IF r = Again THEN Raises ELSE r
  ELSE Count(0)

----------------------------------------------------------------------------
(* alsa::device::can_poll and can_read.  A PCM stream has one or more      *)
(* descriptors, each with what has happened on it: "in", "out", "err" or   *)
(* "quiet".  A time is a number of half seconds.                           *)
Happened(fds, n) == {fds[i] : i \in 1 .. n} \ {"quiet"}

(* ppoll without a time waits; seconds and nanoseconds are rounded towards *)
(* zero, so that either may be the one that is negative.                   *)
forever(x) ==
  LET s == IF x < 0 THEN -((-x) \div 2) ELSE x \div 2
      n == x - 2 * s
  IN  s < 0 \/ (s = 0 /\ n < 0)

(* snd_pcm_poll_descriptors_revents, external: it needs a descriptor.      *)
revents(fds, n) == IF n = 0 THEN {"err"} ELSE Happened(fds, n)

(* ppoll's result, how many descriptors have something, is then taken for  *)
(* how many descriptors there are.                                         *)
can_poll(fds, x) ==
  LET count == Cardinality({i \in DOMAIN fds : fds[i] # "quiet"})
  IN  IF count = 0 /\ forever(x) THEN "blocks"
      ELSE IF "err" \in revents(fds, count) THEN "throws"
      ELSE IF "in" \in revents(fds, count) THEN "true" ELSE "false"

----------------------------------------------------------------------------
(* Input is a sequence of "c", any character but the delimiter, and "nl",  *)
(* the delimiter.  After the last one, read() returns 0: at the end of the *)
(* input, or without waiting because nothing has come yet.                 *)

Stop(input) ==
  CHOOSE k \in 1 .. Len(input) + 1 :
    /\ k <= Len(input) => input[k] = "nl"
    /\ \A i \in 1 .. k - 1 : input[i] # "nl"

(* What a call has got (string), what it leaves, and what it returns;      *)
(* readline() gets the same string and returns nothing else.               *)
getline(input) ==
  LET k == Stop(input)
  IN  [string |-> SubSeq(input, 1, k - 1),
       rest |-> SubSeq(input, k + 1, Len(input)),
       value |-> k <= Len(input) \/ k > 1]

(* while(getline(string)) lines.push_back(string): every call but the last *)
(* takes a character at least.                                             *)
Taken(s) ==
  LET g == getline(s.rest)
  IN  IF g.value THEN [lines |-> Append(s.lines, g.string), rest |-> g.rest] ELSE s
Lines(input) == FoldLeft(LAMBDA s, c : Taken(s), [lines |-> <<>>, rest |-> input], input).lines
=============================================================================
