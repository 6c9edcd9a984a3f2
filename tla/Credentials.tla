---------------------------- MODULE Credentials ----------------------------
(***************************************************************************)
(* app::credentials and app::this_user (credentials/credentials.cpp): the  *)
(* user and group ids of the process and its supplementary groups, as the  *)
(* three ways to morph into another user change them.  One thread; a call  *)
(* consists of system calls, each of which may fail.                       *)
(***************************************************************************)
EXTENDS Integers, FiniteSets

CONSTANTS
  Users,   \* the user ids of the passwd file
  Gid      \* the primary group of each

root_uid == 0
invalid_uid == -1
invalid_gid == -1

ASSUME UsersAssumption == Users \subseteq Nat /\ root_uid \in Users
ASSUME GidAssumption == Gid \in [Users -> Nat]

VARIABLES
  user,    \* real, effective and saved user id
  group,   \* real, effective and saved group id
  groups,  \* supplementary groups
  last,    \* the last call: form, ids, perm, and whether it threw
  final    \* history: a user who has been changed to for good, or invalid_uid

ids == <<user, group, groups, last, final>>

Gids == {Gid[u] : u \in Users}
Groups(u) == {Gid[u], Gid[u] + 100}   \* getgrouplist
Triple(n) == [real |-> n, effective |-> n, saved |-> n]

(* The object: of a passwd entry, or default constructed.                  *)
Object(u) == [uid |-> u, gid |-> Gid[u], groups |-> Groups(u)]
Default == [uid |-> invalid_uid, gid |-> invalid_gid, groups |-> {}]

(* The accessors.  credentials.hpp:55 returns the user id. *)
uid(c) == c.uid
gid(c) == c.uid

(* What get_uid and get_gid may return: a name that is not in the files is *)
(* the id -1.                                                              *)
get_uid == Users \cup {invalid_uid}
get_gid == Gids \cup {invalid_gid}

Call(form, u, g, perm, threw) == [form |-> form, uid |-> u, gid |-> g, perm |-> perm, threw |-> threw]

IdsInit ==
  /\ \E u \in Users : user = Triple(u) /\ group = Triple(Gid[u]) /\ groups = Groups(u)
  /\ last = Call("none", invalid_uid, invalid_gid, FALSE, FALSE)
  /\ final = invalid_uid

Privileged(t) == t.effective = root_uid

(* setresuid and setresgid: -1 leaves an id as it is; without privilege    *)
(* the new ids are among the old ones.                                     *)
MayBecome(root, t, new) == root \/ {new.real, new.effective, new.saved} \ {-1}
                                      \subseteq {t.real, t.effective, t.saved}
Become(t, new) == [k \in DOMAIN t |-> IF new[k] = -1 THEN t[k] ELSE new[k]]

(* setuid and setgid. *)
MaySet(root, t, n) == n # -1 /\ (root \/ n \in {t.real, t.saved})
Set(root, t, n) == IF root THEN Triple(n) ELSE [t EXCEPT !.effective = n]

(* Once all three are a user that is not root, there is no way back. *)
Settled(t) == IF t.real # root_uid /\ t = Triple(t.real) THEN t.real ELSE invalid_uid

(* Mutant: the groups come last, when there is no privilege to set them    *)
(* any more, and nobody looks at the result.                               *)
MorphIntoGroupsLast(c, fails) ==
  LET root == Privileged(user)
      threw == ~root \/ fails # "none" \/ c.uid = invalid_uid
  IN  /\ groups' = groups
      /\ group' = IF threw THEN group ELSE Triple(c.gid)
      /\ user' = IF threw THEN user ELSE Triple(c.uid)
      /\ last' = Call("object", c.uid, c.gid, TRUE, threw)
      /\ final' = IF Settled(user') # invalid_uid THEN Settled(user') ELSE final

(* credentials::morph_into: setgroups needs privilege, then setgid, then   *)
(* setuid.  `fails` is a call that fails although it might have succeeded. *)
MorphInto(c, fails) ==
  LET root == Privileged(user)
      a == root /\ fails # "setgroups"
      b == a /\ MaySet(root, group, c.gid) /\ fails # "setgid"
      d == b /\ MaySet(root, user, c.uid) /\ fails # "setuid"
  IN  /\ groups' = IF a THEN c.groups ELSE groups
      /\ group' = IF b THEN Set(root, group, c.gid) ELSE group
      /\ user' = IF d THEN Set(root, user, c.uid) ELSE user
      /\ last' = Call("object", c.uid, c.gid, TRUE, ~d)
      /\ final' = IF Settled(user') # invalid_uid THEN Settled(user') ELSE final

New(n, perm) == [real |-> IF perm THEN n ELSE -1, effective |-> n,
                 saved |-> IF perm THEN n ELSE -1]

(* this_user::morph_into(uid, perm) *)
MorphUser(u, perm) ==
  LET may == MayBecome(Privileged(user), user, New(u, perm))
  IN  /\ user' = IF may THEN Become(user, New(u, perm)) ELSE user
      /\ last' = Call("user", u, invalid_gid, perm, ~may)
      /\ final' = IF Settled(user') # invalid_uid THEN Settled(user') ELSE final
      /\ UNCHANGED <<group, groups>>

(* this_user::morph_into(uid, gid, perm): the group first. *)
MorphBoth(u, g, perm) ==
  LET root == Privileged(user)
      a == MayBecome(root, group, New(g, perm))
      b == a /\ MayBecome(root, user, New(u, perm))
  IN  /\ group' = IF a THEN Become(group, New(g, perm)) ELSE group
      /\ user' = IF b THEN Become(user, New(u, perm)) ELSE user
      /\ last' = Call("both", u, g, perm, ~b)
      /\ final' = IF Settled(user') # invalid_uid THEN Settled(user') ELSE final
      /\ UNCHANGED groups

Objects == {Object(u) : u \in Users} \cup {Default}

IdsNext ==
  \/ \E c \in Objects, fails \in {"none", "setgroups", "setgid", "setuid"} : MorphInto(c, fails)
  \/ \E u \in get_uid, perm \in BOOLEAN : MorphUser(u, perm)
  \/ \E u \in get_uid, g \in get_gid, perm \in BOOLEAN :
       MorphBoth(u, g, perm)
  \/ \E c \in Objects, perm \in BOOLEAN : MorphBoth(uid(c), gid(c), perm)

IdsSpec == IdsInit /\ [][IdsNext]_ids

----------------------------------------------------------------------------
Three(S) == [real : S, effective : S, saved : S]

IdsTypeOK ==
  /\ user \in Three(Users)
  /\ group \in Three(Nat)
  /\ groups \subseteq Nat
  /\ last \in [form : {"none", "object", "user", "both"}, uid : Int, gid : Int,
               perm : BOOLEAN, threw : BOOLEAN]
  /\ final \in Users \cup {invalid_uid}

(* A call that returns has made the process the one it was asked for: as   *)
(* an object, with all its ids and groups; by ids, those that were given,  *)
(* for good or for the time being.  What a call that throws may leave is   *)
(* another group or other supplementary groups, and nothing the user could *)
(* be changed with; once a process is an ordinary user for good it stays   *)
(* that user, whatever is called.                                          *)
IdentityWhole ==
  /\ ~last.threw /\ last.form = "object" =>
       /\ user = Triple(last.uid) /\ group = Triple(last.gid)
       /\ groups = Groups(last.uid)
  /\ ~last.threw /\ last.form \in {"user", "both"} =>
       /\ last.uid # invalid_uid => /\ user.effective = last.uid
                                    /\ last.perm => user = Triple(last.uid)
       /\ last.gid # invalid_gid => /\ group.effective = last.gid
                                    /\ last.perm => group = Triple(last.gid)
  /\ final # invalid_uid => user = Triple(final)
=============================================================================
