-------------------------------- MODULE Group --------------------------------
(***************************************************************************)
(* Hunting groups: class Group (Group.cpp), Character::SetGroup, the group *)
(* requests of TFCMessagesHandler.cpp and the part of a logoff that takes  *)
(* the character out of its group.                                         *)
(*                                                                         *)
(* A group deletes itself when the last but one member goes.  Requests run *)
(* one at a time on the packet thread, logoffs beside them on the deletion *)
(* thread; a Group is a CLock, but Dismiss counts the members, clears the  *)
(* pointer of the character and deletes the group outside it.  What runs   *)
(* under the lock is one action, and so is each stretch between two of its *)
(* holdings; the test of a pointer and the call it guards are taken        *)
(* together.  Dismiss and Join lock the group again while they hold it, to *)
(* send the list of members or the news of the disbanding: with the plain  *)
(* mutex of Lock.h their thread stops there and keeps the lock.            *)
(***************************************************************************)
EXTENDS Naturals, FiniteSets

CONSTANTS
  Char,       \* characters, all of MIN_LEVEL, which is 1
  GroupId,    \* addresses a Group object can be created at
  MaxSize,    \* members and invited together; 8 in the code
  None,       \* the NULL pointer
  Recursive,  \* TRUE: CLock may be taken again by its holder, as the callers
              \* assume; FALSE: the std::mutex that Lock.h wraps
  Asserting   \* whether ASSERT aborts, as in the Debug build of CMakeLists.txt

ASSUME GroupAssumption ==
  /\ IsFiniteSet(Char)
  /\ MaxSize \in Nat \ {0}
  /\ None \notin Char \cup GroupId
  /\ Recursive \in BOOLEAN /\ Asserting \in BOOLEAN

VARIABLES
  phase,   \* [Char -> "offline", "online", "leaving" or "departed"]
  group,   \* [Char -> Character::lpGroup]
  live,    \* the groups that are allocated
  leader,  \* lpGroupLeader
  members, \* cGroupMembers
  invited, \* cInviteList
  op,      \* what each thread is in the middle of
  fault,   \* how the process died, if it did
  met      \* history: a request and a logoff met in one group or on one character

lists == <<leader, members, invited>>
vars == <<phase, group, live, lists, op, fault, met>>

Thread == {"packet", "deletion"}
At == {"idle", "find", "invite", "join", "joined", "kick", "search", "check", "disband", "delete", "remove", "clear",
       "last", "stopped", "unlist"}
Faults == {"none", "null", "freed", "empty", "join", "setgroup"}

Idle == [at |-> "idle", user |-> None, who |-> None, grp |-> None, fresh |-> FALSE]

Init ==
  /\ phase = [c \in Char |-> "offline"]
  /\ group = [c \in Char |-> None]
  /\ live = {}
  /\ leader = [g \in GroupId |-> None]
  /\ members = [g \in GroupId |-> {}]
  /\ invited = [g \in GroupId |-> {}]
  /\ op = [t \in Thread |-> Idle]
  /\ fault = "none"
  /\ met = FALSE

-----------------------------------------------------------------------------
Alive == fault = "none"

\* Thread t may start something.
Free(t) == Alive /\ op[t] = Idle

\* The packet thread may start a request of c.
Requesting(c) == Free("packet") /\ phase[c] = "online"

\* A request and a logoff are under way in one group or on one character.
Together ==
  LET p == op["packet"]
      q == op["deletion"]
  IN  /\ p.at # "idle" /\ q.at # "idle"
      /\ p.grp = q.grp \/ {p.user, p.who} \cap {q.user, q.who} # {}

Noted == met' = (met \/ Together')

Crash(f) == fault' = f /\ UNCHANGED <<phase, group, live, lists, op>>

\* Thread t reached point p of an operation on its group; a group that is gone
\* by then is used after it was freed.
Running(t, p) == Alive /\ op[t].at = p
OnGroup(t, p, step) ==
  /\ Running(t, p)
  /\ IF op[t].grp \in live THEN step ELSE Crash("freed")
  /\ Noted

\* The same under the lock of the group, which a thread that stopped keeps.
Locking(t, p, step) ==
  OnGroup(t, p, (\A u \in Thread : op[u].at = "stopped" => op[u].grp # op[t].grp) /\ step)

Listed(g) == members[g] \cup invited[g]

Goto(t, p) == op' = [op EXCEPT ![t].at = p]

\* The group is locked a second time on the way to p.
Relock(t, p) == Goto(t, IF Recursive THEN p ELSE "stopped")

\* Mutant: every dismissal is taken for a logoff.
DoneLeaving(t) == op' = [op EXCEPT ![t] = [Idle EXCEPT !.at = "unlist", !.user = op[t].user]]

\* The end of Dismiss: a request is over, a logoff goes on to leave the world.
Done(t) ==
  op' = [op EXCEPT ![t] = IF t = "packet" THEN Idle ELSE [Idle EXCEPT !.at = "unlist", !.user = op[t].user]]

\* Mutant: a character that has a group keeps it.
SetGroupOnce(S, g) ==
  /\ group' = [c \in Char |-> IF c \in S /\ group[c] = None THEN g ELSE group[c]]
  /\ UNCHANGED fault

\* SetGroup( g ) on the characters in S; its ASSERT wants no group there, also
\* where g is NULL.
SetGroup(S, g) ==
  /\ group' = [c \in Char |-> IF c \in S THEN g ELSE group[c]]
  /\ fault' = IF Asserting /\ \E c \in S : group[c] # None THEN "setgroup" ELSE fault

-----------------------------------------------------------------------------
(* Group::Dismiss( Character * ), on either thread.                         *)

DismissAt(t, user, who, g) ==
  op' = [op EXCEPT ![t] = [at |-> "check", user |-> user, who |-> who, grp |-> g, fresh |-> FALSE]]

\* The leader of a group of two, or of one, disbands it by leaving; read
\* without the lock.
DismissCheck(t) ==
  OnGroup(t, "check",
    LET g == op[t].grp
    IN  /\ Goto(t, IF op[t].who = leader[g] /\ Cardinality(members[g]) <= 2
                   THEN "disband" ELSE "remove")
        /\ UNCHANGED <<phase, group, live, lists, fault>>)

\* Under the lock: the members are told, under the lock once more, and nobody in
\* the group points at it any more.
DismissDisband(t) ==
  Locking(t, "disband",
    /\ Relock(t, "delete")
    /\ IF Recursive THEN SetGroup(Listed(op[t].grp), None) ELSE UNCHANGED <<group, fault>>
    /\ UNCHANGED <<phase, live, lists>>)

\* SetGroup for the one who left, then "delete this"; nobody reads the lists of a
\* group that is gone.
DismissDelete(t) ==
  OnGroup(t, "delete",
    /\ SetGroup({op[t].who}, None)
    /\ LET g == op[t].grp
       IN  /\ live' = live \ {g}
           /\ leader' = [leader EXCEPT ![g] = None]
           /\ members' = [members EXCEPT ![g] = {}]
           /\ invited' = [invited EXCEPT ![g] = {}]
    /\ Done(t)
    /\ UNCHANGED phase)

\* Mutant: the leadership is not passed on.
HeirsNone(g, who) == {leader[g]}

\* Who may lead g once who is off its member list: a leader that goes hands over
\* to the first of the set, which is ordered by address.
Heirs(g, who) ==
  IF who \in members[g] /\ who = leader[g] THEN members[g] \ {who} ELSE {leader[g]}

\* Under the lock: off the member list, the leadership passed on and the others
\* told, under the lock once more; or off the invitation list.
DismissRemove(t) ==
  Locking(t, "remove",
    LET g == op[t].grp
        who == op[t].who
    IN  IF Heirs(g, who) = {} THEN Crash("empty")
        ELSE /\ members' = [members EXCEPT ![g] = @ \ {who}]
             /\ invited' = IF who \in members[g] THEN invited
                           ELSE [invited EXCEPT ![g] = @ \ {who}]
             /\ \E heir \in Heirs(g, who) : leader' = [leader EXCEPT ![g] = heir]
             /\ IF who \in members[g] THEN Relock(t, "clear") ELSE Goto(t, "clear")
             /\ UNCHANGED <<phase, group, live, fault>>)

\* Mutant: the one who asked is cleared.
DismissClearUser(t) ==
  /\ Running(t, "clear")
  /\ SetGroup({op[t].user}, None)
  /\ Goto(t, "last")
  /\ UNCHANGED <<phase, live, lists>>
  /\ Noted

DismissClear(t) ==
  /\ Running(t, "clear")
  /\ SetGroup({op[t].who}, None)
  /\ Goto(t, "last")
  /\ UNCHANGED <<phase, live, lists>>
  /\ Noted

\* A leader left alone, with nobody invited, is dismissed as well.
DismissLast(t) ==
  OnGroup(t, "last",
    LET g == op[t].grp
    IN  /\ IF Cardinality(members[g]) = 1 /\ invited[g] = {}
           THEN DismissAt(t, op[t].user, leader[g], g)
           ELSE Done(t)
        /\ UNCHANGED <<phase, group, live, lists, fault>>)

Dismiss(t) ==
  \/ DismissCheck(t) \/ DismissDisband(t) \/ DismissDelete(t)
  \/ DismissRemove(t) \/ DismissClear(t) \/ DismissLast(t)

-----------------------------------------------------------------------------
(* The requests.                                                            *)

\* RQ_GroupInvite: whoever has no group creates one.
GroupInvite(c) ==
  /\ Requesting(c)
  /\ \E g \in GroupId :
       /\ IF group[c] = None
          THEN /\ g \notin live
               /\ live' = live \cup {g}
               /\ leader' = [leader EXCEPT ![g] = c]
               /\ members' = [members EXCEPT ![g] = {c}]
               /\ invited' = [invited EXCEPT ![g] = {}]
               /\ group' = [group EXCEPT ![c] = g]
          ELSE g = group[c] /\ UNCHANGED <<live, lists, group>>
       /\ op' = [op EXCEPT !["packet"] =
                    [at |-> "find", user |-> c, who |-> c, grp |-> g, fresh |-> group[c] = None]]
  /\ UNCHANGED <<phase, fault>>
  /\ Noted

\* Its end where nobody was invited: a fresh group is dismissed.
NotInvited ==
  LET o == op["packet"]
  IN  IF ~o.fresh THEN op' = [op EXCEPT !["packet"] = Idle] /\ UNCHANGED fault
      ELSE IF group[o.user] = None THEN fault' = "null" /\ UNCHANGED op
      ELSE DismissAt("packet", o.user, o.user, group[o.user]) /\ UNCHANGED fault

\* The unit of the given identity stands near, or not, and then a fresh group
\* stays; d is in no other group, or not.
InviteFind(d) ==
  /\ Running("packet", "find")
  /\ d # op["packet"].user
  /\ d # None => phase[d] # "offline"
  /\ LET o == op["packet"]
         g == group[o.user]
     IN  IF d = None \/ g = None THEN op' = [op EXCEPT !["packet"] = Idle] /\ UNCHANGED fault
         ELSE IF group[d] \in {None, g}
         THEN op' = [op EXCEPT !["packet"] = [o EXCEPT !.at = "invite", !.who = d, !.grp = g]] /\ UNCHANGED fault
         ELSE NotInvited
  /\ UNCHANGED <<phase, group, live, lists>>
  /\ Noted

\* The tests of Invite; CanInvite lets a character be asked every 30 seconds.
Invitable(g, c, d) ==
  /\ group[d] \in {None, group[c]}
  /\ c = leader[g]
  /\ d \notin members[g]
  /\ Cardinality(members[g]) + Cardinality(invited[g]) < MaxSize
  /\ d \notin invited[g]

\* Invite, under the lock.
InviteLocked ==
  Locking("packet", "invite",
    LET o == op["packet"]
    IN  /\ \/ /\ Invitable(o.grp, o.user, o.who)
              /\ invited' = [invited EXCEPT ![o.grp] = @ \cup {o.who}]
              /\ SetGroup({o.who}, o.grp)
              /\ op' = [op EXCEPT !["packet"] = Idle]
           \/ NotInvited /\ UNCHANGED <<invited, group>>
        /\ UNCHANGED <<phase, live, leader, members>>)

\* RQ_GroupJoin reads the group pointer and calls Join.
GroupJoin(c) ==
  /\ Requesting(c)
  /\ group[c] # None
  /\ op' = [op EXCEPT !["packet"] = [at |-> "join", user |-> c, who |-> c, grp |-> group[c], fresh |-> FALSE]]
  /\ UNCHANGED <<phase, group, live, lists, fault>>
  /\ Noted

\* Join, under the lock; its ASSERT wants the newcomer among the members, who are
\* told under the lock once more.
JoinLocked ==
  Locking("packet", "join",
    LET g == op["packet"].grp
        c == op["packet"].who
    IN  /\ IF c \notin invited[g]
           THEN op' = [op EXCEPT !["packet"] = Idle] /\ UNCHANGED <<members, invited, fault>>
           ELSE /\ invited' = [invited EXCEPT ![g] = @ \ {c}]
                /\ members' = [members EXCEPT ![g] = @ \cup {c}]
                /\ fault' = IF Asserting /\ c \notin members[g] THEN "join" ELSE fault
                /\ Relock("packet", "joined")
        /\ UNCHANGED <<phase, group, live, leader>>)

\* The newcomer is told who leads its group; the pointer is read again.
JoinNotify ==
  /\ Running("packet", "joined")
  /\ LET g == group[op["packet"].who]
     IN  IF g = None THEN Crash("null")
         ELSE IF g \notin live THEN Crash("freed")
         ELSE /\ \A t \in Thread : op[t].at = "stopped" => op[t].grp # g
              /\ op' = [op EXCEPT !["packet"] = Idle]
              /\ UNCHANGED <<phase, group, live, lists, fault>>
  /\ Noted

\* RQ_GroupLeave: a member leaves, or an invited character declines.
GroupLeave(c) ==
  /\ Requesting(c)
  /\ group[c] # None
  /\ DismissAt("packet", c, c, group[c])
  /\ UNCHANGED <<phase, group, live, lists, fault>>
  /\ Noted

\* RQ_GroupKick asks for the leader of the group.
GroupKick(c) ==
  /\ Requesting(c)
  /\ group[c] # None
  /\ op' = [op EXCEPT !["packet"] = [at |-> "kick", user |-> c, who |-> c, grp |-> group[c], fresh |-> FALSE]]
  /\ UNCHANGED <<phase, group, live, lists, fault>>
  /\ Noted

\* GetLeader, under the lock: only the leader goes on.
KickLocked ==
  Locking("packet", "kick",
    /\ \/ op["packet"].user = leader[op["packet"].grp] /\ Goto("packet", "search")
       \/ op' = [op EXCEPT !["packet"] = Idle]
    /\ UNCHANGED <<phase, group, live, lists, fault>>)

\* Whom it names is looked for on both lists, under the lock again, and dismissed;
\* the pointer is read again.
KickSearch ==
  /\ Running("packet", "search")
  /\ LET c == op["packet"].user
         g == group[c]
     IN  IF g = None THEN Crash("null")
         ELSE IF g \notin live THEN Crash("freed")
         ELSE /\ \A t \in Thread : op[t].at = "stopped" => op[t].grp # g
              /\ \/ \E d \in Listed(g) : DismissAt("packet", c, d, g)
                 \/ op' = [op EXCEPT !["packet"] = Idle]
              /\ UNCHANGED <<phase, group, live, lists, fault>>
  /\ Noted

-----------------------------------------------------------------------------
(* Sessions.                                                                *)

Login(c) ==
  /\ Alive
  /\ phase[c] = "offline"
  /\ phase' = [phase EXCEPT ![c] = "online"]
  /\ group' = [group EXCEPT ![c] = None]
  /\ UNCHANGED <<live, lists, op, fault>>
  /\ Noted

Quit(c) ==
  /\ Alive
  /\ phase[c] = "online"
  /\ phase' = [phase EXCEPT ![c] = "leaving"]
  /\ UNCHANGED <<group, live, lists, op, fault>>
  /\ Noted

\* Logoff starts once no request uses the player any more.
Logoff(c) ==
  /\ Free("deletion")
  /\ phase[c] = "leaving"
  /\ op["packet"].user # c
  /\ phase' = [phase EXCEPT ![c] = "departed"]
  /\ IF group[c] # None THEN DismissAt("deletion", c, c, group[c])
     ELSE op' = [op EXCEPT !["deletion"] = [Idle EXCEPT !.at = "unlist", !.user = c]]
  /\ UNCHANGED <<group, live, lists, fault>>
  /\ Noted

\* Out of the world, saved and sent to the death row.
Unlist(c) ==
  /\ Running("deletion", "unlist")
  /\ c = op["deletion"].user
  /\ phase' = [phase EXCEPT ![c] = "offline"]
  /\ op' = [op EXCEPT !["deletion"] = Idle]
  /\ UNCHANGED <<group, live, lists, fault>>
  /\ Noted

-----------------------------------------------------------------------------
PacketStep ==
  \/ (\E d \in Char \cup {None} : InviteFind(d)) \/ InviteLocked
  \/ JoinLocked \/ JoinNotify \/ KickLocked \/ KickSearch \/ Dismiss("packet")

DeletionStep == Dismiss("deletion") \/ \E c \in Char : Unlist(c)

Next ==
  \/ PacketStep \/ DeletionStep
  \/ \E c \in Char :
       \/ Login(c) \/ Quit(c) \/ Logoff(c)
       \/ GroupInvite(c) \/ GroupJoin(c) \/ GroupLeave(c) \/ GroupKick(c)

Spec == Init /\ [][Next]_vars

-----------------------------------------------------------------------------
(* Properties.                                                              *)

TypeOK ==
  /\ phase \in [Char -> {"offline", "online", "leaving", "departed"}]
  /\ group \in [Char -> GroupId \cup {None}]
  /\ live \subseteq GroupId
  /\ leader \in [GroupId -> Char \cup {None}]
  /\ members \in [GroupId -> SUBSET Char]
  /\ invited \in [GroupId -> SUBSET Char]
  /\ op \in [Thread -> [at : At, user : Char \cup {None}, who : Char \cup {None},
                         grp : GroupId \cup {None}, fresh : BOOLEAN]]
  /\ op["packet"].at # "unlist" /\ op["deletion"].at \notin {"find", "invite", "join", "joined", "kick", "search"}
  /\ fault \in Faults
  /\ met \in BOOLEAN

\* Even while one thread dismisses and the other invites or lets in, a group is
\* led by one of its members, holds nobody twice and never outgrows its limit.
GroupShape ==
  Alive => \A g \in live :
    /\ leader[g] \in members[g]
    /\ members[g] \cap invited[g] = {}
    /\ Cardinality(Listed(g)) <= MaxSize

\* Whenever no request and no logoff is under way, a character points at a group
\* exactly when that group exists and lists it, so in one group at most, and nobody
\* who left the world is listed: requests and logoffs that never met keep it so,
\* however they were interleaved.
PointersMatch ==
  Alive /\ ~met /\ (\A t \in Thread : op[t] = Idle) =>
    /\ \A c \in Char : phase[c] # "offline" /\ group[c] # None =>
         group[c] \in live /\ c \in Listed(group[c])
    /\ \A g \in live : \A c \in Listed(g) : phase[c] # "offline" /\ group[c] = g

\* No thread follows a pointer to a deleted group or NULL, and a leader that goes
\* always finds a member to take over, unless a request and a logoff met in one
\* group or on one character.
NoBadPointer == fault \in {"null", "freed", "empty"} => met
=============================================================================
