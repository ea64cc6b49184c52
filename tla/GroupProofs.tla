------------------------------ MODULE GroupProofs ------------------------------
(***************************************************************************)
(* What TLAPS proves about Group, for every finite set of characters, every *)
(* set of addresses and every size, with assertions on or off and either   *)
(* kind of lock: the types, the shape of a group, that pointers and lists  *)
(* agree and no bad pointer is followed until a request and a logoff meet  *)
(* in one group or on one character, and what the plain mutex of Lock.h    *)
(* does to a dismissal.                                                    *)
(***************************************************************************)
EXTENDS Group, FiniteSetTheorems, TLAPS

Op == [at : At, user : Char \cup {None}, who : Char \cup {None},
       grp : GroupId \cup {None}, fresh : BOOLEAN]

\* Whoever is in the middle of an operation is known, and so is who is invited.
Known ==
  /\ \A t \in Thread : op[t].at # "idle" => op[t].user \in Char
  /\ op["packet"].at = "invite" => op["packet"].who \in Char

TypeInv == TypeOK /\ Known

-----------------------------------------------------------------------------
(* Types.                                                                   *)

LEMMA InitTypes == Init => TypeInv
<1>1. Init => met \in BOOLEAN
  BY DEF Init
<1> QED  BY <1>1, GroupAssumption DEF Init, TypeInv, TypeOK, Known, Op, Idle, At, Thread, Faults

LEMMA CrashTypes ==
  ASSUME TypeInv, NEW f \in Faults, Crash(f), met' \in BOOLEAN
  PROVE  TypeInv'
BY DEF Crash, TypeInv, TypeOK, Known, lists

\* Thread t is idle, at a point of its own, or at one of Dismiss.
LEMMA OpTypes ==
  ASSUME TypeInv, NEW t \in Thread, NEW o \in Op, op' = [op EXCEPT ![t] = o],
         o.at # "idle" => o.user \in Char,
         o.at = "invite" => o.who \in Char,
         t = "packet" => o.at # "unlist",
         t = "deletion" => o.at \notin {"find", "invite", "join", "joined", "kick", "search"}
  PROVE  /\ op' \in [Thread -> Op]
         /\ op'["packet"].at # "unlist" /\ op'["deletion"].at \notin {"find", "invite", "join", "joined", "kick", "search"}
         /\ Known'
<1>1. op \in [Thread -> Op] /\ "packet" \in Thread /\ "deletion" \in Thread
  BY DEF TypeInv, TypeOK, Op, Thread
<1>2. op' \in [Thread -> Op] /\ op'[t] = o /\ \A u \in Thread : u # t => op'[u] = op[u]
  BY <1>1
<1> QED  BY <1>1, <1>2 DEF TypeInv, TypeOK, Known, Thread

LEMMA IdleOp == Idle \in Op /\ Idle.at = "idle"
BY DEF Idle, Op, At

\* Thread t goes on to p.
LEMMA GotoTypes ==
  ASSUME TypeInv, NEW t \in Thread, NEW p \in At, Goto(t, p), op[t].at # "idle",
         p \notin {"idle", "find", "invite", "join", "kick", "search", "unlist"}, p = "joined" => t = "packet"
  PROVE  /\ op' \in [Thread -> Op]
         /\ op'["packet"].at # "unlist" /\ op'["deletion"].at \notin {"find", "invite", "join", "joined", "kick", "search"}
         /\ Known'
<1> DEFINE o == [op[t] EXCEPT !.at = p]
<1>1. op[t] \in Op /\ op[t].user \in Char
  BY DEF TypeInv, TypeOK, Known, Op
<1>2. o \in Op /\ o.at = p /\ o.user = op[t].user
  BY <1>1 DEF Op
<1>3. op' = [op EXCEPT ![t] = o]
  BY DEF Goto
<1> HIDE DEF o
<1> QED  BY <1>1, <1>2, <1>3, OpTypes

LEMMA DoneTypes ==
  ASSUME TypeInv, NEW t \in Thread, Done(t), op[t].at # "idle"
  PROVE  /\ op' \in [Thread -> Op]
         /\ op'["packet"].at # "unlist" /\ op'["deletion"].at \notin {"find", "invite", "join", "joined", "kick", "search"}
         /\ Known'
<1>1. op[t].user \in Char
  BY DEF TypeInv, Known
<1>2. CASE t = "packet"
  BY <1>2, IdleOp, OpTypes DEF Done, Idle
<1>3. CASE t # "packet"
  <2> DEFINE o == [Idle EXCEPT !.at = "unlist", !.user = op[t].user]
  <2>1. o \in Op /\ o.at = "unlist" /\ o.user = op[t].user
    BY <1>1, IdleOp DEF Op, At, Idle
  <2>2. op' = [op EXCEPT ![t] = o]
    BY <1>3 DEF Done
  <2> HIDE DEF o
  <2> QED  BY <1>1, <1>3, <2>1, <2>2, OpTypes
<1> QED  BY <1>2, <1>3

LEMMA DismissAtTypes ==
  ASSUME TypeInv, NEW t \in Thread, NEW user \in Char, NEW who \in Char \cup {None},
         NEW g \in GroupId \cup {None}, DismissAt(t, user, who, g)
  PROVE  /\ op' \in [Thread -> Op]
         /\ op'["packet"].at # "unlist" /\ op'["deletion"].at \notin {"find", "invite", "join", "joined", "kick", "search"}
         /\ Known'
<1> DEFINE o == [at |-> "check", user |-> user, who |-> who, grp |-> g, fresh |-> FALSE]
<1>1. o \in Op /\ o.at = "check" /\ o.user = user
  BY DEF Op, At
<1>2. op' = [op EXCEPT ![t] = o]
  BY DEF DismissAt
<1> HIDE DEF o
<1> QED  BY <1>1, <1>2, OpTypes

\* The types but for op.
ListTypes ==
  /\ phase \in [Char -> {"offline", "online", "leaving", "departed"}]
  /\ group \in [Char -> GroupId \cup {None}]
  /\ live \subseteq GroupId
  /\ leader \in [GroupId -> Char \cup {None}]
  /\ members \in [GroupId -> SUBSET Char]
  /\ invited \in [GroupId -> SUBSET Char]
  /\ fault \in Faults

LEMMA TypeParts ==
  /\ TypeInv => ListTypes /\ Known /\ op \in [Thread -> Op]
  /\ /\ ListTypes' /\ Known' /\ op' \in [Thread -> Op]
     /\ op'["packet"].at # "unlist" /\ op'["deletion"].at \notin {"find", "invite", "join", "joined", "kick", "search"}
     /\ met' \in BOOLEAN
     => TypeInv'
BY DEF TypeInv, TypeOK, ListTypes, Op

LEMMA SetGroupTypes ==
  ASSUME TypeInv, NEW S, NEW g \in GroupId \cup {None}, SetGroup(S, g)
  PROVE  group' \in [Char -> GroupId \cup {None}] /\ fault' \in Faults
BY DEF SetGroup, TypeInv, TypeOK, Faults

LEMMA DismissTypes ==
  ASSUME TypeInv, NEW t \in Thread, Dismiss(t), met' \in BOOLEAN
  PROVE  TypeInv'
<1>0. /\ op \in [Thread -> Op] /\ op[t].who \in Char \cup {None}
      /\ op[t].at # "idle" /\ op[t].user \in Char
      /\ ListTypes /\ Known
  BY TypeParts DEF Dismiss, DismissCheck, DismissDisband, DismissDelete, DismissRemove, DismissClear,
        DismissLast, Locking, OnGroup, Running, Known, Op
<1>1. CASE Crash("freed") \/ Crash("empty")
  BY <1>1, CrashTypes DEF Faults
<1>2. CASE DismissCheck(t) /\ ~Crash("freed")
  <2>1. /\ Goto(t, "disband") \/ Goto(t, "remove")
        /\ UNCHANGED <<phase, group, live, lists, fault>>
    BY <1>2 DEF DismissCheck, OnGroup
  <2>2. ListTypes'
    BY <1>0, <2>1 DEF ListTypes, lists
  <2> QED  BY <1>0, <2>1, <2>2, GotoTypes, TypeParts DEF At
<1>3. CASE DismissDisband(t) /\ ~Crash("freed")
  <2>1. /\ Goto(t, "delete") \/ Goto(t, "stopped")
        /\ SetGroup(Listed(op[t].grp), None) \/ UNCHANGED <<group, fault>>
        /\ UNCHANGED <<phase, live, lists>>
    BY <1>3 DEF DismissDisband, Locking, OnGroup, Relock
  <2>2. ListTypes'
    BY <1>0, <2>1, SetGroupTypes DEF ListTypes, lists
  <2> QED  BY <1>0, <2>1, <2>2, GotoTypes, TypeParts DEF At
<1>4. CASE DismissDelete(t) /\ ~Crash("freed")
  <2> DEFINE g == op[t].grp
  <2>1. /\ Done(t) /\ SetGroup({op[t].who}, None) /\ live' = live \ {g}
        /\ leader' = [leader EXCEPT ![g] = None] /\ members' = [members EXCEPT ![g] = {}]
        /\ invited' = [invited EXCEPT ![g] = {}] /\ UNCHANGED phase
    BY <1>4 DEF DismissDelete, OnGroup
  <2>2. ListTypes'
    BY <1>0, <2>1, SetGroupTypes DEF ListTypes
  <2> QED  BY <1>0, <2>1, <2>2, DoneTypes, TypeParts
<1>5. CASE DismissRemove(t) /\ ~Crash("freed") /\ ~Crash("empty")
  <2> DEFINE g == op[t].grp
             who == op[t].who
  <2>1. /\ g \in live
        /\ members' = [members EXCEPT ![g] = @ \ {who}]
        /\ invited' = invited \/ invited' = [invited EXCEPT ![g] = @ \ {who}]
        /\ \E heir \in Heirs(g, who) : leader' = [leader EXCEPT ![g] = heir]
        /\ Goto(t, "clear") \/ Goto(t, "stopped")
        /\ UNCHANGED <<phase, group, live, fault>>
    BY <1>5 DEF DismissRemove, Locking, OnGroup, Relock
  <2>2. g \in GroupId /\ Heirs(g, who) \subseteq Char \cup {None}
    BY <1>0, <2>1 DEF ListTypes, Heirs
  <2>3. ListTypes'
    BY <1>0, <2>1, <2>2 DEF ListTypes
  <2> QED  BY <1>0, <2>1, <2>3, GotoTypes, TypeParts DEF At
<1>6. CASE DismissClear(t)
  <2>1. Goto(t, "last") /\ SetGroup({op[t].who}, None) /\ UNCHANGED <<phase, live, lists>>
    BY <1>6 DEF DismissClear
  <2>2. ListTypes'
    BY <1>0, <2>1, SetGroupTypes DEF ListTypes, lists
  <2> QED  BY <1>0, <2>1, <2>2, GotoTypes, TypeParts DEF At
<1>7. CASE DismissLast(t) /\ ~Crash("freed")
  <2> DEFINE g == op[t].grp
  <2>1. /\ g \in live
        /\ DismissAt(t, op[t].user, leader[g], g) \/ Done(t)
        /\ UNCHANGED <<phase, group, live, lists, fault>>
    BY <1>7 DEF DismissLast, OnGroup
  <2>2. g \in GroupId /\ leader[g] \in Char \cup {None}
    BY <1>0, <2>1 DEF ListTypes
  <2>3. ListTypes'
    BY <1>0, <2>1 DEF ListTypes, lists
  <2> HIDE DEF g
  <2> QED  BY <1>0, <2>1, <2>2, <2>3, DoneTypes, DismissAtTypes, TypeParts
<1> QED  BY <1>1, <1>2, <1>3, <1>4, <1>5, <1>6, <1>7 DEF Dismiss

LEMMA NotInvitedTypes ==
  ASSUME TypeInv, NotInvited, op["packet"].at \in {"find", "invite"}
  PROVE  /\ op' \in [Thread -> Op]
         /\ op'["packet"].at # "unlist"
         /\ op'["deletion"].at \notin {"find", "invite", "join", "joined", "kick", "search"}
         /\ Known' /\ fault' \in Faults
<1> DEFINE c == op["packet"].user
<1>1. c \in Char /\ group[c] \in GroupId \cup {None} /\ "packet" \in Thread /\ op \in [Thread -> Op]
  BY TypeParts DEF Known, ListTypes, Thread
<1>2. /\ DismissAt("packet", c, c, group[c]) \/ op' = [op EXCEPT !["packet"] = Idle] \/ op' = op
      /\ fault' \in {"null", fault}
  BY DEF NotInvited
<1> HIDE DEF c
<1>3. CASE op' = op
  BY <1>1, <1>2, <1>3 DEF TypeInv, TypeOK, Known, Faults
<1> QED  BY <1>1, <1>2, <1>3, DismissAtTypes, OpTypes, IdleOp DEF TypeInv, TypeOK, Faults

LEMMA InviteTypes ==
  ASSUME TypeInv, NEW c \in Char, GroupInvite(c), met' \in BOOLEAN
  PROVE  TypeInv'
<1>0. op \in [Thread -> Op] /\ ListTypes /\ Known /\ "packet" \in Thread
  BY TypeParts DEF Thread
<1>1. PICK g \in GroupId :
        /\ IF group[c] = None
           THEN /\ g \notin live
                /\ live' = live \cup {g}
                /\ leader' = [leader EXCEPT ![g] = c]
                /\ members' = [members EXCEPT ![g] = {c}]
                /\ invited' = [invited EXCEPT ![g] = {}]
                /\ group' = [group EXCEPT ![c] = g]
           ELSE g = group[c] /\ UNCHANGED <<live, lists, group>>
        /\ op' = [op EXCEPT !["packet"] =
                    [at |-> "find", user |-> c, who |-> c, grp |-> g, fresh |-> group[c] = None]]
  BY DEF GroupInvite
<1>2. ListTypes'
  BY <1>0, <1>1 DEF ListTypes, GroupInvite, lists
<1> DEFINE o == [at |-> "find", user |-> c, who |-> c, grp |-> g, fresh |-> group[c] = None]
<1>3. o \in Op /\ o.at = "find" /\ o.user = c
  BY DEF Op, At
<1>4. op' = [op EXCEPT !["packet"] = o]
  BY <1>1
<1> HIDE DEF o
<1> QED  BY <1>0, <1>2, <1>3, <1>4, OpTypes, TypeParts

LEMMA FindTypes ==
  ASSUME TypeInv, NEW d \in Char \cup {None}, InviteFind(d), met' \in BOOLEAN
  PROVE  TypeInv'
<1> DEFINE c == op["packet"].user
           o == [op["packet"] EXCEPT !.at = "invite", !.who = d, !.grp = group[c]]
<1>0. /\ op \in [Thread -> Op] /\ ListTypes /\ Known /\ "packet" \in Thread
      /\ op["packet"].at = "find" /\ c \in Char /\ op["packet"] \in Op
  BY TypeParts DEF Thread, InviteFind, Running, Known
<1>1. o \in Op /\ o.at = "invite" /\ o.user = c /\ o.who = d
  BY <1>0 DEF Op, At, ListTypes
<1>2. /\ UNCHANGED <<phase, group, live, lists>>
      /\ \/ op' = [op EXCEPT !["packet"] = Idle] /\ UNCHANGED fault
         \/ d \in Char /\ op' = [op EXCEPT !["packet"] = o] /\ UNCHANGED fault
         \/ NotInvited
  BY DEF InviteFind
<1> HIDE DEF o, c
<1>3. ASSUME fault' \in Faults PROVE ListTypes'
  BY <1>0, <1>2, <1>3 DEF ListTypes, lists
<1>4. CASE NotInvited
  BY <1>0, <1>3, <1>4, NotInvitedTypes, TypeParts
<1>5. CASE op' = [op EXCEPT !["packet"] = Idle] /\ UNCHANGED fault
  BY <1>0, <1>3, <1>5, IdleOp, OpTypes, TypeParts DEF ListTypes
<1>6. CASE d \in Char /\ op' = [op EXCEPT !["packet"] = o] /\ UNCHANGED fault
  <2>1. ListTypes'
    BY <1>0, <1>3, <1>6 DEF ListTypes
  <2>2. /\ op' \in [Thread -> Op]
        /\ op'["packet"].at # "unlist" /\ op'["deletion"].at \notin {"find", "invite", "join", "joined", "kick", "search"}
        /\ Known'
    BY <1>0, <1>1, <1>6, OpTypes
  <2> QED  BY <2>1, <2>2, TypeParts
<1> QED  BY <1>2, <1>4, <1>5, <1>6

LEMMA NextNoted ==
  ASSUME Next
  PROVE  Alive /\ Noted /\ met' \in BOOLEAN
<1>1. Noted => met' \in BOOLEAN
  <2>1. CASE met \/ Together'
    BY <2>1 DEF Noted
  <2>2. CASE ~(met \/ Together')
    BY <2>2 DEF Noted
  <2> QED  BY <2>1, <2>2
<1>2. ASSUME NEW t \in Thread, Dismiss(t) PROVE Alive /\ Noted
  BY <1>2 DEF Dismiss, DismissCheck, DismissDisband, DismissDelete, DismissRemove, DismissClear, DismissLast,
             Locking, OnGroup, Running
<1>3. ASSUME PacketStep, ~Dismiss("packet") PROVE Alive /\ Noted
  <2>1. ASSUME InviteLocked \/ JoinLocked \/ KickLocked PROVE Alive /\ Noted
    BY <2>1 DEF InviteLocked, JoinLocked, KickLocked, Locking, OnGroup, Running
  <2>2. ASSUME JoinNotify \/ KickSearch PROVE Alive /\ Noted
    BY <2>2 DEF JoinNotify, KickSearch, Running
  <2>3. ASSUME NEW d \in Char \cup {None}, InviteFind(d) PROVE Alive /\ Noted
    BY <2>3 DEF InviteFind, Running
  <2> QED  BY <1>3, <2>1, <2>2, <2>3 DEF PacketStep
<1>4. ASSUME NEW c \in Char,
             \/ Login(c) \/ Quit(c) \/ Logoff(c) \/ Unlist(c)
             \/ GroupInvite(c) \/ GroupJoin(c) \/ GroupLeave(c) \/ GroupKick(c)
      PROVE  Alive /\ Noted
  BY <1>4 DEF Login, Quit, Logoff, Unlist, GroupInvite, GroupJoin, GroupLeave, GroupKick, Requesting, Free, Running
<1> QED  BY <1>1, <1>2, <1>3, <1>4 DEF Next, PacketStep, DeletionStep, Thread

LEMMA NextTypes ==
  ASSUME TypeInv, [Next]_vars
  PROVE  TypeInv'
<1>0. op \in [Thread -> Op] /\ ListTypes /\ Known /\ "packet" \in Thread /\ "deletion" \in Thread
  BY TypeParts DEF Thread
<1>1. ASSUME NEW t \in Thread, Dismiss(t), met' \in BOOLEAN
      PROVE  TypeInv'
  BY <1>1, DismissTypes
<1>2. ASSUME Crash("freed") \/ Crash("null"), met' \in BOOLEAN
      PROVE  TypeInv'
  BY <1>2, CrashTypes DEF Faults
<1>3. ASSUME InviteLocked, ~Crash("freed"), met' \in BOOLEAN
      PROVE  TypeInv'
  <2> DEFINE o == op["packet"]
  <2>1. o.at = "invite" /\ o.grp \in GroupId /\ o.user \in Char /\ o.who \in Char
    BY <1>0, <1>3 DEF InviteLocked, Locking, OnGroup, Running, Known, ListTypes
  <2>2. /\ UNCHANGED <<phase, live, leader, members>>
        /\ \/ /\ invited' = [invited EXCEPT ![o.grp] = @ \cup {o.who}]
              /\ SetGroup({o.who}, o.grp)
              /\ op' = [op EXCEPT !["packet"] = Idle]
           \/ NotInvited /\ UNCHANGED <<invited, group>>
    BY <1>3 DEF InviteLocked, Locking, OnGroup
  <2>3. fault' \in Faults
    BY <2>1, <2>2, SetGroupTypes, NotInvitedTypes
  <2>4. ListTypes'
    BY <1>0, <2>1, <2>2, <2>3, SetGroupTypes DEF ListTypes
  <2> HIDE DEF o
  <2>5. CASE NotInvited
    BY <1>3, <2>1, <2>4, <2>5, NotInvitedTypes, TypeParts DEF o
  <2>6. CASE op' = [op EXCEPT !["packet"] = Idle]
    BY <1>0, <1>3, <2>4, <2>6, IdleOp, OpTypes, TypeParts
  <2> QED  BY <2>2, <2>5, <2>6
<1>4. ASSUME JoinLocked, ~Crash("freed"), met' \in BOOLEAN
      PROVE  TypeInv'
  <2> DEFINE g == op["packet"].grp
             c == op["packet"].who
  <2>1. /\ g \in live /\ op["packet"].at = "join" /\ UNCHANGED <<phase, group, live, leader>>
        /\ \/ op' = [op EXCEPT !["packet"] = Idle] /\ UNCHANGED <<members, invited, fault>>
           \/ /\ c \in invited[g]
              /\ invited' = [invited EXCEPT ![g] = @ \ {c}]
              /\ members' = [members EXCEPT ![g] = @ \cup {c}]
              /\ fault' \in {"join", fault}
              /\ Goto("packet", "joined") \/ Goto("packet", "stopped")
    BY <1>4 DEF JoinLocked, Locking, OnGroup, Running, Relock
  <2>2. ListTypes'
    BY <1>0, <2>1 DEF ListTypes, Faults
  <2> QED  BY <1>0, <1>4, <2>1, <2>2, IdleOp, OpTypes, GotoTypes, TypeParts DEF At
<1>5. ASSUME JoinNotify, ~Crash("freed"), ~Crash("null"), met' \in BOOLEAN
      PROVE  TypeInv'
  <2>1. op' = [op EXCEPT !["packet"] = Idle] /\ UNCHANGED <<phase, group, live, lists, fault>>
    BY <1>5 DEF JoinNotify
  <2>2. ListTypes'
    BY <1>0, <2>1 DEF ListTypes, lists
  <2> QED  BY <1>0, <1>5, <2>1, <2>2, IdleOp, OpTypes, TypeParts
<1>6. ASSUME NEW c \in Char, Login(c) \/ Quit(c), met' \in BOOLEAN PROVE TypeInv'
  <2>1. ListTypes' /\ op' = op
    BY <1>0, <1>6 DEF Login, Quit, ListTypes, lists
  <2> QED  BY <1>0, <1>6, <2>1, TypeParts DEF Known, TypeInv, TypeOK
<1>7. ASSUME NEW c \in Char, Logoff(c), met' \in BOOLEAN PROVE TypeInv'
  <2> DEFINE o == [Idle EXCEPT !.at = "unlist", !.user = c]
  <2>1. o \in Op /\ o.at = "unlist" /\ o.user = c
    BY IdleOp DEF Op, At, Idle
  <2>2. ListTypes' /\ group[c] \in GroupId \cup {None}
    BY <1>0, <1>7 DEF Logoff, ListTypes, lists
  <2>3. DismissAt("deletion", c, c, group[c]) \/ op' = [op EXCEPT !["deletion"] = o]
    BY <1>7 DEF Logoff
  <2> HIDE DEF o
  <2> QED  BY <1>0, <1>7, <2>1, <2>2, <2>3, OpTypes, DismissAtTypes, TypeParts
<1>8. ASSUME NEW c \in Char, NEW p \in {"join", "kick"}, GroupJoin(c) \/ GroupKick(c), met' \in BOOLEAN,
             op' = [op EXCEPT !["packet"] = [at |-> p, user |-> c, who |-> c, grp |-> group[c], fresh |-> FALSE]]
      PROVE  TypeInv'
  <2> DEFINE o == [at |-> p, user |-> c, who |-> c, grp |-> group[c], fresh |-> FALSE]
  <2>1. o \in Op /\ o.at = p /\ o.user = c
    BY <1>0 DEF Op, At, ListTypes
  <2>2. ListTypes' /\ op' = [op EXCEPT !["packet"] = o]
    BY <1>0, <1>8 DEF GroupJoin, GroupKick, ListTypes, lists
  <2> HIDE DEF o
  <2> QED  BY <1>0, <1>8, <2>1, <2>2, OpTypes, TypeParts
<1>9. ASSUME NEW c \in Char, GroupLeave(c), met' \in BOOLEAN
      PROVE  TypeInv'
  <2>1. DismissAt("packet", c, c, group[c])
    BY <1>9 DEF GroupLeave
  <2>2. ListTypes' /\ group[c] \in GroupId \cup {None}
    BY <1>0, <1>9 DEF GroupLeave, ListTypes, lists
  <2> QED  BY <1>0, <1>9, <2>1, <2>2, DismissAtTypes, TypeParts
<1>10. ASSUME KickLocked, ~Crash("freed"), met' \in BOOLEAN
       PROVE  TypeInv'
  <2> DEFINE o == [op["packet"] EXCEPT !.at = "search"]
  <2>1. /\ op["packet"] \in Op /\ op["packet"].user \in Char /\ UNCHANGED <<phase, group, live, lists, fault>>
        /\ \/ op' = [op EXCEPT !["packet"] = o]
           \/ op' = [op EXCEPT !["packet"] = Idle]
    BY <1>0, <1>10 DEF KickLocked, Locking, OnGroup, Running, Known, Goto, Thread
  <2>2. ListTypes' /\ o \in Op /\ o.at = "search" /\ o.user \in Char
    BY <1>0, <2>1 DEF ListTypes, lists, Op, At
  <2> HIDE DEF o
  <2>3. CASE op' = [op EXCEPT !["packet"] = Idle]
    BY <1>0, <1>10, <2>2, <2>3, IdleOp, OpTypes, TypeParts
  <2>4. CASE op' = [op EXCEPT !["packet"] = o]
    BY <1>0, <1>10, <2>1, <2>2, <2>4, OpTypes, TypeParts
  <2> QED  BY <2>1, <2>3, <2>4
<1>17. ASSUME KickSearch, ~Crash("freed"), ~Crash("null"), met' \in BOOLEAN
       PROVE  TypeInv'
  <2> DEFINE c == op["packet"].user
             g == group[c]
  <2>1. /\ g \in live /\ c \in Char /\ UNCHANGED <<phase, group, live, lists, fault>>
        /\ \/ \E d \in Listed(g) : DismissAt("packet", c, d, g)
           \/ op' = [op EXCEPT !["packet"] = Idle]
    BY <1>0, <1>17 DEF KickSearch, Running, Known
  <2>2. ListTypes' /\ Listed(g) \subseteq Char /\ g \in GroupId
    BY <1>0, <2>1 DEF ListTypes, lists, Listed
  <2> HIDE DEF g, c
  <2>3. CASE op' = [op EXCEPT !["packet"] = Idle]
    BY <1>0, <1>17, <2>2, <2>3, IdleOp, OpTypes, TypeParts
  <2>4. ASSUME NEW d \in Char, DismissAt("packet", c, d, g) PROVE TypeInv'
    BY <1>0, <1>17, <2>1, <2>2, <2>4, DismissAtTypes, TypeParts
  <2> QED  BY <2>1, <2>2, <2>3, <2>4
<1>11. ASSUME NEW c \in Char, Unlist(c), met' \in BOOLEAN PROVE TypeInv'
  <2>1. ListTypes' /\ op' = [op EXCEPT !["deletion"] = Idle]
    BY <1>0, <1>11 DEF Unlist, ListTypes, lists
  <2> QED  BY <1>0, <1>11, <2>1, IdleOp, OpTypes, TypeParts
<1>12. CASE UNCHANGED vars
  BY <1>12 DEF vars, lists, TypeInv, TypeOK, Known
<1>13. ASSUME NEW c \in Char, GroupJoin(c) \/ GroupKick(c), met' \in BOOLEAN PROVE TypeInv'
  BY <1>8, <1>13 DEF GroupJoin, GroupKick
<1>14. ASSUME PacketStep, met' \in BOOLEAN PROVE TypeInv'
  BY <1>0, <1>1, <1>2, <1>3, <1>4, <1>5, <1>10, <1>14, <1>17, FindTypes DEF PacketStep
<1>16. Next => met' \in BOOLEAN
  BY NextNoted
<1>15. CASE Next
  BY <1>0, <1>16, <1>1, <1>6, <1>7, <1>9, <1>11, <1>13, <1>14, <1>15, InviteTypes DEF Next, DeletionStep
<1> QED  BY <1>12, <1>15

\* Every variable keeps its type, and each thread is at points of its own.
THEOREM TypesCorrect == Spec => []TypeOK
<1>1. Spec => []TypeInv
  BY InitTypes, NextTypes, PTL DEF Spec
<1> QED  BY <1>1, PTL DEF TypeInv

-----------------------------------------------------------------------------
(* The shape of a group.                                                    *)

Shape(g) ==
  /\ leader[g] \in members[g]
  /\ members[g] \cap invited[g] = {}
  /\ Cardinality(Listed(g)) <= MaxSize

LEMMA InitShape == Init => GroupShape
BY DEF Init, GroupShape

LEMMA FiniteLists ==
  ASSUME TypeInv, NEW g \in GroupId, NEW S, S \subseteq Listed(g)
  PROVE  IsFiniteSet(S) /\ Cardinality(S) \in Nat /\ Cardinality(S) <= Cardinality(Listed(g))
<1>1. Listed(g) \subseteq Char
  BY DEF TypeInv, TypeOK, Listed
<1>2. IsFiniteSet(Listed(g)) /\ IsFiniteSet(S)
  BY <1>1, GroupAssumption, FS_Subset
<1> QED  BY <1>2, FS_Subset, FS_CardinalityType

LEMMA KeptShape ==
  ASSUME GroupShape, live' \subseteq live, Alive,
         \A g \in live' : leader'[g] = leader[g] /\ members'[g] = members[g] /\ invited'[g] = invited[g]
  PROVE  GroupShape'
BY DEF GroupShape, Listed

LEMMA NextShape ==
  ASSUME TypeInv, GroupShape, [Next]_vars
  PROVE  GroupShape'
<1>0. TypeOK /\ TypeOK' /\ MaxSize \in Nat \ {0}
  BY NextTypes, GroupAssumption DEF TypeInv
<1>1. CASE ~Alive \/ ~Alive'
  <2>1. CASE ~Alive'
    BY <2>1 DEF GroupShape
  <2>2. CASE ~Alive /\ Alive'
    <3>1. Next => Alive
      BY NextNoted
    <3> QED  BY <2>2, <3>1 DEF vars, Alive
  <2> QED  BY <1>1, <2>1, <2>2
<1>2. CASE UNCHANGED lists /\ live' \subseteq live
  BY <1>1, <1>2, KeptShape DEF lists
<1>3. ASSUME NEW t \in Thread, DismissRemove(t), Alive, Alive'
      PROVE  GroupShape'
  <2> DEFINE g == op[t].grp
             who == op[t].who
  <2>1. /\ g \in live
        /\ members' = [members EXCEPT ![g] = @ \ {who}]
        /\ invited' = IF who \in members[g] THEN invited ELSE [invited EXCEPT ![g] = @ \ {who}]
        /\ \E heir \in Heirs(g, who) : leader' = [leader EXCEPT ![g] = heir]
        /\ live' = live
    BY <1>3 DEF DismissRemove, Locking, OnGroup, Crash, Alive
  <2>2. g \in GroupId /\ Shape(g)
    BY <1>0, <1>3, <2>1 DEF TypeOK, GroupShape, Shape
  <2> HIDE DEF g, who
  <2>3. leader'[g] \in members'[g]
    BY <1>0, <2>1, <2>2 DEF TypeOK, Heirs, Shape
  <2>4. members'[g] \cap invited'[g] = {}
    BY <1>0, <2>1, <2>2 DEF TypeOK, Shape
  <2>5. members'[g] \cup invited'[g] \subseteq Listed(g)
    BY <1>0, <2>1, <2>2 DEF TypeOK, Listed
  <2>6. Cardinality(members'[g] \cup invited'[g]) <= MaxSize
    BY <1>0, <2>2, <2>5, FiniteLists DEF Shape
  <2>7. ASSUME NEW h \in live', h # g PROVE Shape(h)'
    BY <1>0, <1>3, <2>1, <2>7 DEF TypeOK, GroupShape, Shape, Listed
  <2> QED  BY <2>3, <2>4, <2>6, <2>7 DEF GroupShape, Shape, Listed
<1>4. ASSUME NEW c \in Char, GroupInvite(c), Alive
      PROVE  GroupShape'
  <2>1. CASE UNCHANGED <<live, lists>>
    BY <1>4, <2>1, KeptShape DEF lists
  <2>2. ASSUME NEW g \in GroupId, g \notin live, live' = live \cup {g},
               leader' = [leader EXCEPT ![g] = c], members' = [members EXCEPT ![g] = {c}],
               invited' = [invited EXCEPT ![g] = {}]
        PROVE  GroupShape'
    <3>1. leader'[g] = c /\ members'[g] = {c} /\ invited'[g] = {}
      BY <1>0, <2>2 DEF TypeOK
    <3>2. Cardinality(members'[g] \cup invited'[g]) = 1
      <4>1. members'[g] \cup invited'[g] = {c}
        BY <3>1
      <4> QED  BY <4>1, FS_Singleton
    <3>3. ASSUME NEW h \in live, h # g PROVE Shape(h)'
      BY <1>0, <1>4, <2>2, <3>3 DEF TypeOK, GroupShape, Shape, Listed
    <3>4. Shape(g)'
      BY <1>0, <3>1, <3>2 DEF Shape, Listed
    <3> QED  BY <2>2, <3>3, <3>4 DEF GroupShape, Shape
  <2> QED  BY <1>4, <2>1, <2>2 DEF GroupInvite
<1>5. CASE InviteLocked /\ Alive /\ Alive'
  <2> DEFINE g == op["packet"].grp
             c == op["packet"].user
             d == op["packet"].who
  <2>1. CASE UNCHANGED <<live, lists>>
    BY <1>5, <2>1, KeptShape DEF lists
  <2>2. CASE /\ g \in live /\ Invitable(g, c, d) /\ invited' = [invited EXCEPT ![g] = @ \cup {d}]
             /\ UNCHANGED <<live, leader, members>>
    <3>1. g \in GroupId /\ Shape(g) /\ d \notin members[g]
      BY <1>0, <1>5, <2>2 DEF TypeOK, GroupShape, Shape, Invitable
    <3> HIDE DEF g, d
    <3>2. leader'[g] \in members'[g] /\ members'[g] \cap invited'[g] = {}
      BY <1>0, <2>2, <3>1 DEF TypeOK, Shape
    <3>3. members'[g] \cup invited'[g] = Listed(g) \cup {d}
      BY <1>0, <2>2, <3>1 DEF TypeOK, Listed
    <3>4. /\ IsFiniteSet(members[g]) /\ IsFiniteSet(invited[g]) /\ IsFiniteSet(Listed(g))
          /\ Cardinality(members[g]) \in Nat /\ Cardinality(invited[g]) \in Nat
          /\ Cardinality(Listed(g)) \in Nat
      BY <3>1, FiniteLists DEF Listed
    <3>5. Cardinality(Listed(g)) <= Cardinality(members[g]) + Cardinality(invited[g])
      <4>1. members[g] \cap invited[g] = {} /\ Cardinality({}) = 0
        BY <3>1, FS_EmptySet DEF Shape
      <4>2. Cardinality(members[g] \cup invited[g])
              = Cardinality(members[g]) + Cardinality(invited[g]) - Cardinality(members[g] \cap invited[g])
        BY <3>4, FS_Union
      <4>3. Cardinality(members[g] \cap invited[g]) = 0
        BY <4>1
      <4> QED  BY <3>4, <4>2, <4>3 DEF Listed
    <3>6. Cardinality(Listed(g) \cup {d}) <= Cardinality(Listed(g)) + 1
      <4>1. Cardinality(Listed(g) \cup {d}) = IF d \in Listed(g) THEN Cardinality(Listed(g))
                                              ELSE Cardinality(Listed(g)) + 1
        BY <3>4, FS_AddElement
      <4> HIDE DEF d
      <4> QED  BY <3>4, <4>1
    <3>7. Cardinality(members'[g] \cup invited'[g]) <= MaxSize
      <4>1. Cardinality(Listed(g) \cup {d}) \in Nat
        BY <3>4, FS_AddElement, FS_CardinalityType
      <4> QED  BY <1>0, <2>2, <3>3, <3>4, <3>5, <3>6, <4>1 DEF Invitable
    <3>8. ASSUME NEW h \in live', h # g PROVE Shape(h)'
      BY <1>0, <1>5, <2>2, <3>8 DEF TypeOK, GroupShape, Shape, Listed
    <3> QED  BY <3>2, <3>7, <3>8 DEF GroupShape, Shape, Listed
  <2> QED  BY <1>5, <2>1, <2>2 DEF InviteLocked, Locking, OnGroup, Crash, lists
<1>6. CASE JoinLocked /\ Alive /\ Alive'
  <2> DEFINE g == op["packet"].grp
             c == op["packet"].who
  <2>1. CASE UNCHANGED <<live, lists>>
    BY <1>6, <2>1, KeptShape DEF lists
  <2>2. CASE /\ g \in live /\ c \in invited[g] /\ UNCHANGED <<live, leader>>
             /\ invited' = [invited EXCEPT ![g] = @ \ {c}]
             /\ members' = [members EXCEPT ![g] = @ \cup {c}]
    <3>1. g \in GroupId /\ Shape(g)
      BY <1>0, <1>6, <2>2 DEF TypeOK, GroupShape, Shape
    <3> HIDE DEF g, c
    <3>2. leader'[g] \in members'[g] /\ members'[g] \cap invited'[g] = {}
      BY <1>0, <2>2, <3>1 DEF TypeOK, Shape
    <3>3. members'[g] \cup invited'[g] = Listed(g)
      BY <1>0, <2>2, <3>1 DEF TypeOK, Listed
    <3>4. ASSUME NEW h \in live', h # g PROVE Shape(h)'
      BY <1>0, <1>6, <2>2, <3>4 DEF TypeOK, GroupShape, Shape, Listed
    <3> QED  BY <3>1, <3>2, <3>3, <3>4 DEF GroupShape, Shape, Listed
  <2> QED  BY <1>6, <2>1, <2>2 DEF JoinLocked, Locking, OnGroup, Crash, lists
<1>7. ASSUME NEW t \in Thread, Dismiss(t), ~DismissRemove(t), ~DismissDelete(t)
      PROVE  UNCHANGED lists /\ live' \subseteq live
  BY <1>7 DEF Dismiss, DismissCheck, DismissDisband, DismissClear, DismissLast, Locking, OnGroup, Crash
<1>8. ASSUME NEW t \in Thread, Dismiss(t), Alive, Alive' PROVE GroupShape'
  <2>1. CASE DismissDelete(t)
    <3>1. /\ live' = live \ {op[t].grp}
          /\ leader' = [leader EXCEPT ![op[t].grp] = None]
          /\ members' = [members EXCEPT ![op[t].grp] = {}]
          /\ invited' = [invited EXCEPT ![op[t].grp] = {}]
      BY <1>8, <2>1 DEF DismissDelete, OnGroup, Crash, Alive
    <3>2. live' \subseteq live /\ \A g \in live' : g # op[t].grp /\ g \in GroupId
      BY <1>0, <3>1 DEF TypeOK
    <3> QED  BY <1>0, <1>8, <3>1, <3>2, KeptShape DEF TypeOK
  <2> QED  BY <1>2, <1>3, <1>7, <1>8, <2>1
<1>9. ASSUME NEW c \in Char, Login(c) \/ Quit(c) \/ Logoff(c) \/ GroupJoin(c) \/ GroupLeave(c) \/ GroupKick(c)
                            \/ Unlist(c)
      PROVE  UNCHANGED lists /\ live' \subseteq live
  BY <1>9 DEF Login, Quit, Logoff, GroupJoin, GroupLeave, Unlist, GroupKick
<1>10. ASSUME JoinNotify \/ KickLocked \/ KickSearch \/ (\E d \in Char \cup {None} : InviteFind(d)) \/ UNCHANGED vars
       PROVE  UNCHANGED lists /\ live' \subseteq live
  <2>1. CASE JoinNotify
    BY <2>1 DEF JoinNotify, Crash
  <2>2. CASE KickLocked
    BY <2>2 DEF KickLocked, Locking, OnGroup, Crash
  <2>4. CASE KickSearch
    BY <2>4 DEF KickSearch, Crash
  <2>3. ASSUME NEW d \in Char \cup {None}, InviteFind(d) PROVE UNCHANGED <<lists, live>>
    BY <2>3 DEF InviteFind
  <2> QED  BY <1>10, <2>1, <2>2, <2>3, <2>4 DEF vars
<1>11. CASE PacketStep
  BY <1>1, <1>2, <1>5, <1>6, <1>8, <1>10, <1>11 DEF PacketStep, Thread
<1>12. CASE DeletionStep
  BY <1>1, <1>2, <1>8, <1>9, <1>12 DEF DeletionStep, Thread
<1>13. CASE UNCHANGED vars
  BY <1>2, <1>10, <1>13
<1> QED  BY <1>1, <1>2, <1>4, <1>9, <1>11, <1>12, <1>13 DEF Next

\* Even while one thread dismisses and the other invites or lets in, a group is led
\* by one of its members, holds nobody twice and stays within its size.
THEOREM ShapeKept == Spec => []GroupShape
<1>1. Init => TypeInv /\ GroupShape
  BY InitTypes, InitShape
<1>2. TypeInv /\ GroupShape /\ [Next]_vars => (TypeInv /\ GroupShape)'
  BY NextTypes, NextShape
<1> QED  BY <1>1, <1>2, PTL DEF Spec

-----------------------------------------------------------------------------
(* Pointers, as long as no request and no logoff meet in one group or on one *)
(* character.                                                               *)

\* Dismiss is about to delete g.
Deleting(g) == \E t \in Thread : op[t].at = "delete" /\ op[t].grp = g

\* A pointer names a live group that lists its character, unless Dismiss is about
\* to clear it, or stopped on the way.
Pointed ==
  \A c \in Char : phase[c] # "offline" /\ group[c] # None =>
    \/ group[c] \in live /\ c \in Listed(group[c])
    \/ \E t \in Thread : op[t].at \in {"clear", "stopped"} /\ op[t].who = c /\ op[t].grp = group[c]

\* Who is listed points back, unless the group is about to be deleted.
ListedBack ==
  \A g \in live :
    \/ \A c \in Listed(g) : phase[c] # "offline" /\ group[c] = g
    \/ Deleting(g)

\* c is on no list but of groups about to be deleted.
Unlisted(c) == \A g \in live : c \in Listed(g) => Deleting(g)

\* What thread t relies on where it is.
Stage(t) ==
  LET o == op[t]
      g == o.grp
  IN  /\ o.at \in {"find", "invite", "kick", "search"} => g \in live /\ group[o.user] = g /\ phase[o.user] # "offline"
      /\ o.at = "invite" => phase[o.who] # "offline"
      /\ o.at \in {"join", "joined"} =>
           g \in live /\ o.who \in Char /\ group[o.who] = g /\ phase[o.who] # "offline"
      /\ o.at = "last" => g \in live
      /\ o.at \in {"check", "disband", "remove"} => g \in live /\ o.who \in Listed(g)
      /\ o.at = "remove" /\ o.who = leader[g] => members[g] \ {o.who} # {}
      /\ o.at = "delete" =>
           /\ g \in live /\ \A h \in live \ {g} : o.who \in Listed(h) => Deleting(h)
           /\ \A c \in Char : phase[c] # "offline" => group[c] # g
      /\ o.at = "clear" => g \in live /\ Unlisted(o.who)

\* A logoff goes on to unlist a character no group lists any more.
Leaving ==
  LET o == op["deletion"]
  IN  \/ o.at \in {"idle", "stopped"}
      \/ o.at \in {"check", "disband", "remove"} /\ o.user = o.who
      \/ o.at = "delete" /\ \A g \in live \ {o.grp} : o.user \in Listed(g) => Deleting(g)
      \/ Unlisted(o.user)

Calm == Pointed /\ ListedBack /\ Leaving /\ \A t \in Thread : Stage(t)

Apart == fault = "none" /\ ~met /\ ~Together /\ Calm

LEMMA InitApart == Init => Apart
BY DEF Init, Apart, Calm, Together, Pointed, ListedBack, Leaving, Stage, Idle, Thread

\* A step in group g on characters X leaves alone what thread u relies on.
Elsewhere(u, g, X) ==
  /\ op'[u] = op[u] /\ None \notin live /\ phase' = phase
  /\ op[u].at # "idle" => g # op[u].grp /\ X \cap {op[u].user, op[u].who} = {}
  /\ op[u].at \in {"find", "invite", "kick", "search"} => op[u].user \in Char
  /\ \A x \in Char : group'[x] = group[x] \/ (group'[x] \in {None, g} /\ (x \in X \/ group[x] = g))
  /\ \A h : h # g => (h \in live <=> h \in live')
  /\ \A h \in live' : h # g => leader'[h] = leader[h] /\ members'[h] = members[h] /\ invited'[h] = invited[h]
  /\ \A h \in live' : h # g /\ Deleting(h) => Deleting(h)'
  /\ g \in live' /\ ~Deleting(g)' =>
       \A x \in members'[g] \cup invited'[g] : x \in X \/ (g \in live /\ x \in Listed(g) /\ ~Deleting(g))

LEMMA OtherStage ==
  ASSUME NEW u \in Thread, NEW g, NEW X, Elsewhere(u, g, X), Stage(u)
  PROVE  Stage(u)' /\ (u = "deletion" /\ Leaving => Leaving')
<1> USE DEF Elsewhere
<1> DEFINE o == op[u]
<1>1. CASE o.at = "idle"
  BY <1>1 DEF Stage, Leaving
<1> SUFFICES ASSUME o.at # "idle" PROVE Stage(u)' /\ (u = "deletion" /\ Leaving => Leaving')
  BY <1>1
<1>2. ASSUME NEW x \in {o.user, o.who}, NEW h \in live', h \in live /\ x \in Listed(h) => Deleting(h),
             x \in members'[h] \cup invited'[h]
      PROVE  Deleting(h)'
  BY <1>2 DEF Listed
<1>3. o.at = "delete" => \A h \in live' \ {o.grp} : o.who \in members'[h] \cup invited'[h] => Deleting(h)'
  BY <1>2 DEF Stage
<1>4. o.at = "delete" => \A c \in Char : phase[c] # "offline" => group'[c] # o.grp
  BY DEF Stage
<1>5. ASSUME NEW x \in {o.user, o.who}, Unlisted(x)
      PROVE  \A h \in live' : x \in members'[h] \cup invited'[h] => Deleting(h)'
  BY <1>2, <1>5 DEF Unlisted
<1>6. o.at \in {"find", "invite", "kick", "search"} => o.grp \in live' /\ group'[o.user] = o.grp /\ phase'[o.user] # "offline"
  BY DEF Stage
<1>7. o.at \in {"join", "joined"} =>
        o.grp \in live' /\ o.who \in Char /\ group'[o.who] = o.grp /\ phase'[o.who] # "offline"
  BY DEF Stage
<1>8. o.at \in {"check", "disband", "remove", "last", "delete", "clear"} =>
        /\ o.grp \in live' /\ members'[o.grp] = members[o.grp] /\ invited'[o.grp] = invited[o.grp]
        /\ leader'[o.grp] = leader[o.grp]
  BY DEF Stage
<1>9. Stage(u)'
  <2> HIDE DEF Deleting
  <2> QED  BY <1>3, <1>4, <1>5, <1>6, <1>7, <1>8 DEF Stage, Listed, Unlisted
<1>10. ASSUME u = "deletion", o.at = "delete", \A h \in live \ {o.grp} : o.user \in Listed(h) => Deleting(h)
      PROVE  \A h \in live' \ {o.grp} : o.user \in members'[h] \cup invited'[h] => Deleting(h)'
  BY <1>2, <1>10
<1>11. u = "deletion" /\ Leaving => Leaving'
  BY <1>5, <1>10 DEF Leaving, Unlisted, Listed
<1> QED  BY <1>9, <1>11

\* Thread t goes on to p, ends its dismissal, or dismisses who.
LEMMA MovedGoto ==
  ASSUME TypeInv, NEW t \in Thread, NEW p \in At, Goto(t, p)
  PROVE  /\ op'[t].at = p /\ op'[t].who = op[t].who /\ op'[t].grp = op[t].grp /\ op'[t].user = op[t].user
         /\ \A u \in Thread : u # t => op'[u] = op[u]
<1> DEFINE o == [op[t] EXCEPT !.at = p]
<1>1. op[t] \in Op /\ op \in [Thread -> Op]
  BY TypeParts
<1>2. o.at = p /\ o.who = op[t].who /\ o.grp = op[t].grp /\ o.user = op[t].user
  BY <1>1 DEF Op
<1>3. op' = [op EXCEPT ![t] = o]
  BY DEF Goto
<1> HIDE DEF o
<1> QED  BY <1>1, <1>2, <1>3

LEMMA MovedDone ==
  ASSUME TypeInv, NEW t \in Thread, Done(t)
  PROVE  /\ op'[t].at = IF t = "packet" THEN "idle" ELSE "unlist"
         /\ t = "deletion" => op'[t].user = op[t].user
         /\ \A u \in Thread : u # t => op'[u] = op[u]
<1> DEFINE o == [Idle EXCEPT !.at = "unlist", !.user = op[t].user]
<1>1. op \in [Thread -> Op] /\ o.at = "unlist" /\ o.user = op[t].user
  BY TypeParts DEF Idle
<1>2. op' = [op EXCEPT ![t] = IF t = "packet" THEN Idle ELSE o]
  BY DEF Done
<1> HIDE DEF o
<1> QED  BY <1>1, <1>2, IdleOp DEF Thread

LEMMA MovedDismiss ==
  ASSUME TypeInv, NEW t \in Thread, NEW user, NEW who, NEW g, DismissAt(t, user, who, g)
  PROVE  /\ op'[t].at = "check" /\ op'[t].who = who /\ op'[t].grp = g /\ op'[t].user = user
         /\ \A u \in Thread : u # t => op'[u] = op[u]
<1> DEFINE o == [at |-> "check", user |-> user, who |-> who, grp |-> g, fresh |-> FALSE]
<1>1. o.at = "check" /\ o.user = user /\ o.who = who /\ o.grp = g
  OBVIOUS
<1>2. op' = [op EXCEPT ![t] = o] /\ op \in [Thread -> Op]
  BY TypeParts DEF DismissAt
<1> HIDE DEF o
<1> QED  BY <1>1, <1>2

LEMMA MovedIdle ==
  ASSUME TypeInv, NEW t \in Thread, op' = [op EXCEPT ![t] = Idle]
  PROVE  op'[t].at = "idle" /\ \A u \in Thread : u # t => op'[u] = op[u]
BY TypeParts, IdleOp

\* Thread t moves on from a stage that exempts nobody, and changes nothing else.
LEMMA MoveCalm ==
  ASSUME Calm, NEW t \in Thread, UNCHANGED <<phase, group, live, lists>>,
         op[t].at \notin {"clear", "stopped", "delete"}, \A u \in Thread : u # t => op'[u] = op[u],
         Stage(t)', t = "deletion" => Leaving'
  PROVE  Calm'
<1>1. Pointed'
  BY DEF Calm, Pointed, lists, Listed
<1>2. \A g \in live : Deleting(g) => Deleting(g)'
  BY DEF Deleting
<1>3. ListedBack'
  BY <1>2 DEF Calm, ListedBack, lists, Listed
<1>4. \A u \in Thread : u # t => Stage(u)' /\ (u = "deletion" => Leaving')
  <2> SUFFICES ASSUME NEW u \in Thread, u # t PROVE Stage(u)' /\ (u = "deletion" => Leaving')
    OBVIOUS
  <2>1. op'[u] = op[u] /\ Stage(u) /\ Leaving
    BY DEF Calm
  <2>2. Stage(u)'
    BY <1>2, <2>1 DEF Stage, lists, Listed, Unlisted
  <2>3. u = "deletion" => Leaving'
    BY <1>2, <2>1 DEF Leaving, lists, Listed, Unlisted
  <2> QED  BY <2>2, <2>3
<1> QED  BY <1>1, <1>3, <1>4 DEF Calm, Thread

\* The two threads are in different groups and on different characters.
LEMMA TwoThreads ==
  ASSUME ~Together, NEW t \in Thread, NEW u \in Thread, u # t, op[t].at # "idle", op[u].at # "idle"
  PROVE  op[u].grp # op[t].grp /\ {op[t].user, op[t].who} \cap {op[u].user, op[u].who} = {}
BY DEF Together, Thread

\* What a step of Dismiss on thread t starts from.
LEMMA DismissContext ==
  ASSUME TypeInv, GroupShape, Apart, NEW t \in Thread,
         op[t].at \in {"check", "disband", "delete", "remove", "clear", "last"}
  PROVE  /\ op \in [Thread -> Op] /\ ListTypes /\ fault = "none" /\ None \notin live
         /\ op[t].user \in Char /\ op[t].who \in Char \cup {None}
         /\ op[t].grp \in live /\ op[t].grp \in GroupId /\ op[t].grp # None
         /\ Shape(op[t].grp) /\ Stage(t) /\ Pointed /\ ListedBack /\ (t = "deletion" => Leaving)
         /\ \A u \in Thread : u # t /\ op[u].at # "idle" =>
              op[u].grp # op[t].grp /\ {op[t].user, op[t].who} \cap {op[u].user, op[u].who} = {}
         /\ (op[t].at # "delete" => ~Deleting(op[t].grp))
         /\ \A u \in Thread : op[u].at \in {"find", "invite", "kick", "search"} => op[u].user \in Char
<1>1. op \in [Thread -> Op] /\ ListTypes /\ Known /\ op[t] \in Op
  BY TypeParts
<1>2. fault = "none" /\ Stage(t) /\ Pointed /\ ListedBack /\ Leaving /\ ~Together
  BY DEF Apart, Calm
<1>3. op[t].grp \in live /\ op[t].grp \in GroupId /\ None \notin live
  BY <1>1, <1>2, GroupAssumption DEF Stage, ListTypes
<1>4. op[t].user \in Char /\ op[t].who \in Char \cup {None}
  BY <1>1 DEF Known, Op
<1>5. Shape(op[t].grp)
  BY <1>2, <1>3 DEF GroupShape, Shape, Alive
<1>6. \A u \in Thread : u # t /\ op[u].at # "idle" =>
        op[u].grp # op[t].grp /\ {op[t].user, op[t].who} \cap {op[u].user, op[u].who} = {}
  BY <1>2, TwoThreads
<1>7. op[t].at # "delete" => ~Deleting(op[t].grp)
  BY <1>6 DEF Deleting
<1> QED  BY <1>1, <1>2, <1>3, <1>4, <1>5, <1>6, <1>7 DEF Known

LEMMA CheckCalm ==
  ASSUME TypeInv, GroupShape, Apart, NEW t \in Thread, DismissCheck(t)
  PROVE  Calm'
<1> DEFINE g == op[t].grp
           who == op[t].who
<1>0. op[t].at = "check"
  BY DEF DismissCheck, OnGroup, Running
<1>1. /\ UNCHANGED <<phase, group, live, lists, fault>> /\ Calm
      /\ Goto(t, IF who = leader[g] /\ Cardinality(members[g]) <= 2 THEN "disband" ELSE "remove")
  BY <1>0, DismissContext DEF DismissCheck, OnGroup, Apart
<1>2. /\ op'[t].at = (IF who = leader[g] /\ Cardinality(members[g]) <= 2 THEN "disband" ELSE "remove")
      /\ op'[t].who = who /\ op'[t].grp = g /\ op'[t].user = op[t].user
      /\ \A u \in Thread : u # t => op'[u] = op[u]
  BY <1>1, MovedGoto DEF At
<1> HIDE DEF g, who
<1>3. members[g] \ {who} = {} => Cardinality(members[g]) <= 2
  <2> SUFFICES ASSUME members[g] \ {who} = {} PROVE Cardinality(members[g]) <= 2
    OBVIOUS
  <2>1. members[g] \subseteq {who} /\ IsFiniteSet({who}) /\ Cardinality({who}) = 1
    BY FS_Singleton
  <2>2. Cardinality(members[g]) <= Cardinality({who}) /\ Cardinality(members[g]) \in Nat
    BY <2>1, FS_Subset, FS_CardinalityType
  <2> QED  BY <2>1, <2>2
<1>4. Stage(t)'
  BY <1>0, <1>1, <1>2, <1>3, DismissContext DEF Stage, lists, Listed, g, who
<1>5. \A h \in live : Deleting(h) => Deleting(h)'
  BY <1>0, <1>2 DEF Deleting
<1>6. t = "deletion" => Leaving'
  BY <1>0, <1>1, <1>2, <1>5, DismissContext DEF Leaving, Unlisted, lists, Listed, who
<1> QED  BY <1>0, <1>1, <1>2, <1>4, <1>6, MoveCalm

LEMMA DisbandCalm ==
  ASSUME TypeInv, GroupShape, Apart, NEW t \in Thread, DismissDisband(t), fault' = "none"
  PROVE  Calm'
<1> DEFINE g == op[t].grp
           who == op[t].who
<1>0. op[t].at = "disband" /\ Calm
  BY DEF DismissDisband, Locking, OnGroup, Running, Apart
<1>9. /\ op \in [Thread -> Op] /\ ListTypes /\ fault = "none" /\ None \notin live
      /\ g \in live /\ g \in GroupId /\ g # None /\ Pointed /\ ListedBack
      /\ \A u \in Thread : u # t /\ op[u].at # "idle" =>
           op[u].grp # g /\ {op[t].user, who} \cap {op[u].user, op[u].who} = {}
      /\ ~Deleting(g)
      /\ \A u \in Thread : op[u].at \in {"find", "invite", "kick", "search"} => op[u].user \in Char
      /\ Stage(t) /\ (t = "deletion" => Leaving)
  BY <1>0, DismissContext
<1>1. /\ UNCHANGED <<phase, live, lists>> /\ Relock(t, "delete")
      /\ IF Recursive THEN SetGroup(Listed(g), None) ELSE UNCHANGED <<group, fault>>
  BY <1>9 DEF DismissDisband, Locking, OnGroup
<1> HIDE DEF g, who
<1>2. CASE ~Recursive
  <2>1. op'[t].at = "stopped" /\ \A u \in Thread : u # t => op'[u] = op[u]
    BY <1>1, <1>2, MovedGoto DEF Relock, At
  <2>2. Stage(t)' /\ (t = "deletion" => Leaving')
    BY <2>1 DEF Stage, Leaving
  <2> QED  BY <1>0, <1>1, <1>2, <2>1, <2>2, MoveCalm
<1>3. CASE Recursive
  <2>1. /\ op'[t].at = "delete" /\ op'[t].who = who /\ op'[t].grp = g /\ op'[t].user = op[t].user
        /\ \A u \in Thread : u # t => op'[u] = op[u]
    BY <1>1, <1>3, MovedGoto DEF Relock, At, g, who
  <2>2. group' = [c \in Char |-> IF c \in Listed(g) THEN None ELSE group[c]]
    BY <1>1, <1>3 DEF SetGroup
  <2>3. \A c \in Listed(g) : group[c] = g /\ c \in Char
    BY <1>9 DEF ListedBack, ListTypes, Listed
  <2>4. \A h : Deleting(h) => Deleting(h)'
    BY <1>0, <2>1 DEF Deleting
  <2>5. Pointed'
    <3> SUFFICES ASSUME NEW c \in Char, phase[c] # "offline", group'[c] # None
                 PROVE  \/ group'[c] \in live /\ c \in Listed(group'[c])
                        \/ \E u \in Thread : /\ op'[u].at \in {"clear", "stopped"} /\ op'[u].who = c
                                             /\ op'[u].grp = group'[c]
      BY <1>1 DEF Pointed, lists, Listed
    <3>1. group'[c] = group[c]
      BY <2>2
    <3> QED  BY <1>0, <1>9, <2>1, <3>1 DEF Pointed
  <2>6. ListedBack'
    <3> SUFFICES ASSUME NEW h \in live, ~Deleting(h)', NEW c \in Listed(h)
                 PROVE  phase[c] # "offline" /\ group'[c] = h
      BY <1>1 DEF ListedBack, lists, Listed
    <3>1. h # g
      BY <2>1 DEF Deleting
    <3>2. phase[c] # "offline" /\ group[c] = h /\ c \in Char
      BY <1>9, <2>4 DEF ListedBack, ListTypes, Listed
    <3> QED  BY <2>2, <2>3, <3>1, <3>2
  <2>7. \A u \in Thread : u # t => Stage(u)' /\ (u = "deletion" => Leaving')
    <3> SUFFICES ASSUME NEW u \in Thread, u # t PROVE Stage(u)' /\ (u = "deletion" => Leaving')
      OBVIOUS
    <3>1. Stage(u) /\ Leaving
      BY <1>0 DEF Calm
    <3>2. \A x \in Char : group'[x] = group[x] \/ (group'[x] \in {None, g} /\ (x \in {} \/ group[x] = g))
      BY <2>2, <2>3
    <3>3. /\ \A h : h # g => (h \in live <=> h \in live')
          /\ \A h \in live' : h # g => leader'[h] = leader[h] /\ members'[h] = members[h] /\ invited'[h] = invited[h]
          /\ phase' = phase
          /\ g \in live' => \A x \in members'[g] \cup invited'[g] : x \in Listed(g)
      BY <1>1 DEF lists, Listed
    <3>4. op[u].at # "idle" => g # op[u].grp /\ {} \cap {op[u].user, op[u].who} = {}
      BY <1>9
    <3>5. Elsewhere(u, g, {})
      BY <1>9, <2>1, <2>4, <3>2, <3>3, <3>4 DEF Elsewhere
    <3> QED  BY <3>1, <3>5, OtherStage
  <2>8. Stage(t)'
    <3>1. ASSUME NEW h \in live \ {g}, who \in Listed(h) PROVE Deleting(h)'
      <4>1. who \in Listed(g)
        BY <1>0, <1>9 DEF Stage, g, who
      <4> QED  BY <1>9, <2>3, <2>4, <3>1, <4>1 DEF ListedBack
    <3>2. \A c \in Char : phase[c] # "offline" => group'[c] # g
      <4> SUFFICES ASSUME NEW c \in Char, phase[c] # "offline", group'[c] = g PROVE FALSE
        OBVIOUS
      <4>1. group[c] = g /\ c \notin Listed(g)
        BY <1>9, <2>2
      <4>2. PICK u \in Thread : op[u].at \in {"clear", "stopped"} /\ op[u].who = c /\ op[u].grp = group[c]
        BY <1>9, <4>1 DEF Pointed
      <4>3. u # t
        BY <1>0, <4>2
      <4> QED  BY <1>9, <4>1, <4>2, <4>3
    <3> QED  BY <1>1, <1>9, <2>1, <3>1, <3>2 DEF Stage, lists, Listed
  <2>9. t = "deletion" => Leaving'
    <3> SUFFICES ASSUME t = "deletion" PROVE Leaving'
      OBVIOUS
    <3>1. op[t].user = who \/ Unlisted(op[t].user)
      BY <1>0, <1>9 DEF Leaving, who
    <3>2. ASSUME NEW h \in live \ {g}, op[t].user \in Listed(h) PROVE Deleting(h)'
      <4>1. who \in Listed(g)
        BY <1>0, <1>9 DEF Stage, g, who
      <4> QED  BY <1>9, <2>3, <2>4, <3>1, <3>2, <4>1 DEF ListedBack, Unlisted
    <3> QED  BY <1>1, <2>1, <3>2 DEF Leaving, lists, Listed
  <2> QED  BY <2>5, <2>6, <2>7, <2>8, <2>9 DEF Calm, Thread
<1> QED  BY <1>2, <1>3

LEMMA DeleteCalm ==
  ASSUME TypeInv, GroupShape, Apart, NEW t \in Thread, DismissDelete(t), fault' = "none"
  PROVE  Calm'
<1> DEFINE g == op[t].grp
           who == op[t].who
<1>0. op[t].at = "delete" /\ Calm
  BY DEF DismissDelete, OnGroup, Running, Apart
<1>9. /\ op \in [Thread -> Op] /\ ListTypes /\ fault = "none" /\ None \notin live
      /\ g \in live /\ g \in GroupId /\ g # None /\ Pointed /\ ListedBack
      /\ \A u \in Thread : u # t /\ op[u].at # "idle" =>
           op[u].grp # g /\ {op[t].user, who} \cap {op[u].user, op[u].who} = {}
      /\ \A u \in Thread : op[u].at \in {"find", "invite", "kick", "search"} => op[u].user \in Char
      /\ Stage(t) /\ (t = "deletion" => Leaving)
  BY <1>0, DismissContext
<1>1. /\ group' = [c \in Char |-> IF c \in {who} THEN None ELSE group[c]]
      /\ live' = live \ {g} /\ Done(t) /\ UNCHANGED phase
      /\ \A h \in live' : leader'[h] = leader[h] /\ members'[h] = members[h] /\ invited'[h] = invited[h]
  <2>1. /\ SetGroup({who}, None) /\ live' = live \ {g} /\ Done(t) /\ UNCHANGED phase
        /\ leader' = [leader EXCEPT ![g] = None]
        /\ members' = [members EXCEPT ![g] = {}]
        /\ invited' = [invited EXCEPT ![g] = {}]
    BY <1>9 DEF DismissDelete, OnGroup
  <2>2. \A h \in live' : h # g /\ h \in GroupId
    BY <1>9, <2>1 DEF ListTypes
  <2> QED  BY <1>9, <2>1, <2>2 DEF SetGroup, ListTypes
<1>2. /\ op'[t].at = IF t = "packet" THEN "idle" ELSE "unlist"
      /\ t = "deletion" => op'[t].user = op[t].user
      /\ \A u \in Thread : u # t => op'[u] = op[u]
  BY <1>1, MovedDone
<1> HIDE DEF g, who
<1>3. \A h \in live' : Deleting(h) => Deleting(h)'
  <2> SUFFICES ASSUME NEW h \in live', NEW u \in Thread, op[u].at = "delete", op[u].grp = h
               PROVE  op'[u].at = "delete" /\ op'[u].grp = h
    BY DEF Deleting
  <2>1. u # t
    BY <1>1 DEF g
  <2> QED  BY <1>2, <2>1
<1>4. Pointed'
  <2> SUFFICES ASSUME NEW c \in Char, phase[c] # "offline", group'[c] # None
               PROVE  \/ group'[c] \in live' /\ c \in members'[group'[c]] \cup invited'[group'[c]]
                      \/ \E u \in Thread : /\ op'[u].at \in {"clear", "stopped"} /\ op'[u].who = c
                                           /\ op'[u].grp = group'[c]
    BY <1>1 DEF Pointed, Listed
  <2>1. group'[c] = group[c]
    BY <1>1
  <2>2. CASE group[c] \in live /\ c \in Listed(group[c])
    <3>1. group[c] # g
      BY <1>0, <1>9 DEF Stage, g
    <3> QED  BY <1>1, <2>1, <2>2, <3>1 DEF Listed
  <2>3. ASSUME NEW u \in Thread, op[u].at \in {"clear", "stopped"}, op[u].who = c, op[u].grp = group[c]
        PROVE  op'[u] = op[u]
    BY <1>0, <1>2, <2>3
  <2> QED  BY <1>9, <2>1, <2>2, <2>3 DEF Pointed
<1>5. ListedBack'
  <2> SUFFICES ASSUME NEW h \in live', ~Deleting(h)', NEW c \in members'[h] \cup invited'[h]
               PROVE  phase'[c] # "offline" /\ group'[c] = h
    BY DEF ListedBack, Listed
  <2>1. h \in live /\ h # g /\ ~Deleting(h) /\ c \in Listed(h)
    BY <1>1, <1>3 DEF Listed
  <2>2. phase[c] # "offline" /\ group[c] = h /\ c \in Char
    BY <1>9, <2>1 DEF ListedBack, Listed, ListTypes
  <2>3. c # who
    BY <1>0, <1>9, <2>1 DEF Stage, g, who
  <2> QED  BY <1>1, <2>2, <2>3
<1>6. \A u \in Thread : u # t => Stage(u)' /\ (u = "deletion" => Leaving')
  <2> SUFFICES ASSUME NEW u \in Thread, u # t PROVE Stage(u)' /\ (u = "deletion" => Leaving')
    OBVIOUS
  <2>1. Stage(u) /\ Leaving
    BY <1>0 DEF Calm
  <2>2. \A x \in Char : group'[x] = group[x] \/ (group'[x] \in {None, g} /\ (x \in {who} \/ group[x] = g))
    BY <1>1
  <2>3. op[u].at # "idle" => g # op[u].grp /\ {who} \cap {op[u].user, op[u].who} = {}
    BY <1>9
  <2>4. Elsewhere(u, g, {who})
    BY <1>1, <1>2, <1>3, <1>9, <2>2, <2>3 DEF Elsewhere
  <2> QED  BY <2>1, <2>4, OtherStage
<1>7. Stage(t)'
  BY <1>2 DEF Stage
<1>8. t = "deletion" => Leaving'
  <2> SUFFICES ASSUME t = "deletion" PROVE Leaving'
    OBVIOUS
  <2>1. \A h \in live \ {g} : op[t].user \in Listed(h) => Deleting(h)
    BY <1>0, <1>9 DEF Leaving, Unlisted, g
  <2>2. op'[t].at = "unlist" /\ op'[t].user = op[t].user
    BY <1>2
  <2> QED  BY <1>1, <1>3, <2>1, <2>2 DEF Leaving, Unlisted, Listed
<1> QED  BY <1>4, <1>5, <1>6, <1>7, <1>8 DEF Calm, Thread

LEMMA RemoveCalm ==
  ASSUME TypeInv, GroupShape, Apart, NEW t \in Thread, DismissRemove(t), fault' = "none"
  PROVE  Calm'
<1> DEFINE g == op[t].grp
           who == op[t].who
<1>0. op[t].at = "remove" /\ Calm
  BY DEF DismissRemove, Locking, OnGroup, Running, Apart
<1>9. /\ op \in [Thread -> Op] /\ ListTypes /\ fault = "none" /\ None \notin live
      /\ g \in live /\ g \in GroupId /\ g # None /\ Pointed /\ ListedBack /\ Shape(g)
      /\ \A u \in Thread : u # t /\ op[u].at # "idle" =>
           op[u].grp # g /\ {op[t].user, who} \cap {op[u].user, op[u].who} = {}
      /\ ~Deleting(g)
      /\ \A u \in Thread : op[u].at \in {"find", "invite", "kick", "search"} => op[u].user \in Char
      /\ Stage(t) /\ (t = "deletion" => Leaving)
  BY <1>0, DismissContext
<1>1. /\ members' = [members EXCEPT ![g] = @ \ {who}]
      /\ invited' = IF who \in members[g] THEN invited ELSE [invited EXCEPT ![g] = @ \ {who}]
      /\ \E heir \in Heirs(g, who) : leader' = [leader EXCEPT ![g] = heir]
      /\ Goto(t, "clear") \/ Goto(t, "stopped")
      /\ UNCHANGED <<phase, group, live>>
  BY <1>9 DEF DismissRemove, Locking, OnGroup, Relock, Crash
<1>2. /\ op'[t].at \in {"clear", "stopped"} /\ op'[t].who = who /\ op'[t].grp = g /\ op'[t].user = op[t].user
      /\ \A u \in Thread : u # t => op'[u] = op[u]
  BY <1>1, MovedGoto DEF At, g, who
<1>3. \A h : Deleting(h) => Deleting(h)'
  BY <1>0, <1>2 DEF Deleting
<1> HIDE DEF g, who
<1>4. /\ members'[g] \cup invited'[g] = Listed(g) \ {who}
      /\ \A h \in live : h # g => leader'[h] = leader[h] /\ members'[h] = members[h] /\ invited'[h] = invited[h]
  <2>1. members[g] \cap invited[g] = {}
    BY <1>9 DEF Shape
  <2> QED  BY <1>1, <1>9, <2>1 DEF ListTypes, Listed
<1>5. Pointed'
  <2> SUFFICES ASSUME NEW c \in Char, phase[c] # "offline", group[c] # None
               PROVE  \/ group[c] \in live /\ c \in members'[group[c]] \cup invited'[group[c]]
                      \/ \E u \in Thread : /\ op'[u].at \in {"clear", "stopped"} /\ op'[u].who = c
                                           /\ op'[u].grp = group[c]
    BY <1>1 DEF Pointed, Listed
  <2>1. CASE c = who
    <3>1. group[c] = g
      BY <1>0, <1>9, <2>1 DEF ListedBack, Stage, g, who
    <3> QED  BY <1>2, <2>1, <3>1
  <2>2. CASE c # who /\ group[c] \in live /\ c \in Listed(group[c])
    BY <1>4, <2>2 DEF Listed
  <2>3. ASSUME NEW u \in Thread, op[u].at \in {"clear", "stopped"}, op[u].who = c, op[u].grp = group[c]
        PROVE  op'[u] = op[u]
    BY <1>0, <1>2, <2>3
  <2> QED  BY <1>9, <2>1, <2>2, <2>3 DEF Pointed
<1>6. ListedBack'
  <2> SUFFICES ASSUME NEW h \in live, ~Deleting(h)', NEW c \in members'[h] \cup invited'[h]
               PROVE  phase[c] # "offline" /\ group[c] = h
    BY <1>1 DEF ListedBack, Listed
  <2>1. ~Deleting(h) /\ c \in Listed(h)
    BY <1>3, <1>4 DEF Listed
  <2> QED  BY <1>9, <2>1 DEF ListedBack
<1>7. \A u \in Thread : u # t => Stage(u)' /\ (u = "deletion" => Leaving')
  <2> SUFFICES ASSUME NEW u \in Thread, u # t PROVE Stage(u)' /\ (u = "deletion" => Leaving')
    OBVIOUS
  <2>1. Stage(u) /\ Leaving
    BY <1>0 DEF Calm
  <2>2. op[u].at # "idle" => g # op[u].grp /\ {} \cap {op[u].user, op[u].who} = {}
    BY <1>9
  <2>3. \A x \in members'[g] \cup invited'[g] : g \in live /\ x \in Listed(g) /\ ~Deleting(g)
    BY <1>4, <1>9
  <2>4. Elsewhere(u, g, {})
    BY <1>1, <1>2, <1>3, <1>4, <1>9, <2>2, <2>3 DEF Elsewhere
  <2> QED  BY <2>1, <2>4, OtherStage
<1>8. ASSUME NEW h \in live, who \in members'[h] \cup invited'[h] PROVE Deleting(h)'
  <2>1. h # g /\ who \in Listed(h)
    BY <1>4, <1>8 DEF Listed
  <2>2. who \in Listed(g)
    BY <1>0, <1>9 DEF Stage, g, who
  <2>3. group[who] = g
    BY <1>9, <2>2 DEF ListedBack
  <2> QED  BY <1>3, <1>9, <2>1, <2>3 DEF ListedBack
<1>10. Stage(t)'
  BY <1>1, <1>2, <1>8, <1>9 DEF Stage, Unlisted, Listed
<1>11. t = "deletion" => Leaving'
  <2> SUFFICES ASSUME t = "deletion" PROVE Leaving'
    OBVIOUS
  <2>1. op[t].user = who \/ Unlisted(op[t].user)
    BY <1>0, <1>9 DEF Leaving, who
  <2>2. \A h \in live : op[t].user \in members'[h] \cup invited'[h] => Deleting(h)'
    BY <1>3, <1>4, <1>8, <2>1 DEF Unlisted, Listed
  <2> QED  BY <1>1, <1>2, <2>2 DEF Leaving, Unlisted, Listed
<1> QED  BY <1>5, <1>6, <1>7, <1>10, <1>11 DEF Calm, Thread

LEMMA ClearCalm ==
  ASSUME TypeInv, GroupShape, Apart, NEW t \in Thread, DismissClear(t), fault' = "none"
  PROVE  Calm'
<1> DEFINE g == op[t].grp
           who == op[t].who
<1>0. op[t].at = "clear" /\ Calm
  BY DEF DismissClear, Running, Apart
<1>9. /\ op \in [Thread -> Op] /\ ListTypes /\ fault = "none" /\ None \notin live
      /\ g \in live /\ g \in GroupId /\ g # None /\ Pointed /\ ListedBack
      /\ \A u \in Thread : u # t /\ op[u].at # "idle" =>
           op[u].grp # g /\ {op[t].user, who} \cap {op[u].user, op[u].who} = {}
      /\ ~Deleting(g)
      /\ \A u \in Thread : op[u].at \in {"find", "invite", "kick", "search"} => op[u].user \in Char
      /\ Stage(t) /\ (t = "deletion" => Leaving)
  BY <1>0, DismissContext
<1>1. /\ group' = [c \in Char |-> IF c \in {who} THEN None ELSE group[c]]
      /\ Goto(t, "last") /\ UNCHANGED <<phase, live, lists>>
  BY DEF DismissClear, SetGroup
<1>2. /\ op'[t].at = "last" /\ op'[t].who = who /\ op'[t].grp = g /\ op'[t].user = op[t].user
      /\ \A u \in Thread : u # t => op'[u] = op[u]
  BY <1>1, MovedGoto DEF At, g, who
<1>3. \A h : Deleting(h) => Deleting(h)'
  BY <1>0, <1>2 DEF Deleting
<1> HIDE DEF g, who
<1>4. Unlisted(who)
  BY <1>0, <1>9 DEF Stage, who
<1>5. Pointed'
  <2> SUFFICES ASSUME NEW c \in Char, phase[c] # "offline", group'[c] # None
               PROVE  \/ group'[c] \in live /\ c \in Listed(group'[c])
                      \/ \E u \in Thread : /\ op'[u].at \in {"clear", "stopped"} /\ op'[u].who = c
                                           /\ op'[u].grp = group'[c]
    BY <1>1 DEF Pointed, lists, Listed
  <2>1. group'[c] = group[c] /\ c # who
    BY <1>1
  <2>2. ASSUME NEW u \in Thread, op[u].at \in {"clear", "stopped"}, op[u].who = c, op[u].grp = group[c]
        PROVE  op'[u] = op[u]
    BY <1>2, <2>1, <2>2 DEF who
  <2> QED  BY <1>9, <2>1, <2>2 DEF Pointed
<1>6. ListedBack'
  <2> SUFFICES ASSUME NEW h \in live, ~Deleting(h)', NEW c \in Listed(h)
               PROVE  phase[c] # "offline" /\ group'[c] = h
    BY <1>1 DEF ListedBack, lists, Listed
  <2>1. ~Deleting(h)
    BY <1>3
  <2>2. phase[c] # "offline" /\ group[c] = h /\ c \in Char /\ c # who
    BY <1>4, <1>9, <2>1 DEF ListedBack, Listed, ListTypes, Unlisted
  <2> QED  BY <1>1, <2>2
<1>7. \A u \in Thread : u # t => Stage(u)' /\ (u = "deletion" => Leaving')
  <2> SUFFICES ASSUME NEW u \in Thread, u # t PROVE Stage(u)' /\ (u = "deletion" => Leaving')
    OBVIOUS
  <2>1. Stage(u) /\ Leaving
    BY <1>0 DEF Calm
  <2>2. \A x \in Char : group'[x] = group[x] \/ (group'[x] \in {None, g} /\ (x \in {who} \/ group[x] = g))
    BY <1>1
  <2>3. op[u].at # "idle" => g # op[u].grp /\ {who} \cap {op[u].user, op[u].who} = {}
    BY <1>9
  <2>4. \A x \in members'[g] \cup invited'[g] : g \in live /\ x \in Listed(g) /\ ~Deleting(g)
    BY <1>1, <1>9 DEF lists, Listed
  <2>5. Elsewhere(u, g, {who})
    BY <1>1, <1>2, <1>3, <1>9, <2>2, <2>3, <2>4 DEF Elsewhere, lists
  <2> QED  BY <2>1, <2>5, OtherStage
<1>8. Stage(t)'
  BY <1>1, <1>2, <1>9 DEF Stage
<1>10. t = "deletion" => Leaving'
  <2> SUFFICES ASSUME t = "deletion" PROVE Leaving'
    OBVIOUS
  <2>1. Unlisted(op[t].user)
    BY <1>0, <1>9 DEF Leaving
  <2> QED  BY <1>1, <1>2, <1>3, <2>1 DEF Leaving, Unlisted, lists, Listed
<1> QED  BY <1>5, <1>6, <1>7, <1>8, <1>10 DEF Calm, Thread

LEMMA LastCalm ==
  ASSUME TypeInv, GroupShape, Apart, NEW t \in Thread, DismissLast(t)
  PROVE  Calm'
<1> DEFINE g == op[t].grp
<1>0. op[t].at = "last" /\ Calm
  BY DEF DismissLast, OnGroup, Running, Apart
<1>9. /\ None \notin live /\ g \in live /\ g \in GroupId /\ Shape(g) /\ (t = "deletion" => Leaving)
  BY <1>0, DismissContext
<1>1. /\ DismissAt(t, op[t].user, leader[g], g) \/ Done(t)
      /\ UNCHANGED <<phase, group, live, lists, fault>>
  BY <1>9 DEF DismissLast, OnGroup
<1> HIDE DEF g
<1>2. \A u \in Thread : u # t => op'[u] = op[u]
  BY <1>1, MovedDone, MovedDismiss
<1>3. \A h : Deleting(h) => Deleting(h)'
  BY <1>0, <1>2 DEF Deleting
<1>4. t = "deletion" => Unlisted(op[t].user)
  BY <1>0, <1>9 DEF Leaving
<1>5. CASE DismissAt(t, op[t].user, leader[g], g)
  <2>1. op'[t].at = "check" /\ op'[t].who = leader[g] /\ op'[t].grp = g /\ op'[t].user = op[t].user
    BY <1>5, MovedDismiss
  <2>2. Stage(t)'
    BY <1>1, <1>9, <2>1 DEF Stage, Shape, Listed, lists
  <2>3. t = "deletion" => Leaving'
    BY <1>1, <1>3, <1>4, <2>1 DEF Leaving, Unlisted, lists, Listed
  <2> QED  BY <1>0, <1>1, <1>2, <2>2, <2>3, MoveCalm
<1>6. CASE Done(t)
  <2>1. /\ op'[t].at = IF t = "packet" THEN "idle" ELSE "unlist"
        /\ t = "deletion" => op'[t].user = op[t].user
    BY <1>6, MovedDone
  <2>2. Stage(t)'
    BY <2>1 DEF Stage
  <2>3. t = "deletion" => Leaving'
    BY <1>1, <1>3, <1>4, <2>1 DEF Leaving, Unlisted, lists, Listed
  <2> QED  BY <1>0, <1>1, <1>2, <2>2, <2>3, MoveCalm
<1> QED  BY <1>1, <1>5, <1>6

\* A character nobody is being dismissed of is listed where its pointer goes.
LEMMA OwnGroup ==
  ASSUME Calm, NEW c \in Char, phase[c] # "offline", group[c] # None,
         \A u \in Thread : op[u].at \in {"clear", "stopped"} => op[u].who # c
  PROVE  group[c] \in live /\ c \in Listed(group[c])
BY DEF Calm, Pointed

\* What a step of a request starts from.
LEMMA PacketContext ==
  ASSUME TypeInv, Apart, op["packet"].at # "idle"
  PROVE  /\ op \in [Thread -> Op] /\ ListTypes /\ fault = "none" /\ None \notin live /\ Calm
         /\ "packet" \in Thread /\ "deletion" \in Thread /\ op["packet"].user \in Char
         /\ \A u \in Thread : u # "packet" => u = "deletion"
         /\ op["deletion"].at # "idle" =>
              /\ op["deletion"].grp # op["packet"].grp
              /\ {op["packet"].user, op["packet"].who} \cap {op["deletion"].user, op["deletion"].who} = {}
         /\ (op["packet"].at # "delete" => ~Deleting(op["packet"].grp))
<1>1. op \in [Thread -> Op] /\ ListTypes /\ Known
  BY TypeParts
<1>2. fault = "none" /\ Calm /\ ~Together /\ "packet" \in Thread /\ "deletion" \in Thread
  BY DEF Apart, Thread
<1>3. None \notin live /\ op["packet"].user \in Char
  BY <1>1, <1>2, GroupAssumption DEF ListTypes, Known
<1>4. op["deletion"].at # "idle" =>
        /\ op["deletion"].grp # op["packet"].grp
        /\ {op["packet"].user, op["packet"].who} \cap {op["deletion"].user, op["deletion"].who} = {}
  BY <1>2 DEF Together
<1>5. \A u \in Thread : u # "packet" => u = "deletion"
  BY DEF Thread
<1>6. op["packet"].at # "delete" => ~Deleting(op["packet"].grp)
  BY <1>4, <1>5 DEF Deleting
<1> QED  BY <1>1, <1>2, <1>3, <1>4, <1>5, <1>6

LEMMA NotInvitedCalm ==
  ASSUME TypeInv, Apart, op["packet"].at \in {"find", "invite"}, NotInvited,
         UNCHANGED <<phase, group, live, lists>>
  PROVE  Calm' /\ fault' = fault
<1> DEFINE c == op["packet"].user
           g == op["packet"].grp
<1>1. /\ c \in Char /\ None \notin live /\ Calm /\ Stage("packet") /\ "packet" \in Thread
      /\ op["deletion"].at # "idle" => op["deletion"].who # c
      /\ \A u \in Thread : u # "packet" => u = "deletion"
  BY PacketContext DEF Calm
<1>2. g \in live /\ group[c] = g /\ phase[c] # "offline"
  BY <1>1 DEF Stage
<1>3. fault' = fault /\ (op' = [op EXCEPT !["packet"] = Idle] \/ DismissAt("packet", c, c, g))
  BY <1>1, <1>2 DEF NotInvited
<1>4. CASE op' = [op EXCEPT !["packet"] = Idle]
  <2>1. op'["packet"].at = "idle" /\ \A u \in Thread : u # "packet" => op'[u] = op[u]
    BY <1>1, <1>4, MovedIdle
  <2>2. Stage("packet")'
    BY <2>1 DEF Stage
  <2> QED  BY <1>1, <1>3, <2>1, <2>2, MoveCalm
<1>5. CASE DismissAt("packet", c, c, g)
  <2> HIDE DEF c, g
  <2>1. /\ op'["packet"].at = "check" /\ op'["packet"].who = c /\ op'["packet"].grp = g
        /\ \A u \in Thread : u # "packet" => op'[u] = op[u]
    BY <1>1, <1>5, MovedDismiss
  <2>2. \A u \in Thread : op[u].at \in {"clear", "stopped"} => op[u].who # c
    BY <1>1
  <2>3. c \in Listed(g)
    BY <1>1, <1>2, <2>2, OwnGroup
  <2>4. Stage("packet")'
    BY <1>2, <2>1, <2>3 DEF Stage, lists, Listed
  <2> QED  BY <1>1, <1>3, <2>1, <2>4, MoveCalm
<1> QED  BY <1>3, <1>4, <1>5

LEMMA FindCalm ==
  ASSUME TypeInv, Apart, NEW d \in Char \cup {None}, InviteFind(d)
  PROVE  Calm' /\ fault' = fault
<1> DEFINE c == op["packet"].user
           g == op["packet"].grp
<1>0. op["packet"].at = "find" /\ UNCHANGED <<phase, group, live, lists>>
  BY DEF InviteFind, Running
<1>1. /\ c \in Char /\ None \notin live /\ Calm /\ Stage("packet") /\ "packet" \in Thread
      /\ op["packet"] \in Op /\ op \in [Thread -> Op]
  BY <1>0, PacketContext DEF Calm
<1>2. g \in live /\ group[c] = g /\ phase[c] # "offline"
  BY <1>0, <1>1 DEF Stage
<1>3. \/ op' = [op EXCEPT !["packet"] = Idle] /\ UNCHANGED fault
      \/ /\ op' = [op EXCEPT !["packet"] = [op["packet"] EXCEPT !.at = "invite", !.who = d, !.grp = g]]
         /\ UNCHANGED fault /\ phase[d] # "offline"
      \/ NotInvited
  BY <1>2 DEF InviteFind
<1>4. CASE op' = [op EXCEPT !["packet"] = Idle] /\ UNCHANGED fault
  <2>1. op'["packet"].at = "idle" /\ \A u \in Thread : u # "packet" => op'[u] = op[u]
    BY <1>1, <1>4, MovedIdle
  <2>2. Stage("packet")'
    BY <2>1 DEF Stage
  <2> QED  BY <1>0, <1>1, <1>4, <2>1, <2>2, MoveCalm
<1>5. CASE /\ op' = [op EXCEPT !["packet"] = [op["packet"] EXCEPT !.at = "invite", !.who = d, !.grp = g]]
           /\ UNCHANGED fault /\ phase[d] # "offline"
  <2> DEFINE o == [op["packet"] EXCEPT !.at = "invite", !.who = d, !.grp = g]
  <2>1. o.at = "invite" /\ o.who = d /\ o.grp = g /\ o.user = c
    BY <1>1 DEF Op
  <2>2. op' = [op EXCEPT !["packet"] = o]
    BY <1>5
  <2> HIDE DEF o, c, g
  <2>3. /\ op'["packet"].at = "invite" /\ op'["packet"].who = d /\ op'["packet"].grp = g
        /\ op'["packet"].user = c /\ \A u \in Thread : u # "packet" => op'[u] = op[u]
    BY <1>1, <2>1, <2>2
  <2>4. Stage("packet")'
    BY <1>0, <1>2, <1>5, <2>3 DEF Stage
  <2> QED  BY <1>0, <1>1, <1>5, <2>3, <2>4, MoveCalm
<1>6. CASE NotInvited
  BY <1>0, <1>6, NotInvitedCalm
<1> QED  BY <1>3, <1>4, <1>5, <1>6

LEMMA InviteLockedCalm ==
  ASSUME TypeInv, Apart, InviteLocked
  PROVE  (fault' = fault => Calm') /\ fault' \in {fault, "setgroup"}
<1> DEFINE c == op["packet"].user
           d == op["packet"].who
           g == op["packet"].grp
<1>0. op["packet"].at = "invite"
  BY DEF InviteLocked, Locking, OnGroup, Running
<1>9. /\ op \in [Thread -> Op] /\ ListTypes /\ None \notin live /\ Calm
      /\ "packet" \in Thread /\ "deletion" \in Thread /\ c \in Char /\ d \in Char
      /\ \A u \in Thread : u # "packet" => u = "deletion"
      /\ op["deletion"].at # "idle" =>
              op["deletion"].grp # g /\ {c, d} \cap {op["deletion"].user, op["deletion"].who} = {}
      /\ ~Deleting(g) /\ Stage("packet") /\ Pointed /\ ListedBack
  BY <1>0, PacketContext DEF Calm, TypeInv, Known
<1>1. g \in live /\ g \in GroupId /\ group[c] = g /\ phase[d] # "offline"
  BY <1>0, <1>9 DEF Stage, ListTypes
<1>2. /\ \/ /\ Invitable(g, c, d)
            /\ invited' = [invited EXCEPT ![g] = @ \cup {d}]
            /\ SetGroup({d}, g)
            /\ op' = [op EXCEPT !["packet"] = Idle]
         \/ NotInvited /\ UNCHANGED <<invited, group>>
      /\ UNCHANGED <<phase, live, leader, members>>
  BY <1>1 DEF InviteLocked, Locking, OnGroup
<1>3. CASE NotInvited /\ UNCHANGED <<invited, group>>
  BY <1>0, <1>2, <1>3, NotInvitedCalm DEF lists
<1>4. ASSUME Invitable(g, c, d), invited' = [invited EXCEPT ![g] = @ \cup {d}],
             SetGroup({d}, g), op' = [op EXCEPT !["packet"] = Idle]
      PROVE  Calm' /\ fault' \in {fault, "setgroup"}
  <2> HIDE DEF g, c, d
  <2>1. op'["packet"].at = "idle" /\ \A u \in Thread : u # "packet" => op'[u] = op[u]
    BY <1>4, <1>9, MovedIdle
  <2>2. /\ group' = [x \in Char |-> IF x \in {d} THEN g ELSE group[x]]
        /\ fault' \in {fault, "setgroup"} /\ group[d] \in {None, g}
    BY <1>1, <1>4 DEF SetGroup, Invitable
  <2>3. \A h : Deleting(h) => Deleting(h)'
    BY <1>0, <1>9, <2>1 DEF Deleting
  <2>4. /\ members'[g] \cup invited'[g] = Listed(g) \cup {d}
        /\ \A h \in live : h # g => leader'[h] = leader[h] /\ members'[h] = members[h] /\ invited'[h] = invited[h]
    BY <1>1, <1>2, <1>4, <1>9 DEF ListTypes, Listed
  <2>5. Pointed'
    <3> SUFFICES ASSUME NEW x \in Char, phase[x] # "offline", group'[x] # None
                 PROVE  \/ group'[x] \in live /\ x \in members'[group'[x]] \cup invited'[group'[x]]
                        \/ \E u \in Thread : /\ op'[u].at \in {"clear", "stopped"} /\ op'[u].who = x
                                             /\ op'[u].grp = group'[x]
      BY <1>2 DEF Pointed, Listed
    <3>1. CASE x = d
      BY <1>1, <2>2, <2>4, <3>1
    <3>2. CASE x # d /\ group[x] \in live /\ x \in Listed(group[x])
      BY <2>2, <2>4, <3>2 DEF Listed
    <3>3. ASSUME NEW u \in Thread, op[u].at \in {"clear", "stopped"}, op[u].who = x, op[u].grp = group[x]
          PROVE  op'[u] = op[u]
      BY <1>0, <2>1, <3>3
    <3> QED  BY <1>9, <2>2, <3>1, <3>2, <3>3 DEF Pointed
  <2>6. ListedBack'
    <3> SUFFICES ASSUME NEW h \in live, ~Deleting(h)', NEW x \in members'[h] \cup invited'[h]
                 PROVE  phase[x] # "offline" /\ group'[x] = h
      BY <1>2 DEF ListedBack, Listed
    <3>1. CASE x = d
      <4>1. h # g => x \in Listed(h) /\ ~Deleting(h)
        BY <2>3, <2>4 DEF Listed
      <4> QED  BY <1>1, <1>9, <2>2, <3>1, <4>1 DEF ListedBack
    <3>2. CASE x # d
      <4>1. x \in Listed(h) /\ ~Deleting(h)
        BY <2>3, <2>4, <3>2 DEF Listed
      <4>2. x \in Char /\ phase[x] # "offline" /\ group[x] = h
        BY <1>9, <4>1 DEF ListedBack, ListTypes, Listed
      <4> QED  BY <2>2, <3>2, <4>2
    <3> QED  BY <3>1, <3>2
  <2>7. Stage("deletion")' /\ Leaving'
    <3>1. Stage("deletion") /\ Leaving
      BY <1>9 DEF Calm
    <3>2. \A x \in Char : group'[x] = group[x] \/ (group'[x] \in {None, g} /\ (x \in {d} \/ group[x] = g))
      BY <2>2
    <3>3. op["deletion"].at # "idle" => g # op["deletion"].grp /\ {d} \cap {op["deletion"].user, op["deletion"].who} = {}
      BY <1>9
    <3>4. \A x \in members'[g] \cup invited'[g] : x \in {d} \/ (g \in live /\ x \in Listed(g) /\ ~Deleting(g))
      BY <1>1, <1>9, <2>4
    <3>5. op["deletion"].at \notin {"find", "invite", "kick", "search"} /\ op'["deletion"] = op["deletion"]
      BY <1>9, <2>1 DEF TypeInv, TypeOK
    <3>6. Elsewhere("deletion", g, {d})
      BY <1>2, <1>9, <2>3, <2>4, <3>2, <3>3, <3>4, <3>5 DEF Elsewhere
    <3> QED  BY <1>9, <3>1, <3>6, OtherStage
  <2>8. Stage("packet")'
    BY <2>1 DEF Stage
  <2> QED  BY <2>2, <2>5, <2>6, <2>7, <2>8 DEF Calm, Thread
<1> QED  BY <1>2, <1>3, <1>4

LEMMA JoinLockedCalm ==
  ASSUME TypeInv, Apart, JoinLocked
  PROVE  (fault' = fault => Calm') /\ fault' \in {fault, "join"}
<1> DEFINE c == op["packet"].who
           g == op["packet"].grp
<1>0. op["packet"].at = "join"
  BY DEF JoinLocked, Locking, OnGroup, Running
<1>9. /\ op \in [Thread -> Op] /\ ListTypes /\ None \notin live /\ Calm
      /\ "packet" \in Thread /\ "deletion" \in Thread
      /\ \A u \in Thread : u # "packet" => u = "deletion"
      /\ op["deletion"].at # "idle" => op["deletion"].grp # g
      /\ ~Deleting(g) /\ Stage("packet") /\ Pointed /\ ListedBack
  BY <1>0, PacketContext DEF Calm
<1>1. g \in live /\ g \in GroupId /\ c \in Char /\ group[c] = g /\ phase[c] # "offline"
  BY <1>0, <1>9 DEF Stage, ListTypes
<1>2. /\ \/ op' = [op EXCEPT !["packet"] = Idle] /\ UNCHANGED <<members, invited, fault>>
         \/ /\ c \in invited[g]
            /\ invited' = [invited EXCEPT ![g] = @ \ {c}]
            /\ members' = [members EXCEPT ![g] = @ \cup {c}]
            /\ fault' \in {fault, "join"}
            /\ Goto("packet", "joined") \/ Goto("packet", "stopped")
      /\ UNCHANGED <<phase, group, live, leader>>
  BY <1>1 DEF JoinLocked, Locking, OnGroup, Relock
<1> HIDE DEF g, c
<1>3. ASSUME op' = [op EXCEPT !["packet"] = Idle], UNCHANGED <<members, invited, fault>>
      PROVE  Calm'
  <2>1. op'["packet"].at = "idle" /\ \A u \in Thread : u # "packet" => op'[u] = op[u]
    BY <1>3, <1>9, MovedIdle
  <2>2. Stage("packet")'
    BY <2>1 DEF Stage
  <2> QED  BY <1>0, <1>2, <1>3, <1>9, <2>1, <2>2, MoveCalm DEF lists
<1>4. ASSUME c \in invited[g], invited' = [invited EXCEPT ![g] = @ \ {c}],
             members' = [members EXCEPT ![g] = @ \cup {c}],
             Goto("packet", "joined") \/ Goto("packet", "stopped")
      PROVE  Calm'
  <2>1. /\ op'["packet"].at \in {"joined", "stopped"} /\ op'["packet"].who = c /\ op'["packet"].grp = g
        /\ \A u \in Thread : u # "packet" => op'[u] = op[u]
    BY <1>4, <1>9, MovedGoto DEF At, c, g
  <2>2. \A h : Deleting(h) => Deleting(h)'
    BY <1>0, <1>9, <2>1 DEF Deleting
  <2>3. /\ \A h \in live : members'[h] \cup invited'[h] = Listed(h)
        /\ \A h \in live : h # g => members'[h] = members[h] /\ invited'[h] = invited[h]
    BY <1>1, <1>4, <1>9 DEF ListTypes, Listed
  <2>4. Pointed'
    <3> SUFFICES ASSUME NEW x \in Char, phase[x] # "offline", group[x] # None
                 PROVE  \/ group[x] \in live /\ x \in Listed(group[x])
                        \/ \E u \in Thread : /\ op'[u].at \in {"clear", "stopped"} /\ op'[u].who = x
                                             /\ op'[u].grp = group[x]
      BY <1>2, <2>3 DEF Pointed, Listed
    <3>1. ASSUME NEW u \in Thread, op[u].at \in {"clear", "stopped"} PROVE op'[u] = op[u]
      BY <1>0, <2>1, <3>1
    <3> QED  BY <1>9, <3>1 DEF Pointed
  <2>5. ListedBack'
    <3> SUFFICES ASSUME NEW h \in live, ~Deleting(h)', NEW x \in Listed(h)
                 PROVE  phase[x] # "offline" /\ group[x] = h
      BY <1>2, <2>3 DEF ListedBack, Listed
    <3> QED  BY <1>9, <2>2 DEF ListedBack
  <2>6. Stage("deletion")' /\ Leaving'
    <3>1. Stage("deletion") /\ Leaving
      BY <1>9 DEF Calm
    <3>2. op["deletion"].at # "idle" => g # op["deletion"].grp /\ {} \cap {op["deletion"].user, op["deletion"].who} = {}
      BY <1>9
    <3>3. \A x \in members'[g] \cup invited'[g] : g \in live /\ x \in Listed(g) /\ ~Deleting(g)
      BY <1>1, <1>9, <2>3
    <3>4. op["deletion"].at \notin {"find", "invite", "kick", "search"} /\ op'["deletion"] = op["deletion"]
      BY <1>9, <2>1 DEF TypeInv, TypeOK
    <3>5. Elsewhere("deletion", g, {})
      BY <1>2, <1>9, <2>2, <2>3, <3>2, <3>3, <3>4 DEF Elsewhere
    <3> QED  BY <1>9, <3>1, <3>5, OtherStage
  <2>7. Stage("packet")'
    BY <1>1, <1>2, <2>1 DEF Stage
  <2> QED  BY <2>4, <2>5, <2>6, <2>7 DEF Calm, Thread
<1> QED  BY <1>2, <1>3, <1>4

\* The steps of a request that only move on.
LEMMA NotifyCalm ==
  ASSUME TypeInv, Apart, JoinNotify
  PROVE  Calm' /\ fault' = fault
<1> DEFINE c == op["packet"].who
<1>0. op["packet"].at = "joined"
  BY DEF JoinNotify, Running
<1>1. /\ None \notin live /\ Calm /\ "packet" \in Thread /\ Stage("packet") /\ op \in [Thread -> Op]
  BY <1>0, PacketContext DEF Calm
<1>2. group[c] \in live
  BY <1>0, <1>1 DEF Stage
<1>3. op' = [op EXCEPT !["packet"] = Idle] /\ UNCHANGED <<phase, group, live, lists, fault>>
  BY <1>1, <1>2 DEF JoinNotify
<1>4. op'["packet"].at = "idle" /\ \A u \in Thread : u # "packet" => op'[u] = op[u]
  BY <1>1, <1>3, MovedIdle
<1>5. Stage("packet")'
  BY <1>4 DEF Stage
<1> QED  BY <1>0, <1>1, <1>3, <1>4, <1>5, MoveCalm

LEMMA KickCalm ==
  ASSUME TypeInv, Apart, KickLocked
  PROVE  Calm' /\ fault' = fault
<1> DEFINE c == op["packet"].user
           g == op["packet"].grp
<1>0. op["packet"].at = "kick"
  BY DEF KickLocked, Locking, OnGroup, Running
<1>1. /\ None \notin live /\ Calm /\ "packet" \in Thread /\ Stage("packet") /\ op \in [Thread -> Op]
  BY <1>0, PacketContext DEF Calm
<1>2. g \in live /\ group[c] = g /\ phase[c] # "offline"
  BY <1>0, <1>1 DEF Stage
<1>3. /\ \/ Goto("packet", "search")
         \/ op' = [op EXCEPT !["packet"] = Idle]
      /\ UNCHANGED <<phase, group, live, lists, fault>>
  BY <1>2 DEF KickLocked, Locking, OnGroup
<1>4. CASE op' = [op EXCEPT !["packet"] = Idle]
  <2>1. op'["packet"].at = "idle" /\ \A u \in Thread : u # "packet" => op'[u] = op[u]
    BY <1>1, <1>4, MovedIdle
  <2>2. Stage("packet")'
    BY <2>1 DEF Stage
  <2> QED  BY <1>0, <1>1, <1>3, <2>1, <2>2, MoveCalm
<1>5. CASE Goto("packet", "search")
  <2> HIDE DEF c, g
  <2>1. /\ op'["packet"].at = "search" /\ op'["packet"].user = c /\ op'["packet"].grp = g
        /\ \A u \in Thread : u # "packet" => op'[u] = op[u]
    BY <1>1, <1>5, MovedGoto DEF At, c, g
  <2>2. Stage("packet")'
    BY <1>2, <1>3, <2>1 DEF Stage
  <2> QED  BY <1>0, <1>1, <1>3, <2>1, <2>2, MoveCalm
<1> QED  BY <1>3, <1>4, <1>5

LEMMA SearchCalm ==
  ASSUME TypeInv, Apart, KickSearch
  PROVE  Calm' /\ fault' = fault
<1> DEFINE c == op["packet"].user
           g == group[c]
<1>0. op["packet"].at = "search"
  BY DEF KickSearch, Running
<1>1. /\ None \notin live /\ Calm /\ "packet" \in Thread /\ Stage("packet") /\ op \in [Thread -> Op]
  BY <1>0, PacketContext DEF Calm
<1>2. g \in live
  BY <1>0, <1>1 DEF Stage
<1>3. /\ \/ \E d \in Listed(g) : DismissAt("packet", c, d, g)
         \/ op' = [op EXCEPT !["packet"] = Idle]
      /\ UNCHANGED <<phase, group, live, lists, fault>>
  BY <1>1, <1>2 DEF KickSearch
<1>4. CASE op' = [op EXCEPT !["packet"] = Idle]
  <2>1. op'["packet"].at = "idle" /\ \A u \in Thread : u # "packet" => op'[u] = op[u]
    BY <1>1, <1>4, MovedIdle
  <2>2. Stage("packet")'
    BY <2>1 DEF Stage
  <2> QED  BY <1>0, <1>1, <1>3, <2>1, <2>2, MoveCalm
<1>5. ASSUME NEW d \in Listed(g), DismissAt("packet", c, d, g)
      PROVE  Calm' /\ fault' = fault
  <2> HIDE DEF c, g
  <2>1. /\ op'["packet"].at = "check" /\ op'["packet"].who = d /\ op'["packet"].grp = g
        /\ \A u \in Thread : u # "packet" => op'[u] = op[u]
    BY <1>1, <1>5, MovedDismiss
  <2>2. Stage("packet")'
    BY <1>2, <1>3, <1>5, <2>1 DEF Stage, lists, Listed
  <2> QED  BY <1>0, <1>1, <1>3, <2>1, <2>2, MoveCalm
<1> QED  BY <1>3, <1>4, <1>5

\* The packet thread starts a request of c, on group g.
Starts(c, g, p) ==
  /\ op["packet"] = Idle /\ phase[c] = "online"
  /\ op'["packet"].at = p /\ op'["packet"].user = c /\ op'["packet"].who = c /\ op'["packet"].grp = g
  /\ \A u \in Thread : u # "packet" => op'[u] = op[u]

\* What a request starts from, unless a logoff is under way in that group or on
\* that character.
LEMMA StartContext ==
  ASSUME TypeInv, Apart, ~Together', NEW c \in Char, NEW g, NEW p \in At, p # "idle", Starts(c, g, p)
  PROVE  /\ op \in [Thread -> Op] /\ ListTypes /\ None \notin live /\ Calm
         /\ "packet" \in Thread /\ "deletion" \in Thread
         /\ \A u \in Thread : u # "packet" => u = "deletion"
         /\ op'["deletion"] = op["deletion"] /\ op["deletion"].at \notin {"find", "invite", "kick", "search"}
         /\ op["deletion"].at # "idle" =>
              op["deletion"].grp # g /\ {c} \cap {op["deletion"].user, op["deletion"].who} = {}
         /\ op["packet"].at = "idle"
         /\ group[c] # None => group[c] \in live /\ c \in Listed(group[c])
<1>1. op \in [Thread -> Op] /\ ListTypes
  BY TypeParts
<1>2. /\ Calm /\ "packet" \in Thread /\ "deletion" \in Thread /\ \A u \in Thread : u # "packet" => u = "deletion"
  BY DEF Apart, Thread
<1>3. None \notin live
  BY <1>1, GroupAssumption DEF ListTypes
<1>4. op'["deletion"] = op["deletion"] /\ op["deletion"].at \notin {"find", "invite", "kick", "search"} /\ op["packet"].at = "idle"
  BY <1>2, IdleOp DEF Starts, TypeInv, TypeOK
<1>5. op["deletion"].at # "idle" =>
        op["deletion"].grp # g /\ {c} \cap {op["deletion"].user, op["deletion"].who} = {}
  BY <1>4 DEF Together, Starts
<1>6. \A u \in Thread : op[u].at \in {"clear", "stopped"} => op[u].who # c
  BY <1>2, <1>4, <1>5
<1>7. group[c] # None => group[c] \in live /\ c \in Listed(group[c])
  BY <1>2, <1>6, OwnGroup DEF Starts
<1> QED  BY <1>1, <1>2, <1>3, <1>4, <1>5, <1>7

LEMMA RequestCalm ==
  ASSUME TypeInv, Apart, ~Together', NEW c \in Char, GroupJoin(c) \/ GroupLeave(c) \/ GroupKick(c)
  PROVE  Calm' /\ fault' = fault
<1> DEFINE g == group[c]
           o(p) == [at |-> p, user |-> c, who |-> c, grp |-> g, fresh |-> FALSE]
<1>1. /\ g # None /\ op["packet"] = Idle /\ phase[c] = "online" /\ UNCHANGED <<phase, group, live, lists, fault>>
      /\ \E p \in {"join", "check", "kick"} : op' = [op EXCEPT !["packet"] = o(p)]
  BY DEF GroupJoin, GroupLeave, GroupKick, Requesting, Free, DismissAt
<1>2. PICK p \in {"join", "check", "kick"} : op' = [op EXCEPT !["packet"] = o(p)]
  BY <1>1
<1>3. o(p).at = p /\ o(p).user = c /\ o(p).who = c /\ o(p).grp = g /\ p \in At /\ p # "idle"
  BY DEF At
<1> DEFINE r == o(p)
<1>4. r.at = p /\ r.user = c /\ r.who = c /\ r.grp = g /\ op' = [op EXCEPT !["packet"] = r]
  BY <1>2, <1>3
<1> HIDE DEF r, o
<1>5. op'["packet"] = r /\ \A u \in Thread : u # "packet" => op'[u] = op[u]
  BY <1>4, TypeParts DEF Thread
<1>6. Starts(c, g, p)
  BY <1>1, <1>4, <1>5 DEF Starts
<1>7. /\ Calm /\ "packet" \in Thread /\ op["packet"].at = "idle" /\ g \in live /\ c \in Listed(g)
  BY <1>1, <1>3, <1>6, StartContext
<1>8. Stage("packet")'
  BY <1>1, <1>4, <1>5, <1>7 DEF Stage, lists, Listed
<1> QED  BY <1>1, <1>5, <1>7, <1>8, MoveCalm

LEMMA GroupInviteCalm ==
  ASSUME TypeInv, Apart, ~Together', NEW c \in Char, GroupInvite(c)
  PROVE  Calm' /\ fault' = fault
<1>1. PICK g \in GroupId :
        /\ IF group[c] = None
           THEN /\ g \notin live
                /\ live' = live \cup {g}
                /\ leader' = [leader EXCEPT ![g] = c]
                /\ members' = [members EXCEPT ![g] = {c}]
                /\ invited' = [invited EXCEPT ![g] = {}]
                /\ group' = [group EXCEPT ![c] = g]
           ELSE g = group[c] /\ UNCHANGED <<live, lists, group>>
        /\ op' = [op EXCEPT !["packet"] =
                    [at |-> "find", user |-> c, who |-> c, grp |-> g, fresh |-> group[c] = None]]
  BY DEF GroupInvite
<1>2. /\ op["packet"] = Idle /\ phase[c] = "online" /\ UNCHANGED <<phase, fault>>
  BY DEF GroupInvite, Requesting, Free
<1> DEFINE o == [at |-> "find", user |-> c, who |-> c, grp |-> g, fresh |-> group[c] = None]
<1>3. o.at = "find" /\ o.user = c /\ o.who = c /\ o.grp = g /\ op' = [op EXCEPT !["packet"] = o]
  BY <1>1
<1> HIDE DEF o
<1>4. op'["packet"] = o /\ \A u \in Thread : u # "packet" => op'[u] = op[u]
  BY <1>3, TypeParts DEF Thread
<1>5. Starts(c, g, "find") /\ "find" \in At
  BY <1>2, <1>3, <1>4 DEF Starts, At
<1>6. /\ op \in [Thread -> Op] /\ ListTypes /\ None \notin live /\ Calm
      /\ "packet" \in Thread /\ "deletion" \in Thread
      /\ \A u \in Thread : u # "packet" => u = "deletion"
      /\ op'["deletion"] = op["deletion"] /\ op["deletion"].at \notin {"find", "invite", "kick", "search"}
      /\ op["deletion"].at # "idle" =>
              op["deletion"].grp # g /\ {c} \cap {op["deletion"].user, op["deletion"].who} = {}
      /\ op["packet"].at = "idle"
      /\ group[c] # None => group[c] \in live /\ c \in Listed(group[c])
  BY <1>5, StartContext
<1>7. g # None /\ Pointed /\ ListedBack
  BY <1>6, GroupAssumption DEF Calm
<1>8. \A h : Deleting(h) => Deleting(h)'
  BY <1>4, <1>6 DEF Deleting
<1>9. CASE group[c] # None
  <2>1. g = group[c] /\ UNCHANGED <<phase, group, live, lists>>
    BY <1>1, <1>2, <1>9
  <2>2. Stage("packet")'
    BY <1>2, <1>3, <1>4, <1>6, <1>9, <2>1 DEF Stage
  <2> QED  BY <1>2, <1>4, <1>6, <2>1, <2>2, MoveCalm
<1>10. CASE group[c] = None
  <2>1. /\ g \notin live /\ live' = live \cup {g}
        /\ members' = [members EXCEPT ![g] = {c}]
        /\ invited' = [invited EXCEPT ![g] = {}]
        /\ leader' = [leader EXCEPT ![g] = c]
        /\ group' = [group EXCEPT ![c] = g]
    BY <1>1, <1>10
  <2>2. /\ members'[g] \cup invited'[g] = {c}
        /\ \A h \in live : h # g /\ leader'[h] = leader[h] /\ members'[h] = members[h] /\ invited'[h] = invited[h]
    BY <1>6, <2>1 DEF ListTypes
  <2>3. group'[c] = g /\ \A x \in Char : x # c => group'[x] = group[x]
    BY <1>6, <2>1 DEF ListTypes
  <2>4. Pointed'
    <3> SUFFICES ASSUME NEW x \in Char, phase[x] # "offline", group'[x] # None
                 PROVE  \/ group'[x] \in live' /\ x \in members'[group'[x]] \cup invited'[group'[x]]
                        \/ \E u \in Thread : /\ op'[u].at \in {"clear", "stopped"} /\ op'[u].who = x
                                             /\ op'[u].grp = group'[x]
      BY <1>2 DEF Pointed, Listed
    <3>1. CASE x = c
      BY <2>1, <2>2, <2>3, <3>1
    <3>2. CASE x # c /\ group[x] \in live /\ x \in Listed(group[x])
      BY <2>1, <2>2, <2>3, <3>2 DEF Listed
    <3>3. ASSUME NEW u \in Thread, op[u].at \in {"clear", "stopped"}, op[u].who = x, op[u].grp = group[x]
          PROVE  op'[u] = op[u]
      BY <1>4, <1>6, <3>3
    <3> QED  BY <1>7, <2>3, <3>1, <3>2, <3>3 DEF Pointed
  <2>5. ListedBack'
    <3> SUFFICES ASSUME NEW h \in live', ~Deleting(h)', NEW x \in members'[h] \cup invited'[h]
                 PROVE  phase[x] # "offline" /\ group'[x] = h
      BY <1>2 DEF ListedBack, Listed
    <3>1. CASE h = g
      BY <1>2, <2>2, <2>3, <3>1
    <3>2. CASE h # g
      <4>1. h \in live /\ x \in Listed(h) /\ ~Deleting(h)
        BY <1>8, <2>1, <2>2, <3>2 DEF Listed
      <4>2. x \in Char /\ phase[x] # "offline" /\ group[x] = h
        BY <1>6, <1>7, <4>1 DEF ListedBack, ListTypes, Listed
      <4>3. x # c
        BY <1>6, <1>10, <4>1, <4>2
      <4> QED  BY <2>3, <4>2, <4>3
    <3> QED  BY <3>1, <3>2
  <2>6. Stage("deletion")' /\ Leaving'
    <3>1. Stage("deletion") /\ Leaving
      BY <1>6 DEF Calm
    <3>2. \A x \in Char : group'[x] = group[x] \/ (group'[x] \in {None, g} /\ (x \in {c} \/ group[x] = g))
      BY <2>3
    <3>3. op["deletion"].at # "idle" => g # op["deletion"].grp /\ {c} \cap {op["deletion"].user, op["deletion"].who} = {}
      BY <1>6
    <3>4. \A x \in members'[g] \cup invited'[g] : x \in {c}
      BY <2>2
    <3>5. Elsewhere("deletion", g, {c})
      BY <1>2, <1>6, <1>8, <2>1, <2>2, <3>2, <3>3, <3>4 DEF Elsewhere
    <3> QED  BY <1>6, <3>1, <3>5, OtherStage
  <2>7. Stage("packet")'
    BY <1>2, <1>3, <1>4, <2>1, <2>3 DEF Stage
  <2> QED  BY <1>2, <2>4, <2>5, <2>6, <2>7 DEF Calm, Thread
<1> QED  BY <1>2, <1>9, <1>10

LEMMA LoginCalm ==
  ASSUME TypeInv, Apart, NEW c \in Char, Login(c)
  PROVE  Calm' /\ fault' = fault
<1>1. /\ phase[c] = "offline" /\ phase' = [phase EXCEPT ![c] = "online"]
      /\ group' = [group EXCEPT ![c] = None] /\ UNCHANGED <<live, lists, op, fault>>
  BY DEF Login
<1>2. /\ ListTypes /\ Known /\ None \notin live /\ Calm /\ op["deletion"].at \notin {"find", "invite", "kick", "search"}
  BY TypeParts, GroupAssumption DEF Apart, ListTypes, TypeInv, TypeOK
<1>3. /\ group'[c] = None
      /\ \A x \in Char : x # c => group'[x] = group[x] /\ phase'[x] = phase[x]
      /\ \A x \in Char : phase[x] # "offline" => x # c /\ phase'[x] = phase[x] /\ group'[x] = group[x]
  BY <1>1, <1>2 DEF ListTypes
<1>4. \A h : Deleting(h)' <=> Deleting(h)
  BY <1>1 DEF Deleting
<1>5. Pointed'
  BY <1>1, <1>2, <1>3 DEF Calm, Pointed, lists, Listed
<1>6. ListedBack'
  <2> SUFFICES ASSUME NEW h \in live, ~Deleting(h)', NEW x \in Listed(h)
               PROVE  phase'[x] # "offline" /\ group'[x] = h
    BY <1>1 DEF ListedBack, lists, Listed
  <2>1. x \in Char /\ phase[x] # "offline" /\ group[x] = h
    BY <1>2, <1>4 DEF Calm, ListedBack, ListTypes, Listed
  <2> QED  BY <1>3, <2>1
<1>7. ASSUME NEW t \in Thread PROVE Stage(t)'
  <2>1. Stage(t) /\ (op[t].at = "invite" => op[t].who \in Char) /\ (op[t].at # "idle" => op[t].user \in Char)
    BY <1>2, <1>7 DEF Calm, Known, Thread
  <2>2. \A x \in Char : \A h \in live : group'[x] = h => group[x] = h /\ phase[x] = phase'[x]
    BY <1>2, <1>3
  <2> QED  BY <1>1, <1>3, <1>4, <2>1, <2>2 DEF Stage, lists, Listed, Unlisted
<1>8. Leaving'
  BY <1>1, <1>2, <1>4 DEF Calm, Leaving, Unlisted, lists, Listed
<1> QED  BY <1>1, <1>5, <1>6, <1>7, <1>8 DEF Calm

LEMMA QuitCalm ==
  ASSUME TypeInv, Apart, NEW c \in Char, Quit(c)
  PROVE  Calm' /\ fault' = fault
<1>1. /\ phase[c] = "online" /\ phase' = [phase EXCEPT ![c] = "leaving"] /\ UNCHANGED <<group, live, lists, op, fault>>
  BY DEF Quit
<1>2. ListTypes /\ Known /\ Calm
  BY TypeParts DEF Apart
<1>3. \A x : phase'[x] # "offline" <=> phase[x] # "offline"
  BY <1>1, <1>2 DEF ListTypes
<1>4. \A h : Deleting(h)' <=> Deleting(h)
  BY <1>1 DEF Deleting
<1>5. Pointed' /\ ListedBack'
  BY <1>1, <1>2, <1>3, <1>4 DEF Calm, Pointed, ListedBack, lists, Listed
<1>6. ASSUME NEW t \in Thread PROVE Stage(t)'
  <2>1. Stage(t)
    BY <1>2 DEF Calm
  <2> QED  BY <1>1, <1>3, <1>4, <2>1 DEF Stage, lists, Listed, Unlisted
<1>7. Leaving'
  BY <1>1, <1>2, <1>4 DEF Calm, Leaving, Unlisted, lists, Listed
<1> QED  BY <1>1, <1>5, <1>6, <1>7 DEF Calm

LEMMA LogoffCalm ==
  ASSUME TypeInv, Apart, ~Together', NEW c \in Char, Logoff(c)
  PROVE  Calm' /\ fault' = fault
<1> DEFINE g == group[c]
           o == [Idle EXCEPT !.at = "unlist", !.user = c]
<1>0. /\ op["deletion"] = Idle /\ phase[c] = "leaving" /\ phase' = [phase EXCEPT ![c] = "departed"]
      /\ IF g # None THEN DismissAt("deletion", c, c, g) ELSE op' = [op EXCEPT !["deletion"] = o]
      /\ UNCHANGED <<group, live, lists, fault>>
  BY DEF Logoff, Free
<1>1. /\ ListTypes /\ Known /\ Calm /\ "packet" \in Thread /\ "deletion" \in Thread /\ op \in [Thread -> Op]
      /\ None \notin live /\ op["deletion"].at = "idle"
      /\ \A u \in Thread : u # "deletion" => u = "packet"
  BY <1>0, TypeParts, IdleOp, GroupAssumption DEF Apart, Thread, ListTypes
<1>2. o.at = "unlist" /\ o.user = c
  BY DEF Idle
<1> HIDE DEF o
<1>3. /\ op'["packet"] = op["packet"] /\ op'["deletion"].user = c
      /\ g # None => op'["deletion"].at = "check" /\ op'["deletion"].grp = g /\ op'["deletion"].who = c
      /\ g = None => op'["deletion"].at = "unlist"
  <2>1. CASE g # None
    BY <1>0, <1>1, <2>1, MovedDismiss
  <2>2. CASE g = None
    BY <1>0, <1>1, <1>2, <2>2
  <2> QED  BY <2>1, <2>2
<1>4. \A x : phase'[x] # "offline" <=> phase[x] # "offline"
  BY <1>0, <1>1 DEF ListTypes
<1>5. \A h : Deleting(h)' <=> Deleting(h)
  BY <1>0, <1>1, <1>3 DEF Deleting
<1>6. g # None => g \in live /\ c \in Listed(g)
  <2> SUFFICES ASSUME g # None PROVE g \in live /\ c \in Listed(g)
    OBVIOUS
  <2>1. op["packet"].at # "idle" => op["packet"].who # c
    BY <1>3 DEF Together
  <2>2. \A u \in Thread : op[u].at \in {"clear", "stopped"} => op[u].who # c
    BY <1>1, <2>1
  <2> QED  BY <1>0, <1>1, <2>2, OwnGroup
<1>7. Pointed'
  <2> SUFFICES ASSUME NEW x \in Char, phase[x] # "offline", group[x] # None
               PROVE  \/ group[x] \in live /\ x \in Listed(group[x])
                      \/ \E u \in Thread : /\ op'[u].at \in {"clear", "stopped"} /\ op'[u].who = x
                                           /\ op'[u].grp = group[x]
    BY <1>0, <1>4 DEF Pointed, lists, Listed
  <2>1. ASSUME NEW u \in Thread, op[u].at \in {"clear", "stopped"} PROVE op'[u] = op[u]
    BY <1>1, <1>3, <2>1
  <2> QED  BY <1>1, <2>1 DEF Calm, Pointed
<1>8. ListedBack'
  BY <1>0, <1>1, <1>4, <1>5 DEF Calm, ListedBack, lists, Listed
<1>9. Stage("packet")'
  <2>1. Stage("packet")
    BY <1>1 DEF Calm
  <2> QED  BY <1>0, <1>3, <1>4, <1>5, <2>1 DEF Stage, lists, Listed, Unlisted
<1>10. Stage("deletion")'
  BY <1>0, <1>3, <1>6 DEF Stage, lists, Listed
<1>11. Leaving'
  <2>1. CASE g # None
    BY <1>3, <2>1 DEF Leaving
  <2>2. CASE g = None
    <3>1. Unlisted(c)
      BY <1>1, <2>2 DEF Calm, ListedBack, Unlisted
    <3> QED  BY <1>0, <1>3, <1>5, <3>1 DEF Leaving, Unlisted, lists, Listed
  <2> QED  BY <2>1, <2>2
<1> QED  BY <1>0, <1>7, <1>8, <1>9, <1>10, <1>11 DEF Calm, Thread

LEMMA UnlistCalm ==
  ASSUME TypeInv, Apart, NEW c \in Char, Unlist(c)
  PROVE  Calm' /\ fault' = fault
<1>0. /\ op["deletion"].at = "unlist" /\ c = op["deletion"].user /\ phase' = [phase EXCEPT ![c] = "offline"]
      /\ op' = [op EXCEPT !["deletion"] = Idle] /\ UNCHANGED <<group, live, lists, fault>>
  BY DEF Unlist, Running
<1>1. /\ ListTypes /\ Known /\ Calm /\ "packet" \in Thread /\ "deletion" \in Thread /\ ~Together
      /\ \A u \in Thread : u # "deletion" => u = "packet"
  BY TypeParts DEF Apart, Thread
<1>2. op'["deletion"].at = "idle" /\ op'["packet"] = op["packet"]
  BY <1>0, <1>1, MovedIdle
<1>3. Unlisted(c)
  BY <1>0, <1>1 DEF Calm, Leaving
<1>4. \A h : Deleting(h)' <=> Deleting(h)
  BY <1>0, <1>1, <1>2 DEF Deleting
<1>5. \A x \in Char : x # c => phase'[x] = phase[x]
  BY <1>0, <1>1 DEF ListTypes
<1>6. \A x \in Char : phase'[x] # "offline" => x # c /\ phase[x] # "offline"
  BY <1>0, <1>1 DEF ListTypes
<1>7. Pointed'
  <2> SUFFICES ASSUME NEW x \in Char, phase'[x] # "offline", group[x] # None
               PROVE  \/ group[x] \in live /\ x \in Listed(group[x])
                      \/ \E u \in Thread : /\ op'[u].at \in {"clear", "stopped"} /\ op'[u].who = x
                                           /\ op'[u].grp = group[x]
    BY <1>0 DEF Pointed, lists, Listed
  <2>1. ASSUME NEW u \in Thread, op[u].at \in {"clear", "stopped"} PROVE op'[u] = op[u]
    BY <1>0, <1>1, <1>2, <2>1
  <2> QED  BY <1>1, <1>6, <2>1 DEF Calm, Pointed
<1>8. ListedBack'
  <2> SUFFICES ASSUME NEW h \in live, ~Deleting(h)', NEW x \in Listed(h)
               PROVE  phase'[x] # "offline" /\ group[x] = h
    BY <1>0 DEF ListedBack, lists, Listed
  <2>1. x \in Char /\ phase[x] # "offline" /\ group[x] = h
    BY <1>1, <1>4 DEF Calm, ListedBack, ListTypes, Listed
  <2>2. x # c
    BY <1>3, <1>4 DEF Unlisted
  <2> QED  BY <1>5, <2>1, <2>2
<1>9. Stage("packet")'
  <2>1. Stage("packet") /\ (op["packet"].at = "invite" => op["packet"].who \in Char)
        /\ (op["packet"].at # "idle" => op["packet"].user \in Char)
    BY <1>1 DEF Calm, Known
  <2>2. op["packet"].at # "idle" => op["packet"].user # c /\ op["packet"].who # c
    BY <1>0, <1>1 DEF Together
  <2> QED  BY <1>0, <1>2, <1>4, <1>5, <1>6, <2>1, <2>2 DEF Stage, lists, Listed, Unlisted
<1>10. Stage("deletion")' /\ Leaving'
  BY <1>2 DEF Stage, Leaving
<1> QED  BY <1>0, <1>7, <1>8, <1>9, <1>10 DEF Calm, Thread

LEMMA DismissCalm ==
  ASSUME TypeInv, GroupShape, Apart, NEW t \in Thread, Dismiss(t)
  PROVE  (fault' = "none" => Calm') /\ fault' \in {"none", "setgroup"}
<1> DEFINE g == op[t].grp
           who == op[t].who
<1>1. op[t].at \in {"check", "disband", "delete", "remove", "clear", "last"}
  BY DEF Dismiss, DismissCheck, DismissDisband, DismissDelete, DismissRemove, DismissClear, DismissLast,
         Locking, OnGroup, Running
<1>2. fault = "none" /\ g \in live /\ Stage(t)
  BY <1>1, DismissContext
<1> HIDE DEF g, who
<1>3. CASE DismissCheck(t)
  <2>1. fault' = "none"
    BY <1>2, <1>3 DEF DismissCheck, OnGroup, g
  <2> QED  BY <1>3, <2>1, CheckCalm
<1>4. CASE DismissDisband(t)
  <2>1. fault' \in {"none", "setgroup"}
    BY <1>2, <1>4 DEF DismissDisband, Locking, OnGroup, SetGroup, g
  <2> QED  BY <1>4, <2>1, DisbandCalm
<1>5. CASE DismissDelete(t)
  <2>1. fault' \in {"none", "setgroup"}
    BY <1>2, <1>5 DEF DismissDelete, OnGroup, SetGroup, g
  <2> QED  BY <1>5, <2>1, DeleteCalm
<1>6. CASE DismissRemove(t)
  <2>1. op[t].at = "remove"
    BY <1>6 DEF DismissRemove, Locking, OnGroup, Running
  <2>2. Heirs(g, who) # {}
    BY <1>2, <2>1 DEF Stage, Heirs, g, who
  <2>3. fault' = "none"
    BY <1>2, <1>6, <2>2 DEF DismissRemove, Locking, OnGroup, g, who
  <2> QED  BY <1>6, <2>3, RemoveCalm
<1>7. CASE DismissClear(t)
  <2>1. fault' \in {"none", "setgroup"}
    BY <1>2, <1>7 DEF DismissClear, SetGroup
  <2> QED  BY <1>7, <2>1, ClearCalm
<1>8. CASE DismissLast(t)
  <2>1. fault' = "none"
    BY <1>2, <1>8 DEF DismissLast, OnGroup, g
  <2> QED  BY <1>8, <2>1, LastCalm
<1> QED  BY <1>3, <1>4, <1>5, <1>6, <1>7, <1>8 DEF Dismiss

\* Until a request and a logoff meet in one group or on one character, or an
\* assertion stops the process, everything is in its place.
ApartInv == met \/ fault \in {"join", "setgroup"} \/ Apart

LEMMA NextApart ==
  ASSUME TypeInv, GroupShape, ApartInv, [Next]_vars
  PROVE  ApartInv'
<1>1. CASE UNCHANGED vars
  <2>1. Apart => Apart'
    BY <1>1 DEF vars, lists, Apart, Calm, Pointed, ListedBack, Leaving, Stage, Unlisted, Listed, Deleting, Together
  <2> QED  BY <1>1, <2>1 DEF ApartInv, vars
<1>2. CASE Next
  <2>1. Alive /\ Noted
    BY <1>2, NextNoted
  <2>2. CASE met \/ Together'
    <3> DEFINE B == met \/ Together'
    <3>1. met' = B
      BY <2>1 DEF Noted
    <3>2. B
      BY <2>2
    <3> HIDE DEF B
    <3>3. met'
      BY <3>1, <3>2
    <3> QED  BY <3>3 DEF ApartInv
  <2>3. CASE ~met /\ ~Together'
    <3>1. Apart /\ fault = "none"
      BY <2>1, <2>3 DEF ApartInv, Alive
    <3> DEFINE B == met \/ Together'
    <3>2. met' = B
      BY <2>1 DEF Noted
    <3>3. ~B
      BY <2>3
    <3> HIDE DEF B
    <3>4. ~met'
      BY <3>2, <3>3
    <3>5. (fault' = "none" => Calm') /\ fault' \in {"none", "join", "setgroup"}
      <4>1. ASSUME NEW t \in Thread, Dismiss(t)
            PROVE  (fault' = "none" => Calm') /\ fault' \in {"none", "join", "setgroup"}
        BY <3>1, <4>1, DismissCalm
      <4>2. CASE PacketStep
        BY <3>1, <4>1, <4>2, FindCalm, InviteLockedCalm, JoinLockedCalm, NotifyCalm, KickCalm, SearchCalm
           DEF PacketStep, Thread
      <4>3. CASE DeletionStep
        BY <3>1, <4>1, <4>3, UnlistCalm DEF DeletionStep, Thread
      <4>4. ASSUME NEW c \in Char, Login(c) \/ Quit(c) \/ Logoff(c) \/ GroupInvite(c)
            PROVE  (fault' = "none" => Calm') /\ fault' \in {"none", "join", "setgroup"}
        BY <2>3, <3>1, <4>4, LoginCalm, QuitCalm, LogoffCalm, GroupInviteCalm
      <4>5. ASSUME NEW c \in Char, GroupJoin(c) \/ GroupLeave(c) \/ GroupKick(c)
            PROVE  (fault' = "none" => Calm') /\ fault' \in {"none", "join", "setgroup"}
        BY <2>3, <3>1, <4>5, RequestCalm
      <4> QED  BY <1>2, <4>2, <4>3, <4>4, <4>5 DEF Next
    <3> QED  BY <2>3, <3>4, <3>5 DEF ApartInv, Apart
  <2> QED  BY <2>2, <2>3
<1> QED  BY <1>1, <1>2

IInv == TypeInv /\ GroupShape /\ ApartInv

LEMMA Invariant == Spec => []IInv
<1>1. Init => IInv
  BY InitTypes, InitShape, InitApart DEF IInv, ApartInv
<1>2. IInv /\ [Next]_vars => IInv'
  BY NextTypes, NextShape, NextApart DEF IInv
<1> QED  BY <1>1, <1>2, PTL DEF Spec

\* No thread follows a pointer to a deleted group or to none, and a leader that goes
\* always finds a member to take over, with assertions on or off and either kind of
\* lock, unless a request and a logoff met in one group or on one character.
THEOREM NoPointerIsBad == Spec => []NoBadPointer
<1>1. IInv => NoBadPointer
  BY DEF IInv, ApartInv, Apart, NoBadPointer
<1> QED  BY <1>1, Invariant, PTL

\* Whenever nothing is under way, pointers and lists agree and who is off line is in
\* no group, whatever requests and logoffs ran side by side in different groups.
THEOREM PointersAgree == Spec => []PointersMatch
<1>1. IInv => PointersMatch
  <2> SUFFICES ASSUME IInv, Alive, ~met, \A t \in Thread : op[t] = Idle PROVE PointersMatch
    BY DEF PointersMatch
  <2>1. Pointed /\ ListedBack /\ \A t \in Thread : op[t].at = "idle"
    BY IdleOp DEF IInv, ApartInv, Apart, Calm, Alive
  <2>2. \A g : ~Deleting(g)
    BY <2>1 DEF Deleting
  <2> QED  BY <2>1, <2>2 DEF PointersMatch, Pointed, ListedBack
<1> QED  BY <1>1, Invariant, PTL

-----------------------------------------------------------------------------
(* The plain mutex of Lock.h.                                               *)

\* Nobody gets past the second locking of a group.
Barred == ~Recursive => \A t \in Thread : op[t].at \notin {"delete", "joined"}

\* What a step does to the thread it belongs to.
LEMMA StepBarred ==
  ASSUME ~Recursive, TypeInv, Barred, [Next]_vars
  PROVE  /\ Barred'
         /\ live \subseteq live' \/ \E t \in Thread : op[t].at = "delete"
         /\ \A t \in Thread : op[t].at = "stopped" => op'[t] = op[t]
<1> DEFINE Fine == /\ \A t \in Thread : op'[t].at \notin {"delete", "joined"}
                   /\ live \subseteq live'
                   /\ \A t \in Thread : op[t].at = "stopped" => op'[t] = op[t]
<1>0. /\ \A t \in Thread : op[t].at \notin {"delete", "joined"} /\ op[t] \in Op
      /\ op \in [Thread -> Op] /\ "packet" \in Thread /\ "deletion" \in Thread
  BY TypeParts DEF Barred, Thread
<1>1. ASSUME UNCHANGED op, live \subseteq live' PROVE Fine
  BY <1>0, <1>1
\* Thread t, not stopped, goes where it may.
<1>2. ASSUME NEW t \in Thread, op[t].at # "stopped", live \subseteq live',
             op'[t].at \notin {"delete", "joined"}, \A u \in Thread : u # t => op'[u] = op[u]
      PROVE  Fine
  BY <1>0, <1>2
<1>3. ASSUME NEW t \in Thread, NEW p \in At \ {"delete", "joined"}, Goto(t, p), op[t].at # "stopped", live \subseteq live'
      PROVE  Fine
  BY <1>2, <1>3, MovedGoto
<1>4. ASSUME NEW t \in Thread, Done(t), op[t].at # "stopped", live \subseteq live'
      PROVE  Fine
  <2>1. op'[t].at \in {"idle", "unlist"} /\ \A u \in Thread : u # t => op'[u] = op[u]
    BY <1>4, MovedDone
  <2> QED  BY <1>2, <1>4, <2>1
<1>5. ASSUME NEW t \in Thread, NEW user, NEW who, NEW g, DismissAt(t, user, who, g), op[t].at # "stopped",
             live \subseteq live'
      PROVE  Fine
  <2>1. op'[t].at = "check" /\ \A u \in Thread : u # t => op'[u] = op[u]
    BY <1>5, MovedDismiss
  <2> QED  BY <1>2, <1>5, <2>1
<1>6. ASSUME op' = [op EXCEPT !["packet"] = Idle], op["packet"].at # "stopped", live \subseteq live' PROVE Fine
  <2>1. op'["packet"].at = "idle" /\ \A u \in Thread : u # "packet" => op'[u] = op[u]
    BY <1>0, <1>6, MovedIdle
  <2> QED  BY <1>0, <1>2, <1>6, <2>1
<1>7. ASSUME NotInvited, op["packet"].at # "stopped", live \subseteq live' PROVE Fine
  <2>1. \/ op' = [op EXCEPT !["packet"] = Idle] \/ UNCHANGED op
        \/ DismissAt("packet", op["packet"].user, op["packet"].user, group[op["packet"].user])
    BY <1>7 DEF NotInvited
  <2> QED  BY <1>0, <1>1, <1>5, <1>6, <1>7, <2>1
<1>8. ASSUME NEW f, Crash(f) PROVE Fine
  BY <1>1, <1>8 DEF Crash
<1> HIDE DEF Fine
<1>9. ASSUME NEW t \in Thread, Dismiss(t) PROVE Fine
  <2>1. CASE DismissCheck(t)
    <3>1. op[t].at = "check" /\ (Crash("freed") \/ (UNCHANGED live /\ (Goto(t, "disband") \/ Goto(t, "remove"))))
      BY <2>1 DEF DismissCheck, OnGroup, Running
    <3> QED  BY <1>3, <1>8, <3>1 DEF At
  <2>2. CASE DismissDisband(t)
    <3>1. op[t].at = "disband" /\ (Crash("freed") \/ (UNCHANGED live /\ Goto(t, "stopped")))
      BY <2>2 DEF DismissDisband, Locking, OnGroup, Running, Relock
    <3> QED  BY <1>3, <1>8, <3>1 DEF At
  <2>3. CASE DismissDelete(t)
    BY <1>0, <2>3 DEF DismissDelete, OnGroup, Running
  <2>4. CASE DismissRemove(t)
    <3>1. /\ op[t].at = "remove"
          /\ \/ Crash("freed") \/ Crash("empty")
             \/ UNCHANGED live /\ (Goto(t, "stopped") \/ Goto(t, "clear"))
      BY <2>4 DEF DismissRemove, Locking, OnGroup, Running, Relock
    <3> QED  BY <1>3, <1>8, <3>1 DEF At
  <2>5. CASE DismissClear(t)
    <3>1. op[t].at = "clear" /\ UNCHANGED live /\ Goto(t, "last")
      BY <2>5 DEF DismissClear, Running
    <3> QED  BY <1>3, <3>1 DEF At
  <2>6. CASE DismissLast(t)
    <3>1. /\ op[t].at = "last"
          /\ \/ Crash("freed")
             \/ UNCHANGED live /\ (DismissAt(t, op[t].user, leader[op[t].grp], op[t].grp) \/ Done(t))
      BY <2>6 DEF DismissLast, OnGroup, Running
    <3> QED  BY <1>4, <1>5, <1>8, <3>1
  <2> QED  BY <1>9, <2>1, <2>2, <2>3, <2>4, <2>5, <2>6 DEF Dismiss
<1>10. ASSUME NEW d \in Char \cup {None}, InviteFind(d) PROVE Fine
  <2> DEFINE o == [op["packet"] EXCEPT !.at = "invite", !.who = d, !.grp = group[op["packet"].user]]
  <2>1. /\ op["packet"].at = "find" /\ UNCHANGED live
        /\ op' = [op EXCEPT !["packet"] = Idle] \/ op' = [op EXCEPT !["packet"] = o] \/ NotInvited
    BY <1>10 DEF InviteFind, Running
  <2>2. o.at = "invite"
    BY <1>0 DEF Op
  <2> HIDE DEF o
  <2>3. CASE op' = [op EXCEPT !["packet"] = o]
    BY <1>0, <1>2, <2>1, <2>2, <2>3
  <2> QED  BY <1>6, <1>7, <2>1, <2>3
<1>11. ASSUME InviteLocked PROVE Fine
  <2>1. /\ op["packet"].at = "invite"
        /\ \/ Crash("freed")
           \/ UNCHANGED live /\ (op' = [op EXCEPT !["packet"] = Idle] \/ NotInvited)
    BY <1>11 DEF InviteLocked, Locking, OnGroup, Running
  <2> QED  BY <1>6, <1>7, <1>8, <2>1
<1>12. ASSUME JoinLocked PROVE Fine
  <2>1. /\ op["packet"].at = "join"
        /\ \/ Crash("freed")
           \/ UNCHANGED live /\ (op' = [op EXCEPT !["packet"] = Idle] \/ Goto("packet", "stopped"))
    BY <1>12 DEF JoinLocked, Locking, OnGroup, Running, Relock
  <2> QED  BY <1>0, <1>3, <1>6, <1>8, <2>1 DEF At
<1>13. ASSUME JoinNotify PROVE Fine
  BY <1>0, <1>13 DEF JoinNotify, Running
<1>14. ASSUME KickLocked PROVE Fine
  <2>1. /\ op["packet"].at = "kick"
        /\ \/ Crash("freed")
           \/ /\ UNCHANGED live
              /\ op' = [op EXCEPT !["packet"] = Idle] \/ Goto("packet", "search")
    BY <1>14 DEF KickLocked, Locking, OnGroup, Running
  <2> QED  BY <1>0, <1>3, <1>6, <1>8, <2>1 DEF At
<1>23. ASSUME KickSearch PROVE Fine
  <2> DEFINE c == op["packet"].user
  <2>1. /\ op["packet"].at = "search"
        /\ \/ Crash("freed") \/ Crash("null")
           \/ /\ UNCHANGED live
              /\ \/ op' = [op EXCEPT !["packet"] = Idle]
                 \/ \E d \in Listed(group[c]) : DismissAt("packet", c, d, group[c])
    BY <1>23 DEF KickSearch, Running
  <2> HIDE DEF c
  <2> QED  BY <1>0, <1>5, <1>6, <1>8, <2>1
<1>15. ASSUME NEW c \in Char, GroupInvite(c) PROVE Fine
  <2>1. PICK g \in GroupId :
           /\ live \subseteq live'
           /\ op' = [op EXCEPT !["packet"] =
                        [at |-> "find", user |-> c, who |-> c, grp |-> g, fresh |-> group[c] = None]]
    BY <1>15 DEF GroupInvite
  <2> DEFINE o == [at |-> "find", user |-> c, who |-> c, grp |-> g, fresh |-> group[c] = None]
  <2>2. o.at = "find" /\ op' = [op EXCEPT !["packet"] = o]
    BY <2>1
  <2> HIDE DEF o
  <2>3. op["packet"].at = "idle"
    BY <1>15, IdleOp DEF GroupInvite, Requesting, Free
  <2> QED  BY <1>0, <1>2, <2>1, <2>2, <2>3
<1>16. ASSUME NEW c \in Char, GroupJoin(c) \/ GroupKick(c) PROVE Fine
  <2> DEFINE o(p) == [at |-> p, user |-> c, who |-> c, grp |-> group[c], fresh |-> FALSE]
  <2>1. PICK p \in {"join", "kick"} : op' = [op EXCEPT !["packet"] = o(p)]
    BY <1>16 DEF GroupJoin, GroupKick
  <2> DEFINE r == o(p)
  <2>2. r.at = p /\ op' = [op EXCEPT !["packet"] = r]
    BY <2>1
  <2> HIDE DEF r, o
  <2>3. op["packet"].at = "idle" /\ UNCHANGED live
    BY <1>16, IdleOp DEF GroupJoin, GroupKick, Requesting, Free
  <2> QED  BY <1>0, <1>2, <2>2, <2>3
<1>17. ASSUME NEW c \in Char, GroupLeave(c) PROVE Fine
  <2>1. op["packet"].at = "idle" /\ UNCHANGED live /\ DismissAt("packet", c, c, group[c])
    BY <1>17, IdleOp DEF GroupLeave, Requesting, Free
  <2> QED  BY <1>0, <1>5, <2>1
<1>18. ASSUME NEW c \in Char, Login(c) \/ Quit(c) PROVE Fine
  BY <1>1, <1>18 DEF Login, Quit
<1>19. ASSUME NEW c \in Char, Logoff(c) PROVE Fine
  <2> DEFINE o == [Idle EXCEPT !.at = "unlist", !.user = c]
  <2>1. /\ op["deletion"].at = "idle" /\ UNCHANGED live
        /\ op' = [op EXCEPT !["deletion"] = o] \/ DismissAt("deletion", c, c, group[c])
    BY <1>19, IdleOp DEF Logoff, Free
  <2>2. o.at = "unlist"
    BY DEF Idle
  <2> HIDE DEF o
  <2>3. CASE op' = [op EXCEPT !["deletion"] = o]
    BY <1>0, <1>2, <2>1, <2>2, <2>3
  <2> QED  BY <1>0, <1>5, <2>1, <2>3
<1>20. ASSUME NEW c \in Char, Unlist(c) PROVE Fine
  <2>1. op["deletion"].at = "unlist" /\ UNCHANGED live /\ op' = [op EXCEPT !["deletion"] = Idle]
    BY <1>20 DEF Unlist, Running
  <2>2. op'["deletion"].at = "idle" /\ \A u \in Thread : u # "deletion" => op'[u] = op[u]
    BY <1>0, <2>1, MovedIdle
  <2> QED  BY <1>0, <1>2, <2>1, <2>2
<1>21. ASSUME UNCHANGED vars PROVE Fine
  BY <1>1, <1>21 DEF vars
<1>22. Fine
  <2>1. ASSUME PacketStep PROVE Fine
    BY <1>0, <1>9, <1>10, <1>11, <1>12, <1>13, <1>14, <1>23, <2>1 DEF PacketStep
  <2>2. ASSUME DeletionStep PROVE Fine
    BY <1>0, <1>9, <1>20, <2>2 DEF DeletionStep
  <2> QED  BY <1>15, <1>16, <1>17, <1>18, <1>19, <1>21, <2>1, <2>2 DEF Next
<1> QED  BY <1>22 DEF Fine, Barred

\* With the mutex of Lock.h, Dismiss and Join never come back from telling the
\* members: no group is ever deleted, and a thread that stopped stays stopped.
THEOREM PlainMutexStopsDismiss ==
  ASSUME ~Recursive
  PROVE  Spec => [][live \subseteq live' /\ \A t \in Thread : op[t].at = "stopped" => op'[t] = op[t]]_vars
<1>1. Init => TypeInv /\ Barred
  BY InitTypes DEF Init, Barred, Idle
<1>2. TypeInv /\ Barred /\ [Next]_vars => TypeInv' /\ Barred'
  BY NextTypes, StepBarred
<1>3. TypeInv /\ Barred /\ [Next]_vars =>
        [live \subseteq live' /\ \A t \in Thread : op[t].at = "stopped" => op'[t] = op[t]]_vars
  BY StepBarred DEF Barred
<1> QED  BY <1>1, <1>2, <1>3, PTL DEF Spec
=============================================================================
