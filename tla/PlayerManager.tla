---------------------------- MODULE PlayerManager ----------------------------
(***************************************************************************)
(* The table of connected players: class CPlayerManager, with the use lock *)
(* of Players, the handlers that take a player from one stage of a session *)
(* to the next and the asynchronous functions they queue.                  *)
(*                                                                         *)
(* Four threads share a Players object: the packet thread, which fetches   *)
(* it by address and holds its lock while it handles a packet; the thread  *)
(* of the asynchronous queue, which creates players and loads characters;  *)
(* maintenance, which unlists players; and the deletion thread, which      *)
(* frees them, without the player's own lock.  What a thread does under    *)
(* cFetchLock or under all three locks of the table is one step; so is     *)
(* what it does to one player between taking and freeing that player.      *)
(* cMaintenanceLock is held for a whole maintenance pass.                  *)
(***************************************************************************)
EXTENDS Naturals, Sequences, FiniteSets

CONSTANTS
  Player,    \* Players objects, each created at most once
  Addr,      \* socket addresses of clients
  Busy,      \* bound: the clients that do more than register
  Failing,   \* bound: the clients whose connection may be lost or fall silent
  Account,   \* accounts
  None,      \* the NULL pointer
  MaxTries,  \* maxLoopCount, how often a locked player is tried
  Recursive, \* whether a thread may take a CLock it holds, as on Windows
  MaxPackets \* bound: packets the clients send

ASSUME PlayerManagerAssumption ==
  /\ None \notin Player \cup Addr \cup Account
  /\ Busy \subseteq Addr /\ Failing \subseteq Addr
  /\ MaxTries \in Nat \ {0} /\ MaxPackets \in Nat
  /\ Recursive \in BOOLEAN

VARIABLES
  users,     \* lpRegisteredUsers
  chat,      \* the players listed by some chat channel
  heap,      \* [Player -> "new", "allocated" or "freed"]
  addr,      \* [Player -> IPaddr]
  account,   \* [Player -> the account it logged on to]
  stage,     \* [Player -> how far its session is], of registred, boPreInGame, in_game
  verified,  \* the players VerifyPlayerUnique was called for
  lockedOut, \* boLockedOut
  flagged,   \* boDeletionFlag
  holder,    \* [Player -> the thread that has the player's lock]
  inUse,     \* the players whose csUsageLock is held, those IsLoading is true of
  packet,    \* what the packet thread is doing
  asyncQ,    \* the main AsyncFuncQueue
  creating,  \* the player LoadPlayer is creating
  pass,      \* what the maintenance thread is doing
  toDelete,  \* tlPlayersToDelete
  deletionQ, \* hDeletionIo
  dying,     \* the player the deletion thread is freeing
  leaked,    \* whether DeletePlayer returned with the locks of the table
  budget,    \* bound: the packets that may still arrive
  held,      \* history: the players the packet thread had when they were unlisted
  fault      \* the freed player that was used

table == <<users, chat>>
session == <<heap, addr, account, stage, verified, lockedOut>>
locks == <<holder, inUse>>
removal == <<pass, toDelete, deletionQ, dying, leaked, held>>
vars == <<table, session, flagged, locks, packet, asyncQ, creating, removal, budget, fault>>

Stage == {"connected", "registered", "pregame", "ingame"}
Kind == {"register", "version", "put", "enter", "menu", "channel", "list", "exit"}
RegisterCall(a, c) == [fn |-> "register", addr |-> a, account |-> c, player |-> None]
PutCall(p) == [fn |-> "put", addr |-> None, account |-> None, player |-> p]
Call == [fn : {"register"}, addr : Addr, account : Account, player : {None}]
        \cup [fn : {"put"}, addr : {None}, account : {None}, player : Player]

Idle == [at |-> "idle", kind |-> "register", addr |-> None, player |-> None, tries |-> 0]
Resting == [at |-> "sleep", left |-> {}, player |-> None]

Init ==
  /\ users = {} /\ chat = {}
  /\ heap = [p \in Player |-> "new"]
  /\ addr = [p \in Player |-> None]
  /\ account = [p \in Player |-> None]
  /\ stage = [p \in Player |-> "connected"]
  /\ verified = {} /\ lockedOut = {} /\ flagged = {}
  /\ holder = [p \in Player |-> "none"]
  /\ inUse = {}
  /\ packet = Idle
  /\ asyncQ = <<>> /\ creating = None
  /\ pass = Resting /\ toDelete = {}
  /\ deletionQ = <<>> /\ dying = None
  /\ leaked = FALSE
  /\ budget = MaxPackets
  /\ held = {}
  /\ fault = None

Alive == fault = None
Freed(p) == heap[p] = "freed"

-----------------------------------------------------------------------------
(* The packet thread.                                                       *)

\* What a packet does when GetPlayerResource returns NULL: it is dropped, but for
\* a registration, which is queued.
Unanswered(kind, a) ==
  /\ packet' = Idle
  /\ IF kind = "register"
     THEN \E c \in Account : asyncQ' = Append(asyncQ, RegisterCall(a, c))
     ELSE UNCHANGED asyncQ
  /\ UNCHANGED holder

\* Mutant: one turn too many.
MayRetryOnceMore(tries) == tries <= MaxTries

MayRetry(tries) == tries < MaxTries

\* One turn of GetPlayerResource once it has a player: PickLock, and after
\* MaxTries failures the packet is denied.
Attempt(kind, a, p, tries) ==
  IF holder[p] = "none"
  THEN /\ holder' = [holder EXCEPT ![p] = "packet"]
       /\ packet' = [at |-> "held", kind |-> kind, addr |-> a, player |-> p, tries |-> 0]
       /\ UNCHANGED asyncQ
  ELSE IF MayRetry(tries)
  THEN /\ packet' = [at |-> "retry", kind |-> kind, addr |-> a, player |-> p, tries |-> tries]
       /\ UNCHANGED <<holder, asyncQ>>
  ELSE Unanswered(kind, a)

\* GetPlayerResource up to its first PickLock, under cFetchLock.
Fetch(a, kind) ==
  /\ Alive /\ ~leaked
  /\ packet = Idle
  /\ budget > 0 /\ (a \in Busy \/ kind = "register")
  /\ budget' = budget - 1
  /\ LET found == {p \in users : addr[p] = a}
     IN  IF found = {} THEN Unanswered(kind, a)
         ELSE \E p \in found : Attempt(kind, a, p, 1)
  /\ UNCHANGED <<table, session, flagged, inUse, creating, removal, fault>>

\* A later turn: boFound is still set, so the list is not searched again.
Retry ==
  /\ Alive /\ ~leaked
  /\ packet.at = "retry"
  /\ IF Freed(packet.player)
     THEN fault' = packet.player /\ UNCHANGED <<packet, holder, asyncQ>>
     ELSE /\ Attempt(packet.kind, packet.addr, packet.player, packet.tries + 1)
          /\ UNCHANGED fault
  /\ UNCHANGED <<table, session, flagged, inUse, creating, removal, budget>>

\* The handlers, for player p.
AuthenticateVersion(p) ==
  /\ stage' = IF p \notin lockedOut /\ stage[p] = "connected"
              THEN [stage EXCEPT ![p] = "registered"] ELSE stage
  /\ UNCHANGED <<chat, flagged, inUse, asyncQ, fault>>

\* RQFUNC_PutPlayerInGame: the character is loaded by the asynchronous queue, the
\* use lock held till then; where that lock is taken the request is ignored.
PutPlayerInGame(p) ==
  /\ IF p \notin lockedOut /\ stage[p] = "registered" /\ p \notin inUse
     THEN /\ inUse' = inUse \cup {p}
          /\ asyncQ' = Append(asyncQ, PutCall(p))
     ELSE UNCHANGED <<inUse, asyncQ>>
  /\ UNCHANGED <<chat, stage, flagged, fault>>

\* RQFUNC_FromPreInGameToInGame, which the world may refuse.
EnterWorld(p) ==
  /\ \/ UNCHANGED <<stage, chat>>
     \/ /\ p \notin lockedOut /\ stage[p] = "pregame"
        /\ stage' = [stage EXCEPT ![p] = "ingame"]
        /\ chat' = chat \cup {p}
  /\ UNCHANGED <<flagged, inUse, asyncQ, fault>>

ReturnToMenu(p) ==
  /\ stage' = IF stage[p] = "ingame" THEN [stage EXCEPT ![p] = "registered"] ELSE stage
  /\ UNCHANGED <<chat, flagged, inUse, asyncQ, fault>>

EnterChannel(p) ==
  /\ chat' = chat \cup {p}
  /\ UNCHANGED <<stage, flagged, inUse, asyncQ, fault>>

\* RQFUNC_GetChatterUserList asks every player of a channel for its name, for
\* whoever asks; a message on the channel goes to each of them as well.
ListChannel(p) ==
  /\ IF \E q \in chat : Freed(q)
     THEN \E q \in {r \in chat : Freed(r)} : fault' = q
     ELSE UNCHANGED fault
  /\ UNCHANGED <<chat, stage, flagged, inUse, asyncQ>>

\* RQFUNC_ExitGame; refused in danger, within seconds of the last fight.
ExitGame(p) ==
  /\ flagged' \in {flagged, flagged \cup {p}}
  /\ UNCHANGED <<chat, stage, inUse, asyncQ, fault>>

Handler(kind, p) ==
  \/ kind = "version" /\ AuthenticateVersion(p)
  \/ kind = "put" /\ PutPlayerInGame(p)
  \/ kind = "enter" /\ EnterWorld(p)
  \/ kind = "menu" /\ ReturnToMenu(p)
  \/ kind = "channel" /\ EnterChannel(p)
  \/ kind = "list" /\ ListChannel(p)
  \/ kind = "exit" /\ ExitGame(p)
  \/ kind = "register" /\ UNCHANGED <<chat, stage, flagged, inUse, asyncQ, fault>>

\* DispatchPacket and FreePlayerResource.
Handle ==
  /\ Alive
  /\ packet.at = "held"
  /\ LET p == packet.player
     IN  IF Freed(p)
         THEN fault' = p /\ UNCHANGED <<chat, stage, flagged, locks, asyncQ, packet>>
         ELSE /\ Handler(packet.kind, p)
              /\ holder' = [holder EXCEPT ![p] = "none"]
              /\ packet' = Idle
  /\ UNCHANGED <<users, heap, addr, account, verified, lockedOut, creating, removal, budget>>

-----------------------------------------------------------------------------
(* The asynchronous queue.                                                  *)

\* Mutant: the table is not searched for the address.
AddressTakenNever(a) == FALSE

AddressTaken(a) == \E p \in users : addr[p] = a

\* The objects "new" can return, which are not told apart.
Unused == {p \in Player : heap[p] = "new"}

\* LoadPlayer up to SetAccount: CreatePlayer returns the player locked, or NULL
\* when its address is in the table.
CreatePlayer ==
  /\ Alive /\ ~leaked
  /\ creating = None /\ pass.at = "sleep"
  /\ asyncQ # <<>> /\ Head(asyncQ).fn = "register"
  /\ asyncQ' = Tail(asyncQ)
  /\ LET call == Head(asyncQ)
     IN  IF AddressTaken(call.addr)
         THEN UNCHANGED <<users, heap, addr, account, holder, creating>>
         ELSE /\ Unused # {}
              /\ LET p == CHOOSE q \in Unused : TRUE
                 IN  /\ heap' = [heap EXCEPT ![p] = "allocated"]
                     /\ users' = users \cup {p}
                     /\ addr' = [addr EXCEPT ![p] = call.addr]
                     /\ account' = [account EXCEPT ![p] = call.account]
                     /\ holder' = [holder EXCEPT ![p] = "async"]
                     /\ creating' = p
  /\ UNCHANGED <<chat, stage, verified, lockedOut, flagged, inUse, packet, removal, budget, fault>>

\* Mutant: only the other player is flagged.
BumpedOthers(p) == {q \in users : q # p /\ account[q] = account[p]}

\* Who VerifyPlayerUnique flags: p and the others that are logged on to its account.
Bumped(p) ==
  LET others == {q \in users : q # p /\ account[q] = account[p]}
  IN  IF others = {} THEN {} ELSE others \cup {p}

\* The rest of LoadPlayer, for each outcome of LoadAccount.
LoadPlayer(outcome) ==
  /\ Alive /\ ~leaked
  /\ creating # None
  /\ flagged' = IF outcome = "loaded" THEN flagged \cup Bumped(creating) ELSE flagged
  /\ verified' = IF outcome = "loaded" THEN verified \cup {creating} ELSE verified
  /\ lockedOut' = IF outcome = "lockedOut" THEN lockedOut \cup {creating} ELSE lockedOut
  /\ holder' = [holder EXCEPT ![creating] = "none"]
  /\ creating' = None
  /\ UNCHANGED <<table, heap, addr, account, stage, inUse, packet, asyncQ, removal, budget, fault>>

\* AsyncRQFUNC_PutPlayerInGame, without the player's lock; loading may fail.
LoadCharacter ==
  /\ Alive
  /\ creating = None
  /\ asyncQ # <<>> /\ Head(asyncQ).fn = "put"
  /\ LET p == Head(asyncQ).player
     IN  IF Freed(p)
         THEN fault' = p /\ UNCHANGED <<asyncQ, stage, inUse>>
         ELSE /\ asyncQ' = Tail(asyncQ)
              /\ inUse' = inUse \ {p}
              /\ \/ UNCHANGED stage
                 \/ /\ stage[p] # "ingame"
                    /\ stage' = [stage EXCEPT ![p] = "pregame"]
              /\ UNCHANGED fault
  /\ UNCHANGED <<table, heap, addr, account, verified, lockedOut, flagged, holder, packet,
                 creating, removal, budget>>

-----------------------------------------------------------------------------
(* Maintenance, every 25 ms, and the operator.                              *)

\* A pass takes cMaintenanceLock and flags the players whose connection is lost.
BeginPass ==
  /\ Alive /\ ~leaked
  /\ pass.at = "sleep"
  /\ pass' = [at |-> "scan", left |-> users, player |-> None]
  /\ \E lost \in SUBSET Failing : flagged' = flagged \cup {p \in users : addr[p] \in lost}
  /\ UNCHANGED <<table, session, locks, packet, asyncQ, creating, toDelete, deletionQ, dying,
                 leaked, budget, held, fault>>

\* The next player of the table, which is passed over when it is locked.
Scan(p) ==
  /\ Alive
  /\ pass.at = "scan" /\ p \in pass.left
  /\ IF holder[p] = "none"
     THEN /\ holder' = [holder EXCEPT ![p] = "maintenance"]
          /\ pass' = [at |-> "player", left |-> pass.left \ {p}, player |-> p]
     ELSE pass' = [pass EXCEPT !.left = @ \ {p}] /\ UNCHANGED holder
  /\ UNCHANGED <<table, session, flagged, inUse, packet, asyncQ, creating, toDelete, deletionQ,
                 dying, leaked, budget, held, fault>>

\* A player that is flagged or idle and not loading is put on the list, and any
\* other one is cared for; both are unlocked.
Examine(idle) ==
  /\ Alive
  /\ pass.at = "player"
  /\ idle => addr[pass.player] \in Failing
  /\ LET p == pass.player
     IN  /\ toDelete' = IF (p \in flagged \/ idle) /\ p \notin inUse
                        THEN toDelete \cup {p} ELSE toDelete
         /\ holder' = [holder EXCEPT ![p] = "none"]
  /\ pass' = [pass EXCEPT !.at = "scan", !.player = None]
  /\ UNCHANGED <<table, session, flagged, inUse, packet, asyncQ, creating, deletionQ, dying,
                 leaked, budget, held, fault>>

\* Mutants: a deleted player keeps its slot, or its channels.
StillIn(p) == users
StillTalking(p) == chat

Unlisted(p) == users \ {p}
Undeleted(p) == toDelete \ {p}
OffChannels(p) == chat \ {p}

\* RemoveTargetReferences and DeletePlayer, both of which take the maintenance lock
\* the thread holds: with a plain mutex it never gets past that.  A player that
\* is not in the table makes DeletePlayer return with its locks.
DeletePlayer(p) ==
  /\ Alive
  /\ pass.at = "scan" /\ pass.left = {}
  /\ p \in toDelete
  /\ Recursive
  /\ users' = Unlisted(p)
  /\ chat' = OffChannels(p)
  /\ toDelete' = Undeleted(p)
  /\ held' = IF p \in users /\ packet.player = p THEN held \cup {p} ELSE held
  /\ IF p \in users THEN deletionQ' = Append(deletionQ, p) /\ UNCHANGED leaked
     ELSE leaked' = TRUE /\ UNCHANGED deletionQ
  /\ UNCHANGED <<session, flagged, locks, packet, asyncQ, creating, pass, dying, budget, fault>>

EndPass ==
  /\ Alive
  /\ pass.at = "scan" /\ pass.left = {} /\ toDelete = {}
  /\ pass' = Resting
  /\ UNCHANGED <<table, session, flagged, locks, packet, asyncQ, creating, toDelete, deletionQ,
                 dying, leaked, budget, held, fault>>

\* The operator's refresh of the system channels.
RefreshSystemChannels ==
  /\ Alive /\ ~leaked
  /\ chat' = chat \cup users
  /\ UNCHANGED <<users, session, flagged, locks, packet, asyncQ, creating, removal, budget, fault>>

-----------------------------------------------------------------------------
(* The deletion thread.                                                     *)

UseDeathLock(p) == p \notin inUse

\* AsyncDeletePlayer up to the end of SaveCharacter: it waits for the asynchronous
\* call that has the use lock, and lets go of that lock at once.
BeginDelete ==
  /\ Alive
  /\ dying = None
  /\ deletionQ # <<>> /\ UseDeathLock(Head(deletionQ))
  /\ dying' = Head(deletionQ)
  /\ deletionQ' = Tail(deletionQ)
  /\ UNCHANGED <<table, session, flagged, locks, packet, asyncQ, creating, pass, toDelete, leaked,
                 budget, held, fault>>

EndDelete ==
  /\ Alive
  /\ dying # None
  /\ heap' = [heap EXCEPT ![dying] = "freed"]
  /\ dying' = None
  /\ UNCHANGED <<table, addr, account, stage, verified, lockedOut, flagged, locks, packet, asyncQ,
                 creating, pass, toDelete, deletionQ, leaked, budget, held, fault>>

-----------------------------------------------------------------------------
Outcome == {"loaded", "lockedOut", "failed"}

PacketStep == Retry \/ Handle
AsyncStep == CreatePlayer \/ LoadCharacter \/ \E o \in Outcome : LoadPlayer(o)
MaintenanceStep ==
  \/ BeginPass \/ EndPass
  \/ \E p \in Player : Scan(p) \/ DeletePlayer(p)
  \/ \E idle \in BOOLEAN : Examine(idle)
DeletionStep == BeginDelete \/ EndDelete

Next ==
  \/ \E a \in Addr, k \in Kind : Fetch(a, k)
  \/ PacketStep \/ AsyncStep \/ MaintenanceStep \/ DeletionStep
  \/ RefreshSystemChannels

Spec == Init /\ [][Next]_vars

-----------------------------------------------------------------------------
(* Properties.                                                              *)

TypeOK ==
  /\ users \subseteq Player /\ chat \subseteq Player
  /\ heap \in [Player -> {"new", "allocated", "freed"}]
  /\ addr \in [Player -> Addr \cup {None}]
  /\ account \in [Player -> Account \cup {None}]
  /\ stage \in [Player -> Stage]
  /\ verified \subseteq Player /\ lockedOut \subseteq Player /\ flagged \subseteq Player
  /\ holder \in [Player -> {"none", "packet", "async", "maintenance"}]
  /\ inUse \subseteq Player
  /\ packet \in [at : {"idle", "retry", "held"}, kind : Kind, addr : Addr \cup {None},
                 player : Player \cup {None}, tries : 0 .. (MaxTries - 1)]
  /\ asyncQ \in Seq(Call) /\ creating \in Player \cup {None}
  /\ pass \in [at : {"sleep", "scan", "player"}, left : SUBSET Player,
               player : Player \cup {None}]
  /\ toDelete \subseteq Player
  /\ deletionQ \in Seq(Player) /\ dying \in Player \cup {None}
  /\ leaked \in BOOLEAN
  /\ budget \in Nat
  /\ held \subseteq Player
  /\ fault \in Player \cup {None}

\* A packet belongs to one player: no two players of the table have one address,
\* also when a client whose packet was denied, or that sends two, registers again
\* while it is in the table.
AddressesDistinct ==
  \A p, q \in users : p # q => addr[p] # addr[q]

\* "Makes sure player is unique (not twice). Will bump any same-player found": of
\* two players in the table that were verified for one account, both are flagged.
TwiceIsFlagged ==
  \A p, q \in users \cap verified :
    p # q /\ account[p] = account[q] => p \in flagged /\ q \in flagged

\* A player is handed to the deletion thread once, after it left the table, and
\* is not freed before.
DeletedOnce ==
  /\ \A i, j \in DOMAIN deletionQ : i # j => deletionQ[i] # deletionQ[j]
  /\ \A p \in Player :
       p = dying \/ (\E i \in DOMAIN deletionQ : deletionQ[i] = p) =>
         p \notin users /\ heap[p] = "allocated"
  /\ \A i \in DOMAIN deletionQ : deletionQ[i] # dying
  /\ \A p \in users : heap[p] = "allocated"

\* Neither a chat channel nor a queued call is left with a player that is gone:
\* the only freed players a thread can come to use are those that the packet
\* thread held, or was retrying, when maintenance took them out of the table.
OnlyHeldPlayersDangle ==
  /\ fault # None => fault \in held
  /\ \A p \in chat : Freed(p) => p \in held

\* "Remove expired players", says maintenance; but with the plain mutex of Lock.h,
\* which DeletePlayer takes a second time on the thread that has it, nobody ever
\* leaves the table, flagged or not, and nobody is freed.
PlainMutexKeepsPlayers ==
  [][~Recursive => users \subseteq users' /\ deletionQ' = <<>> /\ fault' = None]_vars
=============================================================================
