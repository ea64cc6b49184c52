---------------------------- MODULE PlayersProofs ----------------------------
(***************************************************************************)
(* Theorems about PlayerManager: its types, the table of players, the way  *)
(* of a player to the deletion thread, and which freed players a thread    *)
(* may still use, for any number of players, addresses and packets.        *)
(***************************************************************************)
EXTENDS PlayerManager, TLAPS

-----------------------------------------------------------------------------
(* Types.                                                                   *)

Names == None \notin Player \cup Addr \cup Account /\ MaxTries \in Nat \ {0} /\ MaxPackets \in Nat

LEMMA NamesHold == Names
BY PlayerManagerAssumption DEF Names

LEMMA UnansweredTypes ==
  ASSUME TypeOK, NEW k \in Kind, NEW a \in Addr, Unanswered(k, a)
  PROVE  /\ holder' \in [Player -> {"none", "packet", "async", "maintenance"}]
         /\ packet' \in [at : {"idle", "retry", "held"}, kind : Kind, addr : Addr \cup {None},
                         player : Player \cup {None}, tries : 0 .. (MaxTries - 1)]
         /\ asyncQ' \in Seq(Call)
<1>0. Idle \in [at : {"idle", "retry", "held"}, kind : Kind, addr : Addr \cup {None},
                player : Player \cup {None}, tries : 0 .. (MaxTries - 1)]
  BY NamesHold DEF Idle, Names, Kind
<1>1. asyncQ \in Seq(Call)
  BY DEF TypeOK
<1>2. CASE k = "register"
  <2>1. PICK c \in Account : asyncQ' = Append(asyncQ, RegisterCall(a, c))
    BY <1>2 DEF Unanswered
  <2>2. RegisterCall(a, c) \in Call
    BY DEF RegisterCall, Call
  <2>3. asyncQ' \in Seq(Call)
    BY <1>1, <2>1, <2>2
  <2> QED  BY <1>0, <2>3 DEF Unanswered, TypeOK
<1>3. CASE k # "register"
  BY <1>0, <1>1, <1>3 DEF Unanswered, TypeOK
<1> QED  BY <1>2, <1>3

LEMMA AttemptTypes ==
  ASSUME TypeOK, NEW k \in Kind, NEW a \in Addr, NEW p \in Player, NEW n \in Nat \ {0},
         Attempt(k, a, p, n)
  PROVE  /\ holder' \in [Player -> {"none", "packet", "async", "maintenance"}]
         /\ packet' \in [at : {"idle", "retry", "held"}, kind : Kind, addr : Addr \cup {None},
                         player : Player \cup {None}, tries : 0 .. (MaxTries - 1)]
         /\ asyncQ' \in Seq(Call)
<1>1. CASE holder[p] = "none"
  BY <1>1, NamesHold DEF Attempt, TypeOK, Names
<1>2. CASE holder[p] # "none" /\ MayRetry(n)
  BY <1>2, NamesHold DEF Attempt, MayRetry, TypeOK, Names
<1>3. CASE holder[p] # "none" /\ ~MayRetry(n)
  BY <1>3, UnansweredTypes DEF Attempt
<1> QED  BY <1>1, <1>2, <1>3

\* What the packet thread is at: a player while it retries or handles, a client
\* while it retries.
PacketShape ==
  /\ packet.at = "retry" => packet.player \in Player /\ packet.addr \in Addr
  /\ packet.at = "held" => packet.player \in Player
  /\ packet.at = "idle" => packet.player = None
  /\ pass.at = "player" => pass.player \in Player

Typed == TypeOK /\ PacketShape

LEMMA HandlerTypes ==
  ASSUME TypeOK, NEW p \in Player, NEW k \in Kind, Handler(k, p)
  PROVE  /\ chat' \subseteq Player /\ stage' \in [Player -> Stage]
         /\ flagged' \subseteq Player /\ inUse' \subseteq Player /\ asyncQ' \in Seq(Call)
         /\ fault' \in Player \cup {None}
<1>1. CASE AuthenticateVersion(p)
  BY <1>1 DEF AuthenticateVersion, TypeOK, Stage
<1>2. CASE PutPlayerInGame(p)
  <2>1. PutCall(p) \in Call
    BY DEF PutCall, Call
  <2>2. asyncQ \in Seq(Call) /\ Append(asyncQ, PutCall(p)) \in Seq(Call)
    BY <2>1 DEF TypeOK
  <2>3. asyncQ' \in Seq(Call)
    BY <1>2, <2>2 DEF PutPlayerInGame
  <2> QED  BY <1>2, <2>3 DEF PutPlayerInGame, TypeOK
<1>3. CASE EnterWorld(p)
  BY <1>3 DEF EnterWorld, TypeOK, Stage
<1>4. CASE ReturnToMenu(p)
  BY <1>4 DEF ReturnToMenu, TypeOK, Stage
<1>5. CASE EnterChannel(p)
  BY <1>5 DEF EnterChannel, TypeOK
<1>6. CASE ListChannel(p)
  BY <1>6 DEF ListChannel, TypeOK
<1>7. CASE ExitGame(p)
  BY <1>7 DEF ExitGame, TypeOK
<1>8. CASE UNCHANGED <<chat, stage, flagged, inUse, asyncQ, fault>>
  BY <1>8 DEF TypeOK
<1> QED  BY <1>1, <1>2, <1>3, <1>4, <1>5, <1>6, <1>7, <1>8 DEF Handler

LEMMA InitTyped == Init => Typed
<1> SUFFICES ASSUME Init PROVE Typed
  OBVIOUS
<1>1. Idle \in [at : {"idle", "retry", "held"}, kind : Kind, addr : Addr \cup {None},
                player : Player \cup {None}, tries : 0 .. (MaxTries - 1)]
  BY NamesHold DEF Idle, Names, Kind
<1>2. Resting \in [at : {"sleep", "scan", "player"}, left : SUBSET Player,
                   player : Player \cup {None}]
  BY DEF Resting
<1>3. asyncQ \in Seq(Call) /\ deletionQ \in Seq(Player)
  BY DEF Init
<1>4. PacketShape
  BY DEF Init, PacketShape, Idle, Resting
<1> QED  BY <1>1, <1>2, <1>3, <1>4, NamesHold DEF Init, Typed, TypeOK, Names, Stage

\* Every action, once: what the next lemmas split a step into.
LEMMA Steps ==
  ASSUME [Next]_vars
  PROVE  \/ \E a \in Addr, k \in Kind : Fetch(a, k)
         \/ Retry \/ Handle \/ CreatePlayer \/ LoadCharacter
         \/ \E o \in Outcome : LoadPlayer(o)
         \/ BeginPass \/ EndPass
         \/ \E p \in Player : Scan(p)
         \/ \E p \in Player : DeletePlayer(p)
         \/ \E idle \in BOOLEAN : Examine(idle)
         \/ BeginDelete \/ EndDelete \/ RefreshSystemChannels
         \/ UNCHANGED vars
BY DEF Next, PacketStep, AsyncStep, MaintenanceStep, DeletionStep

LEMMA FetchTyped ==
  ASSUME Typed, NEW a \in Addr, NEW k \in Kind, Fetch(a, k)
  PROVE  Typed'
<1>1. \/ Unanswered(k, a) \/ \E p \in users : Attempt(k, a, p, 1)
  BY DEF Fetch
<1>2. users \subseteq Player /\ TypeOK
  BY DEF Typed, TypeOK
<1>3. /\ holder' \in [Player -> {"none", "packet", "async", "maintenance"}]
      /\ packet' \in [at : {"idle", "retry", "held"}, kind : Kind, addr : Addr \cup {None},
                      player : Player \cup {None}, tries : 0 .. (MaxTries - 1)]
      /\ asyncQ' \in Seq(Call)
  <2>1. CASE Unanswered(k, a)
    BY <2>1, <1>2, UnansweredTypes
  <2>2. CASE \E p \in users : Attempt(k, a, p, 1)
    BY <2>2, <1>2, AttemptTypes
  <2> QED  BY <1>1, <2>1, <2>2
<1>4. PacketShape'
  <2>1. CASE Unanswered(k, a)
    BY <2>1 DEF Unanswered, PacketShape, Idle, Fetch, removal, Typed
  <2>2. CASE \E p \in users : Attempt(k, a, p, 1)
    BY <2>2, <1>2 DEF Attempt, Unanswered, PacketShape, Idle, Fetch, removal, Typed
  <2> QED  BY <1>1, <2>1, <2>2
<1> QED  BY <1>2, <1>3, <1>4 DEF Typed, TypeOK, Fetch, table, session, removal

LEMMA RetryTyped ==
  ASSUME Typed, Retry
  PROVE  Typed'
<1>1. /\ packet.player \in Player /\ packet.addr \in Addr /\ packet.kind \in Kind
      /\ packet.tries + 1 \in Nat \ {0} /\ TypeOK
  BY NamesHold DEF Typed, TypeOK, PacketShape, Retry, Names
<1>2. CASE Freed(packet.player)
  BY <1>1, <1>2 DEF Typed, TypeOK, PacketShape, Retry, table, session, removal
<1>3. CASE ~Freed(packet.player)
  <2>1. Attempt(packet.kind, packet.addr, packet.player, packet.tries + 1) /\ UNCHANGED fault
    BY <1>3 DEF Retry
  <2>2. /\ holder' \in [Player -> {"none", "packet", "async", "maintenance"}]
        /\ packet' \in [at : {"idle", "retry", "held"}, kind : Kind, addr : Addr \cup {None},
                        player : Player \cup {None}, tries : 0 .. (MaxTries - 1)]
        /\ asyncQ' \in Seq(Call)
    BY <1>1, <2>1, AttemptTypes
  <2>3. PacketShape'
    BY <1>1, <2>1 DEF Attempt, Unanswered, PacketShape, Idle, Retry, removal, Typed
  <2> QED  BY <1>1, <2>1, <2>2, <2>3 DEF Typed, TypeOK, Retry, table, session, removal
<1> QED  BY <1>2, <1>3

LEMMA HandleTyped ==
  ASSUME Typed, Handle
  PROVE  Typed'
<1>1. packet.player \in Player /\ packet.kind \in Kind /\ TypeOK
  BY DEF Typed, TypeOK, PacketShape, Handle
<1>2. CASE Freed(packet.player)
  BY <1>1, <1>2 DEF Typed, TypeOK, PacketShape, Handle, locks, removal
<1>3. CASE ~Freed(packet.player)
  <2>1. /\ Handler(packet.kind, packet.player) /\ packet' = Idle
        /\ holder' = [holder EXCEPT ![packet.player] = "none"]
    BY <1>3 DEF Handle
  <2>2. /\ chat' \subseteq Player /\ stage' \in [Player -> Stage]
        /\ flagged' \subseteq Player /\ inUse' \subseteq Player /\ asyncQ' \in Seq(Call)
        /\ fault' \in Player \cup {None}
    BY <1>1, <2>1, HandlerTypes
  <2>3. Idle \in [at : {"idle", "retry", "held"}, kind : Kind, addr : Addr \cup {None},
                  player : Player \cup {None}, tries : 0 .. (MaxTries - 1)]
    BY NamesHold DEF Idle, Names, Kind
  <2>4. PacketShape'
    BY <2>1 DEF PacketShape, Idle, Handle, removal, Typed
  <2> QED  BY <1>1, <2>1, <2>2, <2>3, <2>4 DEF Typed, TypeOK, Handle, removal
<1> QED  BY <1>2, <1>3

LEMMA AsyncTyped ==
  ASSUME Typed, CreatePlayer \/ LoadCharacter \/ \E o \in Outcome : LoadPlayer(o)
  PROVE  Typed'
<1>0. TypeOK /\ PacketShape
  BY DEF Typed
<1>1. ASSUME asyncQ # <<>>
      PROVE  Head(asyncQ) \in Call /\ Tail(asyncQ) \in Seq(Call)
  BY <1>0, <1>1 DEF TypeOK
<1>2. CASE CreatePlayer
  <2>1. /\ asyncQ' \in Seq(Call) /\ Head(asyncQ).addr \in Addr /\ Head(asyncQ).account \in Account
    BY <1>1, <1>2 DEF CreatePlayer, Call
  <2>2. CASE AddressTaken(Head(asyncQ).addr)
    BY <1>0, <1>2, <2>1, <2>2 DEF CreatePlayer, Typed, TypeOK, PacketShape, removal
  <2>3. CASE ~AddressTaken(Head(asyncQ).addr)
    <3>1. PICK p \in Player :
            /\ heap' = [heap EXCEPT ![p] = "allocated"] /\ users' = users \cup {p}
            /\ addr' = [addr EXCEPT ![p] = Head(asyncQ).addr]
            /\ account' = [account EXCEPT ![p] = Head(asyncQ).account]
            /\ holder' = [holder EXCEPT ![p] = "async"] /\ creating' = p
      BY <1>2, <2>3 DEF CreatePlayer, Unused
    <3> QED  BY <1>0, <1>2, <2>1, <3>1 DEF CreatePlayer, Typed, TypeOK, PacketShape, removal
  <2> QED  BY <2>2, <2>3
<1>3. CASE LoadCharacter
  <2>1. Head(asyncQ).player \in Player /\ Tail(asyncQ) \in Seq(Call)
    BY <1>1, <1>3 DEF LoadCharacter, Call
  <2>2. asyncQ' \in Seq(Call) /\ fault' \in Player \cup {None} /\ stage' \in [Player -> Stage]
        /\ inUse' \subseteq Player
    BY <1>0, <1>3, <2>1 DEF LoadCharacter, TypeOK, Stage
  <2> QED  BY <1>0, <1>3, <2>2 DEF LoadCharacter, Typed, TypeOK, PacketShape, table, removal
<1>4. ASSUME NEW o \in Outcome, LoadPlayer(o)
      PROVE  Typed'
  BY <1>0, <1>4 DEF LoadPlayer, Bumped, Typed, TypeOK, PacketShape, table, removal
<1> QED  BY <1>2, <1>3, <1>4

LEMMA RemovalTyped ==
  ASSUME Typed,
         \/ BeginPass \/ EndPass
         \/ \E p \in Player : Scan(p) \/ DeletePlayer(p)
         \/ \E idle \in BOOLEAN : Examine(idle)
         \/ BeginDelete \/ EndDelete \/ RefreshSystemChannels
  PROVE  Typed'
<1>0. TypeOK /\ PacketShape
  BY DEF Typed
<1>1. CASE BeginPass
  BY <1>0, <1>1 DEF BeginPass, Typed, TypeOK, PacketShape, table, session, locks
<1>2. CASE EndPass
  BY <1>0, <1>2 DEF EndPass, Resting, Typed, TypeOK, PacketShape, table, session, locks
<1>3. ASSUME NEW p \in Player, Scan(p)
      PROVE  Typed'
  BY <1>0, <1>3 DEF Scan, Typed, TypeOK, PacketShape, table, session
<1>4. ASSUME NEW p \in Player, DeletePlayer(p)
      PROVE  Typed'
  <2>1. deletionQ \in Seq(Player) /\ Append(deletionQ, p) \in Seq(Player)
    BY <1>0 DEF TypeOK
  <2>2. deletionQ' \in Seq(Player) /\ leaked' \in BOOLEAN
    BY <1>0, <1>4, <2>1 DEF DeletePlayer, TypeOK
  <2> QED  BY <1>0, <1>4, <2>2
           DEF DeletePlayer, Unlisted, OffChannels, Undeleted, Typed, TypeOK, PacketShape, session, locks
<1>5. ASSUME NEW idle \in BOOLEAN, Examine(idle)
      PROVE  Typed'
  BY <1>0, <1>5 DEF Examine, Typed, TypeOK, PacketShape, table, session
<1>6. CASE BeginDelete
  <2>1. Head(deletionQ) \in Player /\ Tail(deletionQ) \in Seq(Player)
    BY <1>0, <1>6 DEF BeginDelete, TypeOK
  <2> QED  BY <1>0, <1>6, <2>1 DEF BeginDelete, Typed, TypeOK, PacketShape, table, session, locks
<1>7. CASE EndDelete
  BY <1>0, <1>7 DEF EndDelete, Typed, TypeOK, PacketShape, table, locks
<1>8. CASE RefreshSystemChannels
  BY <1>0, <1>8 DEF RefreshSystemChannels, Typed, TypeOK, PacketShape, session, locks, removal
<1> QED  BY <1>1, <1>2, <1>3, <1>4, <1>5, <1>6, <1>7, <1>8

LEMMA NextTyped ==
  ASSUME Typed, [Next]_vars
  PROVE  Typed'
<1>1. CASE UNCHANGED vars
  BY <1>1 DEF vars, Typed, TypeOK, PacketShape, table, session, locks, removal
<1> QED  BY <1>1, Steps, FetchTyped, RetryTyped, HandleTyped, AsyncTyped, RemovalTyped

\* Every variable keeps its type, and no packet is tried more than MaxTries times.
THEOREM TypesCorrect == Spec => []TypeOK
<1>1. Spec => []Typed
  BY InitTyped, NextTyped, PTL DEF Spec
<1> QED  BY <1>1, PTL DEF Typed

-----------------------------------------------------------------------------
(* The table: one player for an address, two sessions of an account flagged. *)

\* Who has not been created yet is in no table.
NewUnknown ==
  /\ \A p \in Player : heap[p] = "new" => p \notin users /\ p \notin verified /\ p # creating

TableInv == Typed /\ NewUnknown /\ AddressesDistinct /\ TwiceIsFlagged

\* All but the two steps of a log on leave accounts and addresses alone, list nobody
\* and take no flag back.
LEMMA TableQuiet ==
  ASSUME TableInv, [Next]_vars, ~CreatePlayer, ~(\E o \in Outcome : LoadPlayer(o))
  PROVE  /\ users' \subseteq users /\ UNCHANGED <<addr, account, verified, creating>>
         /\ flagged \subseteq flagged'
         /\ \A p \in Player : heap'[p] = "new" => heap[p] = "new"
<1>0. heap \in [Player -> {"new", "allocated", "freed"}]
  BY DEF TableInv, Typed, TypeOK
<1>1. ASSUME NEW a \in Addr, NEW k \in Kind, Fetch(a, k)
      PROVE  UNCHANGED <<users, addr, account, verified, creating, flagged, heap>>
  BY <1>1 DEF Fetch, table, session
<1>2. CASE Retry
  BY <1>2 DEF Retry, table, session
<1>3. CASE Handle
  <2>1. UNCHANGED <<users, addr, account, verified, creating, heap>>
    BY <1>3 DEF Handle
  <2>2. flagged \subseteq flagged'
    BY <1>3 DEF Handle, Handler, AuthenticateVersion, PutPlayerInGame, EnterWorld, ReturnToMenu,
                EnterChannel, ListChannel, ExitGame
  <2> QED  BY <2>1, <2>2
<1>4. CASE LoadCharacter
  BY <1>4 DEF LoadCharacter, table
<1>5. CASE BeginPass
  BY <1>5 DEF BeginPass, table, session
<1>6. CASE EndPass \/ (\E p \in Player : Scan(p)) \/ (\E idle \in BOOLEAN : Examine(idle))
  BY <1>6 DEF EndPass, Scan, Examine, table, session
<1>7. CASE \E p \in Player : DeletePlayer(p)
  BY <1>7 DEF DeletePlayer, Unlisted, session
<1>8. CASE BeginDelete
  BY <1>8 DEF BeginDelete, table, session
<1>9. CASE EndDelete
  BY <1>0, <1>9 DEF EndDelete, table
<1>10. CASE RefreshSystemChannels \/ UNCHANGED vars
  BY <1>10 DEF RefreshSystemChannels, vars, table, session
<1> QED  BY <1>1, <1>2, <1>3, <1>4, <1>5, <1>6, <1>7, <1>8, <1>9, <1>10, Steps

LEMMA NextTable ==
  ASSUME TableInv, [Next]_vars
  PROVE  TableInv'
<1>0. /\ TypeOK /\ NewUnknown /\ AddressesDistinct /\ TwiceIsFlagged /\ Typed'
      /\ users \subseteq Player
  BY NextTyped DEF TableInv, Typed, TypeOK
<1>1. CASE ~CreatePlayer /\ ~(\E o \in Outcome : LoadPlayer(o))
  <2>1. /\ users' \subseteq users /\ UNCHANGED <<addr, account, verified, creating>>
        /\ flagged \subseteq flagged'
        /\ \A p \in Player : heap'[p] = "new" => heap[p] = "new"
    BY <1>1, TableQuiet
  <2> QED  BY <1>0, <2>1 DEF TableInv, NewUnknown, AddressesDistinct, TwiceIsFlagged
<1>2. CASE CreatePlayer
  <2>1. CASE AddressTaken(Head(asyncQ).addr)
    BY <1>0, <1>2, <2>1 DEF CreatePlayer, TableInv, NewUnknown, AddressesDistinct, TwiceIsFlagged
  <2>2. CASE ~AddressTaken(Head(asyncQ).addr)
    <3>1. PICK p \in Player :
            /\ heap[p] = "new"
            /\ heap' = [heap EXCEPT ![p] = "allocated"] /\ users' = users \cup {p}
            /\ addr' = [addr EXCEPT ![p] = Head(asyncQ).addr]
            /\ account' = [account EXCEPT ![p] = Head(asyncQ).account]
            /\ creating' = p
      BY <1>2, <2>2 DEF CreatePlayer, Unused
    <3>2. UNCHANGED <<verified, flagged>>
      BY <1>2 DEF CreatePlayer
    <3>3. NewUnknown'
      BY <1>0, <3>1, <3>2, <1>2 DEF NewUnknown, TypeOK, CreatePlayer
    <3>4. AddressesDistinct'
      BY <1>0, <2>2, <3>1 DEF AddressesDistinct, AddressTaken, TypeOK, NewUnknown
    <3>5. TwiceIsFlagged'
      BY <1>0, <3>1, <3>2 DEF TwiceIsFlagged, TypeOK, NewUnknown
    <3> QED  BY <1>0, <3>3, <3>4, <3>5 DEF TableInv
  <2> QED  BY <2>1, <2>2
<1>3. ASSUME NEW o \in Outcome, LoadPlayer(o)
      PROVE  TableInv'
  <2>1. /\ UNCHANGED <<users, addr, account, heap>> /\ creating' = None /\ creating \in Player
        /\ None \notin Player
    BY <1>0, <1>3, NamesHold DEF LoadPlayer, table, TypeOK, Names
  <2>2. NewUnknown'
    BY <1>0, <1>3, <2>1 DEF LoadPlayer, NewUnknown
  <2>3. AddressesDistinct'
    BY <1>0, <2>1 DEF AddressesDistinct
  <2>4. TwiceIsFlagged'
    <3>1. CASE o = "loaded"
      <4>1. flagged' = flagged \cup Bumped(creating) /\ verified' = verified \cup {creating}
        BY <1>3, <3>1 DEF LoadPlayer
      <4>2. ASSUME NEW p \in users, NEW q \in users, p \in verified', q \in verified',
                   p # q, account[p] = account[q]
            PROVE  p \in flagged' /\ q \in flagged'
        <5>1. CASE p = creating
          BY <4>1, <4>2, <5>1 DEF Bumped
        <5>2. CASE q = creating
          BY <4>1, <4>2, <5>2 DEF Bumped
        <5>3. CASE p # creating /\ q # creating
          BY <1>0, <4>1, <4>2, <5>3 DEF TwiceIsFlagged
        <5> QED  BY <5>1, <5>2, <5>3
      <4> QED  BY <2>1, <4>2 DEF TwiceIsFlagged
    <3>2. CASE o # "loaded"
      BY <1>0, <1>3, <2>1, <3>2 DEF LoadPlayer, TwiceIsFlagged
    <3> QED  BY <3>1, <3>2
  <2> QED  BY <1>0, <2>2, <2>3, <2>4 DEF TableInv
<1> QED  BY <1>1, <1>2, <1>3

LEMMA InitTable == Init => TableInv
BY InitTyped, NamesHold DEF Init, TableInv, NewUnknown, AddressesDistinct, TwiceIsFlagged, Names

\* A packet finds one player: the players of the table have distinct addresses.
THEOREM OnePlayerPerAddress == Spec => []AddressesDistinct
<1>1. Spec => []TableInv
  BY InitTable, NextTable, PTL DEF Spec
<1> QED  BY <1>1, PTL DEF TableInv

\* Of two verified players of one account in the table both are flagged.
THEOREM SecondSessionBumpsBoth == Spec => []TwiceIsFlagged
<1>1. Spec => []TableInv
  BY InitTable, NextTable, PTL DEF Spec
<1> QED  BY <1>1, PTL DEF TableInv

-----------------------------------------------------------------------------
(* The way out: handed over once, after the table was left, freed last.     *)

RemovalInv == TableInv /\ DeletedOnce

LEMMA InitRemoval == Init => RemovalInv
BY InitTable, NamesHold DEF Init, RemovalInv, DeletedOnce, Names

LEMMA RemovalQuiet ==
  ASSUME [Next]_vars, ~CreatePlayer, ~(\E p \in Player : DeletePlayer(p)), ~BeginDelete, ~EndDelete
  PROVE  UNCHANGED <<users, heap, deletionQ, dying, held>>
<1>1. CASE UNCHANGED vars
  BY <1>1 DEF vars, table, session, removal
<1>2. CASE \E a \in Addr, k \in Kind : Fetch(a, k)
  BY <1>2 DEF Fetch, table, session, removal
<1>3. CASE Retry \/ Handle
  BY <1>3 DEF Retry, Handle, table, session, removal
<1>4. CASE LoadCharacter \/ \E o \in Outcome : LoadPlayer(o)
  BY <1>4 DEF LoadCharacter, LoadPlayer, table, removal
<1>5. CASE BeginPass \/ EndPass \/ (\E p \in Player : Scan(p)) \/ \E idle \in BOOLEAN : Examine(idle)
  BY <1>5 DEF BeginPass, EndPass, Scan, Examine, table, session
<1>6. CASE RefreshSystemChannels
  BY <1>6 DEF RefreshSystemChannels, session, removal
<1> QED  BY <1>1, <1>2, <1>3, <1>4, <1>5, <1>6, Steps

LEMMA NextRemoval ==
  ASSUME RemovalInv, [Next]_vars
  PROVE  RemovalInv'
<1>0. /\ TableInv /\ TableInv' /\ TypeOK /\ TypeOK' /\ NewUnknown /\ DeletedOnce
      /\ users \subseteq Player /\ deletionQ \in Seq(Player) /\ None \notin Player
      /\ dying \in Player \cup {None}
  BY NextTable, NamesHold DEF RemovalInv, TableInv, Typed, TypeOK, Names
<1>1. CASE ~CreatePlayer /\ ~(\E p \in Player : DeletePlayer(p)) /\ ~BeginDelete /\ ~EndDelete
  BY <1>0, <1>1, RemovalQuiet DEF RemovalInv, DeletedOnce
<1>2. CASE CreatePlayer
  <2>1. UNCHANGED <<deletionQ, dying>>
    BY <1>2 DEF CreatePlayer, removal
  <2>2. CASE AddressTaken(Head(asyncQ).addr)
    BY <1>0, <1>2, <2>1, <2>2 DEF CreatePlayer, RemovalInv, DeletedOnce
  <2>3. CASE ~AddressTaken(Head(asyncQ).addr)
    <3>1. PICK p \in Player : /\ heap[p] = "new" /\ users' = users \cup {p}
                             /\ heap' = [heap EXCEPT ![p] = "allocated"]
      BY <1>2, <2>3 DEF CreatePlayer, Unused
    <3> QED  BY <1>0, <2>1, <3>1 DEF RemovalInv, DeletedOnce, TypeOK
  <2> QED  BY <2>2, <2>3
<1>3. ASSUME NEW p \in Player, DeletePlayer(p)
      PROVE  RemovalInv'
  <2>1. UNCHANGED <<heap, dying>> /\ users' = users \ {p}
    BY <1>3 DEF DeletePlayer, session, Unlisted
  <2>2. CASE p \in users
    <3>1. deletionQ' = Append(deletionQ, p)
      BY <1>3, <2>2 DEF DeletePlayer
    <3>2. /\ DOMAIN deletionQ' = 1 .. (Len(deletionQ) + 1) /\ DOMAIN deletionQ = 1 .. Len(deletionQ)
          /\ \A i \in DOMAIN deletionQ : deletionQ'[i] = deletionQ[i]
          /\ deletionQ'[Len(deletionQ) + 1] = p /\ Len(deletionQ) \in Nat
      BY <1>0, <3>1
    <3>3. p # dying /\ heap[p] = "allocated" /\ \A i \in DOMAIN deletionQ : deletionQ[i] # p
      BY <1>0, <2>2 DEF DeletedOnce
    <3>4. \A i \in DOMAIN deletionQ' : i \in DOMAIN deletionQ \/ i = Len(deletionQ) + 1
      BY <3>2
    <3>5. \A i, j \in DOMAIN deletionQ' : i # j => deletionQ'[i] # deletionQ'[j]
      BY <1>0, <3>2, <3>3, <3>4 DEF DeletedOnce
    <3>6. \A q \in Player :
            q = dying' \/ (\E i \in DOMAIN deletionQ' : deletionQ'[i] = q) =>
              q \notin users' /\ heap'[q] = "allocated"
      BY <1>0, <2>1, <3>2, <3>3, <3>4 DEF DeletedOnce
    <3>7. /\ \A i \in DOMAIN deletionQ' : deletionQ'[i] # dying'
          /\ \A q \in users' : heap'[q] = "allocated"
      BY <1>0, <2>1, <3>2, <3>3, <3>4 DEF DeletedOnce
    <3> QED  BY <1>0, <3>5, <3>6, <3>7 DEF RemovalInv, DeletedOnce
  <2>3. CASE p \notin users
    <3>1. UNCHANGED deletionQ
      BY <1>3, <2>3 DEF DeletePlayer
    <3> QED  BY <1>0, <2>1, <2>3, <3>1 DEF RemovalInv, DeletedOnce
  <2> QED  BY <2>2, <2>3
<1>4. CASE BeginDelete
  <2>1. /\ deletionQ # <<>> /\ dying' = Head(deletionQ) /\ deletionQ' = Tail(deletionQ)
        /\ dying = None /\ UNCHANGED <<users, heap>>
    BY <1>4 DEF BeginDelete, table, session
  <2>2. /\ Len(deletionQ) \in Nat \ {0} /\ DOMAIN deletionQ = 1 .. Len(deletionQ)
        /\ DOMAIN deletionQ' = 1 .. (Len(deletionQ) - 1)
        /\ \A i \in DOMAIN deletionQ' : i + 1 \in DOMAIN deletionQ /\ deletionQ'[i] = deletionQ[i + 1]
        /\ dying' = deletionQ[1] /\ 1 \in DOMAIN deletionQ
    BY <1>0, <2>1
  <2>3. \A i, j \in DOMAIN deletionQ' : i # j => deletionQ'[i] # deletionQ'[j]
    BY <1>0, <2>2 DEF DeletedOnce
  <2>4. \A i \in DOMAIN deletionQ' : deletionQ'[i] # dying'
    BY <1>0, <2>2 DEF DeletedOnce
  <2>5. \A q \in Player :
          q = dying' \/ (\E i \in DOMAIN deletionQ' : deletionQ'[i] = q) =>
            q \notin users' /\ heap'[q] = "allocated"
    BY <1>0, <2>1, <2>2 DEF DeletedOnce
  <2> QED  BY <1>0, <2>1, <2>3, <2>4, <2>5 DEF RemovalInv, DeletedOnce
<1>5. CASE EndDelete
  <2>1. /\ dying \in Player /\ dying' = None /\ UNCHANGED <<users, deletionQ>>
        /\ heap' = [heap EXCEPT ![dying] = "freed"]
    BY <1>0, <1>5 DEF EndDelete, table
  <2>2. dying \notin users /\ \A i \in DOMAIN deletionQ : deletionQ[i] # dying
    BY <1>0, <2>1 DEF DeletedOnce
  <2>3. \A q \in Player : q # dying => heap'[q] = heap[q]
    BY <1>0, <2>1 DEF TypeOK
  <2>4. \A i \in DOMAIN deletionQ : deletionQ[i] \in Player
    BY <1>0
  <2> QED  BY <1>0, <2>1, <2>2, <2>3, <2>4 DEF RemovalInv, DeletedOnce
<1> QED  BY <1>1, <1>2, <1>3, <1>4, <1>5

\* A player is posted once, out of the table by then, and freed only afterwards.
THEOREM PostedOnceFreedLast == Spec => []DeletedOnce
<1>1. Spec => []RemovalInv
  BY InitRemoval, NextRemoval, PTL DEF Spec
<1> QED  BY <1>1, PTL DEF RemovalInv

-----------------------------------------------------------------------------
(* Who may still use a freed player.                                        *)

\* What the packet thread has is in the table, or was when it was unlisted.
PacketKnown == packet.player # None => packet.player \in users \cup held

\* A queued call has the use lock of its player, which holds off deletion unless the
\* call came from a handler that had the player too long.
CallsInUse ==
  \A i \in DOMAIN asyncQ : asyncQ[i].fn = "put" =>
    /\ asyncQ[i].player \in inUse
    /\ \A j \in DOMAIN asyncQ :
         asyncQ[j].fn = "put" /\ asyncQ[j].player = asyncQ[i].player => i = j
UseHoldsOff == \A p \in inUse : p = dying \/ Freed(p) => p \in held

ChatKnown == chat \subseteq users \cup held
FaultHeld == fault # None => fault \in held

HeldInv ==
  RemovalInv /\ PacketKnown /\ CallsInUse /\ UseHoldsOff /\ ChatKnown /\ FaultHeld

LEMMA InitHeld == Init => HeldInv
<1> SUFFICES ASSUME Init PROVE HeldInv
  OBVIOUS
<1>1. RemovalInv
  BY InitRemoval
<1>2. PacketKnown /\ CallsInUse /\ UseHoldsOff /\ ChatKnown /\ FaultHeld
  BY DEF Init, Idle, PacketKnown, CallsInUse, UseHoldsOff, ChatKnown, FaultHeld
<1> QED  BY <1>1, <1>2 DEF HeldInv

\* Appending a registration, or taking the first call off, leaves CallsInUse alone.
LEMMA QueueGrows ==
  ASSUME asyncQ \in Seq(Call), CallsInUse, UNCHANGED inUse,
         NEW a \in Addr, NEW c \in Account, asyncQ' = Append(asyncQ, RegisterCall(a, c))
  PROVE  CallsInUse'
<1>0. RegisterCall(a, c) \in Call /\ RegisterCall(a, c).fn = "register"
  BY DEF RegisterCall, Call
<1>1. /\ DOMAIN asyncQ' = 1 .. (Len(asyncQ) + 1) /\ DOMAIN asyncQ = 1 .. Len(asyncQ)
      /\ \A i \in DOMAIN asyncQ : asyncQ'[i] = asyncQ[i]
      /\ asyncQ'[Len(asyncQ) + 1].fn = "register" /\ Len(asyncQ) \in Nat
  BY <1>0
<1>2. \A i \in DOMAIN asyncQ' : asyncQ'[i].fn = "put" => i \in DOMAIN asyncQ
  BY <1>1
<1> QED  BY <1>1, <1>2 DEF CallsInUse

LEMMA QueueShrinks ==
  ASSUME asyncQ \in Seq(Call), asyncQ # <<>>, CallsInUse, asyncQ' = Tail(asyncQ),
         \/ UNCHANGED inUse
         \/ Head(asyncQ).fn = "put" /\ inUse' = inUse \ {Head(asyncQ).player}
  PROVE  CallsInUse'
<1>1. /\ Len(asyncQ) \in Nat \ {0} /\ DOMAIN asyncQ = 1 .. Len(asyncQ)
      /\ DOMAIN asyncQ' = 1 .. (Len(asyncQ) - 1)
      /\ \A i \in DOMAIN asyncQ' : i + 1 \in DOMAIN asyncQ /\ asyncQ'[i] = asyncQ[i + 1]
      /\ Head(asyncQ) = asyncQ[1] /\ 1 \in DOMAIN asyncQ
  OBVIOUS
<1>2. \A i \in DOMAIN asyncQ' : i \in Nat /\ i + 1 # 1
  BY <1>1
<1>3. ASSUME NEW i \in DOMAIN asyncQ', asyncQ'[i].fn = "put"
      PROVE  asyncQ'[i].player \in inUse'
  BY <1>1, <1>2, <1>3 DEF CallsInUse
<1>4. ASSUME NEW i \in DOMAIN asyncQ', asyncQ'[i].fn = "put", NEW j \in DOMAIN asyncQ',
             asyncQ'[j].fn = "put", asyncQ'[j].player = asyncQ'[i].player
      PROVE  i = j
  <2>1. i + 1 = j + 1
    BY <1>1, <1>4 DEF CallsInUse
  <2> QED  BY <1>2, <2>1
<1> QED  BY <1>3, <1>4 DEF CallsInUse

LEMMA QueueOfAttempt ==
  ASSUME TypeOK, CallsInUse, UNCHANGED inUse, NEW k \in Kind, NEW a \in Addr, NEW p \in Player,
         NEW n \in Nat, Attempt(k, a, p, n) \/ Unanswered(k, a)
  PROVE  CallsInUse' /\ (packet'.player = p \/ packet'.player = None)
<1>0. asyncQ \in Seq(Call)
  BY DEF TypeOK
<1>1. \/ UNCHANGED asyncQ
      \/ \E c \in Account : asyncQ' = Append(asyncQ, RegisterCall(a, c))
  BY DEF Attempt, Unanswered
<1>2. CallsInUse'
  <2>1. CASE UNCHANGED asyncQ
    BY <2>1 DEF CallsInUse
  <2>2. CASE \E c \in Account : asyncQ' = Append(asyncQ, RegisterCall(a, c))
    BY <1>0, <2>2, QueueGrows
  <2> QED  BY <1>1, <2>1, <2>2
<1>3. packet'.player = p \/ packet'.player = None
  BY DEF Attempt, Unanswered, Idle
<1> QED  BY <1>2, <1>3

\* A player in the table is neither freed nor being freed.
LEMMA ListedLives ==
  ASSUME RemovalInv, NEW p \in users
  PROVE  ~Freed(p) /\ p # dying
BY DEF RemovalInv, TableInv, Typed, TypeOK, DeletedOnce, Freed

LEMMA HandleHeld ==
  ASSUME HeldInv, Handle
  PROVE  PacketKnown' /\ CallsInUse' /\ UseHoldsOff' /\ ChatKnown' /\ FaultHeld'
<1> DEFINE p == packet.player
<1>0. /\ p \in Player /\ p \in users \cup held /\ RemovalInv /\ TypeOK /\ asyncQ \in Seq(Call)
      /\ CallsInUse /\ UseHoldsOff /\ ChatKnown /\ FaultHeld /\ None \notin Player
      /\ packet.kind \in Kind
  BY NamesHold DEF HeldInv, RemovalInv, TableInv, Typed, TypeOK, PacketShape, PacketKnown, Handle, Names
<1>1. UNCHANGED <<users, heap, dying, held>>
  BY DEF Handle, removal
<1>2. CASE Freed(p)
  <2>1. p \in held
    BY <1>0, <1>2, ListedLives
  <2>2. fault' = p /\ UNCHANGED <<chat, inUse, asyncQ, packet>>
    BY <1>2 DEF Handle, locks
  <2> QED  BY <1>0, <1>1, <2>1, <2>2 DEF HeldInv, PacketKnown, CallsInUse, UseHoldsOff, ChatKnown, FaultHeld, Freed
<1>3. CASE ~Freed(p)
  <2>0. Handler(packet.kind, p) /\ packet' = Idle
    BY <1>3 DEF Handle
  <2>1. PacketKnown'
    BY <2>0 DEF PacketKnown, Idle
  <2>2. CASE PutPlayerInGame(p)
    <3>1. UNCHANGED <<chat, fault>>
      BY <2>2 DEF PutPlayerInGame
    <3>2. CASE UNCHANGED <<inUse, asyncQ>>
      BY <1>0, <1>1, <2>1, <3>1, <3>2 DEF CallsInUse, UseHoldsOff, ChatKnown, FaultHeld, Freed
    <3>3. CASE p \notin inUse /\ inUse' = inUse \cup {p} /\ asyncQ' = Append(asyncQ, PutCall(p))
      <4>1. /\ DOMAIN asyncQ' = 1 .. (Len(asyncQ) + 1) /\ DOMAIN asyncQ = 1 .. Len(asyncQ)
            /\ \A i \in DOMAIN asyncQ : asyncQ'[i] = asyncQ[i]
            /\ asyncQ'[Len(asyncQ) + 1] = PutCall(p) /\ Len(asyncQ) \in Nat
        BY <1>0, <3>3
      <4>2. PutCall(p).fn = "put" /\ PutCall(p).player = p
        BY DEF PutCall
      <4>3. \A i \in DOMAIN asyncQ : asyncQ[i].fn = "put" => asyncQ[i].player # p
        BY <1>0, <3>3 DEF CallsInUse
      <4>4. \A i \in DOMAIN asyncQ' : i \in DOMAIN asyncQ \/ i = Len(asyncQ) + 1
        BY <4>1
      <4>5. CallsInUse'
        BY <1>0, <3>3, <4>1, <4>2, <4>3, <4>4 DEF CallsInUse
      <4>6. UseHoldsOff'
        BY <1>0, <1>1, <1>3, <3>3, ListedLives DEF UseHoldsOff, Freed
      <4> QED  BY <1>0, <1>1, <2>1, <3>1, <4>5, <4>6 DEF ChatKnown, FaultHeld
    <3> QED  BY <2>2, <3>2, <3>3 DEF PutPlayerInGame
  <2>3. CASE EnterWorld(p) \/ EnterChannel(p)
    <3>1. chat' \subseteq chat \cup {p} /\ UNCHANGED <<inUse, asyncQ, fault>>
      BY <2>3 DEF EnterWorld, EnterChannel
    <3> QED  BY <1>0, <1>1, <2>1, <3>1 DEF CallsInUse, UseHoldsOff, ChatKnown, FaultHeld, Freed
  <2>4. CASE ListChannel(p)
    <3>1. UNCHANGED <<chat, inUse, asyncQ>>
      BY <2>4 DEF ListChannel
    <3>2. fault' = fault \/ \E q \in chat : Freed(q) /\ fault' = q
      BY <2>4 DEF ListChannel
    <3>3. FaultHeld'
      BY <1>0, <1>1, <3>2, ListedLives DEF FaultHeld, ChatKnown
    <3> QED  BY <1>0, <1>1, <2>1, <3>1, <3>3 DEF CallsInUse, UseHoldsOff, ChatKnown, Freed
  <2>5. CASE UNCHANGED <<chat, inUse, asyncQ, fault>>
    BY <1>0, <1>1, <2>1, <2>5 DEF CallsInUse, UseHoldsOff, ChatKnown, FaultHeld, Freed
  <2>6. CASE AuthenticateVersion(p) \/ ReturnToMenu(p) \/ ExitGame(p)
    BY <2>5, <2>6 DEF AuthenticateVersion, ReturnToMenu, ExitGame
  <2> QED  BY <2>0, <2>2, <2>3, <2>4, <2>5, <2>6 DEF Handler
<1> QED  BY <1>2, <1>3

LEMMA NextHeld ==
  ASSUME HeldInv, [Next]_vars
  PROVE  HeldInv'
<1>0. /\ RemovalInv /\ RemovalInv' /\ TypeOK /\ PacketShape /\ asyncQ \in Seq(Call)
      /\ PacketKnown /\ CallsInUse /\ UseHoldsOff /\ ChatKnown /\ FaultHeld /\ None \notin Player
      /\ users \subseteq Player /\ packet.kind \in Kind /\ packet.tries \in Nat
      /\ deletionQ \in Seq(Player) /\ dying \in Player \cup {None}
      /\ heap \in [Player -> {"new", "allocated", "freed"}]
  BY NextRemoval, NamesHold DEF HeldInv, RemovalInv, TableInv, Typed, TypeOK, Names
<1> DEFINE Goal == PacketKnown' /\ CallsInUse' /\ UseHoldsOff' /\ ChatKnown' /\ FaultHeld'
<1>1. ASSUME NEW a \in Addr, NEW k \in Kind, Fetch(a, k)
      PROVE  Goal
  <2>1. UNCHANGED <<users, chat, heap, dying, held, inUse, fault>>
    BY <1>1 DEF Fetch, table, session, removal
  <2>2. CASE Unanswered(k, a)
    <3>1. packet'.player = None
      BY <2>2 DEF Unanswered, Idle
    <3>2. CallsInUse'
      <4>1. CASE UNCHANGED asyncQ
        BY <1>0, <2>1, <4>1 DEF CallsInUse
      <4>2. CASE \E c \in Account : asyncQ' = Append(asyncQ, RegisterCall(a, c))
        BY <1>0, <2>1, <4>2, QueueGrows
      <4> QED  BY <2>2, <4>1, <4>2 DEF Unanswered
    <3> QED  BY <1>0, <2>1, <3>1, <3>2 DEF PacketKnown, UseHoldsOff, ChatKnown, FaultHeld, Freed
  <2>3. ASSUME NEW p \in users, Attempt(k, a, p, 1)
        PROVE  Goal
    <3>1. CallsInUse' /\ (packet'.player = p \/ packet'.player = None)
      BY <1>0, <2>1, <2>3, QueueOfAttempt
    <3> QED  BY <1>0, <2>1, <3>1 DEF PacketKnown, UseHoldsOff, ChatKnown, FaultHeld, Freed
  <2> QED  BY <1>1, <2>2, <2>3 DEF Fetch
<1>2. ASSUME Retry
      PROVE  Goal
  <2>1. /\ UNCHANGED <<users, chat, heap, dying, held, inUse>>
        /\ packet.player \in Player /\ packet.addr \in Addr
    BY <1>0, <1>2 DEF Retry, table, session, removal, PacketShape
  <2>2. CASE Freed(packet.player)
    <3>1. packet.player \in held
      BY <1>0, <2>1, <2>2, ListedLives DEF PacketKnown
    <3>2. fault' = packet.player /\ UNCHANGED <<packet, asyncQ>>
      BY <1>2, <2>2 DEF Retry
    <3> QED  BY <1>0, <2>1, <3>1, <3>2 DEF PacketKnown, CallsInUse, UseHoldsOff, ChatKnown, FaultHeld, Freed
  <2>3. CASE ~Freed(packet.player)
    <3>1. /\ Attempt(packet.kind, packet.addr, packet.player, packet.tries + 1)
          /\ UNCHANGED fault /\ packet.tries + 1 \in Nat
      BY <1>0, <1>2, <2>3 DEF Retry
    <3>2. CallsInUse' /\ (packet'.player = packet.player \/ packet'.player = None)
      BY <1>0, <2>1, <3>1, QueueOfAttempt
    <3> QED  BY <1>0, <2>1, <3>1, <3>2 DEF PacketKnown, UseHoldsOff, ChatKnown, FaultHeld, Freed
  <2> QED  BY <2>2, <2>3
<1>3. ASSUME Handle
      PROVE  Goal
  BY <1>3, HandleHeld
<1>4. ASSUME CreatePlayer
      PROVE  Goal
  <2>1. /\ UNCHANGED <<chat, packet, inUse, dying, held, fault>> /\ asyncQ # <<>>
        /\ asyncQ' = Tail(asyncQ) /\ users \subseteq users'
    BY <1>4 DEF CreatePlayer, removal
  <2>2. \A p \in Player : heap'[p] = "freed" => heap[p] = "freed"
    BY <1>0, <1>4 DEF CreatePlayer
  <2>3. CallsInUse'
    BY <1>0, <2>1, QueueShrinks
  <2>4. inUse \subseteq Player
    BY <1>0 DEF TypeOK
  <2> QED  BY <1>0, <2>1, <2>2, <2>3, <2>4 DEF PacketKnown, UseHoldsOff, ChatKnown, FaultHeld, Freed
<1>5. ASSUME LoadCharacter
      PROVE  Goal
  <2> DEFINE p == Head(asyncQ).player
  <2>1. /\ asyncQ # <<>> /\ Head(asyncQ).fn = "put" /\ UNCHANGED <<users, chat, heap, packet, dying, held>>
    BY <1>5 DEF LoadCharacter, table, removal
  <2>2. p \in inUse
    <3>1. 1 \in DOMAIN asyncQ /\ Head(asyncQ) = asyncQ[1]
      BY <1>0, <2>1
    <3> QED  BY <1>0, <2>1, <3>1 DEF CallsInUse
  <2>3. CASE Freed(p)
    <3>1. fault' = p /\ UNCHANGED <<asyncQ, inUse>>
      BY <1>5, <2>3 DEF LoadCharacter
    <3> QED  BY <1>0, <2>1, <2>2, <2>3, <3>1 DEF PacketKnown, CallsInUse, UseHoldsOff, ChatKnown, FaultHeld, Freed
  <2>4. CASE ~Freed(p)
    <3>1. asyncQ' = Tail(asyncQ) /\ inUse' = inUse \ {p} /\ UNCHANGED fault
      BY <1>5, <2>4 DEF LoadCharacter
    <3>2. CallsInUse'
      BY <1>0, <2>1, <3>1, QueueShrinks
    <3> QED  BY <1>0, <2>1, <3>1, <3>2 DEF PacketKnown, UseHoldsOff, ChatKnown, FaultHeld, Freed
  <2> QED  BY <2>3, <2>4
<1>6. ASSUME NEW o \in Outcome, LoadPlayer(o)
      PROVE  Goal
  BY <1>0, <1>6 DEF LoadPlayer, table, removal, PacketKnown, CallsInUse, UseHoldsOff, ChatKnown, FaultHeld, Freed
<1>7. ASSUME BeginPass \/ EndPass
      PROVE  Goal
  BY <1>0, <1>7 DEF BeginPass, EndPass, table, session, locks, PacketKnown, CallsInUse, UseHoldsOff,
                    ChatKnown, FaultHeld, Freed
<1>8. ASSUME (\E p \in Player : Scan(p)) \/ \E idle \in BOOLEAN : Examine(idle)
      PROVE  Goal
  BY <1>0, <1>8 DEF Scan, Examine, table, session, PacketKnown, CallsInUse, UseHoldsOff,
                    ChatKnown, FaultHeld, Freed
<1>9. ASSUME NEW p \in Player, DeletePlayer(p)
      PROVE  Goal
  <2>1. /\ UNCHANGED <<heap, packet, asyncQ, inUse, dying, fault>>
        /\ users' = users \ {p} /\ chat' = chat \ {p}
        /\ held \subseteq held' /\ (p \in users /\ packet.player = p => p \in held')
    BY <1>9 DEF DeletePlayer, Unlisted, OffChannels, session, locks
  <2> QED  BY <1>0, <2>1 DEF PacketKnown, CallsInUse, UseHoldsOff, ChatKnown, FaultHeld, Freed
<1>10. ASSUME BeginDelete
       PROVE  Goal
  <2>1. /\ UNCHANGED <<users, chat, heap, packet, asyncQ, inUse, held, fault>>
        /\ dying' = Head(deletionQ) /\ Head(deletionQ) \notin inUse
    BY <1>10 DEF BeginDelete, UseDeathLock, table, session, locks
  <2> QED  BY <1>0, <2>1 DEF PacketKnown, CallsInUse, UseHoldsOff, ChatKnown, FaultHeld, Freed
<1>11. ASSUME EndDelete
       PROVE  Goal
  <2>1. /\ UNCHANGED <<users, chat, packet, asyncQ, inUse, held, fault>>
        /\ dying' = None /\ heap' = [heap EXCEPT ![dying] = "freed"]
    BY <1>11 DEF EndDelete, table, locks
  <2>2. inUse \subseteq Player
    BY <1>0 DEF TypeOK
  <2>3. \A p \in inUse : heap'[p] = "freed" => heap[p] = "freed" \/ p = dying
    BY <1>0, <2>1, <2>2
  <2>4. UseHoldsOff'
    BY <1>0, <2>1, <2>2, <2>3 DEF UseHoldsOff, Freed
  <2> QED  BY <1>0, <2>1, <2>4 DEF PacketKnown, CallsInUse, ChatKnown, FaultHeld
<1>12. ASSUME RefreshSystemChannels \/ UNCHANGED vars
       PROVE  Goal
  BY <1>0, <1>12 DEF RefreshSystemChannels, vars, table, session, locks, removal, PacketKnown,
                     CallsInUse, UseHoldsOff, ChatKnown, FaultHeld, Freed
<1>13. Goal
  BY <1>1, <1>2, <1>3, <1>4, <1>5, <1>6, <1>7, <1>8, <1>9, <1>10, <1>11, <1>12, Steps
<1> QED  BY <1>0, <1>13 DEF HeldInv

LEMMA HeldMeansSafe ==
  ASSUME HeldInv
  PROVE  OnlyHeldPlayersDangle
<1>1. \A p \in chat : Freed(p) => p \in held
  BY ListedLives DEF HeldInv, ChatKnown
<1> QED  BY <1>1 DEF HeldInv, FaultHeld, OnlyHeldPlayersDangle

\* A thread uses a freed player only where the packet thread had that player when
\* maintenance unlisted it.
THEOREM DanglesOnlyWhenHeld == Spec => []OnlyHeldPlayersDangle
<1>1. Spec => []HeldInv
  BY InitHeld, NextHeld, PTL DEF Spec
<1> QED  BY <1>1, HeldMeansSafe, PTL

-----------------------------------------------------------------------------
(* The plain mutex.                                                         *)

NoneGone ==
  ~Recursive => deletionQ = <<>> /\ dying = None /\ fault = None /\ \A p \in Player : ~Freed(p)

PlainInv == HeldInv /\ NoneGone

LEMMA InitPlain == Init => PlainInv
<1>1. Init => NoneGone
  BY DEF Init, NoneGone, Freed
<1> QED  BY <1>1, InitHeld DEF PlainInv

LEMMA PlainStep ==
  ASSUME PlainInv, [Next]_vars, ~Recursive
  PROVE  users \subseteq users' /\ deletionQ' = <<>> /\ fault' = None /\ NoneGone'
<1>0. /\ deletionQ = <<>> /\ dying = None /\ fault = None /\ \A p \in Player : heap[p] # "freed"
      /\ TypeOK /\ PacketShape /\ chat \subseteq Player
      /\ heap \in [Player -> {"new", "allocated", "freed"}]
  BY DEF PlainInv, NoneGone, Freed, HeldInv, RemovalInv, TableInv, Typed, TypeOK
<1>1. ~BeginDelete /\ ~EndDelete /\ ~(\E p \in Player : DeletePlayer(p))
  BY <1>0 DEF BeginDelete, EndDelete, DeletePlayer
<1>2. CASE CreatePlayer
  <2>1. /\ users \subseteq users' /\ UNCHANGED <<deletionQ, dying, fault>>
    BY <1>2 DEF CreatePlayer, removal
  <2>2. \A p \in Player : heap'[p] # "freed"
    BY <1>0, <1>2 DEF CreatePlayer
  <2> QED  BY <1>0, <2>1, <2>2 DEF NoneGone, Freed
<1>3. CASE ~CreatePlayer
  <2>1. UNCHANGED <<users, heap, deletionQ, dying, held>>
    BY <1>1, <1>3, RemovalQuiet
  <2>2. fault' = None
    <3>1. FaultHeld' /\ held' = held
      BY <2>1, NextHeld DEF PlainInv, HeldInv
    <3>2. CASE Retry
      <4>1. packet.player \in Player
        BY <1>0, <3>2 DEF Retry, PacketShape
      <4> QED  BY <1>0, <3>2, <4>1 DEF Retry, Freed
    <3>3. CASE Handle
      <4>1. packet.player \in Player /\ ~Freed(packet.player)
        BY <1>0, <3>3 DEF Handle, PacketShape, Freed
      <4>2. Handler(packet.kind, packet.player)
        BY <3>3, <4>1 DEF Handle
      <4> QED  BY <1>0, <4>2 DEF Handler, AuthenticateVersion, PutPlayerInGame, EnterWorld, ReturnToMenu,
                                 EnterChannel, ListChannel, ExitGame, Freed
    <3>4. CASE LoadCharacter
      <4>1. Head(asyncQ).player \in Player
        <5>1. asyncQ \in Seq(Call) /\ asyncQ # <<>>
          BY <1>0, <3>4 DEF TypeOK, LoadCharacter
        <5>2. Head(asyncQ) \in Call /\ Head(asyncQ).fn = "put"
          BY <3>4, <5>1 DEF LoadCharacter
        <5> QED  BY <5>2 DEF Call
      <4> QED  BY <1>0, <3>4, <4>1 DEF LoadCharacter, Freed
    <3>5. CASE UNCHANGED fault
      BY <1>0, <3>5
    <3>6. CASE \E a \in Addr, k \in Kind : Fetch(a, k)
      BY <3>5, <3>6 DEF Fetch
    <3>7. CASE \/ (\E o \in Outcome : LoadPlayer(o)) \/ BeginPass \/ EndPass
               \/ (\E p \in Player : Scan(p)) \/ (\E idle \in BOOLEAN : Examine(idle))
               \/ RefreshSystemChannels \/ UNCHANGED vars
      BY <3>5, <3>7 DEF LoadPlayer, BeginPass, EndPass, Scan, Examine, RefreshSystemChannels, vars
    <3> QED  BY <1>1, <1>3, <3>2, <3>3, <3>4, <3>6, <3>7, Steps
  <2> QED  BY <1>0, <2>1, <2>2 DEF NoneGone, Freed
<1> QED  BY <1>2, <1>3

LEMMA NextPlain ==
  ASSUME PlainInv, [Next]_vars
  PROVE  PlainInv'
<1>1. CASE Recursive
  BY <1>1, NextHeld DEF PlainInv, NoneGone
<1>2. CASE ~Recursive
  BY <1>2, NextHeld, PlainStep DEF PlainInv
<1> QED  BY <1>1, <1>2

\* With a lock that does not let its holder in again, no player ever leaves the
\* table, and so none is freed and none used afterwards.
THEOREM PlainMutexNeverDeletes == Spec => PlainMutexKeepsPlayers
<1>1. PlainInv /\ [Next]_vars =>
        [~Recursive => users \subseteq users' /\ deletionQ' = <<>> /\ fault' = None]_vars
  BY PlainStep
<1>2. Spec => []PlainInv
  BY InitPlain, NextPlain, PTL DEF Spec
<1> QED  BY <1>1, <1>2, PTL DEF Spec, PlainMutexKeepsPlayers
=============================================================================
