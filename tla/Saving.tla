-------------------------------- MODULE Saving --------------------------------
(***************************************************************************)
(* How a character reaches the database: Character::SaveCharacter and its  *)
(* callback (Character.cpp), who calls it and under which locks            *)
(* (PlayerManager.cpp, TFCMessagesHandler.cpp, SysopCmd.cpp), the write    *)
(* thread of ODBCMage.cpp and the end of a shutdown (Shutdown.cpp).        *)
(*                                                                         *)
(* A save reads the character under its Unit lock, posts a batch to the    *)
(* write thread and returns.  Four threads save: maintenance every four    *)
(* minutes, the packet thread, the asynchronous queue for SETNAME, and the *)
(* deletion thread once, last.  The write thread keeps the one lock all    *)
(* database objects share while a batch runs and while it is reported.     *)
(* A client may also leave its character for the menu, emptied or not, and *)
(* have it loaded again by the asynchronous queue.                         *)
(* What becomes of the players themselves is in PlayerManager.             *)
(***************************************************************************)
EXTENDS Naturals, Sequences, FiniteSets

CONSTANTS
  Session,     \* Character objects, one per login
  Character,   \* rows of the database
  CharOf,      \* the row of each session
  MaxState,    \* bound: how often the character of a session changes
  MaxSaves,    \* bound: saves under way, batches counted
  KickAfter,   \* failed saves in a row that are put up with: 2 in the code
  Recursive,   \* whether CLock lets its holder in again (Lock.h: it does not)
  Waits,       \* whether WaitForSingleObject waits (Win32Compat.h: it does not)
  None

Thread == {"maintenance", "packet", "async", "deletion", "writer"}

ASSUME SavingAssumption ==
  /\ CharOf \in [Session -> Character]
  /\ MaxState \in Nat /\ MaxSaves \in Nat \ {0} /\ KickAfter \in Nat
  /\ Recursive \in BOOLEAN /\ Waits \in BOOLEAN
  /\ None \notin Session \cup Thread

VARIABLES
  phase,      \* [Session -> where the login stands]
  state,      \* [Session -> how much of what it lived its character shows]
  inMenu,     \* the sessions not in_game, boPreInGame or boRerolling
  emptied,    \* the sessions whose character reset_character has emptied
  db,         \* [Character -> the session and the state its row holds]
  saving,     \* the sessions with boSavingOnProgress
  unsignaled, \* the sessions whose hCreationEvent is reset
  failures,   \* [Session -> numberOfSaveFailures]
  op,         \* what each saving thread is in the middle of
  plock,      \* [Session -> who has the lock of its Players object]
  ulock,      \* [Session -> who has the lock of its Unit]
  odbc,       \* who has cODBCMage::cStaticLock
  inUse,      \* the sessions whose csUsageLock an asynchronous request has
  queue,      \* the completion port of the write thread
  batch,      \* what the write thread works at, and how far it is
  deletionQ,  \* the completion port of the deletion thread
  down,       \* how far the shutdown is
  tries,      \* tryCount of the write thread
  fault,      \* the session whose freed or detached character was used
  due,        \* history: batches of before the wait that are not done yet
  unawaited,  \* history: sessions with a report that nobody awaited
  held,       \* history: sessions unlisted while a thread had their player
  lost,       \* history: sessions whose last save failed
  stale       \* history: sessions saved emptied or taken up in an earlier state

memory == <<phase, state, inMenu, emptied>>
locks == <<plock, ulock, odbc, inUse>>
flags == <<saving, unsignaled, failures>>
writing == <<db, queue, batch, tries>>
ending == <<deletionQ, down, due>>
ghosts == <<unawaited, held, lost, stale>>
vars == <<memory, locks, flags, writing, ending, ghosts, op, fault>>

Phase == {"new", "online", "leaving", "chosen", "unlisted", "gone", "condemned", "destroyed"}
Reason == {"auto", "saveme", "return", "reroll", "setname", "last", "load"}
Batch == [session : Session, state : 0..MaxState, reports : BOOLEAN]

Idle == [at |-> "idle", session |-> None, why |-> "auto", state |-> 0]
NoBatch == [at |-> "idle", session |-> None, state |-> 0, reports |-> FALSE]

Init ==
  /\ phase = [s \in Session |-> "new"]
  /\ state = [s \in Session |-> 0]
  /\ inMenu = {} /\ emptied = {}
  /\ db = [c \in Character |-> [by |-> None, state |-> 0]]
  /\ saving = {} /\ unsignaled = {} 
  /\ failures = [s \in Session |-> 0]
  /\ op = [t \in Thread \ {"writer"} |-> Idle]
  /\ plock = [s \in Session |-> None]
  /\ ulock = [s \in Session |-> None]
  /\ odbc = None
  /\ inUse = {}
  /\ queue = <<>>
  /\ batch = NoBatch
  /\ deletionQ = <<>>
  /\ down = "up"
  /\ tries = 0
  /\ fault = None
  /\ due = 0
  /\ unawaited = {} /\ held = {} /\ lost = {} /\ stale = {}

-----------------------------------------------------------------------------
Alive == fault = None /\ down # "exited"

Listed(s) == phase[s] \in {"online", "leaving", "chosen"}
Serving == Alive /\ down = "up"

\* Out of the world: RQFUNC_ReturnToMenu takes the unit off the map first.
Left(s) == s \in inMenu \/ (op["packet"].session = s /\ op["packet"].why = "return")

At(t, p) == Alive /\ op[t].at = p
Goto(t, p) == op' = [op EXCEPT ![t].at = p]

-----------------------------------------------------------------------------
(* A session.                                                               *)

\* RQFUNC_PutPlayerInGame; VerifyPlayerUnique lets one session of an account on.
Login(s) ==
  /\ Serving
  /\ phase[s] = "new"
  /\ \A z \in Session : CharOf[z] = CharOf[s] => ~Listed(z)
  /\ odbc = None
  /\ phase' = [phase EXCEPT ![s] = "online"]
  /\ UNCHANGED <<state, inMenu, emptied, locks, flags, writing, ending, ghosts, op, fault>>

\* Fights, goods and moves change the character as long as it is in the world.
Play(s) ==
  /\ Alive
  /\ Listed(s) \/ phase[s] = "unlisted"
  /\ ~Left(s)
  /\ state[s] < MaxState
  /\ state' = [state EXCEPT ![s] = @ + 1]
  /\ UNCHANGED <<phase, inMenu, emptied, locks, flags, writing, ending, ghosts, op, fault>>

\* RQFUNC_ExitGame.
ExitGame(s) ==
  /\ Serving
  /\ op["packet"] = Idle
  /\ phase[s] = "online" /\ plock[s] = None
  /\ phase' = [phase EXCEPT ![s] = "leaving"]
  /\ UNCHANGED <<state, inMenu, emptied, locks, flags, writing, ending, ghosts, op, fault>>

-----------------------------------------------------------------------------
(* Who saves, and what they hold.                                           *)

\* SaveCharacter refuses a second save, tested before any lock is taken.
Accepts(s) == s \notin saving

UnderWay ==
  Len(queue) + Cardinality({t \in DOMAIN op : op[t] # Idle}) + (IF batch.at = "idle" THEN 0 ELSE 1)

Starts(t, s, why, p) ==
  /\ Alive
  /\ op[t] = Idle
  /\ UnderWay < MaxSaves
  /\ op' = [op EXCEPT ![t] = [at |-> p, session |-> s, why |-> why, state |-> 0]]
  /\ UNCHANGED <<phase, state, emptied, flags, writing, ending, ghosts, fault>>

\* The maintenance pass picks the locks of the player and of its unit, and calls
\* QueryNextSave with both, whether the player is in the world or not.
QueryNextSave(s) ==
  /\ phase[s] = "online" \/ (phase[s] = "leaving" /\ s \in inUse)
  /\ Accepts(s)
  /\ plock[s] = None /\ ulock[s] = None
  /\ Starts("maintenance", s, "auto", "mark")
  /\ plock' = [plock EXCEPT ![s] = "maintenance"]
  /\ ulock' = [ulock EXCEPT ![s] = "maintenance"]
  /\ UNCHANGED <<odbc, inUse, inMenu>>

\* SAVEME and RQFUNC_ReturnToMenu save on the packet thread, which has the player;
\* so has every save of a listed player, and none is refused here.
RequestSave(s) ==
  /\ down = "up" /\ Listed(s) /\ Accepts(s)
  /\ s \notin inMenu
  /\ plock[s] = None
  /\ \E why \in {"saveme", "return"} : Starts("packet", s, why, "mark")
  /\ plock' = [plock EXCEPT ![s] = "packet"]
  /\ UNCHANGED <<ulock, odbc, inUse, inMenu>>

\* RQFUNC_GetPersonnalPClist, RQFUNC_CreatePlayer and RQFUNC_DeletePlayer clear
\* boRerolling and then save; the two last have the usage lock from before, for
\* the call they queue.
RerollSave(s) ==
  /\ down = "up" /\ Listed(s) /\ Accepts(s)
  /\ s \notin inMenu \cup inUse
  /\ plock[s] = None
  /\ Starts("packet", s, "reroll", "mark")
  /\ plock' = [plock EXCEPT ![s] = "packet"]
  /\ inMenu' = inMenu \cup {s}
  /\ inUse' \in {inUse, inUse \cup {s}}
  /\ UNCHANGED <<ulock, odbc>>

\* SETNAME, on the asynchronous queue, has the player and waits for the database.
SetName(s) ==
  /\ Listed(s)
  /\ plock[s] = None
  /\ Starts("async", s, "setname", "database")
  /\ plock' = [plock EXCEPT ![s] = "async"]
  /\ UNCHANGED <<ulock, odbc, inUse, inMenu>>

\* A save refused leaves the name changed in memory alone.
SetNameLocked ==
  LET s == op["async"].session
  IN  /\ At("async", "database")
      /\ odbc = None
      /\ IF Accepts(s)
         THEN Goto("async", "mark") /\ odbc' = "async" /\ UNCHANGED plock
         ELSE /\ op' = [op EXCEPT !["async"] = Idle]
              /\ plock' = [plock EXCEPT ![s] = None]
              /\ UNCHANGED odbc
      /\ UNCHANGED <<memory, flags, writing, ending, ghosts, ulock, inUse, fault>>

-----------------------------------------------------------------------------
(* SaveCharacter, on thread t.                                              *)

Reports(t) == op[t].why # "last"

\* A report of s is still to come.
Pending(s) ==
  \/ \E i \in DOMAIN queue : queue[i].session = s /\ queue[i].reports
  \/ batch.session = s /\ batch.reports
  \/ \E t \in DOMAIN op : op[t].session = s /\ op[t].at \in {"unit", "post"} /\ Reports(t)

Unawaited(s) == Pending(s) \/ op["deletion"].session = s \/ phase[s] \in {"condemned", "destroyed"}

\* Mutant: SavingStart is forgotten.
MarkSilent(t) ==
  LET s == op[t].session
  IN  /\ At(t, "mark")
      /\ saving' = saving \cup {s}
      /\ unawaited' = IF Reports(t) /\ Unawaited(s) THEN unawaited \cup {s} ELSE unawaited
      /\ Goto(t, "unit")
      /\ UNCHANGED <<memory, locks, unsignaled, failures, writing, ending, held, lost, stale, fault>>

\* boSavingOnProgress and, if it reports, SavingStart.
Mark(t) ==
  LET s == op[t].session
  IN  /\ At(t, "mark")
      /\ saving' = saving \cup {s}
      /\ unsignaled' = IF Reports(t) THEN unsignaled \cup {s} ELSE unsignaled
      /\ unawaited' = IF Reports(t) /\ Unawaited(s) THEN unawaited \cup {s} ELSE unawaited
      /\ Goto(t, "unit")
      /\ UNCHANGED <<memory, locks, failures, writing, ending, held, lost, stale, fault>>

\* The unit is locked, a second time by who has it, and what it is read.  Between,
\* IsTradeValid locks m_TradeLock a second time: with a plain mutex nobody gets
\* past that.  Of an emptied character nothing is left to read.
Read(t) ==
  LET s == op[t].session
  IN  /\ At(t, "unit")
      /\ ulock[s] = None \/ (Recursive /\ ulock[s] = t)
      /\ IF phase[s] = "destroyed"
         THEN fault' = s /\ UNCHANGED <<op, ulock, stale>>
         ELSE /\ ulock' = [ulock EXCEPT ![s] = t]
              /\ IF Recursive
                 THEN /\ op' = [op EXCEPT ![t].at = "post", ![t].state = IF s \in emptied THEN 0 ELSE state[s]]
                      /\ stale' = IF s \in emptied THEN stale \cup {s} ELSE stale
                 ELSE UNCHANGED <<op, stale>>
              /\ UNCHANGED fault
      /\ UNCHANGED <<memory, plock, odbc, inUse, flags, writing, ending, unawaited, held, lost>>

\* Mutant: the batch is put before those that wait.
PostFirst(t) ==
  LET s == op[t].session
  IN  /\ At(t, "post")
      /\ odbc = None \/ (Recursive /\ odbc = t)
      /\ queue' = <<[session |-> s, state |-> op[t].state, reports |-> Reports(t)]>> \o queue
      /\ ulock' = IF op[t].why \in {"auto", "last"} THEN ulock ELSE [ulock EXCEPT ![s] = None]
      /\ op' = [op EXCEPT ![t].at = "clear", ![t].state = 0]
      /\ UNCHANGED <<memory, plock, odbc, inUse, flags, db, batch, tries, ending, ghosts, fault>>

\* SendBatchRequest under the database lock, then the unit is unlocked; the
\* maintenance and the deletion thread had it from before.
Post(t) ==
  LET s == op[t].session
  IN  /\ At(t, "post")
      /\ odbc = None \/ (Recursive /\ odbc = t)
      /\ queue' = Append(queue, [session |-> s, state |-> op[t].state, reports |-> Reports(t)])
      /\ ulock' = IF op[t].why \in {"auto", "last"} THEN ulock ELSE [ulock EXCEPT ![s] = None]
      /\ op' = [op EXCEPT ![t].at = "clear", ![t].state = 0]
      /\ UNCHANGED <<memory, plock, odbc, inUse, flags, db, batch, tries, ending, ghosts, fault>>

\* Mutant: the flag stays.
ReturnSaving(t) ==
  LET s == op[t].session
      why == op[t].why
  IN  /\ At(t, "clear") /\ why # "return"
      /\ op' = [op EXCEPT ![t] = Idle]
      /\ plock' = IF why = "last" THEN plock ELSE [plock EXCEPT ![s] = None]
      /\ ulock' = IF why \in {"auto", "last"} THEN [ulock EXCEPT ![s] = None] ELSE ulock
      /\ odbc' = IF why = "setname" THEN None ELSE odbc
      /\ phase' = IF why = "last" THEN [phase EXCEPT ![s] = "condemned"] ELSE phase
      /\ UNCHANGED <<state, inMenu, emptied, inUse, flags, writing, ending, ghosts, fault>>

\* Mutant: the event is set when the batch is posted.
ReturnSignaling(t) ==
  LET s == op[t].session
      why == op[t].why
  IN  /\ At(t, "clear") /\ why # "return"
      /\ saving' = saving \ {s}
      /\ unsignaled' = unsignaled \ {s}
      /\ op' = [op EXCEPT ![t] = Idle]
      /\ plock' = IF why = "last" THEN plock ELSE [plock EXCEPT ![s] = None]
      /\ ulock' = IF why \in {"auto", "last"} THEN [ulock EXCEPT ![s] = None] ELSE ulock
      /\ odbc' = IF why = "setname" THEN None ELSE odbc
      /\ phase' = IF why = "last" THEN [phase EXCEPT ![s] = "condemned"] ELSE phase
      /\ UNCHANGED <<state, inMenu, emptied, inUse, failures, writing, ending, ghosts, fault>>

\* The flag is cleared outside the lock, and the caller lets go of what it had;
\* the deletion thread sends the unit to the death row.
Return(t) ==
  LET s == op[t].session
      why == op[t].why
  IN  /\ At(t, "clear") /\ why # "return"
      /\ saving' = saving \ {s}
      /\ op' = [op EXCEPT ![t] = Idle]
      /\ plock' = IF why = "last" THEN plock ELSE [plock EXCEPT ![s] = None]
      /\ ulock' = IF why \in {"auto", "last"} THEN [ulock EXCEPT ![s] = None] ELSE ulock
      /\ odbc' = IF why = "setname" THEN None ELSE odbc
      /\ phase' = IF why = "last" THEN [phase EXCEPT ![s] = "condemned"] ELSE phase
      /\ UNCHANGED <<state, inMenu, emptied, inUse, unsignaled, failures, writing, ending, ghosts, fault>>

\* RQFUNC_ReturnToMenu empties the character before it leaves the game.
Reset(t) ==
  LET s == op[t].session
  IN  /\ At(t, "clear") /\ op[t].why = "return"
      /\ saving' = saving \ {s}
      /\ emptied' = emptied \cup {s}
      /\ Goto(t, "leave")
      /\ UNCHANGED <<phase, state, inMenu, locks, unsignaled, failures, writing, ending, ghosts, fault>>

Leave(t) ==
  LET s == op[t].session
  IN  /\ At(t, "leave")
      /\ inMenu' = inMenu \cup {s}
      /\ op' = [op EXCEPT ![t] = Idle]
      /\ plock' = [plock EXCEPT ![s] = None]
      /\ UNCHANGED <<phase, state, emptied, ulock, odbc, inUse, flags, writing, ending, ghosts, fault>>

Save(t) == Mark(t) \/ Read(t) \/ Post(t) \/ Return(t) \/ Reset(t) \/ Leave(t)

-----------------------------------------------------------------------------
(* From the menu back into the game.                                        *)

\* RQFUNC_PutPlayerInGame, RQFUNC_CreatePlayer and RQFUNC_DeletePlayer in the menu
\* take the usage lock and queue a call.
RequestLoad(s) ==
  /\ Serving
  /\ op["packet"] = Idle
  /\ Listed(s) /\ s \in inMenu /\ s \notin inUse
  /\ plock[s] = None
  /\ inUse' = inUse \cup {s}
  /\ UNCHANGED <<memory, flags, writing, ending, ghosts, op, plock, ulock, odbc, fault>>

\* The queue comes to the call, which the handler has queued at its end.
BeginCall(s) ==
  /\ Alive
  /\ op["async"] = Idle
  /\ s \in inUse /\ op["packet"].session # s
  /\ op' = [op EXCEPT !["async"] = [at |-> "await", session |-> s, why |-> "load", state |-> 0]]
  /\ UNCHANGED <<memory, locks, flags, writing, ending, ghosts, fault>>

\* WaitForSaving, then the database; the usage lock is given back at the end.
EndCall(s) ==
  /\ At("async", "await") /\ op["async"].session = s
  /\ Waits => s \notin unsignaled
  /\ odbc = None
  /\ inUse' = inUse \ {s}
  /\ op' = [op EXCEPT !["async"] = Idle]
  /\ UNCHANGED <<phase, plock, ulock, odbc, flags, writing, ending, unawaited, held, lost, fault>>

\* AsyncRQFUNC_DeletePlayer, or a load that fails, which has emptied the character
\* by then.  What becomes of another character is left out.
CallInVain(s) ==
  /\ EndCall(s)
  /\ emptied' \in {emptied, emptied \cup {s}}
  /\ UNCHANGED <<state, inMenu, stale>>

\* What the row of a session's character has of it.
Row(s) == IF db[CharOf[s]].by = s THEN db[CharOf[s]].state ELSE 0

\* AsyncRQFUNC_PutPlayerInGame loads the character from its row.
TakeUp(s) ==
  /\ EndCall(s)
  /\ state' = [state EXCEPT ![s] = Row(s)]
  /\ inMenu' = inMenu \ {s}
  /\ emptied' = emptied \ {s}
  /\ stale' = IF Row(s) = state[s] THEN stale ELSE stale \cup {s}

Load == \E s \in Session : BeginCall(s) \/ CallInVain(s) \/ TakeUp(s)

-----------------------------------------------------------------------------
(* The end of a session.                                                    *)

\* The maintenance pass finds a player that is to go, under its lock, and unlists
\* it at the end of the pass, without.
Examine(s) ==
  /\ Alive
  /\ op["maintenance"] = Idle
  /\ plock[s] = None /\ s \notin inUse
  /\ phase[s] = "leaving"
  /\ phase' = [phase EXCEPT ![s] = "chosen"]
  /\ UNCHANGED <<state, inMenu, emptied, locks, flags, writing, ending, ghosts, op, fault>>

Unlist(s) ==
  /\ Alive
  /\ op["maintenance"] = Idle
  /\ phase[s] = "chosen"
  /\ phase' = [phase EXCEPT ![s] = "unlisted"]
  /\ deletionQ' = Append(deletionQ, s)
  /\ held' = IF plock[s] = None /\ s \notin inUse THEN held ELSE held \cup {s}
  /\ UNCHANGED <<state, inMenu, emptied, locks, flags, writing, down, due, unawaited, lost, stale, op, fault>>

\* AsyncDeletePlayer: WaitForSaving, which returns at once.
BeginDelete ==
  LET s == Head(deletionQ)
  IN  /\ Alive
      /\ op["deletion"] = Idle /\ deletionQ # <<>>
      /\ Waits => s \notin unsignaled
      /\ op' = [op EXCEPT !["deletion"] = [at |-> "use", session |-> s, why |-> "last", state |-> 0]]
      /\ deletionQ' = Tail(deletionQ)
      /\ unawaited' = IF s \in unsignaled THEN unawaited \cup {s} ELSE unawaited
      /\ UNCHANGED <<memory, locks, flags, writing, down, due, held, lost, stale, fault>>

\* UseDeathLock, then the unit: out of the world, and saved a last time, unless it
\* was left for the menu or boSavingOnProgress has that refused too.
LeaveWorld ==
  LET s == op["deletion"].session
  IN  /\ At("deletion", "use")
      /\ s \notin inUse /\ ulock[s] = None
      /\ IF s \notin inMenu /\ Accepts(s)
         THEN /\ Goto("deletion", "mark")
              /\ ulock' = [ulock EXCEPT ![s] = "deletion"]
              /\ phase' = [phase EXCEPT ![s] = "gone"]
         ELSE /\ op' = [op EXCEPT !["deletion"] = Idle]
              /\ phase' = [phase EXCEPT ![s] = "condemned"]
              /\ UNCHANGED ulock
      /\ UNCHANGED <<state, inMenu, emptied, plock, odbc, inUse, flags, writing, ending, ghosts, fault>>

\* The NPC thread destroys what is on the death row; once it counts down the
\* shutdown to its end it destroys nothing any more.
Destroy(s) ==
  /\ Serving
  /\ phase[s] = "condemned" /\ ulock[s] = None
  /\ phase' = [phase EXCEPT ![s] = "destroyed"]
  /\ UNCHANGED <<state, inMenu, emptied, locks, flags, writing, ending, ghosts, op, fault>>

-----------------------------------------------------------------------------
(* ODBCWriteThread.                                                         *)

TakeBatch ==
  /\ Alive
  /\ batch.at = "idle" /\ queue # <<>>
  /\ odbc = None
  /\ odbc' = "writer"
  /\ batch' = [at |-> "run", session |-> Head(queue).session,
               state |-> Head(queue).state, reports |-> Head(queue).reports]
  /\ queue' = Tail(queue)
  /\ UNCHANGED <<memory, flags, db, tries, ending, ghosts, op, plock, ulock, inUse, fault>>

Decrement(n) == IF n = 0 THEN 0 ELSE n - 1

\* The batch is done with, and the database free.
BatchDone ==
  /\ batch' = NoBatch
  /\ odbc' = None
  /\ due' = Decrement(due)

\* DataSaveCallback, with the database still locked: s has failed n times in a
\* row, and when that is too often its player is to be kicked.
DataSaveCallback(s, n) ==
  IF phase[s] = "destroyed" \/ (n > KickAfter /\ phase[s] = "condemned")
  THEN fault' = s /\ UNCHANGED <<failures, unsignaled, batch, odbc, due>>
  ELSE /\ failures' = [failures EXCEPT ![s] = n]
       /\ IF n > KickAfter
          THEN batch' = [batch EXCEPT !.at = "kick"] /\ UNCHANGED <<unsignaled, odbc, due>>
          ELSE unsignaled' = unsignaled \ {s} /\ BatchDone
       /\ UNCHANGED fault

\* The transaction ends; a batch without a callback is forgotten, failed or not,
\* and no later one repeats it, nor one of a character that was left.
EndBatch(s, n) ==
  /\ Alive
  /\ batch.at = "run" /\ batch.session = s
  /\ IF batch.reports THEN DataSaveCallback(s, n)
     ELSE BatchDone /\ UNCHANGED <<failures, unsignaled, fault>>
  /\ lost' = IF n > 0 /\ (~batch.reports \/ Left(s)) THEN lost \cup {s} ELSE lost
  /\ UNCHANGED <<memory, saving, queue, tries, deletionQ, down, unawaited, held, stale, op, plock, ulock, inUse>>

Commit(s) ==
  /\ EndBatch(s, 0)
  /\ db' = [db EXCEPT ![CharOf[s]] = [by |-> s, state |-> batch.state]]

\* Mutant: failures are counted for ever.
RollbackAlways(s) ==
  /\ EndBatch(s, failures[s] + 1)
  /\ UNCHANGED db

\* Bound: no failure is counted past the kick.
Rollback(s) ==
  /\ batch.reports => failures[s] <= KickAfter
  /\ EndBatch(s, failures[s] + 1)
  /\ UNCHANGED db

\* The kick takes the lock of the player.
Kick(s) ==
  /\ Alive
  /\ batch.at = "kick" /\ batch.session = s
  /\ plock[s] = None
  /\ IF phase[s] \in {"condemned", "destroyed"}
     THEN fault' = s /\ UNCHANGED <<phase, unsignaled, batch, odbc, due>>
     ELSE /\ phase' = [phase EXCEPT ![s] = IF @ = "online" THEN "leaving" ELSE @]
          /\ unsignaled' = unsignaled \ {s}
          /\ BatchDone
          /\ UNCHANGED fault
  /\ UNCHANGED <<state, inMenu, emptied, saving, failures, db, queue, tries, deletionQ, down, ghosts, op, plock, ulock, inUse>>

\* Mutant: the shutdown ends the thread between two batches.
TimeoutAtOnce ==
  /\ Alive
  /\ batch.at = "idle"
  /\ down = "waiting"
  /\ batch' = [NoBatch EXCEPT !.at = "stopped"]
  /\ tries' = 1
  /\ UNCHANGED <<memory, locks, flags, db, queue, ending, ghosts, op, fault>>

\* Two waits of 2.5 seconds in vain end the thread once the shutdown waits for it.
Timeout ==
  /\ Alive
  /\ batch.at = "idle" /\ queue = <<>>
  /\ down = "waiting"
  /\ IF tries > 0 THEN batch' = [NoBatch EXCEPT !.at = "stopped"] ELSE UNCHANGED batch
  /\ tries' = 1
  /\ UNCHANGED <<memory, locks, flags, db, queue, ending, ghosts, op, fault>>

Write ==
  \/ TakeBatch \/ Timeout
  \/ \E s \in Session : Commit(s) \/ Rollback(s) \/ Kick(s)

-----------------------------------------------------------------------------
(* ShutdownTimer, its last call, on the NPC thread.                         *)

\* No more packets, and every player is to go.
SaveAll ==
  /\ Serving
  /\ down' = "flagged"
  /\ phase' = [s \in Session |-> IF phase[s] = "online" THEN "leaving" ELSE phase[s]]
  /\ UNCHANGED <<state, inMenu, emptied, locks, flags, writing, deletionQ, due, ghosts, op, fault>>

\* WaitForODBCShutdown, half a second later.
BeginWait ==
  /\ Alive
  /\ down = "flagged"
  /\ down' = "waiting"
  /\ due' = Len(queue) + (IF batch.at = "idle" THEN 0 ELSE 1)
  /\ UNCHANGED <<memory, locks, flags, writing, deletionQ, ghosts, op, fault>>

\* The wait for the write thread: WaitForSingleObject returns at once.
Exit ==
  /\ Alive
  /\ down = "waiting"
  /\ Waits => batch.at = "stopped"
  /\ down' = "exited"
  /\ UNCHANGED <<memory, locks, flags, writing, deletionQ, due, ghosts, op, fault>>

-----------------------------------------------------------------------------
Next ==
  \/ \E s \in Session :
       \/ Login(s) \/ Play(s) \/ ExitGame(s)
       \/ QueryNextSave(s) \/ RequestSave(s) \/ RerollSave(s) \/ SetName(s)
       \/ RequestLoad(s)
       \/ Examine(s) \/ Unlist(s) \/ Destroy(s)
  \/ SetNameLocked \/ Load \/ BeginDelete \/ LeaveWorld
  \/ \E t \in Thread \ {"writer"} : Save(t)
  \/ Write
  \/ SaveAll \/ BeginWait \/ Exit

Spec == Init /\ [][Next]_vars

\* Every thread goes on, and gets a lock that is free again and again.
Fairness ==
  /\ SF_vars(Save("packet"))
  /\ SF_vars(Save("async") \/ SetNameLocked \/ Load)
  /\ SF_vars(Save("maintenance") \/ \E s \in Session : Unlist(s))
  /\ SF_vars(Save("deletion") \/ BeginDelete \/ LeaveWorld)
  /\ SF_vars(Write)

FairSpec == Spec /\ Fairness

-----------------------------------------------------------------------------
(* Properties.                                                              *)

TypeOK ==
  /\ phase \in [Session -> Phase]
  /\ state \in [Session -> 0..MaxState]
  /\ inMenu \subseteq Session /\ emptied \subseteq Session
  /\ db \in [Character -> [by : Session \cup {None}, state : 0..MaxState]]
  /\ saving \subseteq Session /\ unsignaled \subseteq Session
  /\ failures \in [Session -> 0..KickAfter + 1]
  /\ op \in [Thread \ {"writer"} ->
               [at : {"idle", "mark", "unit", "post", "clear", "leave", "use", "database", "await"},
                session : Session \cup {None}, why : Reason, state : 0..MaxState]]
  /\ plock \in [Session -> Thread \cup {None}] /\ ulock \in [Session -> Thread \cup {None}]
  /\ odbc \in Thread \cup {None} /\ inUse \subseteq Session
  /\ queue \in Seq(Batch)
  /\ batch \in [at : {"idle", "run", "kick", "stopped"},
                session : Session \cup {None}, state : 0..MaxState, reports : BOOLEAN]
  /\ deletionQ \in Seq(Session)
  /\ down \in {"up", "flagged", "waiting", "exited"}
  /\ tries \in 0..1 /\ due \in Nat
  /\ fault \in Session \cup {None}
  /\ unawaited \subseteq Session /\ held \subseteq Session /\ lost \subseteq Session
  /\ stale \subseteq Session

\* Whichever threads save a character, even two at once past the test of
\* boSavingOnProgress, its batches run in the order it was read: a row never goes
\* back to an earlier state of the same session, unless the session itself went
\* back to one or was saved emptied.
SavedInOrder ==
  [][\A c \in Character :
       db'[c].by = db[c].by => db'[c].state >= db[c].state \/ db[c].by \in stale]_vars

\* "Avoids player to load before it has finished to save.": a character comes back
\* from the menu as it was left once its save was reported; it does not if the
\* load came before the report, which WaitForSaving does not await in this build,
\* or a save failed, two were under way at once, which have one event, or it was
\* saved emptied meanwhile.
ComesBackAsLeft ==
  [][\A s \in inMenu \ inMenu' :
       state'[s] = state[s] \/ s \in unsignaled \cup lost \cup unawaited \cup stale]_vars

\* "assures all requests have been sent before returning": the server exits only
\* after every batch that was posted before the wait.
PostedIsSent == down = "exited" => due = 0

\* The write thread itself ends only after every batch that was posted before the
\* shutdown waited for it, whatever is posted meanwhile.
StopsAfterSending == batch.at = "stopped" => due = 0

\* A report reaches a character that was destroyed, or detached from its player,
\* only if two reports of it were under way at once, or one still was when the
\* deletion thread was past its wait, or a save began after that.
DanglesOnlyUnawaited == fault # None => fault \in unawaited

\* What a character had come to when it was sent to the death row is in its row or
\* in a batch on the way there, unless a batch that no later one repeats failed,
\* it was saved emptied, or a thread had the player when it was unlisted.
LastStateSaved ==
  \A s \in Session :
    phase[s] \in {"condemned", "destroyed"} =>
      \/ Row(s) >= state[s]
      \/ batch.session = s /\ batch.state >= state[s]
      \/ \E i \in DOMAIN queue : queue[i].session = s /\ queue[i].state >= state[s]
      \/ s \in lost \cup stale \cup held

\* "Disconnecting character %s to avoid data loss and timewarps": a player whose
\* saves failed three times in a row is kicked.
FailingIsKicked ==
  \A s \in Session : failures[s] > KickAfter ~> phase[s] # "online" \/ ~Alive

\* "then save the character", "then reset it to avoid any misunderstanding": what
\* was saved of a character is not written over with the emptied one.
EmptiedIsNotSaved ==
  [][\A s \in emptied : db[CharOf[s]].by = s => db'[CharOf[s]].state >= db[CharOf[s]].state]_vars

\* With the plain mutex of Lock.h no save gets past IsTradeValid, or the maintenance
\* and the deletion thread past the unit they have: whoever saves never comes back
\* from SaveCharacter, with player and unit and, in SETNAME, the database locked for
\* good, and no character is ever written.
PlainMutexStops ==
  [][~Recursive =>
       /\ \A t \in DOMAIN op : op[t].at \in {"mark", "unit"} =>
            /\ op'[t].at \in {"mark", "unit"} /\ op'[t].session = op[t].session
            /\ t # "deletion" => plock'[op[t].session] = t
       /\ \A s \in Session : ulock[s] # None => ulock'[s] = ulock[s]
       /\ odbc = "async" => odbc' = "async"
       /\ UNCHANGED <<queue, db>>]_vars
=============================================================================
