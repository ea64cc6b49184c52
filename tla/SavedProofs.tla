----------------------------- MODULE SavedProofs -----------------------------
(***************************************************************************)
(* What TLAPS proves about what a save is for: when a report can reach a   *)
(* character that is gone, that what a character had come to is in its row *)
(* or on the way there when it is left or destroyed, that it comes back    *)
(* so; and what the plain mutex of the build makes of all saves.           *)
(***************************************************************************)
EXTENDS SavingProofs

-----------------------------------------------------------------------------
(* What an action does to the thread that takes it.                         *)

Others(t) == \A u \in Saver : u # t => op'[u] = op[u]

Moves(t, p) ==
  /\ op[t].session \in Session
  /\ op'[t].at = p /\ op'[t].session = op[t].session /\ op'[t].why = op[t].why
  /\ Others(t)

Stops(t) == op'[t].at = "idle" /\ op'[t].session = None /\ Others(t)

LEMMA MovesTo ==
  ASSUME TypeInv, NEW t \in Saver, op[t].at # "idle", NEW p,
         op' = [op EXCEPT ![t].at = p]
  PROVE  Moves(t, p) /\ op'[t].state = op[t].state
BY SaverSession DEF TypeInv, OpOK, Op, Moves, Others

LEMMA MovesWith ==
  ASSUME TypeInv, NEW t \in Saver, op[t].at # "idle", NEW p, NEW n,
         op' = [op EXCEPT ![t].at = p, ![t].state = n]
  PROVE  Moves(t, p) /\ op'[t].state = n
BY SaverSession DEF TypeInv, OpOK, Op, Moves, Others

LEMMA StopsAt ==
  ASSUME TypeInv, NEW t \in Saver, op' = [op EXCEPT ![t] = Idle]
  PROVE  Stops(t)
BY DEF TypeInv, OpOK, Stops, Others, Idle

LEMMA StartDoes ==
  ASSUME TypeInv, NEW t \in Saver, NEW s \in Session, NEW why, NEW p, Starts(t, s, why, p)
  PROVE  /\ op[t].at = "idle" /\ op[t].session = None
         /\ op'[t].at = p /\ op'[t].session = s /\ op'[t].why = why /\ Others(t)
         /\ UNCHANGED <<phase, state, emptied, saving, unsignaled, db, queue, batch,
                        deletionQ, unawaited, held, lost, stale, fault>>
<1> DEFINE x == [at |-> p, session |-> s, why |-> why, state |-> 0]
<1>1. op[t] = Idle /\ op' = [op EXCEPT ![t] = x]
  BY DEF Starts
<1>2. x.at = p /\ x.session = s /\ x.why = why
  OBVIOUS
<1> HIDE DEF x
<1>3. op'[t] = x /\ Others(t)
  BY <1>1 DEF TypeInv, OpOK, Others
<1> QED  BY <1>1, <1>2, <1>3 DEF Starts, Idle, flags, writing, ending, ghosts

\* Three threads start a save in four ways, each with the player.
BeginsSave(t, s) ==
  /\ op[t].at = "idle" /\ op[t].session = None
  /\ op'[t].session = s /\ Others(t)
  /\ \/ /\ t = "maintenance" /\ op'[t].at = "mark" /\ op'[t].why = "auto"
        /\ ulock[s] = None /\ ulock' = [ulock EXCEPT ![s] = t]
        /\ phase[s] \in {"online", "leaving"} /\ UNCHANGED <<inMenu, inUse>>
     \/ /\ t = "packet" /\ op'[t].at = "mark" /\ op'[t].why \in {"saveme", "return"}
        /\ s \notin inMenu /\ UNCHANGED <<ulock, inMenu, inUse>>
     \/ /\ t = "packet" /\ op'[t].at = "mark" /\ op'[t].why = "reroll"
        /\ s \notin inMenu \cup inUse
        /\ inMenu' = inMenu \cup {s} /\ inUse' \in {inUse, inUse \cup {s}} /\ UNCHANGED ulock
     \/ /\ t = "async" /\ op'[t].at = "database" /\ op'[t].why = "setname"
        /\ UNCHANGED <<ulock, inMenu, inUse>>
  /\ Listed(s)
  /\ plock[s] = None /\ plock' = [plock EXCEPT ![s] = t]
  /\ UNCHANGED <<phase, state, emptied, odbc, saving, unsignaled, db, queue, batch,
                 deletionQ, unawaited, held, lost, stale, fault>>

LEMMA SavesBegin ==
  ASSUME TypeInv, NEW s \in Session,
         QueryNextSave(s) \/ RequestSave(s) \/ RerollSave(s) \/ SetName(s)
  PROVE  \E t \in Saver : BeginsSave(t, s)
<1>1. CASE QueryNextSave(s)
  <2>1. "maintenance" \in Saver /\ Starts("maintenance", s, "auto", "mark")
    BY <1>1 DEF QueryNextSave, Saver, Thread
  <2>2. /\ phase[s] \in {"online", "leaving"} /\ plock[s] = None /\ ulock[s] = None
        /\ plock' = [plock EXCEPT ![s] = "maintenance"] /\ ulock' = [ulock EXCEPT ![s] = "maintenance"]
        /\ UNCHANGED <<odbc, inUse, inMenu>>
    BY <1>1 DEF QueryNextSave
  <2>3. Listed(s)
    BY <2>2 DEF Listed
  <2>4. /\ op["maintenance"].at = "idle" /\ op["maintenance"].session = None
        /\ op'["maintenance"].at = "mark" /\ op'["maintenance"].session = s
        /\ op'["maintenance"].why = "auto" /\ Others("maintenance")
        /\ UNCHANGED <<phase, state, emptied, saving, unsignaled, db, queue, batch,
                       deletionQ, unawaited, held, lost, stale, fault>>
    BY <2>1, StartDoes
  <2> QED  BY <2>1, <2>2, <2>3, <2>4 DEF BeginsSave
<1>2. CASE RequestSave(s)
  <2>1. PICK why \in {"saveme", "return"} : Starts("packet", s, why, "mark")
    BY <1>2 DEF RequestSave
  <2> QED  BY <1>2, <2>1, StartDoes DEF BeginsSave, RequestSave, Saver, Thread
<1>3. CASE RerollSave(s)
  <2>1. "packet" \in Saver /\ Starts("packet", s, "reroll", "mark")
    BY <1>3 DEF RerollSave, Saver, Thread
  <2> QED  BY <1>3, <2>1, StartDoes DEF BeginsSave, RerollSave
<1>4. CASE SetName(s)
  <2>1. "async" \in Saver /\ Starts("async", s, "setname", "database")
    BY <1>4 DEF SetName, Saver, Thread
  <2>2. /\ Listed(s) /\ plock[s] = None /\ plock' = [plock EXCEPT ![s] = "async"]
        /\ UNCHANGED <<ulock, odbc, inUse, inMenu>>
    BY <1>4 DEF SetName
  <2>3. /\ op["async"].at = "idle" /\ op["async"].session = None
        /\ op'["async"].at = "database" /\ op'["async"].session = s
        /\ op'["async"].why = "setname" /\ Others("async")
        /\ UNCHANGED <<phase, state, emptied, saving, unsignaled, db, queue, batch,
                       deletionQ, unawaited, held, lost, stale, fault>>
    BY <2>1, StartDoes
  <2> QED  BY <2>1, <2>2, <2>3 DEF BeginsSave
<1> QED  BY <1>1, <1>2, <1>3, <1>4

LEMMA MarkDoes ==
  ASSUME TypeInv, NEW t \in Saver, Mark(t)
  PROVE  /\ op[t].at = "mark" /\ Moves(t, "unit")
         /\ saving' = saving \cup {op[t].session}
         /\ unsignaled' = IF op[t].why # "last" THEN unsignaled \cup {op[t].session} ELSE unsignaled
         /\ unawaited' = IF op[t].why # "last" /\ Unawaited(op[t].session)
                         THEN unawaited \cup {op[t].session} ELSE unawaited
         /\ UNCHANGED <<phase, state, inMenu, emptied, plock, ulock, odbc, inUse, db, queue, batch,
                        deletionQ, held, lost, stale, fault>>
BY MovesTo DEF Mark, At, Goto, Reports, memory, locks, writing, ending

LEMMA ReadDoes ==
  ASSUME TypeInv, NEW t \in Saver, Read(t)
  PROVE  /\ op[t].at = "unit" /\ op[t].session \in Session
         /\ \/ phase[op[t].session] = "destroyed" /\ fault' = op[t].session /\ UNCHANGED <<op, ulock, stale>>
            \/ /\ ulock[op[t].session] = None \/ (Recursive /\ ulock[op[t].session] = t)
               /\ ulock' = [ulock EXCEPT ![op[t].session] = t] /\ UNCHANGED fault
               /\ \/ /\ Recursive /\ Moves(t, "post") /\ stale \subseteq stale'
                     /\ op[t].session \in stale' \/ op'[t].state = state[op[t].session]
                  \/ ~Recursive /\ UNCHANGED <<op, stale>>
         /\ UNCHANGED <<phase, state, inMenu, emptied, plock, odbc, inUse, saving, unsignaled, db, queue, batch,
                        deletionQ, unawaited, held, lost>>
<1> DEFINE s == op[t].session
<1>1. op[t].at = "unit" /\ s \in Session
  BY SaverSession DEF Read, At
<1>2. UNCHANGED <<phase, state, inMenu, emptied, plock, odbc, inUse, saving, unsignaled, db, queue, batch,
                  deletionQ, unawaited, held, lost>>
  <2>1. UNCHANGED <<memory, plock, odbc, inUse, flags, writing, ending, unawaited, held, lost>>
    BY DEF Read
  <2> QED  BY <2>1 DEF memory, flags, writing, ending
<1>3. CASE phase[s] = "destroyed"
  BY <1>1, <1>2, <1>3 DEF Read
<1>4. CASE phase[s] # "destroyed"
  <2>1. /\ ulock[s] = None \/ (Recursive /\ ulock[s] = t)
        /\ ulock' = [ulock EXCEPT ![s] = t] /\ UNCHANGED fault
    BY <1>4 DEF Read
  <2>2. CASE ~Recursive
    BY <1>1, <1>2, <1>4, <2>1, <2>2 DEF Read
  <2>3. CASE Recursive
    <3> DEFINE n == IF s \in emptied THEN 0 ELSE state[s]
    <3>1. /\ op' = [op EXCEPT ![t].at = "post", ![t].state = n]
          /\ stale' = IF s \in emptied THEN stale \cup {s} ELSE stale
      BY <1>4, <2>3 DEF Read
    <3>2. Moves(t, "post") /\ op'[t].state = n
      <4> HIDE DEF n
      <4> QED  BY <1>1, <3>1, MovesWith
    <3>3. (s \in stale' \/ op'[t].state = state[s]) /\ stale \subseteq stale'
      BY <3>1, <3>2
    <3>4. Moves(t, "post")
      BY <3>2
    <3> HIDE DEF s
    <3> QED  BY <1>1, <1>2, <2>1, <2>3, <3>3, <3>4 DEF s
  <2> QED  BY <2>2, <2>3
<1> QED  BY <1>3, <1>4

LEMMA PostDoes ==
  ASSUME TypeInv, NEW t \in Saver, Post(t)
  PROVE  /\ op[t].at = "post" /\ Moves(t, "clear")
         /\ Len(queue') = Len(queue) + 1
         /\ \A i \in 1..Len(queue) : queue'[i] = queue[i]
         /\ queue'[Len(queue) + 1].session = op[t].session
         /\ queue'[Len(queue) + 1].state = op[t].state
         /\ queue'[Len(queue) + 1].reports = (op[t].why # "last")
         /\ ulock' = IF op[t].why \in {"auto", "last"} THEN ulock ELSE [ulock EXCEPT ![op[t].session] = None]
         /\ UNCHANGED <<phase, state, inMenu, emptied, plock, odbc, inUse, saving, unsignaled, db, batch,
                        deletionQ, unawaited, held, lost, stale, fault>>
<1> DEFINE new == [session |-> op[t].session, state |-> op[t].state, reports |-> Reports(t)]
<1>1. new.session = op[t].session /\ new.state = op[t].state /\ new.reports = (op[t].why # "last")
  BY DEF Reports
<1>2. queue' = Append(queue, new) /\ queue \in Seq(Batch)
  BY DEF Post, TypeInv, WritingOK
<1> HIDE DEF new
<1>3. /\ Len(queue') = Len(queue) + 1 /\ queue'[Len(queue) + 1] = new
      /\ \A i \in 1..Len(queue) : queue'[i] = queue[i]
  BY <1>2
<1>4. op[t].at = "post" /\ Moves(t, "clear")
  BY MovesWith DEF Post, At
<1> QED  BY <1>1, <1>3, <1>4 DEF Post, memory, flags, ending, ghosts

LEMMA ReturnDoes ==
  ASSUME TypeInv, NEW t \in Saver, Return(t)
  PROVE  /\ op[t].at = "clear" /\ op[t].why # "return" /\ op[t].session \in Session /\ Stops(t)
         /\ saving' = saving \ {op[t].session}
         /\ plock' = IF op[t].why = "last" THEN plock ELSE [plock EXCEPT ![op[t].session] = None]
         /\ ulock' = IF op[t].why \in {"auto", "last"} THEN [ulock EXCEPT ![op[t].session] = None] ELSE ulock
         /\ odbc' = IF op[t].why = "setname" THEN None ELSE odbc
         /\ phase' = IF op[t].why = "last" THEN [phase EXCEPT ![op[t].session] = "condemned"] ELSE phase
         /\ UNCHANGED <<state, inMenu, emptied, inUse, unsignaled, db, queue, batch,
                        deletionQ, unawaited, held, lost, stale, fault>>
<1>1. op[t].at = "clear" /\ op[t].session \in Session
  BY SaverSession DEF Return, At
<1>2. Stops(t)
  BY StopsAt DEF Return
<1> QED  BY <1>1, <1>2 DEF Return, writing, ending, ghosts

LEMMA ResetDoes ==
  ASSUME TypeInv, NEW t \in Saver, Reset(t)
  PROVE  /\ op[t].at = "clear" /\ op[t].why = "return" /\ Moves(t, "leave")
         /\ saving' = saving \ {op[t].session}
         /\ UNCHANGED <<phase, state, inMenu, plock, ulock, odbc, inUse, unsignaled, db, queue, batch,
                        deletionQ, unawaited, held, lost, stale, fault>>
BY MovesTo DEF Reset, At, Goto, locks, writing, ending, ghosts

LEMMA LeaveDoes ==
  ASSUME TypeInv, NEW t \in Saver, Leave(t)
  PROVE  /\ op[t].at = "leave" /\ op[t].session \in Session /\ Stops(t)
         /\ inMenu' = inMenu \cup {op[t].session}
         /\ plock' = [plock EXCEPT ![op[t].session] = None]
         /\ UNCHANGED <<phase, state, emptied, ulock, odbc, inUse, saving, unsignaled, db, queue, batch,
                        deletionQ, unawaited, held, lost, stale, fault>>
<1>1. op[t].at = "leave" /\ op[t].session \in Session
  BY SaverSession DEF Leave, At
<1>2. Stops(t)
  BY StopsAt DEF Leave
<1> QED  BY <1>1, <1>2 DEF Leave, flags, writing, ending, ghosts

LEMMA BeginCallDoes ==
  ASSUME TypeInv, NEW s \in Session, BeginCall(s)
  PROVE  /\ op["async"].at = "idle" /\ op["async"].session = None
         /\ op'["async"].at = "await" /\ op'["async"].session = s /\ op'["async"].why = "load" /\ Others("async")
         /\ s \in inUse /\ op["packet"].session # s
         /\ UNCHANGED <<phase, state, inMenu, emptied, plock, ulock, odbc, inUse, saving, unsignaled, db, queue,
                        batch, deletionQ, unawaited, held, lost, stale, fault>>
<1> DEFINE x == [at |-> "await", session |-> s, why |-> "load", state |-> 0]
<1>1. op["async"] = Idle /\ op' = [op EXCEPT !["async"] = x]
  BY DEF BeginCall
<1>2. x.at = "await" /\ x.session = s /\ x.why = "load"
  OBVIOUS
<1> HIDE DEF x
<1>3. op'["async"] = x /\ Others("async")
  BY <1>1 DEF TypeInv, OpOK, Others, Saver, Thread
<1> QED  BY <1>1, <1>2, <1>3 DEF BeginCall, Idle, memory, locks, flags, writing, ending, ghosts

LEMMA EndCallDoes ==
  ASSUME TypeInv, NEW s \in Session, CallInVain(s) \/ TakeUp(s)
  PROVE  /\ op["async"].at = "await" /\ op["async"].session = s /\ Stops("async")
         /\ inUse' = inUse \ {s}
         /\ \/ UNCHANGED <<state, inMenu, stale>>
            \/ /\ state' = [state EXCEPT ![s] = Row(s)] /\ inMenu' = inMenu \ {s}
               /\ stale \subseteq stale'
         /\ UNCHANGED <<phase, plock, ulock, odbc, saving, unsignaled, db, queue, batch,
                        deletionQ, unawaited, held, lost, fault>>
<1>1. EndCall(s)
  BY DEF CallInVain, TakeUp
<1>2. Stops("async")
  BY <1>1, StopsAt DEF EndCall, Saver, Thread
<1>3. \/ UNCHANGED <<state, inMenu, stale>>
      \/ /\ state' = [state EXCEPT ![s] = Row(s)] /\ inMenu' = inMenu \ {s}
         /\ stale \subseteq stale'
  BY DEF CallInVain, TakeUp
<1> QED  BY <1>1, <1>2, <1>3 DEF EndCall, At, flags, writing, ending

LEMMA SetNameDoes ==
  ASSUME TypeInv, SetNameLocked
  PROVE  /\ op["async"].at = "database" /\ op["async"].session \in Session /\ op["async"].why = "setname"
         /\ odbc = None
         /\ \/ Moves("async", "mark") /\ odbc' = "async" /\ UNCHANGED plock
            \/ /\ Stops("async") /\ UNCHANGED odbc
               /\ plock' = [plock EXCEPT ![op["async"].session] = None]
         /\ UNCHANGED <<phase, state, inMenu, emptied, ulock, inUse, saving, unsignaled, db, queue, batch,
                        deletionQ, unawaited, held, lost, stale, fault>>
<1>1. "async" \in Saver /\ op["async"].at = "database" /\ odbc = None
  BY DEF SetNameLocked, At, Saver, Thread
<1>2. op["async"].session \in Session /\ op["async"].why = "setname"
  BY <1>1 DEF TypeInv, OpOK
<1>3. \/ Moves("async", "mark") /\ odbc' = "async" /\ UNCHANGED plock
      \/ /\ Stops("async") /\ UNCHANGED odbc
         /\ plock' = [plock EXCEPT ![op["async"].session] = None]
  BY <1>1, MovesTo, StopsAt DEF SetNameLocked, Goto
<1>4. UNCHANGED <<memory, flags, writing, ending, ghosts, ulock, inUse, fault>>
  BY DEF SetNameLocked
<1> QED  BY <1>1, <1>2, <1>3, <1>4 DEF memory, flags, writing, ending, ghosts

LEMMA BeginDeleteDoes ==
  ASSUME TypeInv, BeginDelete
  PROVE  /\ op["deletion"].at = "idle" /\ op["deletion"].session = None
         /\ Len(deletionQ) > 0 /\ op'["deletion"].session = deletionQ[1]
         /\ op'["deletion"].at = "use" /\ op'["deletion"].why = "last" /\ Others("deletion")
         /\ unawaited' = IF deletionQ[1] \in unsignaled THEN unawaited \cup {deletionQ[1]} ELSE unawaited
         /\ Len(deletionQ') = Len(deletionQ) - 1
         /\ \A i \in 1..Len(deletionQ') : deletionQ'[i] = deletionQ[i + 1]
         /\ UNCHANGED <<phase, state, inMenu, emptied, plock, ulock, odbc, inUse, saving, unsignaled, db, queue,
                        batch, held, lost, stale, fault>>
<1> DEFINE x == [at |-> "use", session |-> Head(deletionQ), why |-> "last", state |-> 0]
<1>1. op["deletion"] = Idle /\ op' = [op EXCEPT !["deletion"] = x]
  BY DEF BeginDelete
<1>2. x.at = "use" /\ x.session = Head(deletionQ) /\ x.why = "last"
  OBVIOUS
<1> HIDE DEF x
<1>3. op'["deletion"] = x /\ Others("deletion")
  BY <1>1 DEF TypeInv, OpOK, Others, Saver, Thread
<1>4. deletionQ \in Seq(Session) /\ deletionQ # <<>> /\ deletionQ' = Tail(deletionQ)
  BY DEF BeginDelete, TypeInv, EndingOK
<1>5. /\ Len(deletionQ) > 0 /\ Head(deletionQ) = deletionQ[1] /\ Len(deletionQ') = Len(deletionQ) - 1
      /\ \A i \in 1..Len(deletionQ') : deletionQ'[i] = deletionQ[i + 1]
  BY <1>4
<1>6. /\ unawaited' = IF Head(deletionQ) \in unsignaled THEN unawaited \cup {Head(deletionQ)} ELSE unawaited
      /\ UNCHANGED <<memory, locks, flags, writing, down, due, held, lost, stale, fault>>
  BY DEF BeginDelete
<1> QED  BY <1>1, <1>2, <1>3, <1>5, <1>6 DEF Idle, memory, locks, flags, writing

LEMMA LeaveWorldDoes ==
  ASSUME TypeInv, LeaveWorld
  PROVE  /\ op["deletion"].at = "use" /\ op["deletion"].session \in Session
         /\ op["deletion"].session \notin inUse /\ ulock[op["deletion"].session] = None
         /\ \/ /\ Moves("deletion", "mark")
               /\ ulock' = [ulock EXCEPT ![op["deletion"].session] = "deletion"]
               /\ phase' = [phase EXCEPT ![op["deletion"].session] = "gone"]
            \/ /\ op["deletion"].session \in inMenu \cup saving
               /\ Stops("deletion") /\ UNCHANGED ulock
               /\ phase' = [phase EXCEPT ![op["deletion"].session] = "condemned"]
         /\ UNCHANGED <<state, inMenu, emptied, plock, odbc, inUse, saving, unsignaled, db, queue,
                        batch, deletionQ, unawaited, held, lost, stale, fault>>
<1>1. "deletion" \in Saver /\ op["deletion"].at = "use"
  BY DEF LeaveWorld, At, Saver, Thread
<1>2. op["deletion"].session \in Session
  BY <1>1, SaverSession
<1>3. \/ /\ Moves("deletion", "mark")
         /\ ulock' = [ulock EXCEPT ![op["deletion"].session] = "deletion"]
         /\ phase' = [phase EXCEPT ![op["deletion"].session] = "gone"]
      \/ /\ op["deletion"].session \in inMenu \cup saving
         /\ Stops("deletion") /\ UNCHANGED ulock
         /\ phase' = [phase EXCEPT ![op["deletion"].session] = "condemned"]
  BY <1>1, <1>2, MovesTo, StopsAt DEF LeaveWorld, Goto, Accepts
<1>4. /\ op["deletion"].session \notin inUse /\ ulock[op["deletion"].session] = None
      /\ UNCHANGED <<state, inMenu, emptied, plock, odbc, inUse, flags, writing, ending, ghosts, fault>>
  BY DEF LeaveWorld
<1> QED  BY <1>1, <1>2, <1>3, <1>4 DEF flags, writing, ending, ghosts

LEMMA TakeDoes ==
  ASSUME TypeInv, TakeBatch
  PROVE  /\ batch.at = "idle" /\ odbc = None /\ odbc' = "writer" /\ Len(queue) > 0
         /\ batch'.at = "run" /\ batch'.session = queue[1].session
         /\ batch'.state = queue[1].state /\ batch'.reports = queue[1].reports
         /\ Len(queue') = Len(queue) - 1
         /\ \A i \in 1..Len(queue') : queue'[i] = queue[i + 1]
         /\ UNCHANGED <<phase, state, inMenu, emptied, op, plock, ulock, inUse, saving, unsignaled, db,
                        deletionQ, unawaited, held, lost, stale, fault>>
<1>1. queue \in Seq(Batch) /\ queue # <<>> /\ queue' = Tail(queue)
  BY DEF TakeBatch, TypeInv, WritingOK
<1>2. /\ Len(queue) > 0 /\ Head(queue) = queue[1] /\ Len(queue') = Len(queue) - 1
      /\ \A i \in 1..Len(queue') : queue'[i] = queue[i + 1]
  BY <1>1
<1>3. /\ batch'.at = "run" /\ batch'.session = Head(queue).session
      /\ batch'.state = Head(queue).state /\ batch'.reports = Head(queue).reports
  BY DEF TakeBatch
<1> QED  BY <1>2, <1>3 DEF TakeBatch, memory, flags, ending, ghosts

LEMMA EndBatchDoes ==
  ASSUME TypeInv, NEW s \in Session, NEW n \in Nat, EndBatch(s, n)
  PROVE  /\ batch.at = "run" /\ batch.session = s
         /\ \/ /\ batch.reports /\ phase[s] \in {"condemned", "destroyed"} /\ fault' = s
               /\ UNCHANGED <<batch, odbc, unsignaled>>
            \/ /\ batch.reports /\ batch'.at = "kick" /\ batch'.session = s /\ batch'.reports
               /\ UNCHANGED <<fault, odbc, unsignaled>>
            \/ /\ batch' = NoBatch /\ odbc' = None /\ UNCHANGED fault
               /\ unsignaled' = IF batch.reports THEN unsignaled \ {s} ELSE unsignaled
         /\ lost' = IF n > 0 /\ (~batch.reports \/ Left(s)) THEN lost \cup {s} ELSE lost
         /\ UNCHANGED <<phase, state, inMenu, emptied, op, plock, ulock, inUse, saving, queue,
                        deletionQ, unawaited, held, stale>>
<1>1. [batch EXCEPT !.at = "kick"].at = "kick" /\ [batch EXCEPT !.at = "kick"].session = batch.session
      /\ [batch EXCEPT !.at = "kick"].reports = batch.reports
  BY DEF TypeInv, WritingOK
<1>2. CASE batch.reports
  BY <1>1, <1>2 DEF EndBatch, DataSaveCallback, BatchDone, memory
<1>3. CASE ~batch.reports
  BY <1>3 DEF EndBatch, BatchDone, memory
<1> QED  BY <1>2, <1>3

LEMMA KickDoes ==
  ASSUME TypeInv, NEW s \in Session, Kick(s)
  PROVE  /\ batch.at = "kick" /\ batch.session = s /\ plock[s] = None
         /\ \/ /\ phase[s] \in {"condemned", "destroyed"} /\ fault' = s
               /\ UNCHANGED <<phase, batch, odbc, unsignaled>>
            \/ /\ phase' = [phase EXCEPT ![s] = IF @ = "online" THEN "leaving" ELSE @]
               /\ batch' = NoBatch /\ odbc' = None /\ UNCHANGED fault
               /\ unsignaled' = unsignaled \ {s}
         /\ UNCHANGED <<state, inMenu, emptied, op, plock, ulock, inUse, saving, db, queue,
                        deletionQ, unawaited, held, lost, stale>>
BY DEF Kick, BatchDone, ghosts

LEMMA TimeoutDoes ==
  ASSUME TypeInv, Timeout
  PROVE  /\ batch.at = "idle"
         /\ \/ UNCHANGED batch
            \/ batch'.at = "stopped" /\ batch'.session = None /\ batch'.reports = FALSE
         /\ UNCHANGED <<phase, state, inMenu, emptied, op, plock, ulock, odbc, inUse, saving, unsignaled,
                        db, queue, deletionQ, unawaited, held, lost, stale, fault>>
<1>1. /\ [NoBatch EXCEPT !.at = "stopped"].at = "stopped" /\ [NoBatch EXCEPT !.at = "stopped"].session = None
      /\ [NoBatch EXCEPT !.at = "stopped"].reports = FALSE
  BY DEF NoBatch
<1> QED  BY <1>1 DEF Timeout, memory, locks, flags, ending, ghosts

-----------------------------------------------------------------------------
(* Who is where with which locks.                                           *)

InSave == {"mark", "unit", "post", "clear"}
Ending == {"unlisted", "gone", "condemned", "destroyed"}
Last == {"gone", "condemned", "destroyed"}

\* What each thread is there for.
RoleInv ==
  /\ \A t \in Saver : op[t].at = "idle" => op[t].session = None
  /\ op["maintenance"].at # "idle" => op["maintenance"].why = "auto" /\ op["maintenance"].at \in InSave
  /\ op["packet"].at # "idle" =>
       /\ op["packet"].why \in {"saveme", "return", "reroll"}
       /\ op["packet"].at \in InSave \/ (op["packet"].why = "return" /\ op["packet"].at = "leave")
  /\ op["async"].at # "idle" =>
       \/ op["async"].why = "setname" /\ op["async"].at \in InSave \cup {"database"}
       \/ op["async"].why = "load" /\ op["async"].at = "await"
  /\ op["deletion"].at # "idle" => op["deletion"].why = "last" /\ op["deletion"].at \in InSave \cup {"use"}

\* A thread that saves has the player, the deletion thread apart; a character is
\* not loaded while the packet thread is at it.
PlayerInv ==
  /\ \A t \in Saver : op[t].at \notin {"idle", "await"} /\ t # "deletion" => plock[op[t].session] = t
  /\ op["async"].at = "await" => op["async"].session \in inUse /\ op["packet"].session # op["async"].session

\* A session goes once through the hands of the deletion thread.
DeletionInv ==
  /\ op["deletion"].at = "use" => phase[op["deletion"].session] = "unlisted"
  /\ op["deletion"].at \in InSave => phase[op["deletion"].session] = "gone"
  /\ \A i \in 1..Len(deletionQ) :
       /\ phase[deletionQ[i]] = "unlisted" /\ deletionQ[i] # op["deletion"].session
       /\ \A j \in 1..Len(deletionQ) : deletionQ[i] = deletionQ[j] => i = j

\* Once unlisted, a session that no thread had then has no player any more.
HeldInv == \A s \in Session \ held : phase[s] \in Ending => plock[s] = None /\ s \notin inUse

\* Only a session in the menu is loaded, and not once its unit is out of the world.
MenuInv == \A s \in inUse : s \in inMenu /\ phase[s] \in {"online", "leaving", "chosen", "unlisted"}

\* boSavingOnProgress stands while a save is under way.
SavingInv == \A s \in saving : \E t \in Saver : op[t].session = s /\ op[t].at \in {"unit", "post", "clear"}

\* The one save without a report is that of the deletion thread.
LastInv ==
  /\ \A i \in 1..Len(queue) : ~queue[i].reports => phase[queue[i].session] \in Last
  /\ batch.at \in {"run", "kick"} => batch.session \in Session /\ (batch.reports \/ phase[batch.session] \in Last)
  /\ batch.at = "kick" => batch.reports
  /\ batch.at \in {"idle", "stopped"} => ~batch.reports

ThreadInv ==
  /\ RoleInv /\ PlayerInv /\ DeletionInv /\ HeldInv
  /\ MenuInv /\ SavingInv /\ LastInv

\* The types these parts rest on.
ThreadTypes ==
  /\ phase \in [Session -> Phase]
  /\ plock \in [Session -> Thread \cup {None}] /\ ulock \in [Session -> Thread \cup {None}]
  /\ inMenu \subseteq Session /\ inUse \subseteq Session /\ saving \subseteq Session
  /\ \A t \in Saver : op[t].at # "idle" => op[t].session \in Session
  /\ Len(queue) \in Nat /\ \A i \in 1..Len(queue) : queue[i].session \in Session
  /\ Len(deletionQ) \in Nat /\ \A i \in 1..Len(deletionQ) : deletionQ[i] \in Session
  /\ None \notin Session /\ None \notin Thread
  /\ Saver = {"maintenance", "packet", "async", "deletion"} /\ Saver \subseteq Thread

LEMMA TypesForThreads == TypeInv => ThreadTypes
<1> SUFFICES ASSUME TypeInv PROVE ThreadTypes
  OBVIOUS
<1>1. Len(queue) \in Nat /\ \A i \in 1..Len(queue) : queue[i].session \in Session
  <2>1. queue \in Seq(Batch)
    BY DEF TypeInv, WritingOK
  <2>2. Len(queue) \in Nat /\ \A i \in 1..Len(queue) : queue[i] \in Batch
    BY <2>1
  <2> QED  BY <2>2 DEF Batch
<1>2. Len(deletionQ) \in Nat /\ \A i \in 1..Len(deletionQ) : deletionQ[i] \in Session
  BY DEF TypeInv, EndingOK
<1> QED  BY <1>1, <1>2, SavingAssumption
         DEF ThreadTypes, TypeInv, MemoryOK, LocksOK, FlagsOK, OpOK, Saver, Thread

LEMMA InitThreads == Init => ThreadInv
<1> SUFFICES ASSUME Init PROVE ThreadInv
  OBVIOUS
<1>1. RoleInv /\ PlayerInv
  BY DEF Init, RoleInv, PlayerInv, Idle, Saver, Thread
<1>2. MenuInv /\ SavingInv
  BY DEF Init, MenuInv, SavingInv
<1>3. DeletionInv /\ HeldInv /\ LastInv
  BY DEF Init, DeletionInv, HeldInv, LastInv, Idle, NoBatch, Thread, InSave, Ending
<1> QED  BY <1>1, <1>2, <1>3 DEF ThreadInv

LEMMA MarkThreads ==
  ASSUME TypeInv, OwnInv, ThreadInv, NEW t \in Saver, Mark(t)
  PROVE  ThreadInv'
<1>0. ThreadTypes
  BY TypesForThreads
<1>1. /\ op[t].at = "mark" /\ Moves(t, "unit") /\ saving' = saving \cup {op[t].session}
      /\ UNCHANGED <<phase, inMenu, plock, ulock, odbc, inUse, queue, batch, deletionQ, held>>
  BY MarkDoes
<1> USE <1>0, <1>1 DEF ThreadTypes, Moves, Others
<1>2. RoleInv'
  BY DEF ThreadInv, RoleInv, InSave
<1>3. PlayerInv'
  BY DEF ThreadInv, PlayerInv
<1>4. DeletionInv' /\ HeldInv' /\ MenuInv'
  BY DEF ThreadInv, DeletionInv, HeldInv, MenuInv, InSave
<1>5. SavingInv' /\ LastInv'
  BY DEF ThreadInv, SavingInv, LastInv
<1> QED  BY <1>2, <1>3, <1>4, <1>5 DEF ThreadInv

LEMMA ReadThreads ==
  ASSUME TypeInv, OwnInv, ThreadInv, NEW t \in Saver, Read(t)
  PROVE  ThreadInv'
<1>0. ThreadTypes
  BY TypesForThreads
<1>1. /\ op[t].at = "unit" /\ op[t].session \in Session
      /\ UNCHANGED <<phase, inMenu, plock, inUse, saving, queue, batch, deletionQ, held>>
      /\ UNCHANGED op \/ Moves(t, "post")
  BY ReadDoes
<1>2. CASE UNCHANGED op
  BY <1>0, <1>1, <1>2 DEF ThreadInv, RoleInv, PlayerInv, DeletionInv, HeldInv, MenuInv, SavingInv, LastInv
<1>3. CASE Moves(t, "post")
  <2> USE <1>0, <1>1, <1>3 DEF ThreadTypes, Moves, Others
  <2>1. RoleInv' /\ PlayerInv'
    BY DEF ThreadInv, RoleInv, PlayerInv, InSave
  <2>2. DeletionInv' /\ HeldInv' /\ MenuInv'
    BY DEF ThreadInv, DeletionInv, HeldInv, MenuInv, InSave
  <2>3. SavingInv' /\ LastInv'
    BY DEF ThreadInv, SavingInv, LastInv
  <2> QED  BY <2>1, <2>2, <2>3 DEF ThreadInv
<1> QED  BY <1>1, <1>2, <1>3

LEMMA PostThreads ==
  ASSUME TypeInv, OwnInv, ThreadInv, NEW t \in Saver, Post(t)
  PROVE  ThreadInv'
<1>0. ThreadTypes
  BY TypesForThreads
<1>1. /\ op[t].at = "post" /\ Moves(t, "clear")
      /\ Len(queue') = Len(queue) + 1
      /\ \A i \in 1..Len(queue) : queue'[i] = queue[i]
      /\ queue'[Len(queue) + 1].session = op[t].session
      /\ queue'[Len(queue) + 1].reports = (op[t].why # "last")
      /\ ulock' = IF op[t].why \in {"auto", "last"} THEN ulock ELSE [ulock EXCEPT ![op[t].session] = None]
      /\ UNCHANGED <<phase, inMenu, plock, odbc, inUse, saving, batch, deletionQ, held>>
  BY PostDoes
<1> USE <1>0, <1>1 DEF ThreadTypes, Moves, Others
<1>2. RoleInv' /\ PlayerInv'
  BY DEF ThreadInv, RoleInv, PlayerInv, InSave
<1>3. DeletionInv' /\ HeldInv' /\ MenuInv'
  BY DEF ThreadInv, DeletionInv, HeldInv, MenuInv, InSave
<1>4. SavingInv'
  BY DEF ThreadInv, SavingInv
<1>5. op[t].why = "last" => phase[op[t].session] = "gone"
  BY DEF ThreadInv, RoleInv, DeletionInv, InSave
<1>6. LastInv'
  <2>1. ASSUME NEW i \in 1..Len(queue'), ~queue'[i].reports
        PROVE  phase[queue'[i].session] \in Last
    <3>1. CASE i \in 1..Len(queue)
      BY <2>1, <3>1 DEF ThreadInv, LastInv
    <3>2. CASE i = Len(queue) + 1
      BY <1>5, <2>1, <3>2 DEF Last
    <3> QED  BY <3>1, <3>2
  <2> QED  BY <2>1 DEF ThreadInv, LastInv
<1> QED  BY <1>2, <1>3, <1>4, <1>6 DEF ThreadInv

LEMMA ReturnThreads ==
  ASSUME TypeInv, OwnInv, ThreadInv, NEW t \in Saver, Return(t)
  PROVE  ThreadInv'
<1>0. ThreadTypes
  BY TypesForThreads
<1>1. /\ op[t].at = "clear" /\ op[t].why # "return" /\ op[t].session \in Session /\ Stops(t)
      /\ saving' = saving \ {op[t].session}
      /\ plock' = IF op[t].why = "last" THEN plock ELSE [plock EXCEPT ![op[t].session] = None]
      /\ ulock' = IF op[t].why \in {"auto", "last"} THEN [ulock EXCEPT ![op[t].session] = None] ELSE ulock
      /\ odbc' = IF op[t].why = "setname" THEN None ELSE odbc
      /\ phase' = IF op[t].why = "last" THEN [phase EXCEPT ![op[t].session] = "condemned"] ELSE phase
      /\ UNCHANGED <<inMenu, inUse, queue, batch, deletionQ, held>>
  BY ReturnDoes
<1>2. /\ op[t].why = "last" <=> t = "deletion"
      /\ t = "deletion" => phase[op[t].session] = "gone"
      /\ op[t].why = "setname" => t = "async"
  BY <1>0, <1>1 DEF ThreadTypes, ThreadInv, RoleInv, DeletionInv, InSave
<1> USE <1>0, <1>1, <1>2 DEF ThreadTypes, Stops, Others
<1>3. RoleInv'
  BY DEF ThreadInv, RoleInv
<1>4. PlayerInv'
  BY DEF ThreadInv, PlayerInv
<1>5. DeletionInv'
  BY DEF ThreadInv, DeletionInv, InSave
<1>6. HeldInv'
  BY DEF ThreadInv, HeldInv, Ending
<1>7. MenuInv'
  BY DEF ThreadInv, MenuInv
<1>8. SavingInv'
  BY DEF ThreadInv, SavingInv
<1>9. LastInv'
  BY DEF ThreadInv, LastInv, Last
<1> QED  BY <1>3, <1>4, <1>5, <1>6, <1>7, <1>8, <1>9 DEF ThreadInv

LEMMA ResetThreads ==
  ASSUME TypeInv, OwnInv, ThreadInv, NEW t \in Saver, Reset(t) \/ Leave(t)
  PROVE  ThreadInv'
<1>0. ThreadTypes
  BY TypesForThreads
<1>1. CASE Reset(t)
  <2>1. /\ op[t].at = "clear" /\ op[t].why = "return" /\ Moves(t, "leave")
        /\ saving' = saving \ {op[t].session}
        /\ UNCHANGED <<phase, inMenu, plock, ulock, odbc, inUse, queue, batch, deletionQ, held>>
    BY <1>1, ResetDoes
  <2>2. t = "packet"
    BY <1>0, <2>1 DEF ThreadTypes, ThreadInv, RoleInv
  <2> USE <1>0, <2>1, <2>2 DEF ThreadTypes, Moves, Others
  <2>3. RoleInv' /\ PlayerInv'
    BY DEF ThreadInv, RoleInv, PlayerInv, InSave
  <2>4. DeletionInv'
    BY DEF ThreadInv, DeletionInv, InSave
  <2>5. HeldInv' /\ MenuInv' /\ SavingInv' /\ LastInv'
    BY DEF ThreadInv, HeldInv, MenuInv, SavingInv, LastInv
  <2> QED  BY <2>3, <2>4, <2>5 DEF ThreadInv
<1>2. CASE Leave(t)
  <2>1. /\ op[t].at = "leave" /\ op[t].session \in Session /\ Stops(t)
        /\ inMenu' = inMenu \cup {op[t].session}
        /\ plock' = [plock EXCEPT ![op[t].session] = None]
        /\ UNCHANGED <<phase, ulock, odbc, inUse, saving, queue, batch, deletionQ, held>>
    BY <1>2, LeaveDoes
  <2>2. t = "packet"
    BY <1>0, <2>1 DEF ThreadTypes, ThreadInv, RoleInv, InSave
  <2> USE <1>0, <2>1, <2>2 DEF ThreadTypes, Stops, Others
  <2>3. RoleInv' /\ PlayerInv'
    BY DEF ThreadInv, RoleInv, PlayerInv, InSave
  <2>4. DeletionInv'
    BY DEF ThreadInv, DeletionInv, InSave
  <2>5. HeldInv' /\ MenuInv' /\ SavingInv' /\ LastInv'
    BY DEF ThreadInv, HeldInv, MenuInv, SavingInv, LastInv
  <2> QED  BY <2>3, <2>4, <2>5 DEF ThreadInv
<1> QED  BY <1>1, <1>2

LEMMA BeginThreads ==
  ASSUME TypeInv, OwnInv, ThreadInv, NEW s \in Session,
         QueryNextSave(s) \/ RequestSave(s) \/ RerollSave(s) \/ SetName(s)
  PROVE  ThreadInv'
<1>0. ThreadTypes
  BY TypesForThreads
<1>1. PICK t \in Saver : BeginsSave(t, s)
  BY SavesBegin
<1> USE <1>0, <1>1 DEF BeginsSave, ThreadTypes, Others
<1>2. RoleInv'
  BY DEF ThreadInv, RoleInv, InSave
<1>3. PlayerInv'
  BY DEF ThreadInv, PlayerInv, MenuInv
<1>4. DeletionInv'
  BY DEF ThreadInv, DeletionInv
<1>5. HeldInv'
  BY DEF ThreadInv, HeldInv, Ending, Listed
<1>6. MenuInv'
  BY DEF ThreadInv, MenuInv, Listed
<1>7. SavingInv' /\ LastInv'
  BY DEF ThreadInv, SavingInv, LastInv
<1> QED  BY <1>2, <1>3, <1>4, <1>5, <1>6, <1>7 DEF ThreadInv

LEMMA CallThreads ==
  ASSUME TypeInv, OwnInv, ThreadInv, NEW s \in Session, BeginCall(s) \/ CallInVain(s) \/ TakeUp(s)
  PROVE  ThreadInv'
<1>0. ThreadTypes
  BY TypesForThreads
<1>1. CASE BeginCall(s)
  <2>1. /\ op["async"].at = "idle" /\ op["async"].session = None
        /\ op'["async"].at = "await" /\ op'["async"].session = s /\ op'["async"].why = "load" /\ Others("async")
        /\ s \in inUse /\ op["packet"].session # s
        /\ UNCHANGED <<phase, inMenu, plock, ulock, odbc, inUse, saving, queue, batch, deletionQ, held>>
    BY <1>1, BeginCallDoes
  <2> USE <1>0, <2>1 DEF ThreadTypes, Others
  <2>2. RoleInv' /\ PlayerInv'
    BY DEF ThreadInv, RoleInv, PlayerInv
  <2>3. DeletionInv'
    BY DEF ThreadInv, DeletionInv, InSave
  <2>4. HeldInv' /\ MenuInv' /\ SavingInv' /\ LastInv'
    BY DEF ThreadInv, HeldInv, MenuInv, SavingInv, LastInv
  <2> QED  BY <2>2, <2>3, <2>4 DEF ThreadInv
<1>2. CASE CallInVain(s) \/ TakeUp(s)
  <2>1. /\ op["async"].at = "await" /\ op["async"].session = s /\ Stops("async")
        /\ inUse' = inUse \ {s}
        /\ UNCHANGED inMenu \/ inMenu' = inMenu \ {s}
        /\ UNCHANGED <<phase, plock, ulock, odbc, saving, queue, batch, deletionQ, held>>
    BY <1>2, EndCallDoes
  <2> USE <1>0, <2>1 DEF ThreadTypes, Stops, Others
  <2>2. RoleInv' /\ PlayerInv'
    BY DEF ThreadInv, RoleInv, PlayerInv
  <2>3. DeletionInv'
    BY DEF ThreadInv, DeletionInv, InSave
  <2>4. HeldInv' /\ MenuInv' /\ SavingInv' /\ LastInv'
    BY DEF ThreadInv, HeldInv, MenuInv, SavingInv, LastInv
  <2> QED  BY <2>2, <2>3, <2>4 DEF ThreadInv
<1> QED  BY <1>1, <1>2

LEMMA SetNameThreads ==
  ASSUME TypeInv, OwnInv, ThreadInv, SetNameLocked
  PROVE  ThreadInv'
<1>0. ThreadTypes
  BY TypesForThreads
<1>1. /\ op["async"].at = "database" /\ op["async"].session \in Session /\ op["async"].why = "setname"
      /\ odbc = None
      /\ \/ Moves("async", "mark") /\ odbc' = "async" /\ UNCHANGED plock
         \/ /\ Stops("async") /\ UNCHANGED odbc
            /\ plock' = [plock EXCEPT ![op["async"].session] = None]
      /\ UNCHANGED <<phase, inMenu, ulock, inUse, saving, queue, batch, deletionQ, held>>
  BY SetNameDoes
<1> USE <1>0, <1>1 DEF ThreadTypes, Moves, Stops, Others
<1>2. RoleInv' /\ PlayerInv'
  BY DEF ThreadInv, RoleInv, PlayerInv, InSave
<1>3. DeletionInv'
  BY DEF ThreadInv, DeletionInv, InSave
<1>4. HeldInv' /\ MenuInv' /\ SavingInv' /\ LastInv'
  BY DEF ThreadInv, HeldInv, MenuInv, SavingInv, LastInv
<1> QED  BY <1>2, <1>3, <1>4 DEF ThreadInv

LEMMA DeletionThreads ==
  ASSUME TypeInv, OwnInv, ThreadInv, BeginDelete \/ LeaveWorld
  PROVE  ThreadInv'
<1>0. ThreadTypes
  BY TypesForThreads
<1>1. CASE BeginDelete
  <2>1. /\ op["deletion"].at = "idle" /\ op["deletion"].session = None
        /\ Len(deletionQ) > 0 /\ op'["deletion"].session = deletionQ[1]
        /\ op'["deletion"].at = "use" /\ op'["deletion"].why = "last" /\ Others("deletion")
        /\ Len(deletionQ') = Len(deletionQ) - 1
        /\ \A i \in 1..Len(deletionQ') : deletionQ'[i] = deletionQ[i + 1]
        /\ UNCHANGED <<phase, inMenu, plock, ulock, odbc, inUse, saving, queue, batch, held>>
    BY <1>1, BeginDeleteDoes
  <2> USE <1>0, <2>1 DEF ThreadTypes, Others
  <2>2. RoleInv' /\ PlayerInv'
    BY DEF ThreadInv, RoleInv, PlayerInv
  <2>3. DeletionInv'
    BY DEF ThreadInv, DeletionInv, InSave
  <2>4. HeldInv' /\ MenuInv' /\ SavingInv' /\ LastInv'
    BY DEF ThreadInv, HeldInv, MenuInv, SavingInv, LastInv
  <2> QED  BY <2>2, <2>3, <2>4 DEF ThreadInv
<1>2. CASE LeaveWorld
  <2>1. /\ op["deletion"].at = "use" /\ op["deletion"].session \in Session
        /\ op["deletion"].session \notin inUse /\ ulock[op["deletion"].session] = None
        /\ \/ /\ Moves("deletion", "mark")
              /\ ulock' = [ulock EXCEPT ![op["deletion"].session] = "deletion"]
              /\ phase' = [phase EXCEPT ![op["deletion"].session] = "gone"]
           \/ /\ Stops("deletion") /\ UNCHANGED ulock
              /\ phase' = [phase EXCEPT ![op["deletion"].session] = "condemned"]
        /\ UNCHANGED <<inMenu, plock, odbc, inUse, saving, queue, batch, deletionQ, held>>
    BY <1>2, LeaveWorldDoes
  <2>2. phase[op["deletion"].session] = "unlisted" /\ op["deletion"].why = "last"
    BY <1>0, <2>1 DEF ThreadInv, DeletionInv, RoleInv
  <2> USE <1>0, <2>1, <2>2 DEF ThreadTypes, Moves, Stops, Others
  <2>3. RoleInv' /\ PlayerInv'
    BY DEF ThreadInv, RoleInv, PlayerInv, InSave
  <2>4. DeletionInv'
    BY DEF ThreadInv, DeletionInv, InSave
  <2>5. HeldInv' /\ MenuInv'
    BY DEF ThreadInv, HeldInv, MenuInv, Ending
  <2>6. SavingInv' /\ LastInv'
    BY DEF ThreadInv, SavingInv, LastInv, Last
  <2> QED  BY <2>3, <2>4, <2>5, <2>6 DEF ThreadInv
<1> QED  BY <1>1, <1>2

\* Steps of a session that no saving thread takes part in.
LEMMA SessionThreads ==
  ASSUME TypeInv, OwnInv, ThreadInv, NEW s \in Session,
         \/ Login(s) \/ Play(s) \/ ExitGame(s) \/ RequestLoad(s)
         \/ Examine(s) \/ Unlist(s) \/ Destroy(s)
  PROVE  ThreadInv'
<1>0. ThreadTypes
  BY TypesForThreads
<1>1. UNCHANGED <<inMenu, op, plock, ulock, odbc, saving, queue, batch>>
  BY DEF Login, Play, ExitGame, RequestLoad, Examine, Unlist, Destroy, memory, locks, flags, writing
<1>2. RoleInv' /\ SavingInv'
  BY <1>0, <1>1 DEF ThreadInv, RoleInv, SavingInv
<1>3. CASE RequestLoad(s)
  <2>1. /\ Listed(s) /\ s \in inMenu /\ plock[s] = None /\ inUse' = inUse \cup {s}
        /\ UNCHANGED <<phase, deletionQ, held>>
    BY <1>3 DEF RequestLoad, memory, ending, ghosts
  <2>2. PlayerInv' /\ DeletionInv' /\ LastInv'
    BY <1>0, <1>1, <2>1 DEF ThreadTypes, ThreadInv, PlayerInv, DeletionInv, LastInv
  <2>3. HeldInv' /\ MenuInv'
    BY <1>0, <1>1, <2>1 DEF ThreadTypes, ThreadInv, HeldInv, MenuInv, Ending, Listed
  <2> QED  BY <1>2, <2>2, <2>3 DEF ThreadInv
<1>4. CASE Unlist(s)
  <2>1. /\ phase[s] = "chosen" /\ phase' = [phase EXCEPT ![s] = "unlisted"]
        /\ held' = IF plock[s] = None /\ s \notin inUse THEN held ELSE held \cup {s}
        /\ UNCHANGED inUse
    BY <1>4 DEF Unlist, locks
  <2>2. /\ Len(deletionQ') = Len(deletionQ) + 1 /\ deletionQ'[Len(deletionQ) + 1] = s
        /\ \A i \in 1..Len(deletionQ) : deletionQ'[i] = deletionQ[i]
    BY <1>4 DEF Unlist, TypeInv, EndingOK
  <2>3. op["deletion"].at # "idle" => phase[op["deletion"].session] # "chosen"
    BY <1>0 DEF ThreadTypes, ThreadInv, RoleInv, DeletionInv
  <2>4. s # op["deletion"].session
    BY <1>0, <2>1, <2>3 DEF ThreadTypes, ThreadInv, RoleInv
  <2>5. DeletionInv'
    <3>1. /\ op["deletion"].at = "use" => phase'[op["deletion"].session] = "unlisted"
          /\ op["deletion"].at \in InSave => phase'[op["deletion"].session] = "gone"
      BY <1>0, <2>1, <2>4 DEF ThreadTypes, ThreadInv, DeletionInv, InSave
    <3>2. \A i \in 1..Len(deletionQ) : phase[deletionQ[i]] = "unlisted" /\ deletionQ[i] # op["deletion"].session
      BY DEF ThreadInv, DeletionInv
    <3>3. ASSUME NEW i \in 1..Len(deletionQ')
          PROVE  phase'[deletionQ'[i]] = "unlisted" /\ deletionQ'[i] # op["deletion"].session
      <4>1. i \in 1..Len(deletionQ) \/ i = Len(deletionQ) + 1
        BY <1>0, <2>2 DEF ThreadTypes
      <4> QED  BY <1>0, <2>1, <2>2, <2>4, <3>2, <4>1 DEF ThreadTypes
    <3>4. ASSUME NEW i \in 1..Len(deletionQ'), NEW j \in 1..Len(deletionQ'), deletionQ'[i] = deletionQ'[j]
          PROVE  i = j
      <4>1. /\ i \in 1..Len(deletionQ) \/ i = Len(deletionQ) + 1
            /\ j \in 1..Len(deletionQ) \/ j = Len(deletionQ) + 1
        BY <1>0, <2>2 DEF ThreadTypes
      <4>2. \A k \in 1..Len(deletionQ) : deletionQ[k] # s
        BY <2>1, <3>2
      <4> QED  BY <2>2, <3>4, <4>1, <4>2 DEF ThreadInv, DeletionInv
    <3> QED  BY <1>1, <3>1, <3>3, <3>4 DEF DeletionInv
  <2>6. PlayerInv' /\ LastInv'
    BY <1>0, <1>1, <2>1 DEF ThreadTypes, ThreadInv, PlayerInv, LastInv, Last
  <2>7. HeldInv' /\ MenuInv'
    BY <1>0, <1>1, <2>1 DEF ThreadTypes, ThreadInv, HeldInv, MenuInv, Ending
  <2> QED  BY <1>2, <2>5, <2>6, <2>7 DEF ThreadInv
<1>5. CASE Login(s) \/ Play(s) \/ ExitGame(s) \/ Examine(s) \/ Destroy(s)
  <2>1. /\ UNCHANGED <<inUse, deletionQ, held>>
        /\ \/ UNCHANGED phase
           \/ phase[s] = "new" /\ phase' = [phase EXCEPT ![s] = "online"]
           \/ phase[s] = "online" /\ phase' = [phase EXCEPT ![s] = "leaving"]
           \/ phase[s] = "leaving" /\ s \notin inUse /\ phase' = [phase EXCEPT ![s] = "chosen"]
           \/ phase[s] = "condemned" /\ phase' = [phase EXCEPT ![s] = "destroyed"]
    BY <1>5 DEF Login, Play, ExitGame, Examine, Destroy, locks, ending, ghosts
  <2>2. PlayerInv' /\ DeletionInv' /\ LastInv'
    BY <1>0, <1>1, <2>1 DEF ThreadTypes, ThreadInv, PlayerInv, DeletionInv, LastInv, Last, InSave
  <2>3. HeldInv' /\ MenuInv'
    BY <1>0, <1>1, <2>1 DEF ThreadTypes, ThreadInv, HeldInv, MenuInv, Ending
  <2> QED  BY <1>2, <2>2, <2>3 DEF ThreadInv
<1> QED  BY <1>3, <1>4, <1>5

\* The write thread and the shutdown leave the other threads where they are.
LEMMA WriterThreads ==
  ASSUME TypeInv, OwnInv, ThreadInv, Write
  PROVE  ThreadInv'
<1>0. ThreadTypes
  BY TypesForThreads
\* A batch that goes from one place to the next, and phases of which none is final.
<1>1. ASSUME UNCHANGED <<inMenu, op, plock, ulock, inUse, saving, deletionQ, held>>,
             \/ UNCHANGED phase
             \/ \E s \in Session : phase[s] = "online" /\ phase' = [phase EXCEPT ![s] = "leaving"],
             LastInv'
      PROVE  ThreadInv'
  <2>1. RoleInv' /\ PlayerInv' /\ SavingInv'
    BY <1>0, <1>1 DEF ThreadInv, RoleInv, PlayerInv, SavingInv
  <2>2. DeletionInv'
    BY <1>0, <1>1 DEF ThreadTypes, ThreadInv, DeletionInv, InSave
  <2>3. HeldInv' /\ MenuInv'
    BY <1>0, <1>1 DEF ThreadTypes, ThreadInv, HeldInv, MenuInv, Ending
  <2> QED  BY <1>1, <2>1, <2>2, <2>3 DEF ThreadInv
<1>2. CASE TakeBatch
  <2>1. /\ batch.at = "idle" /\ odbc = None /\ odbc' = "writer" /\ Len(queue) > 0
        /\ batch'.at = "run" /\ batch'.session = queue[1].session
        /\ batch'.state = queue[1].state /\ batch'.reports = queue[1].reports
        /\ Len(queue') = Len(queue) - 1
        /\ \A i \in 1..Len(queue') : queue'[i] = queue[i + 1]
        /\ UNCHANGED <<phase, inMenu, op, plock, ulock, inUse, saving, deletionQ, held>>
    BY <1>2, TakeDoes
  <2>2. LastInv'
    BY <1>0, <2>1 DEF ThreadTypes, ThreadInv, LastInv
  <2> QED  BY <1>1, <2>1, <2>2
<1>3. CASE Timeout
  <2>1. /\ batch.at = "idle"
        /\ \/ UNCHANGED batch
           \/ batch'.at = "stopped" /\ batch'.session = None /\ batch'.reports = FALSE
        /\ UNCHANGED <<phase, inMenu, op, plock, ulock, odbc, inUse, saving, queue, deletionQ, held>>
    BY <1>3, TimeoutDoes
  <2>2. LastInv'
    BY <1>0, <2>1 DEF ThreadInv, LastInv
  <2> QED  BY <1>1, <2>1, <2>2
<1>4. ASSUME NEW s \in Session, NEW n \in Nat, EndBatch(s, n)
      PROVE  ThreadInv'
  <2>1. /\ batch.at = "run" /\ batch.session = s
        /\ \/ UNCHANGED <<batch, odbc>>
           \/ batch'.at = "kick" /\ batch'.session = s /\ batch'.reports /\ UNCHANGED odbc
           \/ batch' = NoBatch /\ odbc' = None
        /\ UNCHANGED <<phase, inMenu, op, plock, ulock, inUse, saving, queue, deletionQ, held>>
    BY <1>4, EndBatchDoes
  <2>2. LastInv'
    BY <1>0, <2>1 DEF ThreadInv, LastInv, NoBatch
  <2> QED  BY <1>1, <2>1, <2>2
<1>5. ASSUME NEW s \in Session, Kick(s)
      PROVE  ThreadInv'
  <2>1. /\ batch.at = "kick" /\ batch.session = s
        /\ \/ UNCHANGED <<phase, batch, odbc>>
           \/ /\ phase' = [phase EXCEPT ![s] = IF @ = "online" THEN "leaving" ELSE @]
              /\ batch' = NoBatch /\ odbc' = None
        /\ UNCHANGED <<inMenu, op, plock, ulock, inUse, saving, queue, deletionQ, held>>
    BY <1>5, KickDoes
  <2>2. \/ UNCHANGED phase
        \/ phase[s] = "online" /\ phase' = [phase EXCEPT ![s] = "leaving"]
    BY <1>0, <2>1 DEF ThreadTypes
  <2>3. LastInv'
    BY <1>0, <2>1, <2>2 DEF ThreadTypes, ThreadInv, LastInv, NoBatch, Last
  <2> QED  BY <1>1, <2>1, <2>2, <2>3
<1>6. ASSUME NEW s \in Session, Rollback(s)
      PROVE  \E n \in Nat : EndBatch(s, n)
  BY <1>6 DEF Rollback, TypeInv, FlagsOK
<1> QED  BY <1>2, <1>3, <1>4, <1>5, <1>6 DEF Write, Commit

LEMMA NextThreads ==
  ASSUME TypeInv, OwnInv, ThreadInv, [Next]_vars
  PROVE  ThreadInv'
<1>1. CASE SaveAll \/ BeginWait \/ Exit \/ UNCHANGED vars
  <2>0. ThreadTypes
    BY TypesForThreads
  <2>1. /\ UNCHANGED <<inMenu, op, plock, ulock, odbc, inUse, saving, queue, batch, deletionQ, held>>
        /\ \/ UNCHANGED phase
           \/ phase' = [s \in Session |-> IF phase[s] = "online" THEN "leaving" ELSE phase[s]]
    BY <1>1 DEF SaveAll, BeginWait, Exit, vars, memory, locks, flags, writing, ending, ghosts
  <2>2. RoleInv' /\ PlayerInv' /\ SavingInv'
    BY <2>0, <2>1 DEF ThreadInv, RoleInv, PlayerInv, SavingInv
  <2>3. DeletionInv' /\ HeldInv' /\ MenuInv'
    BY <2>0, <2>1 DEF ThreadTypes, ThreadInv, DeletionInv, HeldInv, MenuInv, InSave, Ending
  <2>4. LastInv'
    BY <2>0, <2>1 DEF ThreadTypes, ThreadInv, LastInv, Last
  <2> QED  BY <2>2, <2>3, <2>4 DEF ThreadInv
<1>2. ASSUME NEW s \in Session, SessionSteps(s)
      PROVE  ThreadInv'
  BY <1>2, SessionThreads, BeginThreads, CallThreads DEF SessionSteps
<1>3. ASSUME NEW t \in Saver, Save(t)
      PROVE  ThreadInv'
  BY <1>3, MarkThreads, ReadThreads, PostThreads, ReturnThreads, ResetThreads DEF Save
<1> QED  BY <1>1, <1>2, <1>3, SetNameThreads, DeletionThreads, WriterThreads DEF Next, Load, SessionSteps, Saver

-----------------------------------------------------------------------------
(* Reports reach who they are for.                                          *)

\* Where a report of s is still to come from.
Queued(i, s) == queue[i].session = s /\ queue[i].reports
InHand(s) == batch.session = s /\ batch.reports
OnWay(t, s) == op[t].session = s /\ op[t].at \in {"unit", "post"} /\ op[t].why # "last"

Reporting(s) ==
  \/ \E i \in 1..Len(queue) : Queued(i, s)
  \/ InHand(s)
  \/ \E t \in Saver : OnWay(t, s)

\* One report, and the event is reset till it comes; the deletion thread is not yet
\* past its wait.
AtMostOne(s) ==
  /\ \A i, j \in 1..Len(queue) : Queued(i, s) /\ Queued(j, s) => i = j
  /\ \A t, u \in Saver : OnWay(t, s) /\ OnWay(u, s) => t = u
  /\ InHand(s) => \A t \in Saver : ~OnWay(t, s)
  /\ \A i \in 1..Len(queue) : Queued(i, s) => ~InHand(s) /\ \A t \in Saver : ~OnWay(t, s)

StillThere(s) ==
  s \in unsignaled /\ op["deletion"].session # s /\ phase[s] \notin {"condemned", "destroyed"}

Awaits(s) == AtMostOne(s) /\ (Reporting(s) => StillThere(s))

AwaitInv == \A s \in Session : s \in unawaited \/ Awaits(s)

LEMMA PendingReports ==
  ASSUME TypeInv, NEW s \in Session
  PROVE  Pending(s) <=> Reporting(s)
<1>1. DOMAIN op = Saver /\ DOMAIN queue = 1..Len(queue)
  BY DEF TypeInv, OpOK, WritingOK
<1> QED  BY <1>1 DEF Pending, Reporting, Queued, InHand, OnWay, Reports

\* No report is added, and who one is for stays.
LEMMA FewerReports ==
  ASSUME NEW s \in Session, Awaits(s), UNCHANGED queue,
         InHand(s)' => InHand(s),
         \A t \in Saver : OnWay(t, s)' => OnWay(t, s),
         Reporting(s)' /\ StillThere(s) => StillThere(s)'
  PROVE  Awaits(s)'
BY DEF Awaits, AtMostOne, Reporting, Queued

LEMMA InitAwait == Init => AwaitInv
BY DEF Init, AwaitInv, Awaits, AtMostOne, Reporting, Queued, InHand, OnWay, Idle, NoBatch, Saver

LEMMA SaveAwait ==
  ASSUME TypeInv, ThreadInv, AwaitInv, NEW t \in Saver, Save(t), NEW s \in Session
  PROVE  s \in unawaited' \/ Awaits(s)'
<1>0. ThreadTypes /\ unawaited \subseteq unawaited'
  BY TypesForThreads DEF ThreadTypes, Save, Mark, Read, Post, Return, Reset, Leave, ghosts
<1> SUFFICES ASSUME s \notin unawaited' PROVE Awaits(s)'
  OBVIOUS
<1>1. Awaits(s)
  BY <1>0 DEF AwaitInv
<1>2. CASE Mark(t)
  <2>1. /\ op[t].at = "mark" /\ Moves(t, "unit")
        /\ unsignaled' = IF op[t].why # "last" THEN unsignaled \cup {op[t].session} ELSE unsignaled
        /\ unawaited' = IF op[t].why # "last" /\ Unawaited(op[t].session)
                        THEN unawaited \cup {op[t].session} ELSE unawaited
        /\ UNCHANGED <<phase, queue, batch>>
    BY <1>2, MarkDoes
  <2>2. CASE op[t].session = s /\ op[t].why # "last"
    <3>1. ~Reporting(s) /\ op["deletion"].session # s /\ phase[s] \notin {"condemned", "destroyed"}
      BY <2>1, <2>2, PendingReports DEF Unawaited
    <3>2. op'["deletion"].session = op["deletion"].session
      BY <1>0, <2>1 DEF ThreadTypes, Moves, Others
    <3>3. \A u \in Saver : OnWay(u, s)' <=> u = t
      BY <2>1, <2>2, <3>1 DEF Moves, Others, OnWay, Reporting
    <3>4. \A i \in 1..Len(queue) : ~Queued(i, s)'
      BY <2>1, <3>1 DEF Reporting, Queued
    <3>5. ~InHand(s)'
      BY <2>1, <3>1 DEF Reporting, InHand
    <3> QED  BY <2>1, <2>2, <3>1, <3>2, <3>3, <3>4, <3>5 DEF Awaits, AtMostOne, StillThere
  <2>3. CASE op[t].session # s \/ op[t].why = "last"
    <3>1. \A u \in Saver : OnWay(u, s)' => OnWay(u, s)
      BY <2>1, <2>3 DEF Moves, Others, OnWay
    <3>2. StillThere(s) => StillThere(s)'
      BY <1>0, <2>1 DEF ThreadTypes, Moves, Others, StillThere
    <3> QED  BY <1>1, <2>1, <3>1, <3>2, FewerReports DEF InHand
  <2> QED  BY <2>2, <2>3
<1>3. CASE Read(t)
  <2>1. /\ op[t].at = "unit"
        /\ UNCHANGED op \/ Moves(t, "post")
        /\ UNCHANGED <<phase, unsignaled, queue, batch>>
    BY <1>3, ReadDoes
  <2>2. \A u \in Saver : OnWay(u, s)' => OnWay(u, s)
    BY <1>3, <2>1, ReadDoes DEF Moves, Others, OnWay
  <2>3. StillThere(s) => StillThere(s)'
    BY <1>0, <2>1 DEF ThreadTypes, Moves, Others, StillThere
  <2> QED  BY <1>1, <2>1, <2>2, <2>3, FewerReports DEF InHand
<1>4. CASE Post(t)
  <2>1. /\ op[t].at = "post" /\ Moves(t, "clear")
        /\ Len(queue') = Len(queue) + 1
        /\ \A i \in 1..Len(queue) : queue'[i] = queue[i]
        /\ queue'[Len(queue) + 1].session = op[t].session
        /\ queue'[Len(queue) + 1].reports = (op[t].why # "last")
        /\ UNCHANGED <<phase, unsignaled, batch>>
    BY <1>4, PostDoes
  <2>2. \A u \in Saver : OnWay(u, s)' <=> OnWay(u, s) /\ u # t
    BY <2>1 DEF Moves, Others, OnWay
  <2>0. PICK n \in Nat : n = Len(queue)
    BY <1>0 DEF ThreadTypes
  <2>3. /\ \A i \in 1..n : Queued(i, s)' <=> Queued(i, s)
        /\ Queued(n + 1, s)' <=> OnWay(t, s)
    BY <2>0, <2>1 DEF Queued, OnWay
  <2>4. InHand(s)' <=> InHand(s)
    BY <2>1 DEF InHand
  <2>5. StillThere(s)' <=> StillThere(s)
    BY <1>0, <2>1 DEF ThreadTypes, Moves, Others, StillThere
  <2>6. Len(queue') = n + 1 /\ \A i \in 1..n + 1 : i \in 1..n \/ i = n + 1
    BY <1>0, <2>0, <2>1 DEF ThreadTypes
  <2>7. AtMostOne(s)'
    BY <1>1, <2>0, <2>2, <2>3, <2>4, <2>6 DEF Awaits, AtMostOne
  <2>8. Reporting(s)' => Reporting(s)
    BY <2>0, <2>2, <2>3, <2>4, <2>6 DEF Reporting
  <2> QED  BY <1>1, <2>5, <2>7, <2>8 DEF Awaits
<1>5. CASE Return(t)
  <2>1. /\ op[t].at = "clear" /\ op[t].session \in Session /\ Stops(t)
        /\ phase' = IF op[t].why = "last" THEN [phase EXCEPT ![op[t].session] = "condemned"] ELSE phase
        /\ UNCHANGED <<unsignaled, queue, batch>>
    BY <1>5, ReturnDoes
  <2>2. op[t].why = "last" => t = "deletion"
    BY <1>0, <2>1 DEF ThreadTypes, ThreadInv, RoleInv
  <2>3. \A u \in Saver : OnWay(u, s)' => OnWay(u, s)
    BY <2>1 DEF Stops, Others, OnWay
  <2>4. StillThere(s) => StillThere(s)'
    BY <1>0, <2>1, <2>2 DEF ThreadTypes, Stops, Others, StillThere
  <2> QED  BY <1>1, <2>1, <2>3, <2>4, FewerReports DEF InHand
<1>6. CASE Reset(t) \/ Leave(t)
  <2>1. /\ op[t].at \in {"clear", "leave"} /\ (Moves(t, "leave") \/ Stops(t))
        /\ UNCHANGED <<phase, unsignaled, queue, batch>>
    BY <1>6, ResetDoes, LeaveDoes
  <2>2. \A u \in Saver : OnWay(u, s)' => OnWay(u, s)
    BY <2>1 DEF Moves, Stops, Others, OnWay
  <2>3. StillThere(s) => StillThere(s)'
    BY <1>0, <2>1 DEF ThreadTypes, Moves, Stops, Others, StillThere
  <2> QED  BY <1>1, <2>1, <2>2, <2>3, FewerReports DEF InHand
<1> QED  BY <1>2, <1>3, <1>4, <1>5, <1>6 DEF Save

LEMMA WriteAwait ==
  ASSUME TypeInv, ThreadInv, AwaitInv, Write, NEW s \in Session
  PROVE  s \in unawaited' \/ Awaits(s)'
<1>0. ThreadTypes /\ UNCHANGED <<unawaited, op>>
  BY TypesForThreads DEF Write, TakeBatch, Timeout, Commit, Rollback, Kick, EndBatch, ghosts
<1> SUFFICES ASSUME s \notin unawaited' PROVE Awaits(s)'
  OBVIOUS
<1>1. Awaits(s) /\ \A t \in Saver : OnWay(t, s)' <=> OnWay(t, s)
  BY <1>0 DEF AwaitInv, OnWay
<1>2. CASE TakeBatch
  <2>1. /\ batch.at = "idle" /\ Len(queue) > 0
        /\ batch'.session = queue[1].session /\ batch'.reports = queue[1].reports
        /\ Len(queue') = Len(queue) - 1
        /\ \A i \in 1..Len(queue') : queue'[i] = queue[i + 1]
        /\ UNCHANGED <<phase, unsignaled>>
    BY <1>2, TakeDoes
  <2>2. InHand(s)' <=> Queued(1, s)
    BY <2>1 DEF InHand, Queued
  <2>3. \A i \in 1..Len(queue') : i + 1 \in 1..Len(queue) /\ (Queued(i, s)' <=> Queued(i + 1, s))
    BY <1>0, <2>1 DEF ThreadTypes, Queued
  <2>4. 1 \in 1..Len(queue)
    BY <1>0, <2>1 DEF ThreadTypes
  <2>5. StillThere(s)' <=> StillThere(s)
    BY <1>0, <2>1 DEF StillThere
  <2>6. Reporting(s)' => Reporting(s)
    BY <1>1, <2>2, <2>3, <2>4 DEF Reporting
  <2>7. AtMostOne(s)'
    <3>1. ASSUME NEW i \in 1..Len(queue'), NEW j \in 1..Len(queue'), Queued(i, s)', Queued(j, s)'
          PROVE  i = j
      <4>1. i + 1 = j + 1
        BY <1>1, <2>3, <3>1 DEF Awaits, AtMostOne
      <4> QED  BY <4>1
    <3>2. ASSUME NEW i \in 1..Len(queue'), Queued(i, s)'
          PROVE  ~InHand(s)' /\ \A t \in Saver : ~OnWay(t, s)'
      <4>1. Queued(1, s) => i + 1 = 1
        BY <1>1, <2>3, <2>4, <3>2 DEF Awaits, AtMostOne
      <4>2. ~Queued(1, s)
        BY <4>1
      <4> QED  BY <1>1, <2>2, <2>3, <3>2, <4>2 DEF Awaits, AtMostOne
    <3>3. InHand(s)' => \A t \in Saver : ~OnWay(t, s)'
      BY <1>1, <2>2, <2>4 DEF Awaits, AtMostOne
    <3>4. \A t, u \in Saver : OnWay(t, s)' /\ OnWay(u, s)' => t = u
      BY <1>1 DEF Awaits, AtMostOne
    <3> QED  BY <3>1, <3>2, <3>3, <3>4 DEF AtMostOne
  <2> QED  BY <1>1, <2>5, <2>6, <2>7 DEF Awaits
<1>3. CASE Timeout
  <2>1. /\ UNCHANGED batch \/ batch'.reports = FALSE
        /\ UNCHANGED <<phase, unsignaled, queue>>
    BY <1>3, TimeoutDoes
  <2> QED  BY <1>0, <1>1, <2>1, FewerReports DEF InHand, StillThere
\* The one report of a session comes.
<1>4. ASSUME NEW z \in Session, batch.session = z, UNCHANGED queue,
             \/ UNCHANGED unsignaled
             \/ batch.reports /\ unsignaled' = unsignaled \ {z},
             \/ InHand(s)' => InHand(s) /\ UNCHANGED unsignaled,
             phase'[s] \in {phase[s], "leaving"}
      PROVE  Awaits(s)'
  <2>1. CASE UNCHANGED unsignaled
    BY <1>0, <1>1, <1>4, <2>1, FewerReports DEF StillThere
  <2>2. CASE batch.reports /\ unsignaled' = unsignaled \ {z}
    <3>1. InHand(z)
      BY <1>4, <2>2 DEF InHand
    <3>2. Reporting(s)' /\ StillThere(s) => StillThere(s)'
      BY <1>0, <1>1, <1>4, <2>2, <3>1 DEF StillThere, Awaits, AtMostOne, Reporting, Queued
    <3>3. InHand(s)' => InHand(s)
      BY <1>4
    <3> QED  BY <1>1, <1>4, <3>2, <3>3, FewerReports
  <2> QED  BY <1>4, <2>1, <2>2
<1>5. ASSUME NEW z \in Session, NEW n \in Nat, EndBatch(z, n)
      PROVE  Awaits(s)'
  <2>1. /\ batch.session = z /\ UNCHANGED <<phase, queue>>
        /\ \/ UNCHANGED <<batch, unsignaled>>
           \/ batch.reports /\ batch'.session = z /\ batch'.reports /\ UNCHANGED unsignaled
           \/ batch' = NoBatch /\ unsignaled' = IF batch.reports THEN unsignaled \ {z} ELSE unsignaled
    BY <1>5, EndBatchDoes
  <2>2. NoBatch.reports = FALSE
    BY DEF NoBatch
  <2> QED  BY <1>4, <2>1, <2>2 DEF InHand
<1>6. ASSUME NEW z \in Session, Kick(z)
      PROVE  Awaits(s)'
  <2>1. /\ batch.at = "kick" /\ batch.session = z /\ UNCHANGED queue
        /\ \/ UNCHANGED <<phase, batch, unsignaled>>
           \/ /\ phase' = [phase EXCEPT ![z] = IF @ = "online" THEN "leaving" ELSE @]
              /\ batch' = NoBatch /\ unsignaled' = unsignaled \ {z}
    BY <1>6, KickDoes
  <2>2. NoBatch.reports = FALSE /\ batch.reports
    BY <2>1 DEF NoBatch, ThreadInv, LastInv
  <2>3. phase'[s] \in {phase[s], "leaving"}
    BY <1>0, <2>1 DEF ThreadTypes
  <2> QED  BY <1>4, <2>1, <2>2, <2>3 DEF InHand
<1>7. ASSUME NEW z \in Session, Rollback(z)
      PROVE  \E n \in Nat : EndBatch(z, n)
  BY <1>7 DEF Rollback, TypeInv, FlagsOK
<1> QED  BY <1>2, <1>3, <1>5, <1>6, <1>7 DEF Write, Commit

LEMMA NextAwait ==
  ASSUME TypeInv, ThreadInv, AwaitInv, [Next]_vars
  PROVE  AwaitInv'
<1> SUFFICES ASSUME NEW s \in Session PROVE s \in unawaited' \/ Awaits(s)'
  BY DEF AwaitInv
<1>0. ThreadTypes
  BY TypesForThreads
\* A step that leaves reports alone.
<1>1. ASSUME UNCHANGED <<unsignaled, queue, batch>>, unawaited \subseteq unawaited',
             \A t \in Saver : OnWay(t, s)' => OnWay(t, s),
             op'["deletion"].session = s /\ Reporting(s) => op["deletion"].session = s \/ s \in unawaited',
             phase'[s] \in {"condemned", "destroyed"} =>
               phase[s] \in {"condemned", "destroyed"} \/ op["deletion"].session = s
      PROVE  s \in unawaited' \/ Awaits(s)'
  <2> SUFFICES ASSUME s \notin unawaited' PROVE Awaits(s)'
    OBVIOUS
  <2>1. Awaits(s)
    BY <1>1 DEF AwaitInv
  <2>2. Reporting(s)' => Reporting(s)
    BY <1>1 DEF Reporting, Queued, InHand
  <2>3. Reporting(s)' => StillThere(s)'
    BY <1>1, <2>1, <2>2 DEF Awaits, StillThere
  <2>4. InHand(s)' => InHand(s)
    BY <1>1 DEF InHand
  <2> QED  BY <1>1, <2>1, <2>3, <2>4, FewerReports
<1>2. ASSUME NEW z \in Session, SessionSteps(z)
      PROVE  s \in unawaited' \/ Awaits(s)'
  <2>1. CASE QueryNextSave(z) \/ RequestSave(z) \/ RerollSave(z) \/ SetName(z)
    <3>1. PICK t \in Saver :
            /\ t # "deletion" /\ op'[t].at \in {"mark", "database"} /\ Others(t)
            /\ UNCHANGED <<phase, unsignaled, unawaited, queue, batch>>
      BY <2>1, SavesBegin DEF BeginsSave
    <3> QED  BY <1>0, <1>1, <3>1 DEF ThreadTypes, Others, OnWay
  <2>2. CASE BeginCall(z) \/ CallInVain(z) \/ TakeUp(z)
    <3>1. /\ op'["async"].at \in {"await", "idle"} /\ Others("async")
          /\ UNCHANGED <<phase, unsignaled, unawaited, queue, batch>>
      BY <2>2, BeginCallDoes, EndCallDoes DEF Stops
    <3> QED  BY <1>0, <1>1, <3>1 DEF ThreadTypes, Others, OnWay
  <2>3. CASE Login(z) \/ Play(z) \/ ExitGame(z) \/ RequestLoad(z) \/ Examine(z) \/ Unlist(z) \/ Destroy(z)
    <3>1. /\ UNCHANGED <<unsignaled, unawaited, queue, batch, op>>
          /\ \/ UNCHANGED phase
             \/ \E p \in {"online", "leaving", "chosen", "unlisted"} : phase' = [phase EXCEPT ![z] = p]
             \/ phase[z] = "condemned" /\ phase' = [phase EXCEPT ![z] = "destroyed"]
      BY <2>3 DEF Login, Play, ExitGame, RequestLoad, Examine, Unlist, Destroy, memory, flags, writing, ghosts
    <3> QED  BY <1>0, <1>1, <3>1 DEF ThreadTypes, OnWay
  <2> QED  BY <1>2, <2>1, <2>2, <2>3 DEF SessionSteps
<1>3. CASE SetNameLocked
  <2>1. /\ op'["async"].at \in {"mark", "idle"} /\ Others("async")
        /\ UNCHANGED <<phase, unsignaled, unawaited, queue, batch>>
    BY <1>3, SetNameDoes DEF Moves, Stops
  <2> QED  BY <1>0, <1>1, <2>1 DEF ThreadTypes, Others, OnWay
\* WaitForSaving is past, and a report still to come is noted.
<1>4. CASE BeginDelete
  <2>1. /\ op'["deletion"].session = deletionQ[1] /\ op'["deletion"].at = "use" /\ Others("deletion")
        /\ unawaited' = IF deletionQ[1] \in unsignaled THEN unawaited \cup {deletionQ[1]} ELSE unawaited
        /\ UNCHANGED <<phase, unsignaled, queue, batch>>
    BY <1>4, BeginDeleteDoes
  <2>2. Reporting(s) => s \in unsignaled \cup unawaited
    BY DEF AwaitInv, Awaits, StillThere
  <2> QED  BY <1>0, <1>1, <2>1, <2>2 DEF ThreadTypes, Others, OnWay
<1>5. CASE LeaveWorld
  <2>1. /\ op["deletion"].session \in Session
        /\ \/ Moves("deletion", "mark") /\ phase' = [phase EXCEPT ![op["deletion"].session] = "gone"]
           \/ Stops("deletion") /\ phase' = [phase EXCEPT ![op["deletion"].session] = "condemned"]
        /\ UNCHANGED <<unsignaled, unawaited, queue, batch>>
    BY <1>5, LeaveWorldDoes
  <2> QED  BY <1>0, <1>1, <2>1 DEF ThreadTypes, Moves, Stops, Others, OnWay
<1>6. CASE SaveAll \/ BeginWait \/ Exit \/ UNCHANGED vars
  <2>1. /\ UNCHANGED <<unsignaled, unawaited, queue, batch, op>>
        /\ \/ UNCHANGED phase
           \/ phase' = [z \in Session |-> IF phase[z] = "online" THEN "leaving" ELSE phase[z]]
    BY <1>6 DEF SaveAll, BeginWait, Exit, vars, memory, flags, writing, ghosts
  <2> QED  BY <1>0, <1>1, <2>1 DEF ThreadTypes, OnWay
<1> QED  BY <1>2, <1>3, <1>4, <1>5, <1>6, SaveAwait, WriteAwait DEF Next, Load, SessionSteps, Saver

LEMMA NextFault ==
  ASSUME TypeInv, ThreadInv, AwaitInv, DanglesOnlyUnawaited, [Next]_vars
  PROVE  DanglesOnlyUnawaited'
<1>0. ThreadTypes
  BY TypesForThreads
<1>1. CASE fault' = fault /\ unawaited \subseteq unawaited'
  BY <1>1 DEF DanglesOnlyUnawaited
\* Who reports is to a character, or reads one, that may be gone.
<1>2. ASSUME NEW s \in Session, fault' = s, UNCHANGED unawaited, Reporting(s),
             phase[s] \in {"condemned", "destroyed"}
      PROVE  DanglesOnlyUnawaited'
  BY <1>2 DEF DanglesOnlyUnawaited, AwaitInv, Awaits, StillThere
<1>3. ASSUME NEW t \in Saver, Save(t)
      PROVE  DanglesOnlyUnawaited'
  <2>1. CASE Read(t)
    <3>1. CASE phase[op[t].session] = "destroyed" /\ fault' = op[t].session
      <4>1. /\ op[t].at = "unit" /\ op[t].session \in Session /\ UNCHANGED unawaited
        BY <2>1, ReadDoes
      <4>2. op[t].why # "last"
        BY <1>0, <3>1, <4>1 DEF ThreadTypes, ThreadInv, RoleInv, DeletionInv, InSave
      <4>3. Reporting(op[t].session)
        BY <4>1, <4>2 DEF Reporting, OnWay
      <4> QED  BY <1>2, <3>1, <4>1, <4>3
    <3>2. CASE UNCHANGED fault
      BY <1>1, <2>1, <3>2, ReadDoes
    <3> QED  BY <2>1, <3>1, <3>2, ReadDoes
  <2>2. CASE ~Read(t)
    <3>1. fault' = fault /\ unawaited \subseteq unawaited'
      BY <1>3, <2>2 DEF Save, Mark, Post, Return, Reset, Leave, ghosts
    <3> QED  BY <1>1, <3>1
  <2> QED  BY <2>1, <2>2
<1>4. ASSUME NEW s \in Session, NEW n \in Nat, EndBatch(s, n)
      PROVE  DanglesOnlyUnawaited'
  <2>1. /\ batch.session = s /\ UNCHANGED unawaited
        /\ \/ UNCHANGED fault
           \/ batch.reports /\ phase[s] \in {"condemned", "destroyed"} /\ fault' = s
    BY <1>4, EndBatchDoes
  <2> QED  BY <1>1, <1>2, <2>1 DEF Reporting, InHand
<1>5. ASSUME NEW s \in Session, Kick(s)
      PROVE  DanglesOnlyUnawaited'
  <2>1. /\ batch.at = "kick" /\ batch.session = s /\ UNCHANGED unawaited
        /\ \/ UNCHANGED fault
           \/ phase[s] \in {"condemned", "destroyed"} /\ fault' = s
    BY <1>5, KickDoes
  <2>2. batch.reports
    BY <2>1 DEF ThreadInv, LastInv
  <2> QED  BY <1>1, <1>2, <2>1, <2>2 DEF Reporting, InHand
<1>6. ASSUME NEW s \in Session, Rollback(s)
      PROVE  \E n \in Nat : EndBatch(s, n)
  BY <1>6 DEF Rollback, TypeInv, FlagsOK
<1>7. CASE Write
  <2>1. CASE TakeBatch \/ Timeout
    BY <1>1, <2>1, TakeDoes, TimeoutDoes
  <2> QED  BY <1>4, <1>5, <1>6, <1>7, <2>1 DEF Write, Commit
<1>8. ASSUME NEW s \in Session, SessionSteps(s)
      PROVE  DanglesOnlyUnawaited'
  <2>1. UNCHANGED <<fault, unawaited>>
    BY <1>8 DEF SessionSteps, Login, Play, ExitGame, QueryNextSave, RequestSave, RerollSave, SetName,
                Starts, RequestLoad, BeginCall, CallInVain, TakeUp, EndCall, Examine, Unlist, Destroy, ghosts
  <2> QED  BY <1>1, <2>1
<1>9. CASE SetNameLocked \/ BeginDelete \/ LeaveWorld \/ SaveAll \/ BeginWait \/ Exit \/ UNCHANGED vars
  <2>1. fault' = fault /\ unawaited \subseteq unawaited'
    BY <1>9 DEF SetNameLocked, BeginDelete, LeaveWorld, SaveAll, BeginWait, Exit, vars, ghosts
  <2> QED  BY <1>1, <2>1
<1> QED  BY <1>3, <1>7, <1>8, <1>9 DEF Next, Load, SessionSteps, Saver

\* A report reaches a character that was destroyed or detached from its player only
\* if two were under way at once, for the one event of that character, or one still
\* was when the deletion thread was past its wait, or a save began after that.
THEOREM ReportsAreAwaited == Spec => []DanglesOnlyUnawaited
<1>1. Init => TypeInv /\ OwnInv /\ ThreadInv /\ AwaitInv /\ DanglesOnlyUnawaited
  BY InitTypes, InitOwn, InitThreads, InitAwait DEF Init, DanglesOnlyUnawaited
<1>2. TypeInv /\ OwnInv /\ ThreadInv /\ AwaitInv /\ DanglesOnlyUnawaited /\ [Next]_vars
        => (TypeInv /\ OwnInv /\ ThreadInv /\ AwaitInv /\ DanglesOnlyUnawaited)'
  BY NextTypes, NextOwn, NextThreads, NextAwait, NextFault
<1> QED  BY <1>1, <1>2, PTL DEF Spec

-----------------------------------------------------------------------------
(* What a character had come to is on its way to its row.                   *)

\* Each row is one session's, as in the runs: another session of the character
\* would write it over with what that one had come to.
OneEach == \A s, z \in Session : CharOf[s] = CharOf[z] => s = z

\* A batch that fails is not repeated, and noted as lost if that matters.
Counts(s, reports) == ~reports \/ Left(s)

Safe(s) ==
  \/ Row(s) >= state[s]
  \/ batch.at = "run" /\ batch.session = s /\ batch.state >= state[s] /\ Counts(s, batch.reports)
  \/ \E i \in 1..Len(queue) :
       queue[i].session = s /\ queue[i].state >= state[s] /\ Counts(s, queue[i].reports)

\* What t has read of s is all of it, and what it has posted is safe.
Covered(t, s) ==
  /\ op[t].at = "post" => op[t].state = state[s]
  /\ op[t].at \in {"clear", "leave"} => Safe(s)

SafeMenu(s) == Left(s) => IF op["packet"].session = s THEN Covered("packet", s) ELSE Safe(s)

SafeLast(s) ==
  /\ phase[s] \in {"condemned", "destroyed"} => Safe(s)
  /\ op["deletion"].session = s => Covered("deletion", s)

Kept(s) == SafeMenu(s) /\ (s \in held \/ SafeLast(s))

KeptInv == \A s \in Session : s \in lost \cup stale \/ Kept(s)

LEMMA InitKept == Init => KeptInv
<1> SUFFICES ASSUME Init, NEW s \in Session PROVE Kept(s)
  BY DEF KeptInv
<1>1. op["packet"].session = None /\ op["deletion"].session = None /\ s # None /\ Idle.why = "auto"
      /\ op["packet"].why = "auto"
  BY SavingAssumption DEF Init, Idle, Thread
<1>2. ~Left(s)
  BY <1>1 DEF Init, Left
<1> QED  BY <1>1, <1>2 DEF Init, Kept, SafeMenu, SafeLast

\* Nothing is written.
LEMMA SafeStays ==
  ASSUME NEW s \in Session, Safe(s), UNCHANGED <<db, queue, batch>>, state'[s] = state[s],
         Left(s) => Left(s)'
  PROVE  Safe(s)'
<1>1. Row(s)' = Row(s)
  BY DEF Row
<1>2. \A r : Counts(s, r) => Counts(s, r)'
  BY DEF Counts
<1> QED  BY <1>1, <1>2 DEF Safe

LEMMA MenuStays ==
  ASSUME NEW s \in Session, SafeMenu(s), op'["packet"] = op["packet"], state'[s] = state[s],
         Safe(s) => Safe(s)', Left(s)' => Left(s)
  PROVE  SafeMenu(s)'
BY DEF SafeMenu, Covered

LEMMA LastStays ==
  ASSUME NEW s \in Session, s \in held \/ SafeLast(s), held \subseteq held',
         op'["deletion"] = op["deletion"], state'[s] = state[s], Safe(s) => Safe(s)',
         phase'[s] \in {"condemned", "destroyed"} => phase[s] \in {"condemned", "destroyed"}
  PROVE  (s \in held \/ SafeLast(s))'
BY DEF SafeLast, Covered

LEMMA PostSafe ==
  ASSUME TypeInv, NEW t \in Saver, Post(t), NEW s \in Session
  PROVE  /\ Safe(s) => Safe(s)'
         /\ Left(s)' <=> Left(s)
         /\ op[t].session = s /\ op[t].state = state[s] /\ Counts(s, op[t].why # "last") => Safe(s)'
<1>0. ThreadTypes /\ OrderTypes
  BY TypesForThreads, TypesForOrder
<1>1. /\ Moves(t, "clear")
      /\ Len(queue') = Len(queue) + 1
      /\ \A i \in 1..Len(queue) : queue'[i] = queue[i]
      /\ queue'[Len(queue) + 1].session = op[t].session
      /\ queue'[Len(queue) + 1].state = op[t].state
      /\ queue'[Len(queue) + 1].reports = (op[t].why # "last")
      /\ UNCHANGED <<state, inMenu, db, batch>>
  BY PostDoes
<1>2. Left(s)' <=> Left(s)
  BY <1>0, <1>1 DEF ThreadTypes, Moves, Others, Left
<1>3. \A r : Counts(s, r)' <=> Counts(s, r)
  BY <1>2 DEF Counts
<1>4. Row(s)' = Row(s)
  BY <1>1 DEF Row
<1>5. \A i \in 1..Len(queue) : i \in 1..Len(queue')
  BY <1>0, <1>1 DEF ThreadTypes
<1>6. Len(queue) + 1 \in 1..Len(queue')
  BY <1>0, <1>1 DEF ThreadTypes
<1>7. Safe(s) => Safe(s)'
  BY <1>1, <1>3, <1>4, <1>5 DEF Safe
<1>8. op[t].session = s /\ op[t].state = state[s] /\ Counts(s, op[t].why # "last") => Safe(s)'
  <2> SUFFICES ASSUME op[t].session = s, op[t].state = state[s], Counts(s, op[t].why # "last")
               PROVE  Safe(s)'
    OBVIOUS
  <2>1. state[s] >= state[s]
    BY <1>0 DEF OrderTypes
  <2>2. \E i \in 1..Len(queue') :
          queue'[i].session = s /\ queue'[i].state >= state'[s] /\ Counts(s, op[t].why # "last")
          /\ queue'[i].reports = (op[t].why # "last")
    BY <1>1, <1>6, <2>1
  <2>3. \E i \in 1..Len(queue') :
          queue'[i].session = s /\ queue'[i].state >= state'[s] /\ (Counts(s, queue[i].reports))'
    BY <1>2, <2>2 DEF Counts
  <2> QED  BY <2>3 DEF Safe
<1> QED  BY <1>2, <1>7, <1>8

LEMMA SaveKept ==
  ASSUME TypeInv, ThreadInv, KeptInv, NEW t \in Saver, Save(t), NEW s \in Session, s \notin lost' \cup stale'
  PROVE  Kept(s)'
<1>0. ThreadTypes /\ OrderTypes
  BY TypesForThreads, TypesForOrder
<1>1. UNCHANGED <<state, lost, held>> /\ stale \subseteq stale'
  BY DEF Save, Mark, Read, Post, Return, Reset, Leave, memory, ghosts
<1>2. SafeMenu(s) /\ (s \in held \/ SafeLast(s))
  BY <1>1 DEF KeptInv, Kept
\* A step of t, before and after which the database is as it was.
<1>3. ASSUME UNCHANGED <<db, queue, batch>>, Others(t), inMenu \subseteq inMenu',
             op'[t].session \in {op[t].session, None}, op'[t].why = op[t].why \/ op'[t].session = None,
             Left(s)' <=> Left(s),
             op'[t].session = s => op'[t].at \in {"unit", "leave"} \/ op'[t].state = state[s],
             op'[t].at = "leave" => op[t].at = "clear",
             op'[t].at \in {"idle", "unit", "post", "leave"},
             op[t].session = s /\ op'[t].session = None /\ t = "packet" => op[t].at \in {"clear", "leave"},
             \/ phase'[s] \in {"condemned", "destroyed"} => phase[s] \in {"condemned", "destroyed"}
             \/ t = "deletion" /\ op[t].at = "clear" /\ op[t].session = s
      PROVE  Kept(s)'
  <2>1. Safe(s) => Safe(s)'
    BY <1>1, <1>3, SafeStays
  <2>2. SafeMenu(s)'
    <3>1. CASE t # "packet"
      BY <1>0, <1>1, <1>2, <1>3, <2>1, <3>1, MenuStays DEF ThreadTypes, Others
    <3>2. CASE t = "packet"
      BY <1>0, <1>1, <1>2, <1>3, <2>1, <3>2 DEF ThreadTypes, SafeMenu, Covered
    <3> QED  BY <3>1, <3>2
  <2>3. (s \in held \/ SafeLast(s))'
    <3>1. CASE t # "deletion"
      BY <1>0, <1>1, <1>2, <1>3, <2>1, <3>1, LastStays DEF ThreadTypes, Others
    <3>2. CASE t = "deletion"
      BY <1>0, <1>1, <1>2, <1>3, <2>1, <3>2 DEF ThreadTypes, SafeLast, Covered
    <3> QED  BY <3>1, <3>2
  <2> QED  BY <2>2, <2>3 DEF Kept
<1>4. CASE Mark(t)
  <2>1. /\ op[t].at = "mark" /\ Moves(t, "unit")
        /\ UNCHANGED <<phase, inMenu, db, queue, batch>>
    BY <1>4, MarkDoes
  <2>2. Left(s)' <=> Left(s)
    BY <1>0, <2>1 DEF ThreadTypes, Moves, Others, Left
  <2>3. /\ Others(t) /\ op'[t].at = "unit" /\ op'[t].session = op[t].session /\ op'[t].why = op[t].why
        /\ op[t].session # None
    BY <1>0, <2>1 DEF ThreadTypes, Moves
  <2> QED  BY <1>3, <2>1, <2>2, <2>3
<1>5. CASE Read(t)
  <2>1. /\ op[t].at = "unit" /\ op[t].session \in Session
        /\ \/ UNCHANGED op
           \/ /\ Moves(t, "post")
              /\ op[t].session \in stale' \/ op'[t].state = state[op[t].session]
        /\ UNCHANGED <<phase, inMenu, db, queue, batch>>
    BY <1>5, ReadDoes
  <2>2. Left(s)' <=> Left(s)
    BY <1>0, <2>1 DEF ThreadTypes, Moves, Others, Left
  <2>3. CASE UNCHANGED op
    <3>1. Others(t) /\ op[t].session # None
      BY <1>0, <2>1, <2>3 DEF ThreadTypes, Others
    <3> QED  BY <1>3, <2>1, <2>2, <2>3, <3>1
  <2>4. CASE Moves(t, "post") /\ (op[t].session \in stale' \/ op'[t].state = state[op[t].session])
    <3>1. /\ Others(t) /\ op'[t].at = "post" /\ op'[t].session = op[t].session /\ op'[t].why = op[t].why
          /\ op[t].session # None
      BY <1>0, <2>1, <2>4 DEF ThreadTypes, Moves
    <3>2. op'[t].session = s => op'[t].state = state[s]
      BY <2>4, <3>1
    <3> QED  BY <1>3, <2>1, <2>2, <3>1, <3>2
  <2> QED  BY <2>1, <2>3, <2>4
<1>6. CASE Post(t)
  <2>1. /\ op[t].at = "post" /\ Moves(t, "clear") /\ UNCHANGED phase
    BY <1>6, PostDoes
  <2>2. /\ Safe(s) => Safe(s)'
        /\ Left(s)' <=> Left(s)
        /\ op[t].session = s /\ op[t].state = state[s] /\ Counts(s, op[t].why # "last") => Safe(s)'
    BY <1>6, PostSafe
  <2>3. SafeMenu(s)'
    <3>1. CASE t # "packet"
      BY <1>0, <1>1, <1>2, <2>1, <2>2, <3>1, MenuStays DEF ThreadTypes, Moves, Others
    <3>2. CASE t = "packet"
      BY <1>0, <1>1, <1>2, <2>1, <2>2, <3>2 DEF ThreadTypes, Moves, SafeMenu, Covered, Counts
    <3> QED  BY <3>1, <3>2
  <2>4. (s \in held \/ SafeLast(s))'
    <3>1. CASE t # "deletion"
      BY <1>0, <1>1, <1>2, <2>1, <2>2, <3>1, LastStays DEF ThreadTypes, Moves, Others
    <3>2. CASE t = "deletion"
      <4>1. op[t].why = "last"
        BY <2>1, <3>2 DEF ThreadInv, RoleInv
      <4> QED  BY <1>0, <1>1, <1>2, <2>1, <2>2, <3>2, <4>1 DEF ThreadTypes, Moves, SafeLast, Covered, Counts
    <3> QED  BY <3>1, <3>2
  <2> QED  BY <2>3, <2>4 DEF Kept
<1>7. CASE Return(t)
  <2>1. /\ op[t].at = "clear" /\ op[t].why # "return" /\ op[t].session \in Session /\ Stops(t)
        /\ phase' = IF op[t].why = "last" THEN [phase EXCEPT ![op[t].session] = "condemned"] ELSE phase
        /\ UNCHANGED <<inMenu, db, queue, batch>>
    BY <1>7, ReturnDoes
  <2>2. Left(s)' <=> Left(s)
    BY <1>0, <2>1 DEF ThreadTypes, Stops, Others, Left
  <2>3. op[t].why = "last" => t = "deletion"
    BY <1>0, <2>1 DEF ThreadTypes, ThreadInv, RoleInv
  <2> QED  BY <1>0, <1>3, <2>1, <2>2, <2>3 DEF ThreadTypes, Stops
<1>8. CASE Reset(t)
  <2>1. /\ op[t].at = "clear" /\ op[t].why = "return" /\ Moves(t, "leave")
        /\ UNCHANGED <<phase, inMenu, db, queue, batch>>
    BY <1>8, ResetDoes
  <2>2. Left(s)' <=> Left(s)
    BY <1>0, <2>1 DEF ThreadTypes, Moves, Others, Left
  <2> QED  BY <1>0, <1>3, <2>1, <2>2 DEF ThreadTypes, Moves
<1>9. CASE Leave(t)
  <2>1. /\ op[t].at = "leave" /\ op[t].session \in Session /\ Stops(t)
        /\ inMenu' = inMenu \cup {op[t].session}
        /\ UNCHANGED <<phase, db, queue, batch>>
    BY <1>9, LeaveDoes
  <2>2. t = "packet" /\ op[t].why = "return"
    BY <1>0, <2>1 DEF ThreadTypes, ThreadInv, RoleInv, InSave
  <2>3. Left(s)' <=> Left(s)
    BY <1>0, <2>1, <2>2 DEF ThreadTypes, Stops, Others, Left
  <2> QED  BY <1>0, <1>3, <2>1, <2>2, <2>3 DEF ThreadTypes, Stops
<1> QED  BY <1>4, <1>5, <1>6, <1>7, <1>8, <1>9 DEF Save

LEMMA WriteKept ==
  ASSUME OneEach, TypeInv, ThreadInv, OrderInv, KeptInv, Write, NEW s \in Session, s \notin lost' \cup stale'
  PROVE  Kept(s)'
<1>0. ThreadTypes /\ OrderTypes
  BY TypesForThreads, TypesForOrder
<1>1. /\ UNCHANGED <<state, inMenu, op, held, stale>> /\ lost \subseteq lost'
      /\ phase'[s] \in {"condemned", "destroyed"} => phase[s] \in {"condemned", "destroyed"}
  <2>1. UNCHANGED <<state, inMenu, op, held, stale>> /\ lost \subseteq lost'
    BY DEF Write, TakeBatch, Timeout, Commit, Rollback, Kick, EndBatch, memory, ghosts
  <2>2. phase' = phase \/ \E z \in Session : phase' = [phase EXCEPT ![z] = IF @ = "online" THEN "leaving" ELSE @]
    BY DEF Write, TakeBatch, Timeout, Commit, Rollback, Kick, EndBatch, memory
  <2>3. phase'[s] \in {"condemned", "destroyed"} => phase[s] \in {"condemned", "destroyed"}
    BY <1>0, <2>2 DEF ThreadTypes
  <2> QED  BY <2>1, <2>3
<1>2. SafeMenu(s) /\ (s \in held \/ SafeLast(s))
  BY <1>1 DEF KeptInv, Kept
<1>3. Left(s)' <=> Left(s)
  BY <1>1 DEF Left
<1>4. \A r : Counts(s, r)' <=> Counts(s, r)
  BY <1>3 DEF Counts
<1> SUFFICES ASSUME Safe(s) PROVE Safe(s)'
  BY <1>1, <1>2, <1>3, MenuStays, LastStays DEF Kept
<1>5. CASE TakeBatch
  <2>1. /\ batch.at = "idle" /\ Len(queue) > 0
        /\ batch'.at = "run" /\ batch'.session = queue[1].session
        /\ batch'.state = queue[1].state /\ batch'.reports = queue[1].reports
        /\ Len(queue') = Len(queue) - 1
        /\ \A i \in 1..Len(queue') : queue'[i] = queue[i + 1]
        /\ UNCHANGED db
    BY <1>5, TakeDoes
  <2>2. CASE Row(s) >= state[s]
    BY <1>1, <2>1, <2>2 DEF Safe, Row
  <2>3. ASSUME NEW i \in 1..Len(queue), queue[i].session = s, queue[i].state >= state[s],
               Counts(s, queue[i].reports)
        PROVE  Safe(s)'
    <3>1. CASE i = 1
      BY <1>1, <1>4, <2>1, <2>3, <3>1 DEF Safe
    <3>2. CASE i # 1
      <4>1. i - 1 \in 1..Len(queue') /\ queue'[i - 1] = queue[i]
        BY <1>0, <2>1, <3>2 DEF ThreadTypes
      <4> QED  BY <1>1, <1>4, <2>3, <4>1 DEF Safe
    <3> QED  BY <3>1, <3>2
  <2> QED  BY <2>1, <2>2, <2>3 DEF Safe
\* What is in the queue stays there.
<1>6. ASSUME UNCHANGED queue, Row(s)' >= state[s] \/ (UNCHANGED db /\ (batch.at = "run" => batch.session # s))
      PROVE  Safe(s)'
  BY <1>1, <1>4, <1>6 DEF Safe, Row
<1>7. CASE Timeout
  <2>1. batch.at = "idle" /\ UNCHANGED <<db, queue>>
    BY <1>7, TimeoutDoes
  <2> QED  BY <1>6, <2>1
<1>8. ASSUME NEW z \in Session, Kick(z)
      PROVE  Safe(s)'
  <2>1. batch.at = "kick" /\ UNCHANGED <<db, queue>>
    BY <1>8, KickDoes
  <2> QED  BY <1>6, <2>1
\* What failed to be written is lost, unless a later save repeats it.
<1>9. ASSUME NEW z \in Session, Rollback(z)
      PROVE  Safe(s)'
  <2>1. PICK n \in Nat : n > 0 /\ EndBatch(z, n)
    BY <1>9 DEF Rollback, TypeInv, FlagsOK
  <2>2. /\ batch.at = "run" /\ batch.session = z /\ UNCHANGED queue
        /\ lost' = IF n > 0 /\ (~batch.reports \/ Left(z)) THEN lost \cup {z} ELSE lost
    BY <2>1, EndBatchDoes
  <2>3. UNCHANGED db
    BY <1>9 DEF Rollback
  <2>4. CASE z # s
    BY <1>6, <2>2, <2>3, <2>4
  <2>5. CASE z = s
    <3>1. ~Counts(s, batch.reports)
      BY <2>1, <2>2, <2>5 DEF Counts
    <3> QED  BY <1>1, <1>4, <2>2, <2>3, <3>1 DEF Safe, Row
  <2> QED  BY <2>4, <2>5
<1>10. ASSUME NEW z \in Session, Commit(z)
       PROVE  Safe(s)'
  <2>1. batch.at = "run" /\ batch.session = z /\ UNCHANGED queue
    BY <1>10, EndBatchDoes DEF Commit
  <2> DEFINE row == [by |-> z, state |-> batch.state]
  <2>2. db' = [db EXCEPT ![CharOf[z]] = row] /\ row.by = z /\ row.state = batch.state
    BY <1>10 DEF Commit
  <2> HIDE DEF row
  <2>3. /\ CharOf[s] \in Character /\ CharOf[z] \in Character
        /\ db \in [Character -> [by : Session \cup {None}, state : 0..MaxState]]
    BY SavingAssumption DEF TypeInv, WritingOK
  <2>4. CASE z # s
    <3>1. CharOf[z] # CharOf[s]
      BY <2>4 DEF OneEach
    <3>2. db'[CharOf[s]] = db[CharOf[s]]
      BY <2>2, <2>3, <3>1
    <3> QED  BY <1>1, <1>4, <2>1, <2>4, <3>2 DEF Safe, Row
  <2>5. CASE z = s
    <3>1. db'[CharOf[s]] = row
      BY <2>2, <2>3, <2>5
    <3>2. Row(s)' = batch.state
      BY <2>2, <2>5, <3>1 DEF Row
    <3>3. batch.state >= Row(s)
      BY <1>0, <1>1, <2>1, <2>3, <2>5 DEF OrderTypes, OrderInv, RowFirst, Forward, Row
    <3>4. batch.state \in Nat /\ state[s] \in Nat /\ Row(s) \in Nat
      BY <1>0, <2>3 DEF OrderTypes, Row
    <3>5. CASE Row(s) >= state[s] \/ batch.state >= state[s]
      BY <1>6, <2>1, <3>2, <3>3, <3>4, <3>5
    <3>6. CASE \E i \in 1..Len(queue) :
                 queue[i].session = s /\ queue[i].state >= state[s] /\ Counts(s, queue[i].reports)
      BY <1>1, <1>4, <2>1, <3>6 DEF Safe
    <3> QED  BY <3>5, <3>6 DEF Safe
  <2> QED  BY <2>4, <2>5
<1> QED  BY <1>5, <1>7, <1>8, <1>9, <1>10 DEF Write

LEMMA SessionKept ==
  ASSUME TypeInv, ThreadInv, KeptInv, NEW z \in Session, SessionSteps(z),
         NEW s \in Session, s \notin lost' \cup stale'
  PROVE  Kept(s)'
<1>0. ThreadTypes /\ OrderTypes
  BY TypesForThreads, TypesForOrder
<1>1. UNCHANGED <<db, queue, batch, lost>> /\ held \subseteq held' /\ stale \subseteq stale'
  BY DEF SessionSteps, Login, Play, ExitGame, QueryNextSave, RequestSave, RerollSave, SetName,
         Starts, RequestLoad, BeginCall, CallInVain, TakeUp, EndCall, Examine, Unlist, Destroy, writing, ghosts
<1>2. SafeMenu(s) /\ (s \in held \/ SafeLast(s))
  BY <1>1 DEF KeptInv, Kept
\* A step that leaves the packet thread and the deletion thread where they are.
<1>3. ASSUME UNCHANGED <<state, inMenu>>, op'["packet"] = op["packet"], op'["deletion"] = op["deletion"],
             phase'[s] \in {"condemned", "destroyed"} => phase[s] \in {"condemned", "destroyed"}
      PROVE  Kept(s)'
  <2>1. Left(s)' <=> Left(s)
    BY <1>3 DEF Left
  <2>2. Safe(s) => Safe(s)'
    BY <1>1, <1>3, <2>1, SafeStays
  <2> QED  BY <1>1, <1>2, <1>3, <2>1, <2>2, MenuStays, LastStays DEF Kept
<1>4. CASE QueryNextSave(z) \/ RequestSave(z) \/ RerollSave(z) \/ SetName(z)
  <2>1. PICK t \in Saver \ {"deletion"} :
          /\ op[t].session = None /\ op'[t].session = z /\ Others(t)
          /\ op'[t].at \in {"mark", "database"}
          /\ \/ t # "packet" /\ UNCHANGED inMenu
             \/ t = "packet" /\ inMenu \subseteq inMenu' /\ inMenu' \subseteq inMenu \cup {z}
          /\ UNCHANGED <<phase, state>>
    BY <1>4, SavesBegin DEF BeginsSave
  <2>2. CASE t # "packet"
    BY <1>0, <1>3, <2>1, <2>2 DEF ThreadTypes, Others
  <2>3. CASE t = "packet"
    <3>1. op'["deletion"] = op["deletion"] /\ s # None
      BY <1>0, <2>1, <2>3 DEF ThreadTypes, Others
    <3>2. /\ Left(s) => Left(s)'
          /\ z # s /\ Left(s)' => Left(s)
      BY <2>1, <2>3, <3>1 DEF Left
    <3>3. Safe(s) => Safe(s)'
      BY <1>1, <2>1, <3>2, SafeStays
    <3>4. SafeMenu(s)'
      BY <1>2, <2>1, <2>3, <3>1, <3>2, <3>3 DEF SafeMenu, Covered
    <3> QED  BY <1>1, <1>2, <2>1, <3>1, <3>3, <3>4, LastStays DEF Kept
  <2> QED  BY <2>2, <2>3
<1>5. CASE BeginCall(z)
  <2>1. Others("async") /\ UNCHANGED <<phase, state, inMenu>>
    BY <1>5, BeginCallDoes
  <2> QED  BY <1>0, <1>3, <2>1 DEF ThreadTypes, Others
<1>6. CASE CallInVain(z) \/ TakeUp(z)
  <2>1. /\ op["async"].at = "await" /\ op["async"].session = z /\ Others("async")
        /\ \/ UNCHANGED <<state, inMenu>>
           \/ state' = [state EXCEPT ![z] = Row(z)] /\ inMenu' = inMenu \ {z}
        /\ UNCHANGED phase
    BY <1>6, EndCallDoes DEF Stops
  <2>2. op'["packet"] = op["packet"] /\ op'["deletion"] = op["deletion"]
    BY <1>0, <2>1 DEF ThreadTypes, Others
  <2>3. CASE UNCHANGED <<state, inMenu>>
    BY <1>3, <2>1, <2>2, <2>3
  <2>4. CASE state' = [state EXCEPT ![z] = Row(z)] /\ inMenu' = inMenu \ {z} /\ z # s
    <3>1. (Left(s)' <=> Left(s)) /\ state'[s] = state[s]
      BY <1>0, <2>2, <2>4 DEF Left, OrderTypes
    <3>2. Safe(s) => Safe(s)'
      BY <1>1, <3>1, SafeStays
    <3> QED  BY <1>1, <1>2, <2>1, <2>2, <3>1, <3>2, MenuStays, LastStays DEF Kept
  \* The character in memory becomes what its row has.
  <2>5. CASE state' = [state EXCEPT ![z] = Row(z)] /\ inMenu' = inMenu \ {z} /\ z = s
    <3>1. s \in inUse /\ op["packet"].session # s
      BY <2>1, <2>5 DEF ThreadInv, PlayerInv
    <3>2. ~Left(s)'
      BY <2>2, <2>5, <3>1 DEF Left
    <3>3. phase[s] \notin {"gone", "condemned", "destroyed"}
      BY <3>1 DEF ThreadInv, MenuInv
    <3>4. op["deletion"].session = s => op["deletion"].at \in {"idle", "use"}
      BY <3>3 DEF ThreadInv, RoleInv, DeletionInv
    <3> QED  BY <2>1, <2>2, <3>2, <3>3, <3>4 DEF Kept, SafeMenu, SafeLast, Covered
  <2> QED  BY <2>1, <2>3, <2>4, <2>5
<1>7. CASE Play(z)
  <2>1. /\ phase[z] \in {"online", "leaving", "chosen", "unlisted"} /\ ~Left(z)
        /\ state' = [state EXCEPT ![z] = @ + 1] /\ UNCHANGED <<phase, inMenu, op>>
    BY <1>7 DEF Play, Listed
  <2>2. Left(s)' <=> Left(s)
    BY <2>1 DEF Left
  <2>3. CASE z # s
    <3>1. state'[s] = state[s]
      BY <1>0, <2>1, <2>3 DEF OrderTypes
    <3>2. Safe(s) => Safe(s)'
      BY <1>1, <2>2, <3>1, SafeStays
    <3> QED  BY <1>1, <1>2, <2>1, <2>2, <3>1, <3>2, MenuStays, LastStays DEF Kept
  <2>4. CASE z = s
    <3>1. op["deletion"].session = s => op["deletion"].at \in {"idle", "use"}
      BY <2>1, <2>4 DEF ThreadInv, RoleInv, DeletionInv
    <3> QED  BY <2>1, <2>2, <2>4, <3>1 DEF Kept, SafeMenu, SafeLast, Covered
  <2> QED  BY <2>3, <2>4
<1>8. CASE Login(z) \/ ExitGame(z) \/ RequestLoad(z) \/ Examine(z) \/ Unlist(z) \/ Destroy(z)
  <2>1. /\ UNCHANGED <<state, inMenu, op>>
        /\ \/ UNCHANGED phase
           \/ \E p \in {"online", "leaving", "chosen", "unlisted"} : phase' = [phase EXCEPT ![z] = p]
           \/ phase[z] = "condemned" /\ phase' = [phase EXCEPT ![z] = "destroyed"]
    BY <1>8 DEF Login, ExitGame, RequestLoad, Examine, Unlist, Destroy, memory
  <2> QED  BY <1>0, <1>3, <2>1 DEF ThreadTypes
<1> QED  BY <1>4, <1>5, <1>6, <1>7, <1>8 DEF SessionSteps

LEMMA NextKept ==
  ASSUME OneEach, TypeInv, ThreadInv, OrderInv, KeptInv, [Next]_vars
  PROVE  KeptInv'
<1> SUFFICES ASSUME NEW s \in Session, s \notin lost' \cup stale' PROVE Kept(s)'
  BY DEF KeptInv
<1>0. ThreadTypes
  BY TypesForThreads
\* What a step of these leaves alone.
<1>1. ASSUME UNCHANGED <<state, inMenu, db, queue, batch, lost, stale, held>>, op'["packet"] = op["packet"]
      PROVE  /\ SafeMenu(s) /\ (s \in held \/ SafeLast(s)) /\ (Left(s)' <=> Left(s))
             /\ Safe(s) => Safe(s)'
             /\ SafeMenu(s)'
  <2>1. SafeMenu(s) /\ (s \in held \/ SafeLast(s))
    BY <1>1 DEF KeptInv, Kept
  <2>2. Left(s)' <=> Left(s)
    BY <1>1 DEF Left
  <2>3. Safe(s) => Safe(s)'
    BY <1>1, <2>2, SafeStays
  <2> QED  BY <1>1, <2>1, <2>2, <2>3, MenuStays
<1>2. CASE SetNameLocked
  <2>1. /\ Others("async") /\ UNCHANGED <<phase, state, inMenu, db, queue, batch, lost, stale, held>>
    BY <1>2, SetNameDoes DEF Moves, Stops
  <2>2. op'["packet"] = op["packet"] /\ op'["deletion"] = op["deletion"]
    BY <1>0, <2>1 DEF ThreadTypes, Others
  <2> QED  BY <1>1, <2>1, <2>2, LastStays DEF Kept
<1>3. CASE BeginDelete
  <2>1. /\ Others("deletion") /\ op'["deletion"].at = "use"
        /\ UNCHANGED <<phase, state, inMenu, db, queue, batch, lost, stale, held>>
    BY <1>3, BeginDeleteDoes
  <2>2. op'["packet"] = op["packet"]
    BY <1>0, <2>1 DEF ThreadTypes, Others
  <2> QED  BY <1>1, <2>1, <2>2 DEF Kept, SafeLast, Covered
\* Out of the world without a save is who left for the menu: whoever is saving it
\* has its player.
<1>4. CASE LeaveWorld
  <2>1. /\ op["deletion"].at = "use" /\ op["deletion"].session \in Session
        /\ \/ Moves("deletion", "mark") /\ phase' = [phase EXCEPT ![op["deletion"].session] = "gone"]
           \/ /\ op["deletion"].session \in inMenu \cup saving
              /\ Stops("deletion") /\ phase' = [phase EXCEPT ![op["deletion"].session] = "condemned"]
        /\ UNCHANGED <<state, inMenu, db, queue, batch, lost, stale, held>>
    BY <1>4, LeaveWorldDoes
  <2>2. op'["packet"] = op["packet"]
    BY <1>0, <2>1 DEF ThreadTypes, Moves, Stops, Others
  <2>3. CASE Moves("deletion", "mark") /\ phase' = [phase EXCEPT ![op["deletion"].session] = "gone"]
    BY <1>0, <1>1, <2>1, <2>2, <2>3 DEF ThreadTypes, Moves, Kept, SafeLast, Covered
  <2>4. CASE /\ op["deletion"].session \in inMenu \cup saving
             /\ Stops("deletion") /\ phase' = [phase EXCEPT ![op["deletion"].session] = "condemned"]
    <3>1. CASE op["deletion"].session # s \/ s \in held
      BY <1>0, <1>1, <2>1, <2>2, <2>4, <3>1 DEF ThreadTypes, Stops, Kept, SafeLast, Covered
    <3>2. CASE op["deletion"].session = s /\ s \notin held
      <4>1. plock[s] = None
        BY <2>1, <3>2 DEF ThreadInv, HeldInv, DeletionInv, Ending
      <4>2. \A t \in Saver : op[t].session = s => op[t].at \notin {"mark", "unit", "post", "clear", "leave"}
        BY <1>0, <2>1, <4>1 DEF ThreadTypes, ThreadInv, PlayerInv
      <4>3. s \in inMenu
        BY <2>4, <3>2, <4>2 DEF ThreadInv, SavingInv
      <4>4. op["packet"].session # s
        BY <1>0, <4>2 DEF ThreadTypes, ThreadInv, RoleInv, InSave
      <4>5. Safe(s)'
        BY <1>1, <2>1, <2>2, <4>3, <4>4 DEF SafeMenu, Left
      <4> QED  BY <1>0, <1>1, <2>1, <2>2, <2>4, <4>5 DEF ThreadTypes, Stops, Kept, SafeLast
    <3> QED  BY <3>1, <3>2
  <2> QED  BY <2>1, <2>3, <2>4
<1>5. CASE SaveAll \/ BeginWait \/ Exit \/ UNCHANGED vars
  <2>1. /\ UNCHANGED <<state, inMenu, db, queue, batch, lost, stale, held, op>>
        /\ \/ UNCHANGED phase
           \/ phase' = [z \in Session |-> IF phase[z] = "online" THEN "leaving" ELSE phase[z]]
    BY <1>5 DEF SaveAll, BeginWait, Exit, vars, memory, writing, ghosts
  <2> QED  BY <1>0, <1>1, <2>1, LastStays DEF ThreadTypes, Kept
<1>6. ASSUME NEW z \in Session, SessionSteps(z)
      PROVE  Kept(s)'
  BY <1>6, SessionKept
<1>7. ASSUME NEW t \in Saver, Save(t)
      PROVE  Kept(s)'
  BY <1>7, SaveKept
<1>8. CASE Write
  BY <1>8, WriteKept
<1> QED  BY <1>2, <1>3, <1>4, <1>5, <1>6, <1>7, <1>8 DEF Next, Load, SessionSteps, Saver

LEMMA InitSaved == Init => TypeInv /\ OwnInv /\ OrderInv /\ ThreadInv /\ AwaitInv /\ KeptInv
BY InitTypes, InitOwn, InitOrder, InitThreads, InitAwait, InitKept

\* What a character had come to when it was sent to the death row is in its row or
\* in a batch on the way there, unless a batch that no later one repeats failed, it
\* was saved emptied, or a thread had the player when it was unlisted.
THEOREM LastIsSaved ==
  ASSUME OneEach
  PROVE  Spec => []LastStateSaved
<1>1. TypeInv /\ OwnInv /\ OrderInv /\ ThreadInv /\ KeptInv /\ [Next]_vars
        => (TypeInv /\ OwnInv /\ OrderInv /\ ThreadInv /\ KeptInv)'
  BY NextTypes, NextOwn, NextOrder, NextThreads, NextKept
<1>2. TypeInv /\ KeptInv => LastStateSaved
  <2> SUFFICES ASSUME TypeInv, KeptInv, NEW s \in Session, phase[s] \in {"condemned", "destroyed"},
                      s \notin lost \cup stale \cup held
               PROVE  \/ Row(s) >= state[s]
                      \/ batch.session = s /\ batch.state >= state[s]
                      \/ \E i \in DOMAIN queue : queue[i].session = s /\ queue[i].state >= state[s]
    BY DEF LastStateSaved
  <2>1. Safe(s)
    BY DEF KeptInv, Kept, SafeLast
  <2>2. DOMAIN queue = 1..Len(queue)
    BY DEF TypeInv, WritingOK
  <2> QED  BY <2>1, <2>2 DEF Safe
<1> QED  BY <1>1, <1>2, InitSaved, PTL DEF Spec

\* Who is loaded again once its save was reported has nothing on the way: its one
\* save without a report comes after its unit is out of the world.
LEMMA LoadedAsLeft ==
  ASSUME TypeInv, OrderInv, ThreadInv, AwaitInv, KeptInv,
         NEW s \in Session, s \in inMenu, TakeUp(s),
         s \notin unsignaled \cup lost \cup unawaited \cup stale
  PROVE  state'[s] = state[s]
<1>0. ThreadTypes /\ OrderTypes
  BY TypesForThreads, TypesForOrder
<1>1. /\ op["async"].at = "await" /\ op["async"].session = s
      /\ state' = [state EXCEPT ![s] = Row(s)]
  BY EndCallDoes DEF TakeUp
<1>2. s \in inUse /\ op["packet"].session # s /\ phase[s] \notin Last
  BY <1>1 DEF ThreadInv, PlayerInv, MenuInv, Last
<1>3. Safe(s)
  BY <1>2 DEF KeptInv, Kept, SafeMenu, Left
<1>4. ~Reporting(s)
  BY DEF AwaitInv, Awaits, StillThere
<1>5. Row(s) >= state[s]
  <2>1. ~(batch.at = "run" /\ batch.session = s)
    BY <1>2, <1>4 DEF ThreadInv, LastInv, Reporting, InHand
  <2>2. \A i \in 1..Len(queue) : queue[i].session # s
    BY <1>2, <1>4 DEF ThreadInv, LastInv, Reporting, Queued
  <2> QED  BY <1>3, <2>1, <2>2 DEF Safe
<1>6. Row(s) <= state[s]
  <2>1. CharOf[s] \in Character /\ state[s] \in Nat
    BY <1>0, SavingAssumption DEF OrderTypes
  <2>2. AtMost(s, state[s])
    BY DEF OrderInv, MemoryLast, Forward
  <2> QED  BY <2>1, <2>2 DEF Row, AtMost
<1>7. state[s] \in Nat /\ Row(s) \in Nat
  BY <1>0, SavingAssumption DEF OrderTypes, Row
<1> QED  BY <1>0, <1>1, <1>5, <1>6, <1>7 DEF OrderTypes

\* A character comes back from the menu as it was left, unless it was loaded before
\* its save was reported, a save of it failed, two were under way at once or it was
\* saved emptied meanwhile.
THEOREM LoadsWhatWasLeft ==
  ASSUME OneEach
  PROVE  Spec => ComesBackAsLeft
<1>1. TypeInv /\ OwnInv /\ OrderInv /\ ThreadInv /\ AwaitInv /\ KeptInv /\ [Next]_vars
        => (TypeInv /\ OwnInv /\ OrderInv /\ ThreadInv /\ AwaitInv /\ KeptInv)'
  BY NextTypes, NextOwn, NextOrder, NextThreads, NextAwait, NextKept
<1>2. TypeInv /\ OwnInv /\ OrderInv /\ ThreadInv /\ AwaitInv /\ KeptInv /\ [Next]_vars
        => [\A s \in inMenu \ inMenu' :
              state'[s] = state[s] \/ s \in unsignaled \cup lost \cup unawaited \cup stale]_vars
  <2> SUFFICES ASSUME TypeInv, OrderInv, ThreadInv, AwaitInv, KeptInv, [Next]_vars,
                      NEW s \in inMenu, s \notin inMenu', s \notin unsignaled \cup lost \cup unawaited \cup stale
               PROVE  state'[s] = state[s]
    OBVIOUS
  <2>1. s \in Session
    BY DEF TypeInv, MemoryOK
  <2>2. TakeUp(s)
    <3>1. \A t \in Saver : ~Save(t)
      BY MarkDoes, ReadDoes, PostDoes, ReturnDoes, ResetDoes, LeaveDoes DEF Save
    <3>2. ~SetNameLocked /\ ~BeginDelete /\ ~LeaveWorld /\ ~Write
      BY DEF SetNameLocked, BeginDelete, LeaveWorld, Write, TakeBatch, Timeout, Commit, Rollback, Kick,
             EndBatch, memory
    <3>3. ~(SaveAll \/ BeginWait \/ Exit \/ UNCHANGED vars)
      BY DEF SaveAll, BeginWait, Exit, vars, memory
    <3>4. PICK z \in Session : SessionSteps(z)
      BY <3>1, <3>2, <3>3 DEF Next, Load, SessionSteps, Saver
    <3>5. ~(QueryNextSave(z) \/ RequestSave(z) \/ RerollSave(z) \/ SetName(z))
      BY SavesBegin DEF BeginsSave
    <3>6. ~(Login(z) \/ Play(z) \/ ExitGame(z) \/ RequestLoad(z) \/ BeginCall(z) \/ CallInVain(z)
            \/ Examine(z) \/ Unlist(z) \/ Destroy(z))
      BY DEF Login, Play, ExitGame, RequestLoad, BeginCall, CallInVain, Examine, Unlist, Destroy, memory
    <3>7. TakeUp(z) /\ inMenu' = inMenu \ {z}
      BY <3>4, <3>5, <3>6 DEF SessionSteps, TakeUp
    <3> QED  BY <3>7
  <2> QED  BY <2>1, <2>2, LoadedAsLeft
<1> QED  BY <1>1, <1>2, InitSaved, PTL DEF Spec, ComesBackAsLeft

-----------------------------------------------------------------------------
(* With the mutex of Lock.h.                                                *)

\* Nobody comes past IsTradeValid, so nothing is ever posted.
MutexInv ==
  /\ \A t \in Saver : op[t].at \notin {"post", "clear", "leave"}
  /\ Len(queue) = 0 /\ batch.at \in {"idle", "stopped"}

LEMMA InitMutex == Init => MutexInv
BY DEF Init, MutexInv, Idle, NoBatch, Saver

Stuck ==
  /\ \A t \in Saver : op[t].at \in {"mark", "unit"} =>
       op'[t].session = op[t].session /\ op'[t].at \in {"mark", "unit"}
  /\ \A s \in Session : ulock[s] # None => ulock'[s] = ulock[s]
  /\ odbc = "async" => odbc' = "async"
  /\ UNCHANGED <<queue, db>>

\* A thread in its save.
LEMMA SaveMutex ==
  ASSUME ~Recursive, TypeInv, MutexInv, NEW t \in Saver, Save(t)
  PROVE  MutexInv' /\ Stuck
<1>1. CASE Mark(t)
  BY <1>1, MarkDoes DEF MutexInv, Stuck, Moves, Others
<1>2. CASE Read(t)
  <2>1. /\ UNCHANGED <<op, odbc, queue, db, batch>>
        /\ \/ UNCHANGED ulock
           \/ ulock[op[t].session] = None /\ ulock' = [ulock EXCEPT ![op[t].session] = t]
    BY <1>2, ReadDoes
  <2> QED  BY <2>1 DEF MutexInv, Stuck, TypeInv, LocksOK
<1>3. CASE Post(t) \/ Return(t) \/ Reset(t) \/ Leave(t)
  BY <1>3 DEF MutexInv, Post, Return, Reset, Leave, At
<1> QED  BY <1>1, <1>2, <1>3 DEF Save

\* The write thread: it finds nothing, and ends when the shutdown waits for it.
LEMMA WriteMutex ==
  ASSUME TypeInv, MutexInv, Write
  PROVE  MutexInv' /\ Stuck
<1>1. CASE Timeout
  BY <1>1, TimeoutDoes DEF MutexInv, Stuck
<1>2. ~TakeBatch
  BY TakeDoes DEF MutexInv
<1>3. \A s \in Session : ~Commit(s) /\ ~Rollback(s) /\ ~Kick(s)
  BY DEF MutexInv, Commit, Rollback, Kick, EndBatch
<1> QED  BY <1>1, <1>2, <1>3 DEF Write

LEMMA NextMutex ==
  ASSUME ~Recursive, TypeInv, MutexInv, [Next]_vars
  PROVE  MutexInv' /\ Stuck
<1>0. ThreadTypes
  BY TypesForThreads
<1>1. ASSUME NEW s \in Session, SessionSteps(s)
      PROVE  MutexInv' /\ Stuck
  <2>1. CASE QueryNextSave(s) \/ RequestSave(s) \/ RerollSave(s) \/ SetName(s)
    <3>1. PICK t \in Saver : BeginsSave(t, s)
      BY <2>1, SavesBegin
    <3>2. /\ op[t].at = "idle" /\ op'[t].at \in {"mark", "database"} /\ Others(t)
          /\ UNCHANGED ulock \/ (ulock[s] = None /\ ulock' = [ulock EXCEPT ![s] = t])
          /\ UNCHANGED <<odbc, queue, db, batch>>
      BY <3>1 DEF BeginsSave
    <3> QED  BY <1>0, <3>2 DEF MutexInv, Stuck, ThreadTypes, Others
  <2>2. CASE BeginCall(s) \/ CallInVain(s) \/ TakeUp(s)
    <3>1. /\ op["async"].at \in {"idle", "await"} /\ op'["async"].at \in {"idle", "await"} /\ Others("async")
          /\ UNCHANGED <<ulock, odbc, queue, db, batch>>
      BY <2>2, BeginCallDoes, EndCallDoes DEF Stops
    <3> QED  BY <1>0, <3>1 DEF MutexInv, Stuck, ThreadTypes, Others
  <2>3. CASE Login(s) \/ Play(s) \/ ExitGame(s) \/ RequestLoad(s) \/ Examine(s) \/ Unlist(s) \/ Destroy(s)
    <3>1. UNCHANGED <<op, ulock, odbc, queue, db, batch>>
      BY <2>3 DEF Login, Play, ExitGame, RequestLoad, Examine, Unlist, Destroy, memory, locks, flags, writing
    <3> QED  BY <3>1 DEF MutexInv, Stuck
  <2> QED  BY <1>1, <2>1, <2>2, <2>3 DEF SessionSteps
<1>2. CASE SetNameLocked
  <2>1. UNCHANGED <<queue, db, batch, ulock>> /\ odbc = None
    BY <1>2, SetNameDoes
  <2>2. op["async"].at = "database" /\ op'["async"].at \in {"mark", "idle"} /\ Others("async")
    BY <1>2, SetNameDoes DEF Moves, Stops
  <2> QED  BY <1>0, <2>1, <2>2 DEF MutexInv, Stuck, ThreadTypes, Others
<1>3. CASE BeginDelete \/ LeaveWorld
  <2>1. /\ op["deletion"].at \in {"idle", "use"} /\ op'["deletion"].at \in {"use", "mark", "idle"} /\ Others("deletion")
        /\ UNCHANGED <<odbc, queue, db, batch>>
    BY <1>3, BeginDeleteDoes, LeaveWorldDoes DEF Moves, Stops
  <2>2. \/ UNCHANGED ulock
        \/ \E s \in Session : ulock[s] = None /\ ulock' = [ulock EXCEPT ![s] = "deletion"]
    BY <1>3, BeginDeleteDoes, LeaveWorldDoes
  <2> QED  BY <1>0, <2>1, <2>2 DEF MutexInv, Stuck, ThreadTypes, Others
<1>4. CASE SaveAll \/ BeginWait \/ Exit \/ UNCHANGED vars
  <2>1. UNCHANGED <<op, ulock, odbc, queue, db, batch>>
    BY <1>4 DEF SaveAll, BeginWait, Exit, vars, locks, writing
  <2> QED  BY <2>1 DEF MutexInv, Stuck
<1>5. ASSUME NEW t \in Saver, Save(t)
      PROVE  MutexInv' /\ Stuck
  BY <1>5, SaveMutex
<1> QED  BY <1>1, <1>2, <1>3, <1>4, <1>5, WriteMutex DEF Next, Load, SessionSteps, Saver

\* With the plain mutex of Lock.h whoever saves never comes back from SaveCharacter,
\* with player and unit and, in SETNAME, the database locked for good, and no
\* character is ever written.
THEOREM PlainMutexStopsSaves == Spec => PlainMutexStops
<1> DEFINE I == TypeInv /\ OwnInv /\ ThreadInv /\ (~Recursive => MutexInv)
           Formula == ~Recursive =>
             /\ \A t \in DOMAIN op : op[t].at \in {"mark", "unit"} =>
                  /\ op'[t].at \in {"mark", "unit"} /\ op'[t].session = op[t].session
                  /\ t # "deletion" => plock'[op[t].session] = t
             /\ \A s \in Session : ulock[s] # None => ulock'[s] = ulock[s]
             /\ odbc = "async" => odbc' = "async"
             /\ UNCHANGED <<queue, db>>
<1>1. Init => I
  BY InitTypes, InitOwn, InitThreads, InitMutex
<1>2. I /\ [Next]_vars => I'
  BY NextTypes, NextOwn, NextThreads, NextMutex
<1>3. I /\ [Next]_vars => Formula
  <2> SUFFICES ASSUME I, [Next]_vars, ~Recursive PROVE Formula
    OBVIOUS
  <2>1. Stuck /\ ThreadInv' /\ DOMAIN op = Saver
    BY <1>2, NextMutex DEF TypeInv, OpOK
  <2>2. ASSUME NEW t \in Saver, op[t].at \in {"mark", "unit"}
        PROVE  /\ op'[t].at \in {"mark", "unit"} /\ op'[t].session = op[t].session
               /\ t # "deletion" => plock'[op[t].session] = t
    <3>1. op'[t].at \in {"mark", "unit"} /\ op'[t].session = op[t].session
      BY <2>1, <2>2 DEF Stuck
    <3> QED  BY <2>1, <3>1 DEF ThreadInv, PlayerInv
  <2> QED  BY <2>1, <2>2 DEF Stuck
<1>4. I /\ [Next]_vars => [Formula]_vars
  BY <1>3
<1> HIDE DEF I, Formula
<1>5. Spec => [][Formula]_vars
  BY <1>1, <1>2, <1>4, PTL DEF Spec
<1> QED  BY <1>5 DEF PlainMutexStops, Formula
=============================================================================
