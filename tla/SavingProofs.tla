----------------------------- MODULE SavingProofs -----------------------------
(***************************************************************************)
(* What TLAPS proves about Saving, for every set of sessions and           *)
(* characters and every bound: the types, that the rows of a session only  *)
(* go forward, and that the write thread ends with nothing left to send.   *)
(***************************************************************************)
EXTENDS Saving, TLAPS

Saver == Thread \ {"writer"}

Op == [at : {"idle", "mark", "unit", "post", "clear", "leave", "use", "database", "await"},
       session : Session \cup {None}, why : Reason, state : 0..MaxState]

\* The type invariant, a part for each group of variables.
MemoryOK ==
  /\ phase \in [Session -> Phase] /\ state \in [Session -> 0..MaxState]
  /\ inMenu \subseteq Session /\ emptied \subseteq Session

LocksOK ==
  /\ plock \in [Session -> Thread \cup {None}] /\ ulock \in [Session -> Thread \cup {None}]
  /\ odbc \in Thread \cup {None} /\ inUse \subseteq Session

FlagsOK ==
  /\ saving \subseteq Session /\ unsignaled \subseteq Session
  /\ failures \in [Session -> 0..KickAfter + 1]

WritingOK ==
  /\ db \in [Character -> [by : Session \cup {None}, state : 0..MaxState]]
  /\ queue \in Seq(Batch)
  /\ batch \in [at : {"idle", "run", "kick", "stopped"},
                session : Session \cup {None}, state : 0..MaxState, reports : BOOLEAN]
  /\ tries \in 0..1

EndingOK ==
  /\ deletionQ \in Seq(Session)
  /\ down \in {"up", "flagged", "waiting", "exited"}
  /\ due \in Nat

GhostsOK ==
  /\ unawaited \subseteq Session /\ held \subseteq Session
  /\ lost \subseteq Session /\ stale \subseteq Session

\* Who is in the middle of something has a session.
OpOK ==
  /\ op \in [Saver -> Op]
  /\ \A t \in Saver : op[t].at # "idle" => op[t].session \in Session
  /\ \A t \in Saver : op[t].at = "database" => op[t].why = "setname"

FaultOK == fault \in Session \cup {None}

TypeInv ==
  MemoryOK /\ LocksOK /\ FlagsOK /\ WritingOK /\ EndingOK /\ GhostsOK /\ OpOK /\ FaultOK

SessionSteps(s) ==
  \/ Login(s) \/ Play(s) \/ ExitGame(s)
  \/ QueryNextSave(s) \/ RequestSave(s) \/ RerollSave(s) \/ SetName(s)
  \/ RequestLoad(s) \/ BeginCall(s) \/ CallInVain(s) \/ TakeUp(s)
  \/ Examine(s) \/ Unlist(s) \/ Destroy(s)

-----------------------------------------------------------------------------
(* Types.                                                                   *)

LEMMA PartsAreTypes == TypeInv => TypeOK
BY DEF TypeInv, TypeOK, MemoryOK, LocksOK, FlagsOK, WritingOK, EndingOK, GhostsOK, OpOK, FaultOK, Op, Saver

LEMMA InitTypes == Init => TypeInv
<1> SUFFICES ASSUME Init PROVE TypeInv
  OBVIOUS
<1> USE SavingAssumption DEF Init
<1>1. MemoryOK
  BY DEF MemoryOK, Phase
<1>2. LocksOK
  BY DEF LocksOK
<1>3. FlagsOK
  BY DEF FlagsOK
<1>4. WritingOK
  BY DEF WritingOK, NoBatch
<1>5. EndingOK /\ GhostsOK /\ FaultOK
  BY DEF EndingOK, GhostsOK, FaultOK
<1>6. OpOK
  BY DEF OpOK, Op, Idle, Saver, Reason
<1> QED  BY <1>1, <1>2, <1>3, <1>4, <1>5, <1>6 DEF TypeInv

\* What an action leaves alone keeps its type.
LEMMA KeptTypes ==
  ASSUME TypeInv
  PROVE  /\ UNCHANGED memory => MemoryOK'
         /\ UNCHANGED locks => LocksOK'
         /\ UNCHANGED flags => FlagsOK'
         /\ UNCHANGED writing => WritingOK'
         /\ UNCHANGED ending => EndingOK'
         /\ UNCHANGED ghosts => GhostsOK'
         /\ UNCHANGED op => OpOK'
         /\ UNCHANGED fault => FaultOK'
<1> USE DEF TypeInv
<1>1. UNCHANGED memory => MemoryOK'
  BY DEF memory, MemoryOK
<1>2. UNCHANGED locks => LocksOK'
  BY DEF locks, LocksOK
<1>3. UNCHANGED flags => FlagsOK'
  BY DEF flags, FlagsOK
<1>4. UNCHANGED writing => WritingOK'
  BY DEF writing, WritingOK
<1>5. UNCHANGED ending => EndingOK'
  BY DEF ending, EndingOK
<1>6. UNCHANGED ghosts => GhostsOK'
  BY DEF ghosts, GhostsOK
<1>7. UNCHANGED op => OpOK'
  BY DEF OpOK
<1>8. UNCHANGED fault => FaultOK'
  BY DEF FaultOK
<1> QED  BY <1>1, <1>2, <1>3, <1>4, <1>5, <1>6, <1>7, <1>8

\* A save that starts.
LEMMA StartTypes ==
  ASSUME TypeInv, NEW t \in Saver, NEW s \in Session,
         NEW why \in Reason, NEW p \in {"mark", "database"}, p = "database" => why = "setname",
         Starts(t, s, why, p), LocksOK', inMenu' \subseteq Session
  PROVE  TypeInv'
<1>1. OpOK'
  BY SavingAssumption DEF Starts, TypeInv, OpOK, Op
<1>2. UNCHANGED <<phase, state, emptied, flags, writing, ending, ghosts, fault>>
  BY DEF Starts
<1>3. MemoryOK'
  BY <1>2 DEF TypeInv, MemoryOK
<1> QED  BY <1>1, <1>2, <1>3, KeptTypes DEF TypeInv

LEMMA SessionTypes ==
  ASSUME TypeInv, NEW s \in Session, SessionSteps(s)
  PROVE  TypeInv'
<1> USE KeptTypes DEF TypeInv
<1>1. CASE Login(s) \/ ExitGame(s) \/ Examine(s) \/ Destroy(s)
  <2>1. MemoryOK'
    BY <1>1 DEF Login, ExitGame, Examine, Destroy, MemoryOK, Phase
  <2>2. UNCHANGED <<locks, flags, writing, ending, ghosts, op, fault>>
    BY <1>1 DEF Login, ExitGame, Examine, Destroy
  <2> QED  BY <2>1, <2>2
<1>2. CASE Play(s)
  <2>1. state[s] + 1 \in 0..MaxState
    BY <1>2, SavingAssumption DEF Play, MemoryOK
  <2>2. MemoryOK'
    BY <1>2, <2>1 DEF Play, MemoryOK
  <2>3. UNCHANGED <<locks, flags, writing, ending, ghosts, op, fault>>
    BY <1>2 DEF Play
  <2> QED  BY <2>2, <2>3
<1>3. CASE Unlist(s)
  <2>1. MemoryOK' /\ EndingOK' /\ GhostsOK'
    BY <1>3 DEF Unlist, MemoryOK, EndingOK, GhostsOK, Phase
  <2>2. UNCHANGED <<locks, flags, writing, op, fault>>
    BY <1>3 DEF Unlist
  <2> QED  BY <2>1, <2>2
<1>4. CASE QueryNextSave(s)
  <2>1. LocksOK' /\ inMenu' \subseteq Session
    BY <1>4 DEF QueryNextSave, LocksOK, MemoryOK, Thread
  <2> QED  BY <1>4, <2>1, StartTypes DEF QueryNextSave, Saver, Thread, Reason
<1>5. CASE RequestSave(s)
  <2>1. LocksOK' /\ inMenu' \subseteq Session
    BY <1>5 DEF RequestSave, LocksOK, MemoryOK, Thread
  <2> QED  BY <1>5, <2>1, StartTypes DEF RequestSave, Saver, Thread, Reason
<1>6. CASE RerollSave(s)
  <2>1. LocksOK' /\ inMenu' \subseteq Session
    BY <1>6 DEF RerollSave, LocksOK, MemoryOK, Thread
  <2> QED  BY <1>6, <2>1, StartTypes DEF RerollSave, Saver, Thread, Reason
<1>7. CASE SetName(s)
  <2>1. LocksOK' /\ inMenu' \subseteq Session
    BY <1>7 DEF SetName, LocksOK, MemoryOK, Thread
  <2> QED  BY <1>7, <2>1, StartTypes DEF SetName, Saver, Thread, Reason
<1>8. CASE RequestLoad(s)
  <2>1. LocksOK'
    BY <1>8 DEF RequestLoad, LocksOK
  <2>2. UNCHANGED <<memory, flags, writing, ending, ghosts, op, fault>>
    BY <1>8 DEF RequestLoad
  <2> QED  BY <2>1, <2>2
<1>9. CASE BeginCall(s)
  <2>1. OpOK'
    BY <1>9, SavingAssumption DEF BeginCall, OpOK, Op, Reason
  <2>2. UNCHANGED <<memory, locks, flags, writing, ending, ghosts, fault>>
    BY <1>9 DEF BeginCall
  <2> QED  BY <2>1, <2>2
<1>10. CASE CallInVain(s) \/ TakeUp(s)
  <2>1. /\ op' = [op EXCEPT !["async"] = Idle] /\ inUse' = inUse \ {s}
        /\ UNCHANGED <<phase, plock, ulock, odbc, flags, writing, ending, unawaited, held, lost, fault>>
    BY <1>10 DEF CallInVain, TakeUp, EndCall
  <2>2. OpOK'
    BY <2>1, SavingAssumption DEF OpOK, Op, Idle, Reason, Saver, Thread
  <2>3. LocksOK'
    BY <2>1 DEF LocksOK
  <2>4. Row(s) \in 0..MaxState
    BY SavingAssumption DEF Row, WritingOK
  <2>5. MemoryOK' /\ GhostsOK'
    BY <1>10, <2>1, <2>4 DEF CallInVain, TakeUp, MemoryOK, GhostsOK
  <2> QED  BY <2>1, <2>2, <2>3, <2>5
<1> QED  BY <1>1, <1>2, <1>3, <1>4, <1>5, <1>6, <1>7, <1>8, <1>9, <1>10 DEF SessionSteps

LEMMA SaverSession ==
  ASSUME TypeInv, NEW t \in Saver, op[t].at # "idle"
  PROVE  op[t].session \in Session
BY DEF TypeInv, OpOK

\* A thread in the middle of something goes on to p, or is idle again.
LEMMA OpTypes ==
  ASSUME TypeInv, NEW t \in Saver, op[t].at # "idle",
         NEW p \in {"mark", "unit", "post", "clear", "leave"}, NEW n \in 0..MaxState,
         \/ op' = [op EXCEPT ![t].at = p]
         \/ op' = [op EXCEPT ![t].at = p, ![t].state = n]
         \/ op' = [op EXCEPT ![t] = Idle]
  PROVE  OpOK'
<1>1. op[t] \in Op /\ op[t].session \in Session
  BY DEF TypeInv, OpOK
<1>2. CASE op' = [op EXCEPT ![t].at = p]
  BY <1>1, <1>2 DEF TypeInv, OpOK, Op
<1>3. CASE op' = [op EXCEPT ![t].at = p, ![t].state = n]
  BY <1>1, <1>3 DEF TypeInv, OpOK, Op
<1>4. CASE op' = [op EXCEPT ![t] = Idle]
  BY <1>4, SavingAssumption DEF TypeInv, OpOK, Op, Idle, Reason
<1> QED  BY <1>2, <1>3, <1>4

LEMMA SaveTypes ==
  ASSUME TypeInv, NEW t \in Saver, Save(t)
  PROVE  TypeInv'
<1> DEFINE s == op[t].session
<1>0. op[t].at # "idle" /\ s \in Session /\ 0 \in 0..MaxState /\ t \in Thread
  BY SaverSession, SavingAssumption DEF Save, Mark, Read, Post, Return, Reset, Leave, At, Saver
<1> HIDE DEF s
<1> USE KeptTypes DEF TypeInv
<1>1. CASE Mark(t)
  <2>1. FlagsOK' /\ GhostsOK'
    BY <1>0, <1>1 DEF Mark, FlagsOK, GhostsOK, s
  <2>2. OpOK'
    BY <1>0, <1>1, OpTypes DEF Mark, Goto
  <2>3. UNCHANGED <<memory, locks, writing, ending, fault>>
    BY <1>1 DEF Mark
  <2> QED  BY <2>1, <2>2, <2>3
<1>2. CASE Read(t)
  <2>1. state[s] \in 0..MaxState
    BY <1>0 DEF MemoryOK
  <2>2. LocksOK' /\ FaultOK' /\ GhostsOK'
    BY <1>0, <1>2 DEF Read, LocksOK, FaultOK, GhostsOK, s
  <2>3. OpOK'
    <3>1. CASE op' = op
      BY <3>1
    <3>2. CASE op' = [op EXCEPT ![t].at = "post", ![t].state = IF s \in emptied THEN 0 ELSE state[s]]
      <4>1. (IF s \in emptied THEN 0 ELSE state[s]) \in 0..MaxState
        BY <1>0, <2>1
      <4> QED  BY <1>0, <4>1, <3>2, OpTypes
    <3> QED  BY <1>2, <3>1, <3>2 DEF Read, s
  <2>4. UNCHANGED <<memory, flags, writing, ending>>
    BY <1>2 DEF Read
  <2> QED  BY <2>2, <2>3, <2>4
<1>3. CASE Post(t)
  <2>1. [session |-> s, state |-> op[t].state, reports |-> Reports(t)] \in Batch
    BY <1>0 DEF OpOK, Op, Batch, Reports
  <2>2. WritingOK'
    BY <1>3, <2>1 DEF Post, WritingOK, s
  <2>3. LocksOK'
    BY <1>0, <1>3 DEF Post, LocksOK
  <2>4. OpOK'
    BY <1>0, <1>3, OpTypes DEF Post
  <2>5. UNCHANGED <<memory, flags, ending, ghosts, fault>>
    BY <1>3 DEF Post, flags
  <2> QED  BY <2>2, <2>3, <2>4, <2>5
<1>4. CASE Return(t)
  <2>1. MemoryOK'
    BY <1>0, <1>4 DEF Return, MemoryOK, Phase, s
  <2>2. LocksOK'
    BY <1>0, <1>4 DEF Return, LocksOK, s
  <2>3. FlagsOK'
    BY <1>0, <1>4 DEF Return, FlagsOK
  <2>4. OpOK'
    BY <1>0, <1>4, OpTypes DEF Return
  <2>5. UNCHANGED <<writing, ending, ghosts, fault>>
    BY <1>4 DEF Return
  <2> QED  BY <2>1, <2>2, <2>3, <2>4, <2>5
<1>5. CASE Reset(t)
  <2>1. MemoryOK' /\ FlagsOK'
    BY <1>0, <1>5 DEF Reset, MemoryOK, FlagsOK, s
  <2>2. OpOK'
    BY <1>0, <1>5, OpTypes DEF Reset, Goto
  <2>3. UNCHANGED <<locks, writing, ending, ghosts, fault>>
    BY <1>5 DEF Reset
  <2> QED  BY <2>1, <2>2, <2>3
<1>6. CASE Leave(t)
  <2>1. MemoryOK' /\ LocksOK'
    BY <1>0, <1>6 DEF Leave, MemoryOK, LocksOK, s
  <2>2. OpOK'
    BY <1>0, <1>6, OpTypes DEF Leave
  <2>3. UNCHANGED <<flags, writing, ending, ghosts, fault>>
    BY <1>6 DEF Leave
  <2> QED  BY <2>1, <2>2, <2>3
<1> QED  BY <1>1, <1>2, <1>3, <1>4, <1>5, <1>6 DEF Save

LEMMA EndBatchTypes ==
  ASSUME TypeInv, NEW s \in Session, NEW n \in Nat,
         batch.reports => n \in 0..KickAfter + 1, EndBatch(s, n),
         db' \in [Character -> [by : Session \cup {None}, state : 0..MaxState]]
  PROVE  TypeInv'
<1> USE KeptTypes, SavingAssumption DEF TypeInv
<1>1. NoBatch \in [at : {"idle", "run", "kick", "stopped"}, session : Session \cup {None},
                   state : 0..MaxState, reports : BOOLEAN]
  BY DEF NoBatch
<1>2. Decrement(due) \in Nat
  BY DEF Decrement, EndingOK
<1>3. /\ batch' \in [at : {"idle", "run", "kick", "stopped"}, session : Session \cup {None},
                     state : 0..MaxState, reports : BOOLEAN]
      /\ odbc' \in Thread \cup {None}
      /\ due' \in Nat
      /\ unsignaled' \subseteq Session
      /\ fault' \in Session \cup {None}
  <2>1. CASE UNCHANGED <<unsignaled, batch, odbc, due>> /\ fault' = s
    BY <2>1 DEF WritingOK, LocksOK, EndingOK, FlagsOK
  <2>2. CASE batch' = [batch EXCEPT !.at = "kick"] /\ UNCHANGED <<unsignaled, odbc, due, fault>>
    BY <2>2 DEF WritingOK, LocksOK, EndingOK, FlagsOK, FaultOK
  <2>3. CASE BatchDone /\ unsignaled' \in {unsignaled, unsignaled \ {s}} /\ UNCHANGED fault
    BY <1>1, <1>2, <2>3 DEF BatchDone, LocksOK, EndingOK, FlagsOK, FaultOK
  <2> QED  BY <2>1, <2>2, <2>3 DEF EndBatch, DataSaveCallback
<1>4. failures' \in [Session -> 0..KickAfter + 1]
  BY DEF EndBatch, DataSaveCallback, FlagsOK
<1>5. UNCHANGED <<memory, saving, queue, tries, deletionQ, down, unawaited, held, stale, op, plock, ulock, inUse>>
  BY DEF EndBatch
<1>6. FlagsOK' /\ LocksOK' /\ EndingOK' /\ FaultOK'
  BY <1>3, <1>4, <1>5 DEF FlagsOK, LocksOK, EndingOK, FaultOK
<1>7. WritingOK'
  BY <1>3, <1>5 DEF WritingOK
<1>8. GhostsOK'
  BY <1>5 DEF GhostsOK, EndBatch
<1> QED  BY <1>5, <1>6, <1>7, <1>8

LEMMA WriteTypes ==
  ASSUME TypeInv, Write
  PROVE  TypeInv'
<1> USE KeptTypes DEF TypeInv
<1>1. CASE TakeBatch
  <2>1. Head(queue) \in Batch /\ Tail(queue) \in Seq(Batch)
    BY <1>1 DEF TakeBatch, WritingOK
  <2>2. batch' \in [at : {"idle", "run", "kick", "stopped"}, session : Session \cup {None},
                    state : 0..MaxState, reports : BOOLEAN]
    BY <1>1, <2>1 DEF TakeBatch, Batch
  <2>3. WritingOK' /\ LocksOK'
    BY <1>1, <2>1, <2>2 DEF TakeBatch, WritingOK, LocksOK, Thread
  <2>4. UNCHANGED <<memory, flags, ending, ghosts, op, fault>>
    BY <1>1 DEF TakeBatch
  <2> QED  BY <2>3, <2>4
<1>2. CASE Timeout
  <2> DEFINE B == [at : {"idle", "run", "kick", "stopped"}, session : Session \cup {None},
                   state : 0..MaxState, reports : BOOLEAN]
  <2>0. NoBatch \in B
    BY SavingAssumption DEF NoBatch
  <2> HIDE DEF B
  <2>1. [NoBatch EXCEPT !.at = "stopped"] \in B
    BY <2>0 DEF B
  <2>2. batch \in B /\ batch' \in B
    BY <1>2, <2>1 DEF Timeout, WritingOK, B
  <2>3. WritingOK'
    BY <1>2, <2>2 DEF Timeout, WritingOK, B
  <2>4. UNCHANGED <<memory, locks, flags, ending, ghosts, op, fault>>
    BY <1>2 DEF Timeout
  <2> QED  BY <2>3, <2>4
<1>3. ASSUME NEW s \in Session, Commit(s)
      PROVE  TypeInv'
  <2>1. db' \in [Character -> [by : Session \cup {None}, state : 0..MaxState]]
    BY <1>3 DEF Commit, WritingOK
  <2> QED  BY <1>3, <2>1, EndBatchTypes, SavingAssumption DEF Commit
<1>4. ASSUME NEW s \in Session, Rollback(s)
      PROVE  TypeInv'
  <2>1. db' \in [Character -> [by : Session \cup {None}, state : 0..MaxState]]
    BY <1>4 DEF Rollback, WritingOK
  <2>2. failures[s] + 1 \in Nat /\ (batch.reports => failures[s] + 1 \in 0..KickAfter + 1)
    BY <1>4, SavingAssumption DEF Rollback, FlagsOK
  <2> QED  BY <1>4, <2>1, <2>2, EndBatchTypes DEF Rollback
<1>5. ASSUME NEW s \in Session, Kick(s)
      PROVE  TypeInv'
  <2>1. Decrement(due) \in Nat
    BY DEF Decrement, EndingOK
  <2>2. /\ batch' \in [at : {"idle", "run", "kick", "stopped"}, session : Session \cup {None},
                       state : 0..MaxState, reports : BOOLEAN]
        /\ odbc' \in Thread \cup {None}
        /\ due' \in Nat
        /\ unsignaled' \subseteq Session
        /\ fault' \in Session \cup {None}
    <3>1. CASE UNCHANGED <<unsignaled, batch, odbc, due>> /\ fault' = s
      BY <3>1 DEF WritingOK, LocksOK, EndingOK, FlagsOK
    <3>2. CASE BatchDone /\ unsignaled' = unsignaled \ {s} /\ UNCHANGED fault
      BY <2>1, <3>2, SavingAssumption DEF BatchDone, NoBatch, LocksOK, EndingOK, FlagsOK, FaultOK
    <3> QED  BY <1>5, <3>1, <3>2 DEF Kick
  <2>3. MemoryOK'
    BY <1>5 DEF Kick, MemoryOK, Phase
  <2>4. UNCHANGED <<state, inMenu, emptied, saving, failures, db, queue, tries, deletionQ, down, ghosts, op, plock, ulock, inUse>>
    BY <1>5 DEF Kick
  <2>5. FlagsOK' /\ LocksOK' /\ EndingOK' /\ FaultOK' /\ WritingOK'
    BY <2>2, <2>4 DEF FlagsOK, LocksOK, EndingOK, FaultOK, WritingOK
  <2> QED  BY <2>3, <2>4, <2>5
<1> QED  BY <1>1, <1>2, <1>3, <1>4, <1>5 DEF Write

LEMMA NextTypes ==
  ASSUME TypeInv, [Next]_vars
  PROVE  TypeInv'
<1> USE KeptTypes DEF TypeInv
<1>1. CASE \E s \in Session : SessionSteps(s)
  BY <1>1, SessionTypes
<1>2. CASE SetNameLocked
  <2>1. "async" \in Saver /\ op["async"].at = "database" /\ op["async"].session \in Session
    BY <1>2, SaverSession DEF SetNameLocked, At, Saver, Thread
  <2>2. OpOK'
    <3>1. \/ op' = [op EXCEPT !["async"].at = "mark"]
          \/ op' = [op EXCEPT !["async"] = Idle]
      BY <1>2 DEF SetNameLocked, Goto
    <3>2. 0 \in 0..MaxState /\ op["async"].at # "idle"
      BY <2>1, SavingAssumption
    <3> QED  BY <2>1, <3>1, <3>2, OpTypes
  <2>3. LocksOK'
    BY <1>2, <2>1 DEF SetNameLocked, LocksOK, Thread
  <2>4. UNCHANGED <<memory, flags, writing, ending, ghosts, fault>>
    BY <1>2 DEF SetNameLocked
  <2> QED  BY <2>2, <2>3, <2>4
<1>3. CASE BeginDelete
  <2>1. Head(deletionQ) \in Session /\ Tail(deletionQ) \in Seq(Session)
    BY <1>3 DEF BeginDelete, EndingOK
  <2>2. OpOK'
    BY <1>3, <2>1, SavingAssumption DEF BeginDelete, OpOK, Op, Reason
  <2>3. EndingOK'
    BY <1>3, <2>1 DEF BeginDelete, EndingOK
  <2>4. GhostsOK'
    BY <1>3, <2>1 DEF BeginDelete, GhostsOK
  <2>5. UNCHANGED <<memory, locks, flags, writing, fault>>
    BY <1>3 DEF BeginDelete
  <2> QED  BY <2>1, <2>2, <2>3, <2>4, <2>5
<1>4. CASE LeaveWorld
  <2>1. "deletion" \in Saver /\ op["deletion"].at = "use" /\ op["deletion"].session \in Session
    BY <1>4, SaverSession DEF LeaveWorld, At, Saver, Thread
  <2>2. OpOK'
    <3>1. \/ op' = [op EXCEPT !["deletion"].at = "mark"]
          \/ op' = [op EXCEPT !["deletion"] = Idle]
      BY <1>4 DEF LeaveWorld, Goto
    <3>2. 0 \in 0..MaxState /\ op["deletion"].at # "idle"
      BY <2>1, SavingAssumption
    <3> QED  BY <2>1, <3>1, <3>2, OpTypes
  <2>3. LocksOK' /\ MemoryOK'
    BY <1>4, <2>1 DEF LeaveWorld, LocksOK, MemoryOK, Thread, Phase
  <2>4. UNCHANGED <<flags, writing, ending, ghosts, fault>>
    BY <1>4 DEF LeaveWorld
  <2> QED  BY <2>2, <2>3, <2>4
<1>5. CASE \E t \in Saver : Save(t)
  BY <1>5, SaveTypes
<1>6. CASE Write
  BY <1>6, WriteTypes
<1>7. CASE SaveAll
  <2>1. MemoryOK'
    BY <1>7 DEF SaveAll, MemoryOK, Phase
  <2> QED  BY <1>7, <2>1 DEF SaveAll, EndingOK
<1>8. CASE BeginWait
  <2>1. EndingOK'
    BY <1>8 DEF BeginWait, EndingOK, WritingOK
  <2> QED  BY <1>8, <2>1 DEF BeginWait
<1>9. CASE Exit
  <2>1. EndingOK'
    BY <1>9 DEF Exit, EndingOK
  <2> QED  BY <1>9, <2>1 DEF Exit
<1>10. CASE UNCHANGED vars
  BY <1>10 DEF vars
<1> QED  BY <1>1, <1>2, <1>3, <1>4, <1>5, <1>6, <1>7, <1>8, <1>9, <1>10 DEF Next, Load, SessionSteps, Saver

\* Every variable keeps its type: a save under way has a session, and failures
\* are counted no further than a kick.
THEOREM TypesCorrect == Spec => []TypeOK
<1>1. Spec => []TypeInv
  BY InitTypes, NextTypes, PTL DEF Spec
<1> QED  BY <1>1, PartsAreTypes, PTL

-----------------------------------------------------------------------------
(* Rows only go forward.                                                    *)

\* Who has the unit of the character it saves.
HasUnit(t) ==
  \/ op[t].at = "post"
  \/ op[t].why \in {"auto", "last"} /\ op[t].at \in {"mark", "unit", "clear"}

OwnInv == \A t \in Saver : HasUnit(t) => ulock[op[t].session] = t

LEMMA InitOwn == Init => OwnInv
BY DEF Init, OwnInv, HasUnit, Idle, Saver

\* A step takes nobody's unit and makes no thread that goes on without one.
LEMMA KeepsUnits ==
  ASSUME OwnInv,
         \A t \in Saver : HasUnit(t)' =>
           \/ HasUnit(t) /\ op'[t].session = op[t].session
                        /\ ulock'[op[t].session] = ulock[op[t].session]
           \/ ulock'[op'[t].session] = t
  PROVE  OwnInv'
BY DEF OwnInv

LEMMA SaveOwn ==
  ASSUME TypeInv, OwnInv, NEW t \in Saver, Save(t)
  PROVE  OwnInv'
<1> DEFINE s == op[t].session
<1>0. /\ op \in [Saver -> Op] /\ s \in Session
      /\ ulock \in [Session -> Thread \cup {None}] /\ t # None
  BY SaverSession, SavingAssumption DEF Save, Mark, Read, Post, Return, Reset, Leave, At, Saver, TypeInv, OpOK, LocksOK
<1> HIDE DEF s
<1>9. ASSUME NEW u \in Saver, HasUnit(u)', u # t, op'[u] = op[u],
             ulock' = ulock \/ (ulock' = [ulock EXCEPT ![s] = t] /\ ulock[s] \in {None, t})
             \/ (ulock' = [ulock EXCEPT ![s] = None] /\ ulock[s] = t)
      PROVE  /\ HasUnit(u) /\ op'[u].session = op[u].session
             /\ ulock'[op[u].session] = ulock[op[u].session]
  <2>1. HasUnit(u)
    BY <1>9 DEF HasUnit
  <2>2. ulock[op[u].session] = u /\ u # None
    BY <2>1, SavingAssumption DEF OwnInv, Saver
  <2>3. op[u].session \in Session
    BY <2>1, SaverSession DEF HasUnit
  <2> QED  BY <1>0, <1>9, <2>1, <2>2, <2>3
<1>1. CASE Mark(t)
  <2>1. op' = [op EXCEPT ![t].at = "unit"] /\ ulock' = ulock /\ op[t].at = "mark"
    BY <1>1 DEF Mark, Goto, locks, At
  <2>2. \A u \in Saver : u # t => op'[u] = op[u]
    BY <1>0, <2>1
  <2>3. op'[t].at = "unit" /\ op'[t].session = s /\ op'[t].why = op[t].why
    BY <1>0, <2>1 DEF s, Op
  <2>4. HasUnit(t)' => HasUnit(t)
    BY <2>1, <2>3 DEF HasUnit
  <2> QED  BY <1>9, <2>1, <2>2, <2>3, <2>4, KeepsUnits DEF s
<1>2. CASE Read(t)
  <2>1. CASE UNCHANGED <<op, ulock>>
    BY <2>1 DEF OwnInv, HasUnit
  <2>2. CASE /\ ulock' = [ulock EXCEPT ![s] = t]
             /\ op' = [op EXCEPT ![t].at = "post", ![t].state = IF s \in emptied THEN 0 ELSE state[s]]
    <3>1. \A u \in Saver : u # t => op'[u] = op[u]
      BY <1>0, <2>2
    <3>2. op'[t].session = s /\ ulock'[s] = t /\ ulock[s] \in {None, t}
      BY <1>0, <1>2, <2>2 DEF s, Op, Read
    <3> QED  BY <1>9, <2>2, <3>1, <3>2, KeepsUnits
  <2>3. CASE UNCHANGED op /\ ulock' = [ulock EXCEPT ![s] = t]
    <3>1. \A u \in Saver : u # t => op'[u] = op[u]
      BY <2>3
    <3>2. op'[t].session = s /\ ulock'[s] = t /\ ulock[s] \in {None, t}
      BY <1>0, <1>2, <2>3 DEF s, Read
    <3> QED  BY <1>9, <2>3, <3>1, <3>2, KeepsUnits
  <2> QED  BY <1>2, <2>1, <2>2, <2>3 DEF Read, s
<1>3. CASE Post(t)
  <2>1. op' = [op EXCEPT ![t].at = "clear", ![t].state = 0] /\ op[t].at = "post"
    BY <1>3 DEF Post, At
  <2>2. ulock[s] = t
    BY <2>1 DEF OwnInv, HasUnit, s
  <2>3. ulock' = IF op[t].why \in {"auto", "last"} THEN ulock ELSE [ulock EXCEPT ![s] = None]
    BY <1>3 DEF Post, s
  <2>4. \A u \in Saver : u # t => op'[u] = op[u]
    BY <1>0, <2>1
  <2>5. op'[t].at = "clear" /\ op'[t].session = s /\ op'[t].why = op[t].why
    BY <1>0, <2>1 DEF s, Op
  <2>6. HasUnit(t)' => ulock'[op'[t].session] = t
    BY <2>2, <2>3, <2>5 DEF HasUnit
  <2> QED  BY <1>9, <2>2, <2>3, <2>4, <2>6, KeepsUnits
<1>4. CASE Return(t)
  <2>1. op' = [op EXCEPT ![t] = Idle] /\ op[t].at = "clear"
    BY <1>4 DEF Return, At
  <2>2. ulock' = IF op[t].why \in {"auto", "last"} THEN [ulock EXCEPT ![s] = None] ELSE ulock
    BY <1>4 DEF Return, s
  <2>3. op[t].why \in {"auto", "last"} => ulock[s] = t
    BY <2>1 DEF OwnInv, HasUnit, s
  <2>4. \A u \in Saver : u # t => op'[u] = op[u]
    BY <1>0, <2>1
  <2>5. ~HasUnit(t)'
    BY <1>0, <2>1 DEF HasUnit, Idle
  <2> QED  BY <1>9, <2>2, <2>3, <2>4, <2>5, KeepsUnits
<1>5. CASE Reset(t) \/ Leave(t)
  <2>1. CASE op' = [op EXCEPT ![t].at = "leave"] /\ op[t].why = "return" /\ ulock' = ulock
    <3>1. \A u \in Saver : u # t => op'[u] = op[u]
      BY <1>0, <2>1
    <3>2. ~HasUnit(t)'
      BY <1>0, <2>1 DEF HasUnit, Op
    <3> QED  BY <1>9, <2>1, <3>1, <3>2, KeepsUnits
  <2>2. CASE op' = [op EXCEPT ![t] = Idle] /\ ulock' = ulock
    <3>1. \A u \in Saver : u # t => op'[u] = op[u]
      BY <1>0, <2>2
    <3>2. ~HasUnit(t)'
      BY <1>0, <2>2 DEF HasUnit, Idle
    <3> QED  BY <1>9, <2>2, <3>1, <3>2, KeepsUnits
  <2> QED  BY <1>5, <2>1, <2>2 DEF Reset, Leave, Goto, locks
<1> QED  BY <1>1, <1>2, <1>3, <1>4, <1>5 DEF Save

LEMMA NextOwn ==
  ASSUME TypeInv, OwnInv, [Next]_vars
  PROVE  OwnInv'
<1>0. op \in [Saver -> Op] /\ ulock \in [Session -> Thread \cup {None}] /\ None \notin Saver
  BY SavingAssumption DEF TypeInv, OpOK, LocksOK, Saver
<1>1. CASE UNCHANGED <<op, ulock>>
  BY <1>1 DEF OwnInv, HasUnit
\* A step of one thread, of a unit nobody had.
<1>2. ASSUME NEW t \in Saver, NEW s \in Session, NEW x, op' = [op EXCEPT ![t] = x],
             \/ x.at \in {"idle", "use", "database", "await"} \/ (x.at = "mark" /\ x.why \notin {"auto", "last"})
             \/ x.session = s /\ ulock' = [ulock EXCEPT ![s] = t],
             ulock' = ulock \/ (ulock[s] = None /\ ulock' = [ulock EXCEPT ![s] = t])
      PROVE  OwnInv'
  <2>1. op'[t] = x /\ \A u \in Saver : u # t => op'[u] = op[u]
    BY <1>0, <1>2
  <2>2. ASSUME NEW u \in Saver, u # t, HasUnit(u)'
        PROVE  /\ HasUnit(u) /\ op'[u].session = op[u].session
               /\ ulock'[op[u].session] = ulock[op[u].session]
    <3>1. HasUnit(u)
      BY <2>1, <2>2 DEF HasUnit
    <3>2. ulock[op[u].session] = u /\ u # None /\ op[u].session \in Session
      BY <1>0, <3>1, SaverSession DEF OwnInv, HasUnit
    <3> QED  BY <1>0, <1>2, <2>1, <2>2, <3>1, <3>2
  <2>3. HasUnit(t)' => ulock'[op'[t].session] = t
    BY <1>0, <1>2, <2>1 DEF HasUnit
  <2> QED  BY <2>2, <2>3, KeepsUnits
<1>3. ASSUME NEW s \in Session, SessionSteps(s)
      PROVE  OwnInv'
  <2>1. CASE Login(s) \/ Play(s) \/ ExitGame(s) \/ Examine(s) \/ Unlist(s) \/ Destroy(s)
    BY <1>1, <2>1 DEF Login, Play, ExitGame, Examine, Unlist, Destroy, locks
  <2>6. CASE RequestLoad(s)
    BY <1>1, <2>6 DEF RequestLoad
  <2>7. CASE BeginCall(s)
    <3> DEFINE x == [at |-> "await", session |-> s, why |-> "load", state |-> 0]
    <3>1. op' = [op EXCEPT !["async"] = x] /\ ulock' = ulock /\ "async" \in Saver
      BY <2>7 DEF BeginCall, locks, Saver, Thread
    <3>2. x.at = "await"
      OBVIOUS
    <3> HIDE DEF x
    <3> QED  BY <1>2, <3>1, <3>2
  <2>8. CASE CallInVain(s) \/ TakeUp(s)
    <3>1. op' = [op EXCEPT !["async"] = Idle] /\ ulock' = ulock /\ "async" \in Saver /\ Idle.at = "idle"
      BY <2>8 DEF CallInVain, TakeUp, EndCall, Saver, Thread, Idle
    <3> QED  BY <1>2, <3>1
  <2>2. CASE QueryNextSave(s)
    BY <1>2, <2>2 DEF QueryNextSave, Starts, Saver, Thread
  <2>3. CASE RequestSave(s)
    <3>1. PICK why \in {"saveme", "return"} : Starts("packet", s, why, "mark")
      BY <2>3 DEF RequestSave
    <3> DEFINE x == [at |-> "mark", session |-> s, why |-> why, state |-> 0]
    <3>2. op' = [op EXCEPT !["packet"] = x] /\ ulock' = ulock /\ "packet" \in Saver
      BY <2>3, <3>1 DEF RequestSave, Starts, Saver, Thread
    <3>3. x.at = "mark" /\ x.why \notin {"auto", "last"}
      OBVIOUS
    <3> HIDE DEF x
    <3> QED  BY <1>2, <3>2, <3>3
  <2>4. CASE RerollSave(s)
    BY <1>2, <2>4 DEF RerollSave, Starts, Saver, Thread
  <2>5. CASE SetName(s)
    BY <1>2, <2>5 DEF SetName, Starts, Saver, Thread
  <2> QED  BY <1>3, <2>1, <2>2, <2>3, <2>4, <2>5, <2>6, <2>7, <2>8 DEF SessionSteps
<1>4. CASE SetNameLocked
  <2>0. "async" \in Saver /\ op["async"].at = "database" /\ op["async"].session \in Session
    BY <1>4, SaverSession DEF SetNameLocked, At, Saver, Thread
  <2>1. CASE op' = [op EXCEPT !["async"].at = "mark"] /\ ulock' = ulock
    <3>1. op' = [op EXCEPT !["async"] = [op["async"] EXCEPT !.at = "mark"]]
      BY <2>1
    <3>2. [op["async"] EXCEPT !.at = "mark"].at = "mark"
      BY <1>0, <2>0 DEF Op
    <3>3. [op["async"] EXCEPT !.at = "mark"].why = op["async"].why
      BY <1>0, <2>0 DEF Op
    <3>4. op["async"].why \notin {"auto", "last"}
      BY <2>0 DEF TypeInv, OpOK
    <3> QED  BY <1>2, <2>0, <2>1, <3>1, <3>2, <3>3, <3>4
  <2>2. CASE op' = [op EXCEPT !["async"] = Idle] /\ ulock' = ulock
    BY <1>2, <2>0, <2>2 DEF Idle
  <2> QED  BY <1>4, <2>1, <2>2 DEF SetNameLocked, Goto
<1>5. CASE BeginDelete
  <2>1. Head(deletionQ) \in Session /\ "deletion" \in Saver /\ ulock' = ulock
    BY <1>5 DEF BeginDelete, TypeInv, EndingOK, locks, Saver, Thread
  <2> DEFINE x == [at |-> "use", session |-> Head(deletionQ), why |-> "last", state |-> 0]
  <2>2. op' = [op EXCEPT !["deletion"] = x]
    BY <1>5 DEF BeginDelete
  <2>3. x.at = "use"
    OBVIOUS
  <2> HIDE DEF x
  <2> QED  BY <1>2, <2>1, <2>2, <2>3
<1>6. CASE LeaveWorld
  <2> DEFINE s == op["deletion"].session
  <2>0. "deletion" \in Saver /\ op["deletion"].at = "use" /\ s \in Session
    BY <1>6, SaverSession DEF LeaveWorld, At, Saver, Thread
  <2>1. CASE op' = [op EXCEPT !["deletion"].at = "mark"] /\ ulock[s] = None
             /\ ulock' = [ulock EXCEPT ![s] = "deletion"]
    <3>1. op' = [op EXCEPT !["deletion"] = [op["deletion"] EXCEPT !.at = "mark"]]
      BY <2>1
    <3>2. [op["deletion"] EXCEPT !.at = "mark"].session = s
      BY <1>0, <2>0 DEF Op
    <3> QED  BY <1>2, <2>0, <2>1, <3>1, <3>2
  <2>2. CASE op' = [op EXCEPT !["deletion"] = Idle] /\ ulock' = ulock
    BY <1>2, <2>0, <2>2 DEF Idle
  <2> QED  BY <1>6, <2>1, <2>2 DEF LeaveWorld, Goto
<1>7. CASE \E t \in Saver : Save(t)
  BY <1>7, SaveOwn
<1>8. CASE Write
  BY <1>1, <1>8 DEF Write, TakeBatch, Timeout, Commit, Rollback, Kick, EndBatch, locks
<1>9. CASE SaveAll \/ BeginWait \/ Exit \/ UNCHANGED vars
  BY <1>1, <1>9 DEF SaveAll, BeginWait, Exit, vars, locks
<1> QED  BY <1>3, <1>4, <1>5, <1>6, <1>7, <1>8, <1>9 DEF Next, Load, SessionSteps, Saver

\* No record of s is beyond n.
AtMost(s, n) ==
  /\ \A i \in 1..Len(queue) : queue[i].session = s => queue[i].state <= n
  /\ batch.at = "run" /\ batch.session = s => batch.state <= n
  /\ \A c \in Character : db[c].by = s => db[c].state <= n

Forward(s) == s \notin stale

\* The records of a session that was never taken back, from its row over the batch
\* and the queue to a save about to be posted and to memory, are in order.
MemoryLast == \A s \in Session : Forward(s) => AtMost(s, state[s])

PostLast ==
  \A t \in Saver : op[t].at = "post" /\ Forward(op[t].session) =>
    op[t].state <= state[op[t].session] /\ AtMost(op[t].session, op[t].state)

QueueInOrder ==
  \A i \in 1..Len(queue) : Forward(queue[i].session) =>
    /\ \A j \in 1..i : queue[j].session = queue[i].session => queue[j].state <= queue[i].state
    /\ batch.at = "run" /\ batch.session = queue[i].session => batch.state <= queue[i].state
    /\ \A c \in Character : db[c].by = queue[i].session => db[c].state <= queue[i].state

RowFirst ==
  batch.at = "run" /\ Forward(batch.session) =>
    \A c \in Character : db[c].by = batch.session => db[c].state <= batch.state

OrderInv == MemoryLast /\ PostLast /\ QueueInOrder /\ RowFirst

OrderTypes ==
  /\ state \in [Session -> Nat] /\ op \in [Saver -> Op]
  /\ \A t \in Saver : op[t].state \in Nat
  /\ queue \in Seq(Batch) /\ batch.state \in Nat
  /\ \A i \in 1..Len(queue) : queue[i] \in Batch /\ queue[i].state \in Nat
  /\ \A c \in Character : db[c].state \in Nat
  /\ \A t \in Saver : op[t].at # "idle" => op[t].session \in Session

LEMMA TypesForOrder == TypeInv => OrderTypes
<1> SUFFICES ASSUME TypeInv PROVE OrderTypes
  OBVIOUS
<1>1. \A i \in 1..Len(queue) : queue[i] \in Batch
  BY DEF TypeInv, WritingOK
<1>2. \A i \in 1..Len(queue) : queue[i].state \in Nat
  BY <1>1, SavingAssumption DEF Batch
<1>3. state \in [Session -> Nat] /\ op \in [Saver -> Op] /\ \A t \in Saver : op[t].state \in Nat
  BY SavingAssumption DEF TypeInv, MemoryOK, OpOK, Op
<1>4. queue \in Seq(Batch) /\ batch.state \in Nat /\ \A c \in Character : db[c].state \in Nat
  BY SavingAssumption DEF TypeInv, WritingOK
<1> QED  BY <1>1, <1>2, <1>3, <1>4 DEF OrderTypes, TypeInv, OpOK

LEMMA InitOrder == Init => OrderInv
BY SavingAssumption DEF Init, OrderInv, MemoryLast, PostLast, QueueInOrder, RowFirst, AtMost, Idle, NoBatch, Saver

LEMMA AtMostMore ==
  ASSUME OrderTypes, NEW s, NEW n \in Nat, NEW m \in Nat, n <= m, AtMost(s, n)
  PROVE  AtMost(s, m)
BY DEF OrderTypes, AtMost

\* A step that writes nothing and reads nothing, or ends a batch; the character of
\* a session that goes forward is left alone.
LEMMA QuietOrder ==
  ASSUME OrderTypes, OrderInv, UNCHANGED <<db, queue>>, stale \subseteq stale',
         \A s \in Session : s \notin stale' => state'[s] = state[s],
         batch' = batch \/ batch'.at # "run",
         \A t \in Saver : op'[t].at = "post" => op'[t] = op[t]
  PROVE  OrderInv'
<1>1. \A s, n : AtMost(s, n) => AtMost(s, n)'
  BY DEF AtMost
<1>2. \A s : Forward(s)' => Forward(s)
  BY DEF Forward
<1>3. MemoryLast'
  <2> SUFFICES ASSUME NEW s \in Session, Forward(s)' PROVE AtMost(s, state[s])'
    BY DEF MemoryLast
  <2>1. AtMost(s, state[s]) /\ state'[s] = state[s]
    BY <1>2 DEF OrderInv, MemoryLast, Forward
  <2> QED  BY <2>1 DEF AtMost
<1>4. PostLast'
  <2> SUFFICES ASSUME NEW t \in Saver, op'[t].at = "post", Forward(op[t].session)'
               PROVE  (op[t].state <= state[op[t].session] /\ AtMost(op[t].session, op[t].state))'
    BY DEF PostLast
  <2>1. op'[t] = op[t] /\ op[t].at = "post" /\ Forward(op[t].session)
    BY <1>2
  <2>2. op[t].state <= state[op[t].session] /\ AtMost(op[t].session, op[t].state)
    BY <2>1 DEF OrderInv, PostLast
  <2>3. op[t].session \in Session /\ state'[op[t].session] = state[op[t].session]
    BY <2>1 DEF OrderTypes, Forward
  <2> QED  BY <2>1, <2>2, <2>3 DEF AtMost
<1>5. QueueInOrder'
  BY <1>2 DEF OrderInv, QueueInOrder
<1>6. RowFirst'
  BY <1>2 DEF OrderInv, RowFirst
<1> QED  BY <1>3, <1>4, <1>5, <1>6 DEF OrderInv

LEMMA PlayOrder ==
  ASSUME OrderTypes, OrderInv, NEW s \in Session, Play(s)
  PROVE  OrderInv'
<1>1. UNCHANGED <<db, queue, batch, op, stale>> /\ state' = [state EXCEPT ![s] = @ + 1]
  BY DEF Play, writing, ghosts
<1>2. \A z, n : AtMost(z, n)' <=> AtMost(z, n)
  BY <1>1 DEF AtMost
<1>3. \A z \in Session : state'[z] \in Nat /\ state[z] \in Nat /\ state[z] <= state'[z]
  BY <1>1 DEF OrderTypes
<1>4. MemoryLast'
  <2> SUFFICES ASSUME NEW z \in Session, Forward(z)' PROVE AtMost(z, state[z])'
    BY DEF MemoryLast
  <2>1. AtMost(z, state[z])
    BY <1>1 DEF OrderInv, MemoryLast, Forward
  <2>2. AtMost(z, state'[z])
    BY <1>3, <2>1, AtMostMore
  <2> QED  BY <1>1, <2>2 DEF AtMost
<1>5. PostLast'
  <2> SUFFICES ASSUME NEW t \in Saver, op'[t].at = "post", Forward(op[t].session)'
               PROVE  (op[t].state <= state[op[t].session] /\ AtMost(op[t].session, op[t].state))'
    BY DEF PostLast
  <2>1. op[t].state <= state[op[t].session] /\ AtMost(op[t].session, op[t].state)
    BY <1>1 DEF OrderInv, PostLast, Forward
  <2>2. op[t].session \in Session /\ op[t].state \in Nat
    BY <1>1 DEF OrderTypes
  <2>3. op[t].state <= state'[op[t].session]
    BY <1>3, <2>1, <2>2
  <2>4. AtMost(op[t].session, op[t].state)'
    BY <1>1, <2>1 DEF AtMost
  <2> QED  BY <1>1, <2>3, <2>4
<1>6. QueueInOrder' /\ RowFirst'
  BY <1>1 DEF OrderInv, QueueInOrder, RowFirst, Forward
<1> QED  BY <1>4, <1>5, <1>6 DEF OrderInv

LEMMA ReadOrder ==
  ASSUME OrderTypes, OrderInv, NEW t \in Saver, Read(t)
  PROVE  OrderInv'
<1> DEFINE s == op[t].session
<1>1. UNCHANGED <<state, db, queue, batch>> /\ s \in Session
  BY DEF Read, memory, writing, At, OrderTypes
<1>2. CASE UNCHANGED <<op, stale>>
  BY <1>1, <1>2, QuietOrder
<1>3. CASE /\ op' = [op EXCEPT ![t].at = "post", ![t].state = IF s \in emptied THEN 0 ELSE state[s]]
           /\ stale' = IF s \in emptied THEN stale \cup {s} ELSE stale
  <2>1. \A z, n : AtMost(z, n)' <=> AtMost(z, n)
    BY <1>1 DEF AtMost
  <2>2. \A z : Forward(z)' => Forward(z) /\ (z = s => s \notin emptied)
    BY <1>3 DEF Forward
  <2>3. op'[t].session = s /\ (s \notin emptied => op'[t].state = state[s])
    BY <1>3 DEF OrderTypes, Op
  <2>4. PostLast'
    <3> SUFFICES ASSUME NEW u \in Saver, op'[u].at = "post", Forward(op[u].session)'
                 PROVE  (op[u].state <= state[op[u].session] /\ AtMost(op[u].session, op[u].state))'
      BY DEF PostLast
    <3>1. CASE u = t
      <4>1. op'[t].state = state[s] /\ Forward(s)
        BY <2>2, <2>3, <3>1
      <4>2. AtMost(s, state[s])
        BY <1>1, <4>1 DEF OrderInv, MemoryLast
      <4>3. state[s] \in Nat
        BY <1>1 DEF OrderTypes
      <4>4. AtMost(op[t].session, op[t].state)'
        BY <1>1, <2>3, <4>1, <4>2 DEF AtMost
      <4> QED  BY <1>1, <2>3, <3>1, <4>1, <4>3, <4>4
    <3>2. CASE u # t
      <4>1. op'[u] = op[u]
        BY <1>3, <3>2 DEF OrderTypes
      <4>2. op[u].state <= state[op[u].session] /\ AtMost(op[u].session, op[u].state)
        BY <2>2, <4>1 DEF OrderInv, PostLast
      <4>3. AtMost(op[u].session, op[u].state)'
        BY <1>1, <4>1, <4>2 DEF AtMost
      <4> QED  BY <1>1, <4>1, <4>2, <4>3
    <3> QED  BY <3>1, <3>2
  <2>5. MemoryLast'
    <3> SUFFICES ASSUME NEW z \in Session, Forward(z)' PROVE AtMost(z, state[z])'
      BY DEF MemoryLast
    <3>1. AtMost(z, state[z])
      BY <2>2 DEF OrderInv, MemoryLast
    <3> QED  BY <1>1, <3>1 DEF AtMost
  <2>6. QueueInOrder' /\ RowFirst'
    BY <1>1, <2>2 DEF OrderInv, QueueInOrder, RowFirst
  <2> QED  BY <2>4, <2>5, <2>6 DEF OrderInv
<1> QED  BY <1>2, <1>3 DEF Read

LEMMA PostOrder ==
  ASSUME OrderTypes, OwnInv, OrderInv, NEW t \in Saver, Post(t)
  PROVE  OrderInv'
<1> DEFINE s == op[t].session
           n == op[t].state
           new == [session |-> s, state |-> n, reports |-> Reports(t)]
<1>1. /\ queue' = Append(queue, new) /\ op[t].at = "post"
      /\ UNCHANGED <<state, db, batch, stale>>
  BY DEF Post, At, memory, ghosts
<1>2. op' = [op EXCEPT ![t].at = "clear", ![t].state = 0]
  BY DEF Post
<1>3. /\ s \in Session /\ n \in Nat /\ ulock[s] = t
      /\ Forward(s) => n <= state[s] /\ AtMost(s, n)
  BY <1>1 DEF OrderTypes, OrderInv, PostLast, OwnInv, HasUnit
<1>4. new.session = s /\ new.state = n
  OBVIOUS
<1> HIDE DEF new, s, n
<1>5. /\ Len(queue') = Len(queue) + 1 /\ queue'[Len(queue) + 1] = new
      /\ \A i \in 1..Len(queue) : queue'[i] = queue[i]
      /\ Len(queue) \in Nat
  BY <1>1 DEF OrderTypes
<1>6. \A i \in 1..Len(queue') : i \in 1..Len(queue) \/ i = Len(queue) + 1
  BY <1>5
<1>7. ASSUME NEW z, NEW m, AtMost(z, m), z = s => n <= m
      PROVE  AtMost(z, m)'
  BY <1>1, <1>4, <1>5, <1>6, <1>7 DEF AtMost
<1>8. MemoryLast'
  <2> SUFFICES ASSUME NEW z \in Session, Forward(z)' PROVE AtMost(z, state[z])'
    BY DEF MemoryLast
  <2>1. AtMost(z, state[z]) /\ (z = s => n <= state[z])
    BY <1>1, <1>3 DEF OrderInv, MemoryLast, Forward
  <2>2. \A m : AtMost(z, m) /\ (z = s => n <= m) => AtMost(z, m)'
    BY <1>7
  <2> QED  BY <1>1, <2>1, <1>4, <1>5, <1>6 DEF AtMost
<1>9. PostLast'
  <2> SUFFICES ASSUME NEW u \in Saver, op'[u].at = "post", Forward(op[u].session)'
               PROVE  (op[u].state <= state[op[u].session] /\ AtMost(op[u].session, op[u].state))'
    BY DEF PostLast
  <2>1. op'[t].at = "clear"
    BY <1>2 DEF OrderTypes, Op
  <2>2. u # t /\ op'[u] = op[u]
    BY <1>2, <2>1 DEF OrderTypes
  <2>3. op[u].state <= state[op[u].session] /\ AtMost(op[u].session, op[u].state)
    BY <1>1, <2>2 DEF OrderInv, PostLast, Forward
  <2>4. ulock[op[u].session] = u
    BY <2>2 DEF OwnInv, HasUnit
  <2>5. op[u].session # s
    BY <1>3, <2>2, <2>4
  <2>6. AtMost(op[u].session, op[u].state)'
    BY <1>1, <1>4, <1>5, <1>6, <2>2, <2>3, <2>5 DEF AtMost
  <2> QED  BY <1>1, <2>2, <2>3, <2>6
<1>10. QueueInOrder'
  <2> SUFFICES ASSUME NEW i \in 1..Len(queue'), Forward(queue[i].session)'
               PROVE  (/\ \A j \in 1..i : queue[j].session = queue[i].session => queue[j].state <= queue[i].state
                       /\ batch.at = "run" /\ batch.session = queue[i].session => batch.state <= queue[i].state
                       /\ \A c \in Character : db[c].by = queue[i].session => db[c].state <= queue[i].state)'
    BY DEF QueueInOrder
  <2>1. CASE i \in 1..Len(queue)
    <3>1. \A j \in 1..i : j \in 1..Len(queue)
      BY <1>5, <2>1
    <3> QED  BY <1>1, <1>5, <2>1, <3>1 DEF OrderInv, QueueInOrder, Forward
  <2>2. CASE i = Len(queue) + 1
    <3>1. \A j \in 1..i : j \in 1..Len(queue) \/ j = i
      BY <1>5, <2>2
    <3> QED  BY <1>1, <1>3, <1>4, <1>5, <2>2, <3>1 DEF AtMost, Forward
  <2> QED  BY <1>6, <2>1, <2>2
<1>11. RowFirst'
  BY <1>1 DEF OrderInv, RowFirst, Forward
<1> QED  BY <1>8, <1>9, <1>10, <1>11 DEF OrderInv

LEMMA TakeOrder ==
  ASSUME OrderTypes, OrderInv, TakeBatch
  PROVE  OrderInv'
<1> DEFINE b == Head(queue)
<1>1. /\ queue # <<>> /\ queue' = Tail(queue) /\ UNCHANGED <<state, db, op, stale>>
      /\ batch'.session = b.session /\ batch'.state = b.state
  BY DEF TakeBatch, memory, ghosts
<1>2. /\ Len(queue) \in Nat \ {0} /\ Len(queue') = Len(queue) - 1 /\ b = queue[1]
      /\ \A i \in 1..Len(queue') : queue'[i] = queue[i + 1] /\ i + 1 \in 1..Len(queue)
  BY <1>1 DEF OrderTypes
<1> HIDE DEF b
<1>3. 1 \in 1..Len(queue)
  BY <1>2
<1>4. ASSUME NEW z, NEW m, AtMost(z, m)
      PROVE  /\ \A i \in 1..Len(queue') : queue'[i].session = z => queue'[i].state <= m
             /\ batch'.at = "run" /\ batch'.session = z => batch'.state <= m
             /\ \A c \in Character : db'[c].by = z => db'[c].state <= m
  BY <1>1, <1>2, <1>3, <1>4 DEF AtMost
<1>5. MemoryLast'
  <2> SUFFICES ASSUME NEW z \in Session, Forward(z)' PROVE AtMost(z, state[z])'
    BY DEF MemoryLast
  <2>1. AtMost(z, state[z])
    BY <1>1 DEF OrderInv, MemoryLast, Forward
  <2>2. /\ \A i \in 1..Len(queue') : queue'[i].session = z => queue'[i].state <= state[z]
        /\ batch'.at = "run" /\ batch'.session = z => batch'.state <= state[z]
        /\ \A c \in Character : db'[c].by = z => db'[c].state <= state[z]
    BY <1>4, <2>1
  <2> QED  BY <1>1, <2>2 DEF AtMost
<1>6. PostLast'
  <2> SUFFICES ASSUME NEW u \in Saver, op'[u].at = "post", Forward(op[u].session)'
               PROVE  (op[u].state <= state[op[u].session] /\ AtMost(op[u].session, op[u].state))'
    BY DEF PostLast
  <2>1. op[u].state <= state[op[u].session] /\ AtMost(op[u].session, op[u].state)
    BY <1>1 DEF OrderInv, PostLast, Forward
  <2>2. /\ \A i \in 1..Len(queue') : queue'[i].session = op[u].session => queue'[i].state <= op[u].state
        /\ batch'.at = "run" /\ batch'.session = op[u].session => batch'.state <= op[u].state
        /\ \A c \in Character : db'[c].by = op[u].session => db'[c].state <= op[u].state
    BY <1>4, <2>1
  <2>3. AtMost(op[u].session, op[u].state)'
    BY <1>1, <2>2 DEF AtMost
  <2> QED  BY <1>1, <2>1, <2>3
<1>7. QueueInOrder'
  <2> SUFFICES ASSUME NEW i \in 1..Len(queue'), Forward(queue[i].session)'
               PROVE  (/\ \A j \in 1..i : queue[j].session = queue[i].session => queue[j].state <= queue[i].state
                       /\ batch.at = "run" /\ batch.session = queue[i].session => batch.state <= queue[i].state
                       /\ \A c \in Character : db[c].by = queue[i].session => db[c].state <= queue[i].state)'
    BY DEF QueueInOrder
  <2>1. i + 1 \in 1..Len(queue) /\ queue'[i] = queue[i + 1] /\ 1 \in 1..(i + 1)
    BY <1>2
  <2>2. \A j \in 1..i : j \in 1..Len(queue') /\ j + 1 \in 1..(i + 1) /\ queue'[j] = queue[j + 1]
    BY <1>2
  <2> QED  BY <1>1, <1>2, <2>1, <2>2 DEF OrderInv, QueueInOrder, Forward
<1>8. RowFirst'
  BY <1>1, <1>2, <1>3 DEF OrderInv, QueueInOrder, RowFirst, Forward
<1> QED  BY <1>5, <1>6, <1>7, <1>8 DEF OrderInv

LEMMA CommitOrder ==
  ASSUME TypeInv, OrderInv, NEW s \in Session, Commit(s)
  PROVE  /\ OrderInv'
         /\ \A c \in Character : db'[c].by = db[c].by => db'[c].state >= db[c].state \/ db[c].by \in stale
<1>0. OrderTypes /\ CharOf[s] \in Character
      /\ db \in [Character -> [by : Session \cup {None}, state : 0..MaxState]]
  BY TypesForOrder, SavingAssumption DEF TypeInv, WritingOK
<1>1. /\ batch.at = "run" /\ batch.session = s
      /\ db' = [db EXCEPT ![CharOf[s]] = [by |-> s, state |-> batch.state]]
      /\ UNCHANGED <<state, queue, op, stale>>
  BY DEF Commit, EndBatch, memory
<1>2. \/ batch' = batch
      \/ batch'.at # "run"
  <2>1. \/ batch' = batch \/ batch' = [batch EXCEPT !.at = "kick"] \/ batch' = NoBatch
    BY DEF Commit, EndBatch, DataSaveCallback, BatchDone
  <2>2. [batch EXCEPT !.at = "kick"].at = "kick"
    BY DEF TypeInv, WritingOK
  <2>3. NoBatch.at = "idle"
    BY DEF NoBatch
  <2>4. CASE batch' = [batch EXCEPT !.at = "kick"]
    BY <2>2, <2>4
  <2>5. CASE batch' = NoBatch
    BY <2>3, <2>5
  <2> QED  BY <2>1, <2>4, <2>5
<1>3. \A c \in Character :
        \/ db'[c] = db[c]
        \/ db'[c].by = s /\ db'[c].state = batch.state
  <2> DEFINE row == [by |-> s, state |-> batch.state]
  <2>1. row.by = s /\ row.state = batch.state
    OBVIOUS
  <2>2. db' = [db EXCEPT ![CharOf[s]] = row]
    BY <1>1
  <2> HIDE DEF row
  <2> SUFFICES ASSUME NEW c \in Character, db'[c] # db[c]
               PROVE  db'[c].by = s /\ db'[c].state = batch.state
    OBVIOUS
  <2>3. db'[c] = row
    BY <1>0, <2>2
  <2> QED  BY <2>1, <2>3
<1>4. MemoryLast'
  BY <1>1, <1>2, <1>3 DEF OrderInv, MemoryLast, AtMost, Forward
<1>5. PostLast'
  BY <1>1, <1>2, <1>3 DEF OrderInv, PostLast, AtMost, Forward
<1>6. QueueInOrder'
  <2> SUFFICES ASSUME NEW i \in 1..Len(queue'), Forward(queue[i].session)'
               PROVE  (/\ \A j \in 1..i : queue[j].session = queue[i].session => queue[j].state <= queue[i].state
                       /\ batch.at = "run" /\ batch.session = queue[i].session => batch.state <= queue[i].state
                       /\ \A c \in Character : db[c].by = queue[i].session => db[c].state <= queue[i].state)'
    BY DEF QueueInOrder
  <2> QED  BY <1>1, <1>2, <1>3 DEF OrderInv, QueueInOrder, Forward
<1>7. RowFirst'
  <2> SUFFICES ASSUME batch'.at = "run", Forward(batch.session)', NEW c \in Character, db'[c].by = batch'.session
               PROVE  db'[c].state <= batch'.state
    BY DEF RowFirst
  <2>1. batch' = batch /\ batch.state \in Nat
    BY <1>0, <1>2 DEF OrderTypes
  <2> QED  BY <1>1, <1>3, <2>1 DEF OrderInv, RowFirst, Forward
<1>8. ASSUME NEW c \in Character, db'[c].by = db[c].by
      PROVE  db'[c].state >= db[c].state \/ db[c].by \in stale
  <2>1. db[c].state \in Nat /\ batch.state \in Nat
    BY <1>0 DEF OrderTypes
  <2> QED  BY <1>1, <1>3, <1>8, <2>1 DEF OrderInv, RowFirst, Forward
<1> QED  BY <1>4, <1>5, <1>6, <1>7, <1>8 DEF OrderInv

LEMMA NextOrder ==
  ASSUME TypeInv, OwnInv, OrderInv, [Next]_vars
  PROVE  /\ OrderInv'
         /\ \A c \in Character : db'[c].by = db[c].by => db'[c].state >= db[c].state \/ db[c].by \in stale
<1>0. OrderTypes /\ \A c \in Character : db[c].state >= db[c].state
  BY TypesForOrder DEF OrderTypes
<1>1. ASSUME NEW s \in Session, NEW t \in Saver, NEW why, NEW p \in {"mark", "database"}, Starts(t, s, why, p)
      PROVE  OrderInv' /\ db' = db
  <2> DEFINE x == [at |-> p, session |-> s, why |-> why, state |-> 0]
  <2>1. op' = [op EXCEPT ![t] = x] /\ UNCHANGED <<state, db, queue, batch, stale>>
    BY <1>1 DEF Starts, writing, ghosts
  <2>2. x.at # "post"
    OBVIOUS
  <2> HIDE DEF x
  <2>3. \A u \in Saver : op'[u].at = "post" => op'[u] = op[u]
    BY <1>0, <2>1, <2>2 DEF OrderTypes
  <2> QED  BY <1>0, <2>1, <2>3, QuietOrder
<1>2. ASSUME NEW s \in Session, SessionSteps(s)
      PROVE  OrderInv' /\ db' = db
  <2>1. CASE Play(s)
    BY <1>0, <2>1, PlayOrder DEF Play, writing
  <2>2. CASE Login(s) \/ ExitGame(s) \/ Examine(s) \/ Unlist(s) \/ Destroy(s)
    <3>1. UNCHANGED <<state, db, queue, batch, op, stale>>
      BY <2>2 DEF Login, ExitGame, Examine, Unlist, Destroy, writing, ghosts
    <3> QED  BY <1>0, <3>1, QuietOrder
  <2>3. CASE QueryNextSave(s) \/ RequestSave(s) \/ RerollSave(s) \/ SetName(s)
    BY <1>1, <2>3 DEF QueryNextSave, RequestSave, RerollSave, SetName, Saver, Thread
  <2>4. CASE RequestLoad(s)
    <3>1. UNCHANGED <<state, db, queue, batch, op, stale>>
      BY <2>4 DEF RequestLoad, memory, writing, ghosts
    <3> QED  BY <1>0, <3>1, QuietOrder
  <2>5. CASE BeginCall(s)
    <3> DEFINE x == [at |-> "await", session |-> s, why |-> "load", state |-> 0]
    <3>1. op' = [op EXCEPT !["async"] = x] /\ UNCHANGED <<state, db, queue, batch, stale>>
      BY <2>5 DEF BeginCall, memory, writing, ghosts
    <3>2. x.at # "post"
      OBVIOUS
    <3> HIDE DEF x
    <3>3. \A u \in Saver : op'[u].at = "post" => op'[u] = op[u]
      BY <1>0, <3>1, <3>2 DEF OrderTypes
    <3> QED  BY <1>0, <3>1, <3>3, QuietOrder
  <2>6. CASE CallInVain(s) \/ TakeUp(s)
    <3>1. op' = [op EXCEPT !["async"] = Idle] /\ UNCHANGED <<db, queue, batch>>
      BY <2>6 DEF CallInVain, TakeUp, EndCall, writing
    <3>2. \A u \in Saver : op'[u].at = "post" => op'[u] = op[u]
      BY <1>0, <3>1 DEF OrderTypes, Idle
    <3>3. stale \subseteq stale' /\ \A z \in Session : z \notin stale' => state'[z] = state[z]
      BY <1>0, <2>6 DEF CallInVain, TakeUp, OrderTypes
    <3> QED  BY <1>0, <3>1, <3>2, <3>3, QuietOrder
  <2> QED  BY <1>2, <2>1, <2>2, <2>3, <2>4, <2>5, <2>6 DEF SessionSteps
\* A thread that is not reading.
<1>3. ASSUME NEW t \in Saver, op'[t].at # "post", \A u \in Saver : u # t => op'[u] = op[u],
             UNCHANGED <<state, db, queue, batch, stale>>
      PROVE  OrderInv' /\ db' = db
  BY <1>0, <1>3, QuietOrder
<1>4. CASE SetNameLocked
  <2>1. \/ op' = [op EXCEPT !["async"].at = "mark"]
        \/ op' = [op EXCEPT !["async"] = Idle]
    BY <1>4 DEF SetNameLocked, Goto
  <2>2. UNCHANGED <<state, db, queue, batch, stale>> /\ "async" \in Saver
    BY <1>4 DEF SetNameLocked, memory, writing, ghosts, Saver, Thread
  <2>3. op'["async"].at # "post" /\ \A u \in Saver : u # "async" => op'[u] = op[u]
    BY <1>0, <2>1, <2>2 DEF OrderTypes, Op, Idle
  <2> QED  BY <1>0, <1>3, <2>2, <2>3
<1>5. CASE BeginDelete
  <2>1. op' = [op EXCEPT !["deletion"] = [at |-> "use", session |-> Head(deletionQ), why |-> "last", state |-> 0]]
    BY <1>5 DEF BeginDelete
  <2>2. UNCHANGED <<state, db, queue, batch, stale>> /\ "deletion" \in Saver
    BY <1>5 DEF BeginDelete, memory, writing, ghosts, Saver, Thread
  <2>3. op'["deletion"].at # "post" /\ \A u \in Saver : u # "deletion" => op'[u] = op[u]
    BY <1>0, <2>1, <2>2 DEF OrderTypes, Op, Idle
  <2> QED  BY <1>0, <1>3, <2>2, <2>3
<1>6. CASE LeaveWorld
  <2>1. \/ op' = [op EXCEPT !["deletion"].at = "mark"]
        \/ op' = [op EXCEPT !["deletion"] = Idle]
    BY <1>6 DEF LeaveWorld, Goto
  <2>2. UNCHANGED <<state, db, queue, batch, stale>> /\ "deletion" \in Saver
    BY <1>6 DEF LeaveWorld, writing, ghosts, Saver, Thread
  <2>3. op'["deletion"].at # "post" /\ \A u \in Saver : u # "deletion" => op'[u] = op[u]
    BY <1>0, <2>1, <2>2 DEF OrderTypes, Op, Idle
  <2> QED  BY <1>0, <1>3, <2>2, <2>3
<1>7. ASSUME NEW t \in Saver, Save(t)
      PROVE  OrderInv' /\ db' = db
  <2>1. CASE Mark(t)
    <3>1. op' = [op EXCEPT ![t].at = "unit"] /\ UNCHANGED <<state, db, queue, batch, stale>>
      BY <2>1 DEF Mark, Goto, memory, writing, ghosts
    <3>2. op'[t].at # "post" /\ \A u \in Saver : u # t => op'[u] = op[u]
      BY <1>0, <3>1 DEF OrderTypes, Op
    <3> QED  BY <1>3, <3>1, <3>2
  <2>2. CASE Read(t)
    BY <1>0, <2>2, ReadOrder DEF Read, writing
  <2>3. CASE Post(t)
    BY <1>0, <2>3, PostOrder DEF Post
  <2>4. CASE Return(t)
    <3>1. op' = [op EXCEPT ![t] = Idle] /\ UNCHANGED <<state, db, queue, batch, stale>>
      BY <2>4 DEF Return, writing, ghosts
    <3>2. op'[t].at # "post" /\ \A u \in Saver : u # t => op'[u] = op[u]
      BY <1>0, <3>1 DEF OrderTypes, Idle
    <3> QED  BY <1>3, <3>1, <3>2
  <2>5. CASE Reset(t) \/ Leave(t)
    <3>1. \/ op' = [op EXCEPT ![t].at = "leave"]
          \/ op' = [op EXCEPT ![t] = Idle]
      BY <2>5 DEF Reset, Leave, Goto
    <3>2. UNCHANGED <<state, db, queue, batch, stale>>
      BY <2>5 DEF Reset, Leave, writing, ghosts
    <3>3. op'[t].at # "post" /\ \A u \in Saver : u # t => op'[u] = op[u]
      BY <1>0, <3>1 DEF OrderTypes, Op, Idle
    <3> QED  BY <1>3, <3>2, <3>3
  <2> QED  BY <1>7, <2>1, <2>2, <2>3, <2>4, <2>5 DEF Save
<1>8. CASE TakeBatch
  BY <1>0, <1>8, TakeOrder DEF TakeBatch
<1>9. CASE Timeout
  <2>1. [NoBatch EXCEPT !.at = "stopped"].at = "stopped"
    BY DEF NoBatch
  <2>2. batch' = batch \/ batch'.at # "run"
    BY <1>9, <2>1 DEF Timeout
  <2> QED  BY <1>0, <1>9, <2>2, QuietOrder DEF Timeout, memory, ghosts
<1>10. ASSUME NEW s \in Session, Rollback(s) \/ Kick(s)
       PROVE  OrderInv' /\ db' = db
  <2>1. \/ batch' = batch \/ batch' = [batch EXCEPT !.at = "kick"] \/ batch' = NoBatch
    BY <1>10 DEF Rollback, Kick, EndBatch, DataSaveCallback, BatchDone
  <2>2. [batch EXCEPT !.at = "kick"].at = "kick" /\ NoBatch.at = "idle"
    BY DEF TypeInv, WritingOK, NoBatch
  <2>3. batch' = batch \/ batch'.at # "run"
    BY <2>1, <2>2
  <2>4. UNCHANGED <<state, db, queue, op, stale>>
    BY <1>10 DEF Rollback, Kick, EndBatch, memory, ghosts
  <2> QED  BY <1>0, <2>3, <2>4, QuietOrder
<1>11. CASE Write
  BY <1>0, <1>8, <1>9, <1>10, <1>11, CommitOrder DEF Write, Timeout, TakeBatch
<1>12. CASE SaveAll \/ BeginWait \/ Exit \/ UNCHANGED vars
  <2>1. UNCHANGED <<state, db, queue, batch, op, stale>>
    BY <1>12 DEF SaveAll, BeginWait, Exit, vars, memory, writing, ghosts
  <2> QED  BY <1>0, <2>1, QuietOrder
<1> QED  BY <1>0, <1>2, <1>4, <1>5, <1>6, <1>7, <1>11, <1>12 DEF Next, Load, SessionSteps, Saver

\* The row of a character never goes back to an earlier state of the session it is
\* from, however many threads save it at once: the unit's lock is kept from the
\* reading of the character until its batch is in the queue.
THEOREM RowsGoForward == Spec => SavedInOrder
<1>1. Init => TypeInv /\ OwnInv /\ OrderInv
  BY InitTypes, InitOwn, InitOrder
<1>2. TypeInv /\ OwnInv /\ OrderInv /\ [Next]_vars => (TypeInv /\ OwnInv /\ OrderInv)'
  BY NextTypes, NextOwn, NextOrder
<1>3. TypeInv /\ OwnInv /\ OrderInv /\ [Next]_vars =>
        [\A c \in Character :
           db'[c].by = db[c].by => db'[c].state >= db[c].state \/ db[c].by \in stale]_vars
  BY NextOrder
<1> QED  BY <1>1, <1>2, <1>3, PTL DEF Spec, SavedInOrder

-----------------------------------------------------------------------------
(* The end of the server.                                                   *)

Running == IF batch.at \in {"run", "kick"} THEN 1 ELSE 0

\* Batches that are still due are in the queue or with the write thread, which
\* stops only when none is.
DueInv ==
  /\ batch.at = "stopped" => due = 0 /\ down \notin {"up", "flagged"}
  /\ down \in {"waiting", "exited"} => due <= Len(queue) + Running

LEMMA InitDue == Init => DueInv
BY DEF Init, DueInv, NoBatch

LEMMA WriteDue ==
  ASSUME TypeInv, DueInv, Write
  PROVE  DueInv'
<1>0. /\ due \in Nat /\ queue \in Seq(Batch) /\ down \in {"up", "flagged", "waiting", "exited"}
      /\ batch.at \in {"idle", "run", "kick", "stopped"} /\ Len(queue) \in Nat
  BY DEF TypeInv, EndingOK, WritingOK
<1>1. CASE TakeBatch
  <2>1. /\ batch'.at = "run" /\ batch.at = "idle" /\ Len(queue') = Len(queue) - 1
        /\ UNCHANGED <<due, down>> /\ down # "exited"
    BY <1>0, <1>1 DEF TakeBatch, ending, Alive
  <2> QED  BY <1>0, <2>1 DEF DueInv, Running
<1>2. CASE Timeout
  <2>1. /\ batch.at = "idle" /\ Len(queue) = 0 /\ down = "waiting" /\ due = 0
        /\ UNCHANGED <<due, down, queue>>
    BY <1>0, <1>2 DEF Timeout, ending, DueInv, Running
  <2> QED  BY <1>0, <2>1 DEF DueInv, Running
<1>3. ASSUME NEW s \in Session, Commit(s) \/ Rollback(s) \/ Kick(s)
      PROVE  DueInv'
  <2>1. /\ batch.at \in {"run", "kick"} /\ UNCHANGED <<queue, down>> /\ down # "exited"
    BY <1>3 DEF Commit, Rollback, Kick, EndBatch, Alive
  <2>2. \/ UNCHANGED <<batch, due>>
        \/ batch' = [batch EXCEPT !.at = "kick"] /\ UNCHANGED due
        \/ batch' = NoBatch /\ due' = Decrement(due)
    BY <1>3 DEF Commit, Rollback, Kick, EndBatch, DataSaveCallback, BatchDone
  <2>3. [batch EXCEPT !.at = "kick"].at = "kick" /\ NoBatch.at = "idle"
    BY DEF TypeInv, WritingOK, NoBatch
  <2>4. \/ batch'.at \in {"run", "kick"} /\ due' = due
        \/ batch'.at = "idle" /\ due' = IF due = 0 THEN 0 ELSE due - 1
    BY <2>1, <2>2, <2>3 DEF Decrement
  <2> QED  BY <1>0, <2>1, <2>4 DEF DueInv, Running
<1> QED  BY <1>1, <1>2, <1>3 DEF Write

LEMMA NextDue ==
  ASSUME TypeInv, DueInv, [Next]_vars
  PROVE  DueInv'
<1>0. due \in Nat /\ queue \in Seq(Batch) /\ Len(queue) \in Nat
  BY DEF TypeInv, EndingOK, WritingOK
<1>1. CASE UNCHANGED <<due, queue, batch, down>>
  BY <1>1 DEF DueInv, Running
<1>2. ASSUME NEW s \in Session, SessionSteps(s)
      PROVE  DueInv'
  <2>1. UNCHANGED <<due, queue, batch, down>>
    BY <1>2 DEF SessionSteps, Login, Play, ExitGame, QueryNextSave, RequestSave, RerollSave, SetName,
                Starts, RequestLoad, BeginCall, CallInVain, TakeUp, EndCall, Examine, Unlist, Destroy, writing, ending
  <2> QED  BY <1>1, <2>1
<1>3. CASE SetNameLocked \/ BeginDelete \/ LeaveWorld
  BY <1>1, <1>3 DEF SetNameLocked, BeginDelete, LeaveWorld, writing, ghosts, ending
<1>4. ASSUME NEW t \in Saver, Save(t)
      PROVE  DueInv'
  <2>1. CASE Post(t)
    <3> DEFINE new == [session |-> op[t].session, state |-> op[t].state, reports |-> Reports(t)]
    <3>1. queue' = Append(queue, new) /\ UNCHANGED <<due, batch, down>>
      BY <2>1 DEF Post, ending
    <3> HIDE DEF new
    <3>2. Len(queue') = Len(queue) + 1
      BY <1>0, <3>1
    <3> QED  BY <1>0, <3>1, <3>2 DEF DueInv, Running
  <2>2. CASE Mark(t) \/ Read(t) \/ Return(t) \/ Reset(t) \/ Leave(t)
    BY <1>1, <2>2 DEF Mark, Read, Return, Reset, Leave, writing, ending
  <2> QED  BY <1>4, <2>1, <2>2 DEF Save
<1>5. CASE Write
  BY <1>5, WriteDue
<1>6. CASE SaveAll
  BY <1>6 DEF SaveAll, DueInv, Running, Serving, writing
<1>7. CASE BeginWait
  BY <1>0, <1>7 DEF BeginWait, DueInv, Running, writing, TypeInv, WritingOK
<1>8. CASE Exit
  BY <1>8 DEF Exit, DueInv, Running, writing
<1>9. CASE UNCHANGED vars
  BY <1>1, <1>9 DEF vars, writing, ending
<1> QED  BY <1>2, <1>3, <1>4, <1>5, <1>6, <1>7, <1>8, <1>9 DEF Next, Load, SessionSteps, Saver

\* The write thread ends, on an empty queue, only after every batch that was posted
\* before the shutdown waited for it.
THEOREM WriterSendsAll == Spec => []StopsAfterSending
<1>1. Init => TypeInv /\ DueInv
  BY InitTypes, InitDue
<1>2. TypeInv /\ DueInv /\ [Next]_vars => (TypeInv /\ DueInv)'
  BY NextTypes, NextDue
<1>3. DueInv => StopsAfterSending
  BY DEF DueInv, StopsAfterSending
<1> QED  BY <1>1, <1>2, <1>3, PTL DEF Spec
=============================================================================
