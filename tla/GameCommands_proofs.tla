----------------------- MODULE GameCommands_proofs -----------------------
(***************************************************************************)
(* Proofs of the safety properties of GameCommands, for every set of       *)
(* executions and every value of the bounds.                               *)
(***************************************************************************)
EXTENDS GameCommands, FunctionTheorems, FiniteSetTheorems, TLAPS

---------------------------------------------------------------------------
(* Operators *)

(* Whatever an intent does, the state it produces is well formed, adds     *)
(* exactly its own effect, never goes back a turn and never reopens a      *)
(* finished game (the updater passed to GameStateService.update).          *)
LEMMA OutcomeFacts ==
    ASSUME NEW s \in GameState, NEW k \in Kinds, NEW p \in Procs,
           NEW o \in Outcomes(s, k, p)
    PROVE  /\ o.state \in GameState
           /\ o.reason \in EndReasons
           /\ o.state.applied = s.applied \cup {p}
           /\ o.state.turn >= s.turn
           /\ s.finished => o.state.finished
<1> DEFINE Good(x) ==
        /\ x.state \in GameState
        /\ x.reason \in EndReasons
        /\ x.state.applied = s.applied \cup {p}
        /\ x.state.turn >= s.turn
        /\ s.finished => x.state.finished
<1>1. ASSUME NEW t \in 1..MaxTurn, t >= s.turn, NEW fin \in BOOLEAN,
             NEW why \in EndReasons, s.finished => fin
      PROVE  Good(Outcome(s, t, fin, why, p))
  BY <1>1 DEF Outcome, GameState
<1>2. s.turn \in 1..MaxTurn /\ s.turn >= s.turn /\ s.turn + 1 >= s.turn
  BY TurnAssumption DEF GameState
<1>3. CASE s.finished
  <2>1. o = Outcome(s, s.turn, TRUE, "cancelled", p)
    BY <1>3 DEF Outcomes
  <2> QED BY <2>1, <1>1, <1>2, <1>3 DEF EndReasons
<1>4. CASE ~s.finished
  <2> DEFINE Shape == \E t \in {s.turn, s.turn + 1}, fin \in BOOLEAN, why \in EndReasons :
                          t <= MaxTurn /\ o = Outcome(s, t, fin, why, p)
  <2>1. Shape
    <3>1. s.turn <= MaxTurn /\ EndReasons = {"bankruptcy", "time_elapsed", "abandoned", "cancelled"}
      BY <1>2, TurnAssumption DEF EndReasons
    <3>2. ASSUME NEW fin \in BOOLEAN, NEW why \in EndReasons,
                 o \in {Outcome(s, s.turn, fin, why, p)}
          PROVE  Shape
      BY <3>1, <3>2
    <3>3. ASSUME o \in {Outcome(s, t, FALSE, "cancelled", p) :
                            t \in {t \in {s.turn, s.turn + 1} : t <= MaxTurn}}
          PROVE  Shape
      BY <3>1, <3>3
    <3> HIDE DEF Shape
    <3>4. CASE expired
      <4>1. o \in {Outcome(s, s.turn, TRUE, "time_elapsed", p)}
        BY <1>4, <3>4 DEF Outcomes
      <4> QED BY <4>1, <3>1, <3>2
    <3>5. CASE ~expired /\ k = "play"
      BY <1>4, <3>5, <3>3 DEF Outcomes
    <3>6. CASE ~expired /\ k = "bankruptcy"
      <4>1. \/ o \in {Outcome(s, t, FALSE, "cancelled", p) :
                            t \in {t \in {s.turn, s.turn + 1} : t <= MaxTurn}}
            \/ o \in {Outcome(s, s.turn, TRUE, "bankruptcy", p)}
        BY <1>4, <3>6 DEF Outcomes
      <4> QED BY <4>1, <3>1, <3>2, <3>3
    <3>7. CASE ~expired /\ k = "abandon"
      <4>1. o \in {Outcome(s, s.turn, TRUE, "abandoned", p)}
        BY <1>4, <3>7 DEF Outcomes
      <4> QED BY <4>1, <3>1, <3>2
    <3>8. CASE ~expired /\ k = "jail"
      <4>1. o \in {Outcome(s, s.turn, FALSE, "cancelled", p)}
        BY <1>4, <3>8 DEF Outcomes
      <4> QED BY <4>1, <3>1, <3>2
    <3>9. CASE ~expired /\ k = "expiry"
      BY <1>4, <3>9 DEF Outcomes
    <3> QED BY <3>4, <3>5, <3>6, <3>7, <3>8, <3>9 DEF Kinds
  <2>2. PICK t \in {s.turn, s.turn + 1}, fin \in BOOLEAN, why \in EndReasons :
            t <= MaxTurn /\ o = Outcome(s, t, fin, why, p)
    BY <2>1
  <2>3. t \in 1..MaxTurn /\ t >= s.turn
    BY <2>2, <1>2, TurnAssumption
  <2> QED BY <2>2, <2>3, <1>1, <1>4
<1> QED BY <1>3, <1>4

(* GameSnapshotRepository.create keeps the table well formed, keeps or     *)
(* adds a row of the given type, and every row it leaves is an old row or  *)
(* holds the new state.                                                    *)
LEMMA UpsertFacts ==
    ASSUME NEW rows \in SUBSET SnapshotRow, IsFiniteSet(rows),
           NEW type \in {"start", "turn", "final"}, NEW s \in GameState
    PROVE  /\ Upsert(rows, type, s) \in SUBSET SnapshotRow
           /\ IsFiniteSet(Upsert(rows, type, s))
           /\ \A r \in Upsert(rows, type, s) : r \in rows \/ (r.type = type /\ r.state = s)
           /\ \E r \in Upsert(rows, type, s) : r.type = type
           /\ \A q \in rows : \E r \in Upsert(rows, type, s) : r.type = q.type
<1> DEFINE upd(r) == IF SameKey(r, type, s) THEN [r EXCEPT !.state = s] ELSE r
           new == [type |-> type, turn |-> s.turn, at |-> Cardinality(rows), state |-> s]
<1>1. \A r \in rows : upd(r) \in SnapshotRow /\ upd(r).type = r.type
  BY DEF SnapshotRow
<1>2. CASE \E r \in rows : SameKey(r, type, s)
  <2> DEFINE T == {upd(r) : r \in rows}
             f == [r \in rows |-> upd(r)]
  <2>1. Upsert(rows, type, s) = T
    BY <1>2 DEF Upsert
  <2>2. f \in Surjection(rows, T)
    BY DEF Surjection
  <2>3. IsFiniteSet(T)
    BY <2>2, FS_Surjection
  <2>4. \A r \in rows : upd(r) = r \/ (upd(r).type = type /\ upd(r).state = s)
    BY DEF SnapshotRow, SameKey
  <2>5. \A q \in rows : upd(q) \in T
    OBVIOUS
  <2>6. PICK q \in rows : SameKey(q, type, s)
    BY <1>2
  <2>7. upd(q) \in T /\ upd(q).type = type
    BY <2>5, <2>6, <1>1 DEF SameKey
  <2>8. T \in SUBSET SnapshotRow
    BY <1>1
  <2>9. \A r \in T : r \in rows \/ (r.type = type /\ r.state = s)
    BY <2>4
  <2> HIDE DEF upd, T
  <2> QED BY <2>1, <2>3, <2>5, <2>7, <2>8, <2>9, <1>1
<1>3. CASE ~ \E r \in rows : SameKey(r, type, s)
  <2>1. Upsert(rows, type, s) = rows \cup {new}
    BY <1>3 DEF Upsert
  <2>2. Cardinality(rows) \in Nat /\ IsFiniteSet(rows \cup {new})
    BY FS_CardinalityType, FS_AddElement
  <2>3. new \in SnapshotRow /\ new.type = type /\ new.state = s
    BY <2>2 DEF SnapshotRow, GameState
  <2> HIDE DEF new
  <2> QED BY <2>1, <2>2, <2>3
<1> QED BY <1>2, <1>3

---------------------------------------------------------------------------
(* Type correctness *)

(* Cardinality of the two tables is a number only because they are finite. *)
Typed == TypeOK /\ IsFiniteSet(snapshots) /\ IsFiniteSet(eventRows)

LEMMA UnusedType == Unused \in Locals /\ InitialState \in GameState
BY AttemptsAssumption, TurnAssumption
   DEF Unused, Locals, PCs, Terminal, Kinds, EndReasons, GameState, InitialState

LEMMA InitTyped == Init => Typed
<1> SUFFICES ASSUME Init PROVE Typed
  OBVIOUS
<1> DEFINE row == [type |-> "start", turn |-> 1, at |-> 0, state |-> InitialState]
<1>1. IsFiniteSet(snapshots) /\ IsFiniteSet(eventRows)
  BY FS_EmptySet, FS_Singleton DEF Init
<1>2. row \in SnapshotRow
  BY UnusedType, TurnAssumption DEF SnapshotRow
<1>3. snapshots \subseteq SnapshotRow
  BY <1>2 DEF Init
<1>4. loc \in [Procs -> Locals]
  BY UnusedType DEF Init
<1>5. live \in GameState /\ losses \in 0..MaxLosses /\ faults \in 0..MaxFaults
  BY UnusedType, LossAssumption, FaultAssumption DEF Init
<1>6. TypeOK
  BY <1>3, <1>4, <1>5 DEF Init, TypeOK
<1> QED BY <1>1, <1>6 DEF Typed

(* What a step of execution p does to the local variables.                 *)
LEMMA BecomeFacts ==
    ASSUME loc \in [Procs -> Locals], NEW p \in Procs, NEW r \in Locals, Become(p, r)
    PROVE  /\ loc' \in [Procs -> Locals]
           /\ loc'[p] = r
           /\ \A q \in Procs \ {p} : loc'[q] = loc[q]
BY DEF Become

LEMMA GotoType ==
    ASSUME NEW r \in Locals, NEW where \in PCs
    PROVE  [r EXCEPT !.pc = where] \in Locals
BY DEF Locals

(* Every step of an execution gives it well-typed local variables.         *)
LEMMA StepLocals ==
    ASSUME Typed, NEW p \in Procs, Step(p) \/ Fault(p)
    PROVE  \E r \in Locals : Become(p, r)
<1> USE DEF Typed, PCs, Terminal
<1>1. loc[p] \in Locals /\ loc[p].seen \in GameState /\ loc[p].next \in GameState
      /\ loc[p].reason \in EndReasons /\ loc[p].kind \in Kinds
  BY DEF TypeOK, Locals
<1>2. ASSUME NEW where \in PCs, Goto(p, where) PROVE \E r \in Locals : Become(p, r)
  BY <1>1, <1>2, GotoType DEF Goto
<1>3. ASSUME NEW where \in PCs, End(p, where) PROVE \E r \in Locals : Become(p, r)
  BY <1>3, UnusedType, GotoType DEF End
<1>4. CASE ReadState(p)
  <2>1. live \in GameState
    BY <1>4 DEF ReadState, TypeOK
  <2>2. PICK o \in Outcomes(live, loc[p].kind, p) :
            Become(p, [loc[p] EXCEPT !.pc = "cas", !.seen = live,
                                     !.next = o.state, !.reason = o.reason])
    BY <1>4 DEF ReadState
  <2>3. o.state \in GameState /\ o.reason \in EndReasons
    BY <2>1, <1>1, OutcomeFacts
  <2> QED BY <2>1, <2>2, <2>3, <1>1 DEF Locals
<1>5. CASE ReadRejected(p)
  BY <1>5, <1>2, <1>3 DEF ReadRejected
<1>6. CASE ReadMissing(p)
  BY <1>6, <1>2, <1>3 DEF ReadMissing, StateMissing
<1>7. CASE CasStored(p)
  BY <1>7, <1>1, <1>2, <1>3, UnusedType DEF CasStored, Locals
<1>8. CASE CasChanged(p)
  <2> DEFINE r == [loc[p] EXCEPT !.attempt = @ + 1, !.pc = "read"]
  <2>1. ASSUME loc[p].attempt < MaxAttempts PROVE r \in Locals
    <3>1. loc[p].attempt + 1 \in 1..MaxAttempts
      BY <1>1, <2>1, AttemptsAssumption DEF Locals
    <3>2. r = [[loc[p] EXCEPT !.attempt = loc[p].attempt + 1] EXCEPT !.pc = "read"]
      OBVIOUS
    <3> QED BY <1>1, <3>1, <3>2, GotoType DEF Locals
  <2>2. (loc[p].attempt < MaxAttempts /\ Become(p, r)) \/ End(p, "failed")
    BY <1>8 DEF CasChanged
  <2> HIDE DEF r
  <2> QED BY <2>1, <2>2, <1>3
<1>9. CASE CasMissing(p)
  BY <1>9, <1>2, <1>3 DEF CasMissing, StateMissing
<1>10. CASE RecoverFind(p)
  BY <1>10, <1>1 DEF RecoverFind, FindSnapshot, TypeOK, SnapshotRow, IsLatest, Locals
<1>11. CASE RecoverRestore(p)
  <2> DEFINE r == [loc[p] EXCEPT !.recovered = TRUE, !.attempt = 1, !.pc = "read"]
  <2>1. r \in Locals
    <3>1. 1 \in 1..MaxAttempts
      BY AttemptsAssumption
    <3> QED BY <1>1, <3>1 DEF Locals
  <2>2. Become(p, r)
    BY <1>11 DEF RecoverRestore
  <2> HIDE DEF r
  <2> QED BY <2>1, <2>2
<1>12. CASE LockEvents(p)
  BY <1>12, <1>2, <1>3 DEF LockEvents
<1>13. CASE ReadSequence(p)
  <2>1. PICK n \in 1..Cardinality(eventRows) + 1 :
            Become(p, [loc[p] EXCEPT !.seq = n, !.pc = "insert"])
    BY <1>13 DEF ReadSequence
  <2>2. n \in Nat
    BY FS_CardinalityType
  <2>3. [loc[p] EXCEPT !.seq = n, !.pc = "insert"] \in Locals
    BY <1>1, <2>2 DEF Locals
  <2> QED BY <2>1, <2>3
<1>14. CASE InsertEvents(p)
  BY <1>14, <1>1 DEF InsertEvents, Locals
<1>15. CASE CreateSnapshot(p)
  BY <1>15, <1>2, <1>3 DEF CreateSnapshot, AfterSnapshot
<1>16. CASE FinalizeGame(p)
  BY <1>16, <1>2, <1>3 DEF FinalizeGame, SaveFinishedGame, ApplyStats
<1>17. CASE JobGet(p)
  BY <1>17, <1>1, <1>2, <1>3 DEF JobGet, GetOrRecover, TypeOK, Locals
<1>18. CASE JobFind(p)
  BY <1>18, <1>1 DEF JobFind, FindSnapshot, TypeOK, SnapshotRow, IsLatest, Locals
<1>19. CASE JobRestore(p)
  BY <1>19, <1>2 DEF JobRestore
<1>20. CASE JobDecide(p)
  BY <1>20, <1>1, <1>2, <1>3, UnusedType DEF JobDecide, FinalizeSeen, Locals, EndReasons
<1>21. CASE RepairGet(p)
  BY <1>21, <1>1, <1>2, <1>3 DEF RepairGet, GetOrRecover, TypeOK, Locals
<1>22. CASE RepairFind(p)
  BY <1>22, <1>1 DEF RepairFind, FindSnapshot, TypeOK, SnapshotRow, IsLatest, Locals
<1>23. CASE RepairRestore(p)
  BY <1>23, <1>2 DEF RepairRestore
<1>24. CASE RepairDecide(p)
  BY <1>24, <1>1, <1>2, <1>3, UnusedType DEF RepairDecide, FinalizeSeen, Locals, EndReasons
<1>25. CASE AppendEventsFails(p)
  BY <1>25, <1>1 DEF AppendEventsFails, Locals
<1>26. CASE CreateSnapshotFails(p)
  BY <1>26, <1>2, <1>3 DEF CreateSnapshotFails, AfterSnapshot
<1>27. CASE FinalizeFails(p)
  BY <1>27, <1>2, <1>3 DEF FinalizeFails
<1>28. CASE Crash(p)
  BY <1>28, <1>2, <1>3 DEF Crash
<1> QED BY <1>4, <1>5, <1>6, <1>7, <1>8, <1>9, <1>10, <1>11, <1>12, <1>13, <1>14, <1>15, <1>16, <1>17, <1>18, <1>19, <1>20, <1>21, <1>22, <1>23, <1>24, <1>25, <1>26, <1>27, <1>28 DEF Step, Fault

LEMMA NextTyped == Typed /\ [Next]_vars => Typed'
<1> SUFFICES ASSUME Typed, [Next]_vars PROVE Typed'
  OBVIOUS
<1> USE DEF Typed, log, database, ghost
<1>1. ASSUME NEW p \in Procs, Step(p) \/ Fault(p) PROVE loc' \in [Procs -> Locals]
  BY <1>1, StepLocals, BecomeFacts DEF TypeOK
<1>2. ASSUME NEW p \in Procs, NEW k \in Kinds, Invoke(p, k) PROVE Typed'
  <2>1. [loc[p] EXCEPT !.kind = k, !.pc = IF k = "expiry" THEN "jobGet" ELSE "read"] \in Locals
    BY DEF TypeOK, Locals, PCs
  <2>2. loc' \in [Procs -> Locals]
    BY <1>2, <2>1, BecomeFacts DEF Invoke, TypeOK
  <2> QED BY <1>2, <2>2 DEF Invoke, TypeOK
<1>3. ASSUME NEW p \in Procs, Step(p), loc' \in [Procs -> Locals] PROVE Typed'
  <2>1. loc[p].next \in GameState /\ loc[p].seen \in GameState /\ loc[p].reason \in EndReasons
        /\ loc[p].seq \in Nat
    BY DEF TypeOK, Locals
  <2>2. CASE CreateSnapshot(p)
    <3>1. snapshots' \in SUBSET SnapshotRow /\ IsFiniteSet(snapshots')
      BY <2>1, <2>2, UpsertFacts DEF CreateSnapshot, SnapshotType, TypeOK
    <3> QED BY <3>1, <1>3, <2>2 DEF CreateSnapshot, TypeOK
  <2>3. CASE FinalizeGame(p)
    <3>1. snapshots' \in SUBSET SnapshotRow /\ IsFiniteSet(snapshots')
      BY <2>1, <2>3, UpsertFacts DEF FinalizeGame, SaveFinishedGame, ApplyStats, TypeOK
    <3>2. statsCount' \in Nat /\ result' \in EndReasons \cup {None}
      <4>1. CASE loc[p].next.finished
        BY <2>1, <2>3, <4>1 DEF FinalizeGame, SaveFinishedGame, ApplyStats, TypeOK
      <4>2. CASE ~loc[p].next.finished
        BY <2>3, <4>2 DEF FinalizeGame, TypeOK
      <4> QED BY <4>1, <4>2
    <3> QED BY <3>1, <3>2, <1>3, <2>3 DEF FinalizeGame, SaveFinishedGame, ApplyStats, TypeOK
  <2>4. CASE InsertEvents(p)
    <3> DEFINE row == [seq |-> loc[p].seq, by |-> p, applied |-> loc[p].next.applied]
    <3>1. row \in EventRow
      BY <2>1 DEF EventRow, GameState
    <3>2. eventRows' = eventRows \cup {row}
      BY <2>4 DEF InsertEvents
    <3>3. eventRows' \subseteq EventRow /\ IsFiniteSet(eventRows')
      BY <3>1, <3>2, FS_AddElement DEF TypeOK
    <3> QED BY <3>3, <1>3, <2>4 DEF InsertEvents, TypeOK
  <2>5. CASE LockEvents(p)
    BY <1>3, <2>5 DEF LockEvents, TypeOK
  <2>6. CASE CasStored(p)
    BY <1>3, <2>1, <2>6 DEF CasStored, TypeOK
  <2>7. CASE RecoverRestore(p) \/ JobRestore(p) \/ RepairRestore(p)
    BY <1>3, <2>1, <2>7 DEF RecoverRestore, JobRestore, RepairRestore, SetLive, TypeOK
  <2>8. CASE ReadState(p) \/ ReadRejected(p) \/ ReadMissing(p) \/ CasChanged(p) \/ CasMissing(p)
             \/ ReadSequence(p) \/ JobDecide(p) \/ RepairDecide(p)
    BY <1>3, <2>8 DEF ReadState, ReadRejected, ReadMissing, CasChanged, CasMissing,
                      ReadSequence, JobDecide, RepairDecide, TypeOK
  <2>9. CASE RecoverFind(p) \/ JobGet(p) \/ JobFind(p) \/ RepairGet(p) \/ RepairFind(p)
    BY <1>3, <2>9 DEF RecoverFind, JobGet, JobFind, RepairGet, RepairFind, FindSnapshot,
                      GetOrRecover, TypeOK
  <2> QED BY <1>3, <2>2, <2>3, <2>4, <2>5, <2>6, <2>7, <2>8, <2>9 DEF Step
<1>4. ASSUME NEW p \in Procs, Fault(p), loc' \in [Procs -> Locals] PROVE Typed'
  <2>1. faults < MaxFaults /\ faults' = faults + 1 /\ UNCHANGED <<live, expired, eventRows, database, ghost>>
    BY <1>4 DEF Fault, AppendEventsFails, CreateSnapshotFails, FinalizeFails, Crash
  <2>2. faults' \in 0..MaxFaults
    BY <2>1, FaultAssumption DEF TypeOK
  <2>3. eventLock' \in Procs \cup {None}
    BY <1>4 DEF Fault, AppendEventsFails, CreateSnapshotFails, FinalizeFails, Crash, ReleaseLock, TypeOK
  <2> QED BY <1>4, <2>1, <2>2, <2>3 DEF TypeOK
<1>5. CASE LoseLiveState
  BY <1>5, LossAssumption DEF TypeOK, LoseLiveState
<1>6. CASE Expire
  BY <1>6 DEF TypeOK, Expire
<1>7. CASE UNCHANGED vars
  BY <1>7 DEF TypeOK, vars
<1> QED BY <1>1, <1>2, <1>3, <1>4, <1>5, <1>6, <1>7 DEF Next

LEMMA AlwaysTyped == Spec => []Typed
BY InitTyped, NextTyped, PTL DEF Spec

(* Every reachable state of the pipeline is well typed, for any number of  *)
(* concurrent executions (GameCommandsService.executeIntent).              *)
THEOREM TypeCorrect == Spec => []TypeOK
BY AlwaysTyped, PTL DEF Typed

---------------------------------------------------------------------------
(* Control *)

Recovering == {"find", "restore", "jobFind", "jobRestore", "repairFind", "repairRestore"}

(* How a step of execution p can reach the control points the invariants   *)
(* speak of.                                                               *)
Control(p) ==
    /\ \A q \in Procs \ {p} : loc'[q] = loc[q]
    /\ loc'[p].pc = "cas" => ReadState(p)
    /\ loc'[p].pc \in Recovering => live = None \/ loc[p].pc \in Recovering
    /\ loc'[p].pc = "sequence" => LockEvents(p)
    /\ loc'[p].pc = "insert" => ReadSequence(p)
    /\ loc'[p].pc = "finalize" => loc'[p].next.finished

LEMMA StepControl ==
    ASSUME Typed, NEW p \in Procs, Step(p) \/ Fault(p)
    PROVE  Control(p)
<1>1. loc \in [Procs -> Locals] /\ loc[p] \in Locals
  BY DEF Typed, TypeOK
<1>2. \A q \in Procs \ {p} : loc'[q] = loc[q]
  BY StepLocals, BecomeFacts, <1>1
<1>3. ASSUME NEW r, Become(p, r) PROVE loc'[p] = r
  BY <1>1, <1>3 DEF Become
<1>4. ASSUME NEW where, Goto(p, where)
      PROVE  loc'[p].pc = where /\ loc'[p].next = loc[p].next
  BY <1>1, <1>3, <1>4 DEF Goto, Locals
<1>5. ASSUME NEW where, End(p, where) PROVE loc'[p].pc = where
  BY <1>3, <1>5 DEF End, Unused
<1> USE <1>2 DEF Control, Recovering
<1>6. CASE ReadRejected(p)
  BY <1>6, <1>4, <1>5 DEF ReadRejected
<1>7. CASE ReadMissing(p)
  BY <1>7, <1>4, <1>5 DEF ReadMissing, StateMissing
<1>8. CASE CasMissing(p)
  BY <1>8, <1>4, <1>5 DEF CasMissing, StateMissing
<1>9. CASE LockEvents(p)
  BY <1>9, <1>4, <1>5 DEF LockEvents
<1>10. CASE CreateSnapshot(p)
  BY <1>10, <1>4, <1>5 DEF CreateSnapshot, AfterSnapshot
<1>11. CASE FinalizeGame(p)
  BY <1>11, <1>4, <1>5 DEF FinalizeGame
<1>12. CASE CreateSnapshotFails(p)
  BY <1>12, <1>4, <1>5 DEF CreateSnapshotFails, AfterSnapshot
<1>13. CASE FinalizeFails(p)
  BY <1>13, <1>4, <1>5 DEF FinalizeFails
<1>14. CASE Crash(p)
  BY <1>14, <1>4, <1>5 DEF Crash
<1>15. CASE JobRestore(p)
  BY <1>15, <1>4, <1>5 DEF JobRestore
<1>16. CASE RepairRestore(p)
  BY <1>16, <1>4, <1>5 DEF RepairRestore
<1>17. CASE ReadState(p)
  <2>1. loc'[p].pc = "cas"
    BY <1>1, <1>3, <1>17 DEF ReadState, Locals
  <2> QED BY <2>1, <1>17
<1>18. CASE CasStored(p)
  <2>1. loc'[p].pc = "lockEvents"
    BY <1>18, <1>3 DEF CasStored, Unused
  <2> QED BY <2>1
<1>19. CASE CasChanged(p)
  BY <1>19, <1>1, <1>3, <1>5 DEF CasChanged, Locals
<1>20. CASE RecoverFind(p)
  BY <1>20, <1>1, <1>3 DEF RecoverFind, FindSnapshot, At, Locals
<1>21. CASE RecoverRestore(p)
  BY <1>21, <1>1, <1>3 DEF RecoverRestore, Locals
<1>22. CASE ReadSequence(p)
  BY <1>22, <1>1, <1>3 DEF ReadSequence, Locals
<1>23. CASE InsertEvents(p)
  BY <1>23, <1>1, <1>3 DEF InsertEvents, Locals
<1>24. CASE AppendEventsFails(p)
  BY <1>24, <1>1, <1>3 DEF AppendEventsFails, Locals
<1>25. CASE JobGet(p)
  <2>1. CASE live # None
    <3>1. loc'[p].pc = "jobDecide"
      BY <1>25, <1>1, <1>3, <2>1 DEF JobGet, GetOrRecover, Locals
    <3> QED BY <3>1
  <2>2. CASE live = None
    BY <1>25, <1>4, <2>2 DEF JobGet, GetOrRecover
  <2> QED BY <2>1, <2>2
<1>26. CASE JobFind(p)
  BY <1>26, <1>1, <1>3 DEF JobFind, FindSnapshot, At, Locals
<1>27. CASE JobDecide(p)
  <2>1. CASE loc[p].seen.finished
    <3>1. loc'[p].pc = "finalize" /\ loc'[p].next = loc[p].seen
      BY <1>27, <1>3, <2>1 DEF JobDecide, FinalizeSeen, Unused
    <3> QED BY <3>1, <2>1
  <2>2. CASE ~loc[p].seen.finished
    BY <1>27, <1>4, <1>5, <2>2 DEF JobDecide
  <2> QED BY <2>1, <2>2
<1>28. CASE RepairGet(p)
  <2>1. CASE live # None
    <3>1. loc'[p].pc = "repairDecide"
      BY <1>28, <1>1, <1>3, <2>1 DEF RepairGet, GetOrRecover, Locals
    <3> QED BY <3>1
  <2>2. CASE live = None
    BY <1>28, <1>4, <2>2 DEF RepairGet, GetOrRecover
  <2> QED BY <2>1, <2>2
<1>29. CASE RepairFind(p)
  BY <1>29, <1>1, <1>3 DEF RepairFind, FindSnapshot, At, Locals
<1>30. CASE RepairDecide(p)
  <2>1. CASE loc[p].seen.finished
    <3>1. loc'[p].pc = "finalize" /\ loc'[p].next = loc[p].seen
      BY <1>30, <1>3, <2>1 DEF RepairDecide, FinalizeSeen, Unused
    <3> QED BY <3>1, <2>1
  <2>2. CASE ~loc[p].seen.finished
    BY <1>30, <1>5, <2>2 DEF RepairDecide
  <2> QED BY <2>1, <2>2
<1> QED BY <1>6, <1>7, <1>8, <1>9, <1>10, <1>11, <1>12, <1>13, <1>14, <1>15, <1>16, <1>17, <1>18, <1>19, <1>20, <1>21, <1>22, <1>23, <1>24, <1>25, <1>26, <1>27, <1>28, <1>29, <1>30
  DEF Step, Fault

---------------------------------------------------------------------------
(* Serializability of the commands *)

(* What an execution is about to store extends what it read.               *)
UpdaterExtends ==
    \A p \in Procs : At(p, "cas") =>
        /\ loc[p].next.applied = loc[p].seen.applied \cup {p}
        /\ loc[p].next.turn >= loc[p].seen.turn
        /\ loc[p].seen.finished => loc[p].next.finished

(* Nobody restores a snapshot before the key was ever lost.                *)
NoEarlyRecovery == losses = 0 => \A p \in Procs : loc[p].pc \notin Recovering

Serial == UpdaterExtends /\ NoEarlyRecovery /\ LiveHoldsEveryCommit

LEMMA InitSerial == Init => Serial
<1> SUFFICES ASSUME Init PROVE Serial
  OBVIOUS
<1>1. \A p \in Procs : loc[p].pc = "idle"
  BY DEF Init, Unused
<1>2. live # None /\ live.applied = committed
  BY NoneAssumption, UnusedType DEF Init, InitialState
<1> QED BY <1>1, <1>2
        DEF Serial, UpdaterExtends, NoEarlyRecovery, LiveHoldsEveryCommit, At, Recovering

LEMMA NextSerial == Typed /\ Serial /\ [Next]_vars => Serial'
<1> SUFFICES ASSUME Typed, Serial, [Next]_vars PROVE Serial'
  OBVIOUS
<1> USE DEF log, database, ghost, At
<1>1. live # None => live \in GameState
  BY DEF Typed, TypeOK
<1>2. loc \in [Procs -> Locals]
  BY DEF Typed, TypeOK
<1>3. ASSUME NEW p \in Procs, Step(p) \/ Fault(p) PROVE Serial'
  <2>1. Control(p)
    BY <1>3, StepControl
  <2>2. losses' = losses
    BY <1>3 DEF Step, Fault, ReadState, ReadRejected, ReadMissing, CasStored, CasChanged, CasMissing,
                RecoverFind, RecoverRestore, LockEvents, ReadSequence, InsertEvents, CreateSnapshot,
                FinalizeGame, JobGet, JobFind, JobRestore, JobDecide, RepairGet, RepairFind,
                RepairRestore, RepairDecide, AppendEventsFails, CreateSnapshotFails, FinalizeFails,
                Crash, FindSnapshot, SetLive, GetOrRecover
  <2>3. UpdaterExtends'
    <3>1. ASSUME ReadState(p)
          PROVE  /\ loc'[p].next.applied = loc'[p].seen.applied \cup {p}
                 /\ loc'[p].next.turn >= loc'[p].seen.turn
                 /\ loc'[p].seen.finished => loc'[p].next.finished
      <4>1. PICK o \in Outcomes(live, loc[p].kind, p) :
                Become(p, [loc[p] EXCEPT !.pc = "cas", !.seen = live,
                                         !.next = o.state, !.reason = o.reason])
        BY <3>1 DEF ReadState
      <4>2. loc'[p].seen = live /\ loc'[p].next = o.state
        BY <4>1, <1>2 DEF Become, Locals
      <4>3. live \in GameState /\ loc[p].kind \in Kinds
        BY <3>1, <1>1, <1>2 DEF ReadState, Locals
      <4> QED BY <4>2, <4>3, OutcomeFacts
    <3> QED BY <3>1, <2>1 DEF Serial, UpdaterExtends, Control
  <2>4. NoEarlyRecovery'
    BY <2>1, <2>2 DEF Serial, NoEarlyRecovery, LiveHoldsEveryCommit, Control
  <2>5. CASE CasStored(p)
    <3>1. live' = loc[p].next /\ committed' = committed \cup {p} /\ live = loc[p].seen
      BY <2>5 DEF CasStored, CasMatches
    <3>2. loc[p].next.applied = loc[p].seen.applied \cup {p} /\ loc[p].next \in GameState
      BY <2>5, <1>2 DEF CasStored, Serial, UpdaterExtends, Locals
    <3>3. LiveHoldsEveryCommit'
      BY <3>1, <3>2, <2>2, NoneAssumption DEF Serial, LiveHoldsEveryCommit
    <3> QED BY <3>3, <2>3, <2>4 DEF Serial
  <2>6. CASE RecoverRestore(p) \/ JobRestore(p) \/ RepairRestore(p)
    <3>1. loc[p].pc \in Recovering
      BY <2>6 DEF RecoverRestore, JobRestore, RepairRestore, SetLive, Recovering
    <3>2. losses' # 0
      BY <3>1, <2>2 DEF Serial, NoEarlyRecovery
    <3> QED BY <3>2, <2>3, <2>4 DEF Serial, LiveHoldsEveryCommit
  <2>7. CASE ~(CasStored(p) \/ RecoverRestore(p) \/ JobRestore(p) \/ RepairRestore(p))
    <3>1. UNCHANGED <<live, committed>>
      BY <1>3, <2>7
         DEF Step, Fault, ReadState, ReadRejected, ReadMissing, CasChanged, CasMissing,
             RecoverFind, LockEvents, ReadSequence, InsertEvents, CreateSnapshot,
             FinalizeGame, JobGet, JobFind, JobDecide, RepairGet, RepairFind,
             RepairDecide, AppendEventsFails, CreateSnapshotFails, FinalizeFails,
             Crash, FindSnapshot, GetOrRecover
    <3> QED BY <3>1, <2>2, <2>3, <2>4 DEF Serial, LiveHoldsEveryCommit
  <2> QED BY <2>5, <2>6, <2>7
<1>4. ASSUME NEW p \in Procs, NEW k \in Kinds, Invoke(p, k) PROVE Serial'
  <2>1. loc'[p].pc \in {"jobGet", "read"} /\ \A q \in Procs \ {p} : loc'[q] = loc[q]
    BY <1>2, <1>4 DEF Invoke, Become, Locals
  <2>2. UNCHANGED <<live, committed, losses>>
    BY <1>4 DEF Invoke
  <2> QED BY <2>1, <2>2 DEF Serial, UpdaterExtends, NoEarlyRecovery, LiveHoldsEveryCommit, Recovering
<1>5. CASE LoseLiveState
  <2>1. losses' # 0 /\ loc' = loc
    BY <1>5 DEF LoseLiveState, Typed, TypeOK
  <2> QED BY <2>1 DEF Serial, UpdaterExtends, NoEarlyRecovery, LiveHoldsEveryCommit
<1>6. CASE Expire \/ UNCHANGED vars
  <2>1. UNCHANGED <<live, committed, losses, loc>>
    BY <1>6 DEF Expire, vars
  <2> QED BY <2>1 DEF Serial, UpdaterExtends, NoEarlyRecovery, LiveHoldsEveryCommit
<1> QED BY <1>3, <1>4, <1>5, <1>6 DEF Next

LEMMA AlwaysSerial == Spec => [](Typed /\ Serial)
BY InitTyped, InitSerial, NextTyped, NextSerial, PTL DEF Spec

(* As long as Redis keeps the key, the compare-and-set of                  *)
(* GameStateService.update loses no command and applies none twice, for    *)
(* any number of concurrent executions.                                    *)
THEOREM NoLostUpdate == Spec => []LiveHoldsEveryCommit
BY AlwaysSerial, PTL DEF Serial

(* As long as Redis keeps the key, no step reopens a finished game or      *)
(* moves the live state back a turn.                                       *)
THEOREM LiveAdvances == Spec => LiveOnlyAdvances
<1> DEFINE Advance == losses' = 0 => /\ live'.turn >= live.turn
                                     /\ live.finished => live'.finished
<1>1. Typed /\ Serial /\ [Next]_vars => [Advance]_live
  <2> SUFFICES ASSUME Typed, Serial, [Next]_vars, live' # live, losses' = 0
               PROVE  Advance
    OBVIOUS
  <2> USE DEF log, database, ghost, At
  <2>1. ASSUME NEW p \in Procs, CasStored(p) PROVE Advance
    BY <2>1 DEF CasStored, CasMatches, Serial, UpdaterExtends
  <2>2. ASSUME NEW p \in Procs, RecoverRestore(p) \/ JobRestore(p) \/ RepairRestore(p)
        PROVE  FALSE
    <3>1. loc[p].pc \in Recovering
      BY <2>2 DEF RecoverRestore, JobRestore, RepairRestore, SetLive, Recovering
    <3>2. losses' = losses
      BY <2>2 DEF RecoverRestore, JobRestore, RepairRestore, SetLive
    <3> QED BY <3>1, <3>2 DEF Serial, NoEarlyRecovery
  <2>3. ASSUME LoseLiveState PROVE FALSE
    BY <2>3 DEF LoseLiveState, Typed, TypeOK
  <2>4. \/ \E p \in Procs : CasStored(p) \/ RecoverRestore(p) \/ JobRestore(p) \/ RepairRestore(p)
        \/ LoseLiveState
    BY DEF Next, vars, Invoke, Expire,
           Step, Fault, ReadState, ReadRejected, ReadMissing, CasChanged, CasMissing,
           RecoverFind, LockEvents, ReadSequence, InsertEvents, CreateSnapshot,
           FinalizeGame, JobGet, JobFind, JobDecide, RepairGet, RepairFind,
           RepairDecide, AppendEventsFails, CreateSnapshotFails, FinalizeFails,
           Crash, FindSnapshot, GetOrRecover
  <2> QED BY <2>1, <2>2, <2>3, <2>4
<1>2. [](Typed /\ Serial) /\ [][Next]_vars => [][Advance]_live
  BY <1>1, PTL
<1> QED BY <1>2, AlwaysSerial, PTL DEF Spec, LiveOnlyAdvances

---------------------------------------------------------------------------
(* The event log *)

(* Only the holder of the advisory lock is between its read of the maximum *)
(* and its insert, so the number it read is still the next one.            *)
Numbering ==
    \A p \in Procs :
        /\ loc[p].pc \in {"sequence", "insert"} => eventLock = p
        /\ loc[p].pc = "insert" => loc[p].seq = Cardinality(eventRows) + 1

LogInv == Numbering /\ EventSequenceDense

LEMMA InitLog == Init => LogInv
<1> SUFFICES ASSUME Init PROVE LogInv
  OBVIOUS
<1>1. \A p \in Procs : loc[p].pc = "idle"
  BY DEF Init, Unused
<1>2. eventRows = {} /\ Cardinality(eventRows) = 0
  BY FS_EmptySet DEF Init
<1> QED BY <1>1, <1>2 DEF LogInv, Numbering, EventSequenceDense

(* getNextSequence on a dense log returns its length plus one.             *)
LEMMA NextSequenceIsCount ==
    ASSUME Typed, EventSequenceDense, NEW n \in 1..Cardinality(eventRows) + 1, IsNextSequence(n)
    PROVE  n = Cardinality(eventRows) + 1
<1>1. Cardinality(eventRows) \in Nat
  BY FS_CardinalityType DEF Typed
<1>2. ASSUME n \in 1..Cardinality(eventRows) PROVE FALSE
  BY <1>1, <1>2 DEF EventSequenceDense, IsNextSequence
<1> QED BY <1>1, <1>2

(* Appending the next number keeps the log dense.                          *)
LEMMA AppendKeepsDense ==
    ASSUME Typed, EventSequenceDense, NEW row \in EventRow,
           row.seq = Cardinality(eventRows) + 1, eventRows' = eventRows \cup {row}
    PROVE  EventSequenceDense'
<1>1. Cardinality(eventRows) \in Nat
  BY FS_CardinalityType DEF Typed
<1>2. \A r \in eventRows : r.seq \in 1..Cardinality(eventRows)
  BY DEF EventSequenceDense
<1>3. row \notin eventRows
  BY <1>1, <1>2
<1>4. Cardinality(eventRows') = Cardinality(eventRows) + 1
  BY <1>3, FS_AddElement DEF Typed
<1>5. {r.seq : r \in eventRows'} = {r.seq : r \in eventRows} \cup {row.seq}
  OBVIOUS
<1>6. {r.seq : r \in eventRows'} = 1..Cardinality(eventRows')
  BY <1>1, <1>4, <1>5 DEF EventSequenceDense
<1>7. \A r, q \in eventRows' : r.seq = q.seq => r = q
  BY <1>1, <1>2 DEF EventSequenceDense
<1> QED BY <1>6, <1>7 DEF EventSequenceDense

LEMMA NextLog == Typed /\ LogInv /\ [Next]_vars => LogInv'
<1> SUFFICES ASSUME Typed, LogInv, [Next]_vars PROVE LogInv'
  OBVIOUS
<1> USE DEF log, database, ghost, At
<1>1. loc \in [Procs -> Locals]
  BY DEF Typed, TypeOK
<1>2. ASSUME NEW p \in Procs, Step(p) \/ Fault(p) PROVE LogInv'
  <2>1. Control(p)
    BY <1>2, StepControl
  <2>2. CASE LockEvents(p)
    <3>1. loc'[p].pc = "sequence" /\ eventLock' = p /\ eventRows' = eventRows /\ eventLock = None
      BY <1>1, <2>2 DEF LockEvents, Goto, Become, Locals
    <3>2. \A q \in Procs : q # None
      BY NoneAssumption
    <3>3. \A q \in Procs \ {p} : loc[q].pc \notin {"sequence", "insert"}
      BY <3>1, <3>2 DEF LogInv, Numbering
    <3> QED BY <2>1, <3>1, <3>3 DEF LogInv, Numbering, EventSequenceDense, Control
  <2>3. CASE ReadSequence(p)
    <3>1. PICK n \in 1..Cardinality(eventRows) + 1 :
              IsNextSequence(n) /\ Become(p, [loc[p] EXCEPT !.seq = n, !.pc = "insert"])
      BY <2>3 DEF ReadSequence
    <3>2. n = Cardinality(eventRows) + 1
      BY <3>1, NextSequenceIsCount DEF LogInv
    <3>3. loc'[p].seq = n /\ loc'[p].pc = "insert"
      BY <1>1, <3>1 DEF Become, Locals
    <3>4. eventLock = p /\ UNCHANGED <<eventRows, eventLock>>
      BY <2>3 DEF ReadSequence, LogInv, Numbering
    <3> QED BY <2>1, <3>2, <3>3, <3>4 DEF LogInv, Numbering, EventSequenceDense, Control
  <2>4. CASE InsertEvents(p)
    <3> DEFINE row == [seq |-> loc[p].seq, by |-> p, applied |-> loc[p].next.applied]
    <3>1. row \in EventRow /\ row.seq = Cardinality(eventRows) + 1
      BY <1>1, <2>4 DEF InsertEvents, LogInv, Numbering, Locals, GameState, EventRow
    <3>2. eventRows' = eventRows \cup {row}
      BY <2>4 DEF InsertEvents
    <3>3. EventSequenceDense'
      BY <3>1, <3>2, AppendKeepsDense DEF LogInv
    <3>4. \A q \in Procs \ {p} : loc'[q].pc \notin {"sequence", "insert"}
      BY <2>1, <2>4 DEF InsertEvents, LogInv, Numbering, Control
    <3>5. loc'[p].pc = "snapshot"
      BY <1>1, <2>4 DEF InsertEvents, Become, Locals
    <3> QED BY <3>3, <3>4, <3>5 DEF LogInv, Numbering
  <2>5. CASE AppendEventsFails(p) \/ Crash(p)
    <3>1. loc'[p].pc \notin {"sequence", "insert"}
      <4>1. CASE AppendEventsFails(p)
        BY <1>1, <4>1 DEF AppendEventsFails, Become, Locals
      <4>2. CASE Crash(p)
        BY <1>1, <4>2 DEF Crash, End, Become, Unused
      <4> QED BY <2>5, <4>1, <4>2
    <3>2. eventRows' = eventRows /\ (eventLock # p => eventLock' = eventLock)
      BY <2>5 DEF AppendEventsFails, Crash, ReleaseLock
    <3> QED BY <2>1, <3>1, <3>2 DEF LogInv, Numbering, EventSequenceDense, Control
  <2>6. CASE ~(LockEvents(p) \/ ReadSequence(p) \/ InsertEvents(p) \/ AppendEventsFails(p) \/ Crash(p))
    <3>1. UNCHANGED <<eventRows, eventLock>>
      BY <1>2, <2>6
         DEF Step, Fault, ReadState, ReadRejected, ReadMissing, CasStored, CasChanged, CasMissing,
             RecoverFind, RecoverRestore, CreateSnapshot, FinalizeGame, JobGet, JobFind,
             JobRestore, JobDecide, RepairGet, RepairFind, RepairRestore, RepairDecide,
             CreateSnapshotFails, FinalizeFails, FindSnapshot, SetLive, GetOrRecover
    <3>2. loc'[p].pc \notin {"sequence", "insert"}
      BY <2>1, <2>6 DEF Control
    <3> QED BY <2>1, <3>1, <3>2 DEF LogInv, Numbering, EventSequenceDense, Control
  <2> QED BY <2>2, <2>3, <2>4, <2>5, <2>6
<1>3. ASSUME NEW p \in Procs, NEW k \in Kinds, Invoke(p, k) PROVE LogInv'
  <2>1. loc'[p].pc \in {"jobGet", "read"} /\ \A q \in Procs \ {p} : loc'[q] = loc[q]
    BY <1>1, <1>3 DEF Invoke, Become, Locals
  <2>2. UNCHANGED <<eventRows, eventLock>>
    BY <1>3 DEF Invoke
  <2> QED BY <2>1, <2>2 DEF LogInv, Numbering, EventSequenceDense
<1>4. CASE LoseLiveState \/ Expire \/ UNCHANGED vars
  <2>1. UNCHANGED <<eventRows, eventLock, loc>>
    BY <1>4 DEF LoseLiveState, Expire, vars
  <2> QED BY <2>1 DEF LogInv, Numbering, EventSequenceDense
<1> QED BY <1>2, <1>3, <1>4 DEF Next

(* The sequence numbers of a game's events have neither gap nor duplicate, *)
(* for any number of concurrent, failing or crashing writers               *)
(* (GameEventsRepository.appendEvents).                                    *)
THEOREM DenseEventLog == Spec => []EventSequenceDense
<1>1. Spec => []LogInv
  BY InitTyped, InitLog, NextTyped, NextLog, PTL DEF Spec
<1> QED BY <1>1, PTL DEF LogInv

---------------------------------------------------------------------------
(* Results *)

(* Finalization is reached with finished states only, and its transaction  *)
(* leaves result, rating history, stats and final snapshot together.       *)
Finalization ==
    /\ \A p \in Procs : At(p, "finalize") => loc[p].next.finished
    /\ statsCount = IF ratings THEN 1 ELSE 0
    /\ \A r \in snapshots : r.type = "final" => r.state.finished
    /\ gameStatus = "finished" =>
          /\ ratings
          /\ result # None
          /\ \E r \in snapshots : r.type = "final"

LEMMA InitFinalization == Init => Finalization
BY DEF Init, Finalization, At, Unused

LEMMA NextFinalization == Typed /\ Finalization /\ [Next]_vars => Finalization'
<1> SUFFICES ASSUME Typed, Finalization, [Next]_vars PROVE Finalization'
  OBVIOUS
<1> USE DEF log, database, ghost, At
<1>1. loc \in [Procs -> Locals]
  BY DEF Typed, TypeOK
<1>2. ASSUME NEW p \in Procs, Step(p) \/ Fault(p) PROVE Finalization'
  <2>1. \A q \in Procs : loc'[q].pc = "finalize" => loc'[q].next.finished
    BY <1>2, StepControl DEF Control, Finalization
  <2>2. loc[p].next \in GameState /\ loc[p].reason \in EndReasons
    BY <1>1 DEF Locals
  <2>3. CASE CreateSnapshot(p)
    <3> DEFINE s == loc[p].next
               type == SnapshotType(s)
    <3>1. type \in {"turn", "final"} /\ (type = "final" => s.finished)
      BY DEF SnapshotType
    <3>2. snapshots' = Upsert(snapshots, type, s) /\ UNCHANGED <<gameStatus, result, ratings, statsCount>>
      BY <2>3 DEF CreateSnapshot
    <3> HIDE DEF type
    <3>3. /\ \A r \in snapshots' : r \in snapshots \/ (r.type = type /\ r.state = s)
          /\ \A q \in snapshots : \E r \in snapshots' : r.type = q.type
      BY <2>2, <3>1, <3>2, UpsertFacts DEF Typed, TypeOK
    <3>4. \A r \in snapshots' : r.type = "final" => r.state.finished
      BY <3>1, <3>3 DEF Finalization
    <3> QED BY <2>1, <3>2, <3>3, <3>4 DEF Finalization
  <2>4. CASE FinalizeGame(p)
    <3> DEFINE s == loc[p].next
    <3>1. s.finished
      BY <2>4 DEF FinalizeGame, Finalization
    <3>2. /\ snapshots' = Upsert(snapshots, "final", s)
          /\ result' = loc[p].reason
          /\ ratings' = TRUE
          /\ statsCount' = 1
      BY <2>4, <3>1 DEF FinalizeGame, SaveFinishedGame, ApplyStats, Finalization
    <3>3. /\ \A r \in snapshots' : r \in snapshots \/ (r.type = "final" /\ r.state = s)
          /\ \E r \in snapshots' : r.type = "final"
      BY <2>2, <3>2, UpsertFacts DEF Typed, TypeOK
    <3>4. \A r \in snapshots' : r.type = "final" => r.state.finished
      BY <3>1, <3>3 DEF Finalization
    <3>5. result' # None
      BY <2>2, <3>2, NoneAssumption
    <3> QED BY <2>1, <3>2, <3>3, <3>4, <3>5 DEF Finalization
  <2>5. CASE ~(CreateSnapshot(p) \/ FinalizeGame(p))
    <3>1. UNCHANGED database
      BY <1>2, <2>5
         DEF Step, Fault, ReadState, ReadRejected, ReadMissing, CasStored, CasChanged, CasMissing,
             RecoverFind, RecoverRestore, LockEvents, ReadSequence, InsertEvents, JobGet, JobFind,
             JobRestore, JobDecide, RepairGet, RepairFind, RepairRestore, RepairDecide,
             AppendEventsFails, CreateSnapshotFails, FinalizeFails, Crash,
             FindSnapshot, SetLive, GetOrRecover
    <3> QED BY <2>1, <3>1 DEF Finalization
  <2> QED BY <2>3, <2>4, <2>5
<1>3. ASSUME NEW p \in Procs, NEW k \in Kinds, Invoke(p, k) PROVE Finalization'
  <2>1. loc'[p].pc \in {"jobGet", "read"} /\ \A q \in Procs \ {p} : loc'[q] = loc[q]
    BY <1>1, <1>3 DEF Invoke, Become, Locals
  <2>2. UNCHANGED database
    BY <1>3 DEF Invoke
  <2> QED BY <2>1, <2>2 DEF Finalization
<1>4. CASE LoseLiveState \/ Expire \/ UNCHANGED vars
  <2>1. UNCHANGED <<database, loc>>
    BY <1>4 DEF LoseLiveState, Expire, vars
  <2> QED BY <2>1 DEF Finalization
<1> QED BY <1>2, <1>3, <1>4 DEF Next

LEMMA AlwaysFinalization == Spec => []Finalization
BY InitTyped, InitFinalization, NextTyped, NextFinalization, PTL DEF Spec

(* However often a game is finalized, its stats are applied at most once   *)
(* (GameStatsService.applyFinishedGameStats).                              *)
THEOREM StatsOnce == Spec => []StatsAppliedOnce
<1>1. Finalization => StatsAppliedOnce
  BY DEF Finalization, StatsAppliedOnce
<1> QED BY <1>1, AlwaysFinalization, PTL

(* A persisted result always comes with its stats and with a final         *)
(* snapshot of a finished state (GameResultsService.finalizeFinishedGame). *)
THEOREM CompleteResults == Spec => []ResultIsComplete
<1>1. Finalization => ResultIsComplete
  BY DEF Finalization, ResultIsComplete
<1> QED BY <1>1, AlwaysFinalization, PTL

===========================================================================
