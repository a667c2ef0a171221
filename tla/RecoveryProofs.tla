--------------------------- MODULE RecoveryProofs ---------------------------
(***************************************************************************)
(* Proofs about Recovery, for every set of documents and every bound.      *)
(*                                                                         *)
(* Shape (types, records, stages) is inductive whatever faults occur.      *)
(* AcceptedOK, and with it Restartable, is inductive relative to Shape as  *)
(* long as the two directory syncs named in DurableSyncs do not fail.      *)
(***************************************************************************)
EXTENDS Recovery, TLAPS

Shape == TypeOK /\ RecordsOK /\ StagesOK

USE ConstantsAssumption

-----------------------------------------------------------------------------
(* Operators. *)

\* Idle is a record: no trial, and the content of a journal that is absent.
LEMMA IdleType == Idle \in Records /\ Idle.id = 0 /\ Idle.state = "idle"
  BY DEF Idle, Record, Records, States

\* The free lock is a holder without a document or a cause.
LEMMA FreeType ==
  Free \in Holders /\ Free.stage = "free" /\ Free.cause = "none"
  BY DEF Free, Holder, Holders, Stages, Causes

\* The contents of a file are drawn from its set.
LEMMA FileType ==
  ASSUME NEW S, NEW f \in Files(S)
  PROVE  f.vis \in S /\ f.may \subseteq S
  BY DEF Files

\* A file known to be durable.
LEMMA DurableType ==
  ASSUME NEW S, NEW c \in S
  PROVE  File(c) \in Files(S) /\ File(c).vis = c /\ File(c).may = {c}
  BY DEF File, Files

\* Renaming makes a content visible and keeps every content that may survive.
LEMMA JournalRenamed ==
  ASSUME journal \in Files(Records), NEW c \in Records,
         journal' = Renamed(journal, c)
  PROVE  /\ journal' \in Files(Records)
         /\ journal'.vis = c
         /\ journal'.may = journal.may \cup {c}
  BY DEF Renamed, Files

\* The same for the configuration file.
LEMMA StoreRenamed ==
  ASSUME store \in Files(Docs), NEW c \in Docs, store' = Renamed(store, c)
  PROVE  /\ store' \in Files(Docs)
         /\ store'.vis = c
         /\ store'.may = store.may \cup {c}
  BY DEF Renamed, Files

\* Syncing leaves the visible content and nothing else.
LEMMA JournalSynced ==
  ASSUME journal \in Files(Records), journal' = Synced(journal)
  PROVE  /\ journal' \in Files(Records)
         /\ journal'.vis = journal.vis
         /\ journal'.may = {journal.vis}
  BY DEF Synced, Files

\* The same for the configuration file.
LEMMA StoreSynced ==
  ASSUME store \in Files(Docs), store' = Synced(store)
  PROVE  /\ store' \in Files(Docs)
         /\ store'.vis = store.vis
         /\ store'.may = {store.vis}
  BY DEF Synced, Files

\* A deadline that passes changes neither a record's trial nor its state.
LEMMA PastDueType ==
  ASSUME NEW r \in Records
  PROVE  /\ PastDue(r) \in Records
         /\ PastDue(r).id = r.id
         /\ PastDue(r).state = r.state
         /\ PastDue(r).before = r.before
         /\ PastDue(r).from = r.from
  BY DEF PastDue, Records

\* The copy revert persists is the same trial, recovering.
LEMMA MarkedType ==
  ASSUME TypeOK
  PROVE  /\ Marked \in Records
         /\ Marked.id = trial.id
         /\ Marked.state = "recovering"
         /\ Marked.before = trial.before
  BY FileType DEF TypeOK, Marked, Records, States

\* A failed attempt is the same trial, failed.
LEMMA FailedType ==
  ASSUME TypeOK
  PROVE  /\ Failed \in Records
         /\ Failed.id = trial.id
         /\ Failed.state = "failed"
         /\ Failed.before = trial.before
  BY DEF TypeOK, Failed, Records, States

\* The record Begin writes.
LEMMA BegunType ==
  ASSUME TypeOK
  PROVE  LET r == Record(ids + 1, "pending", store.vis, NoDoc, FALSE)
         IN  /\ r \in Records
             /\ r.id # 0
             /\ r.state = "pending"
             /\ r.before = store.vis
  BY FileType DEF TypeOK, Record, Records, States

\* A fault comes out of the budget.
LEMMA FaultType ==
  ASSUME budget \in Nat, NEW f, Fault(f)
  PROVE  budget' \in Nat
  BY DEF Fault

\* What Go does to the lock holder.
LEMMA GoType ==
  ASSUME op \in Holders, NEW st \in Stages, Go(st)
  PROVE  op' \in Holders /\ op'.stage = st /\ op'.cause = op.cause
         /\ op'.doc = op.doc
  BY DEF Go, Holders

\* What Release does to it.
LEMMA ReleaseType ==
  ASSUME Release
  PROVE  op' \in Holders /\ op'.stage = "free" /\ op'.cause = "none"
  BY FreeType DEF Release

\* What LockDo makes it.
LEMMA LockType ==
  ASSUME NEW c \in Causes, NEW st \in Stages, NEW d \in Docs \cup {NoDoc},
         NEW h \in Nat, LockDo(c, st, d, h)
  PROVE  /\ up /\ op.stage = "free"
         /\ op' \in Holders /\ op'.stage = st /\ op'.cause = c /\ op'.doc = d
  BY DEF LockDo, At, Holder, Holders

-----------------------------------------------------------------------------
(* Shape is inductive. *)

\* A freshly installed router is well formed.
LEMMA InitShape == Init => Shape
  <1> SUFFICES ASSUME Init PROVE Shape
    OBVIOUS
  <1>1. TypeOK
    BY IdleType, FreeType, DurableType DEF Init, TypeOK
  <1>2. RecordsOK
    <2>1. journal.may = {Idle}
      BY DurableType, IdleType DEF Init
    <2> QED
      BY <2>1, IdleType DEF Init, RecordsOK
  <1>3. StagesOK
    BY FreeType DEF Init, StagesOK
  <1> QED
    BY <1>1, <1>2, <1>3 DEF Shape

\* Shape survives every step, whatever faults occur.
LEMMA NextShape == Shape /\ [Next]_vars => Shape'
  <1> SUFFICES ASSUME Shape, [Next]_vars PROVE Shape'
    OBVIOUS
  <1> USE DEF Shape
  <1>0. CASE UNCHANGED vars
    BY <1>0 DEF vars, TypeOK, RecordsOK, StagesOK
  <1>1. CASE Edit
    <2>1. TypeOK'
      BY <1>1, LockType DEF Edit, At, NoFault, Fault, MutationGuard, TypeOK, RecordsOK,
         StagesOK, Stages, Causes
    <2>2. RecordsOK'
      BY <1>1, LockType DEF Edit, At, NoFault, Fault, MutationGuard, TypeOK, RecordsOK,
         StagesOK, Stages, Causes
    <2>3. StagesOK'
      BY <1>1, LockType DEF Edit, At, NoFault, Fault, MutationGuard, TypeOK, RecordsOK,
         StagesOK, Stages, Causes
    <2> QED
      BY <2>1, <2>2, <2>3
  <1>2. CASE Restore
    <2>1. TypeOK'
      BY <1>2, LockType DEF Restore, At, NoFault, Fault, TypeOK, RecordsOK,
         StagesOK, Stages, Causes
    <2>2. RecordsOK'
      BY <1>2, LockType DEF Restore, At, NoFault, Fault, TypeOK, RecordsOK,
         StagesOK, Stages, Causes
    <2>3. StagesOK'
      BY <1>2, LockType DEF Restore, At, NoFault, Fault, TypeOK, RecordsOK,
         StagesOK, Stages, Causes
    <2> QED
      BY <2>1, <2>2, <2>3
  <1>3. CASE Confirm
    <2>0. trial.id \in Nat
      BY DEF TypeOK, Records
    <2>1. TypeOK'
      BY <1>3, <2>0, LockType DEF Confirm, At, NoFault, Fault, TypeOK, RecordsOK,
         StagesOK, Stages, Causes
    <2>2. RecordsOK'
      BY <1>3, <2>0, LockType DEF Confirm, At, NoFault, Fault, TypeOK, RecordsOK,
         StagesOK, Stages, Causes
    <2>3. StagesOK'
      BY <1>3, <2>0, LockType DEF Confirm, At, NoFault, Fault, TypeOK, RecordsOK,
         StagesOK, Stages, Causes
    <2> QED
      BY <2>1, <2>2, <2>3
  <1>4. CASE Revert
    <2>0. trial.id \in Nat
      BY DEF TypeOK, Records
    <2>1. TypeOK'
      BY <1>4, <2>0, LockType DEF Revert, At, NoFault, Fault, TypeOK, RecordsOK,
         StagesOK, Stages, Causes
    <2>2. RecordsOK'
      BY <1>4, <2>0, LockType DEF Revert, At, NoFault, Fault, TypeOK, RecordsOK,
         StagesOK, Stages, Causes
    <2>3. StagesOK'
      BY <1>4, <2>0, LockType DEF Revert, At, NoFault, Fault, TypeOK, RecordsOK,
         StagesOK, Stages, Causes
    <2> QED
      BY <2>1, <2>2, <2>3
  <1>5. CASE Tick
    <2>1. TypeOK'
      BY <1>5, LockType DEF Tick, At, NoFault, Fault, TypeOK, RecordsOK,
         StagesOK, Stages, Causes
    <2>2. RecordsOK'
      BY <1>5, LockType DEF Tick, At, NoFault, Fault, TypeOK, RecordsOK,
         StagesOK, Stages, Causes
    <2>3. StagesOK'
      BY <1>5, LockType DEF Tick, At, NoFault, Fault, TypeOK, RecordsOK,
         StagesOK, Stages, Causes
    <2> QED
      BY <2>1, <2>2, <2>3
  <1>6. CASE Protect
    <2>1. TypeOK'
      BY <1>6, GoType DEF Protect, At, NoFault, Fault, Continues, TypeOK, RecordsOK,
         StagesOK, Stages, Causes
    <2>2. RecordsOK'
      BY <1>6, GoType DEF Protect, At, NoFault, Fault, Continues, TypeOK, RecordsOK,
         StagesOK, Stages, Causes
    <2>3. StagesOK'
      BY <1>6, GoType DEF Protect, At, NoFault, Fault, Continues, TypeOK, RecordsOK,
         StagesOK, Stages, Causes
    <2> QED
      BY <2>1, <2>2, <2>3
  <1>7. CASE Begin
    <2> DEFINE r == Record(ids + 1, "pending", store.vis, NoDoc, FALSE)
    <2>1. CASE /\ trial.state = "idle" /\ journal' = Renamed(journal, r)
               /\ ids' = ids + 1 /\ tried' = {} /\ Go("beginSync") /\ NoFault
      <3>1. /\ r \in Records /\ r.id # 0 /\ r.state = "pending"
            /\ r.before \in Docs
        BY BegunType, FileType DEF TypeOK
      <3>2. /\ journal' \in Files(Records) /\ journal'.vis = r
            /\ journal'.may = journal.may \cup {r}
        BY <2>1, <3>1, JournalRenamed DEF TypeOK
      <3>3. /\ op' \in Holders /\ op'.stage = "beginSync"
            /\ op'.cause = op.cause /\ op'.doc = op.doc
        BY <2>1, GoType DEF TypeOK, Stages
      <3> HIDE DEF r
      <3>4. TypeOK'
        BY <1>7, <2>1, <3>2, <3>3 DEF Begin, NoFault, TypeOK
      <3>5. RecordsOK'
        BY <1>7, <2>1, <3>1, <3>2, <3>3 DEF Begin, At, RecordsOK
      <3>6. StagesOK'
        BY <1>7, <2>1, <3>1, <3>2, <3>3 DEF Begin, At, StagesOK
      <3> QED
        BY <3>4, <3>5, <3>6
    <2>2. CASE Release /\ UNCHANGED <<journal, ids, tried>>
      <3>1. budget' \in Nat
        BY <1>7, FaultType DEF Begin, NoFault, TypeOK
      <3>2. TypeOK'
        BY <1>7, <2>2, <3>1, ReleaseType DEF Begin, TypeOK
      <3>3. RecordsOK'
        BY <1>7, <2>2, ReleaseType DEF Begin, At, RecordsOK
      <3>4. StagesOK'
        BY <1>7, <2>2, ReleaseType DEF Begin, StagesOK
      <3> QED
        BY <3>2, <3>3, <3>4
    <2> QED
      BY <1>7, <2>1, <2>2 DEF Begin
  <1>8. CASE BeginSync
    <2>1. TypeOK'
      BY <1>8, GoType, ReleaseType, JournalSynced, FileType DEF BeginSync, At, NoFault, Fault, TypeOK, RecordsOK,
         StagesOK, Stages, Causes
    <2>2. RecordsOK'
      BY <1>8, GoType, ReleaseType, JournalSynced, FileType DEF BeginSync, At, NoFault, Fault, TypeOK, RecordsOK,
         StagesOK, Stages, Causes
    <2>3. StagesOK'
      BY <1>8, GoType, ReleaseType, JournalSynced, FileType DEF BeginSync, At, NoFault, Fault, TypeOK, RecordsOK,
         StagesOK, Stages, Causes
    <2> QED
      BY <2>1, <2>2, <2>3
  <1>9. CASE Save
    <2>0. ASSUME op' = [op EXCEPT !.stage = "saveSync", !.prev = store.vis]
          PROVE  /\ op' \in Holders /\ op'.stage = "saveSync"
                 /\ op'.cause = op.cause /\ op'.doc = op.doc
      BY <2>0, FileType DEF TypeOK, Holders, Stages
    <2>1. TypeOK'
      BY <1>9, <2>0, GoType, ReleaseType, StoreRenamed DEF Save, At, NoFault, Fault, AfterFailure, Outside, TypeOK, RecordsOK,
         StagesOK, Stages, Causes
    <2>2. RecordsOK'
      BY <1>9, <2>0, GoType, ReleaseType, StoreRenamed DEF Save, At, NoFault, Fault, AfterFailure, Outside, TypeOK, RecordsOK,
         StagesOK, Stages, Causes
    <2>3. StagesOK'
      BY <1>9, <2>0, GoType, ReleaseType, StoreRenamed DEF Save, At, NoFault, Fault, AfterFailure, Outside, TypeOK, RecordsOK,
         StagesOK, Stages, Causes
    <2> QED
      BY <2>1, <2>2, <2>3
  <1>10. CASE SaveSync
    <2>1. TypeOK'
      BY <1>10, GoType, ReleaseType, StoreSynced, FileType DEF SaveSync, At, NoFault, Fault, AfterFailure, Outside, TypeOK, RecordsOK,
         StagesOK, Stages, Causes
    <2>2. RecordsOK'
      BY <1>10, GoType, ReleaseType, StoreSynced, FileType DEF SaveSync, At, NoFault, Fault, AfterFailure, Outside, TypeOK, RecordsOK,
         StagesOK, Stages, Causes
    <2>3. StagesOK'
      BY <1>10, GoType, ReleaseType, StoreSynced, FileType DEF SaveSync, At, NoFault, Fault, AfterFailure, Outside, TypeOK, RecordsOK,
         StagesOK, Stages, Causes
    <2> QED
      BY <2>1, <2>2, <2>3
  <1>11. CASE Program
    <2>1. TypeOK'
      BY <1>11, GoType, ReleaseType DEF Program, At, NoFault, Fault, AfterFailure, Programmed, PartlyProgrammed, TypeOK, RecordsOK,
         StagesOK, Stages, Causes
    <2>2. RecordsOK'
      BY <1>11, GoType, ReleaseType DEF Program, At, NoFault, Fault, AfterFailure, Programmed, PartlyProgrammed, TypeOK, RecordsOK,
         StagesOK, Stages, Causes
    <2>3. StagesOK'
      BY <1>11, GoType, ReleaseType DEF Program, At, NoFault, Fault, AfterFailure, Programmed, PartlyProgrammed, TypeOK, RecordsOK,
         StagesOK, Stages, Causes
    <2> QED
      BY <2>1, <2>2, <2>3
  <1>12. CASE MarkRecovering
    <2>1. TypeOK'
      BY <1>12, GoType, ReleaseType, JournalRenamed, MarkedType DEF MarkRecovering, At, NoFault, Fault, TypeOK, RecordsOK,
         StagesOK, Stages, Causes
    <2>2. RecordsOK'
      BY <1>12, GoType, ReleaseType, JournalRenamed, MarkedType DEF MarkRecovering, At, NoFault, Fault, TypeOK, RecordsOK,
         StagesOK, Stages, Causes
    <2>3. StagesOK'
      BY <1>12, GoType, ReleaseType, JournalRenamed, MarkedType DEF MarkRecovering, At, NoFault, Fault, TypeOK, RecordsOK,
         StagesOK, Stages, Causes
    <2> QED
      BY <2>1, <2>2, <2>3
  <1>13. CASE MarkSync
    <2>1. TypeOK'
      BY <1>13, GoType, ReleaseType, JournalSynced, MarkedType DEF MarkSync, At, NoFault, Fault, TypeOK, RecordsOK,
         StagesOK, Stages, Causes
    <2>2. RecordsOK'
      BY <1>13, GoType, ReleaseType, JournalSynced, MarkedType DEF MarkSync, At, NoFault, Fault, TypeOK, RecordsOK,
         StagesOK, Stages, Causes
    <2>3. StagesOK'
      BY <1>13, GoType, ReleaseType, JournalSynced, MarkedType DEF MarkSync, At, NoFault, Fault, TypeOK, RecordsOK,
         StagesOK, Stages, Causes
    <2> QED
      BY <2>1, <2>2, <2>3
  <1>14. CASE PutBack
    <2>1. TypeOK'
      BY <1>14, GoType, StoreRenamed DEF PutBack, At, NoFault, Fault, TypeOK, RecordsOK,
         StagesOK, Stages, Causes
    <2>2. RecordsOK'
      BY <1>14, GoType, StoreRenamed DEF PutBack, At, NoFault, Fault, TypeOK, RecordsOK,
         StagesOK, Stages, Causes
    <2>3. StagesOK'
      BY <1>14, GoType, StoreRenamed DEF PutBack, At, NoFault, Fault, TypeOK, RecordsOK,
         StagesOK, Stages, Causes
    <2> QED
      BY <2>1, <2>2, <2>3
  <1>15. CASE PutBackSync
    <2>1. TypeOK'
      BY <1>15, GoType, StoreSynced DEF PutBackSync, At, NoFault, Fault, TypeOK, RecordsOK,
         StagesOK, Stages, Causes
    <2>2. RecordsOK'
      BY <1>15, GoType, StoreSynced DEF PutBackSync, At, NoFault, Fault, TypeOK, RecordsOK,
         StagesOK, Stages, Causes
    <2>3. StagesOK'
      BY <1>15, GoType, StoreSynced DEF PutBackSync, At, NoFault, Fault, TypeOK, RecordsOK,
         StagesOK, Stages, Causes
    <2> QED
      BY <2>1, <2>2, <2>3
  <1>16. CASE Repair
    <2>1. TypeOK'
      BY <1>16, GoType DEF Repair, At, NoFault, Fault, Programmed, PartlyProgrammed, TypeOK, RecordsOK,
         StagesOK, Stages, Causes
    <2>2. RecordsOK'
      BY <1>16, GoType DEF Repair, At, NoFault, Fault, Programmed, PartlyProgrammed, TypeOK, RecordsOK,
         StagesOK, Stages, Causes
    <2>3. StagesOK'
      BY <1>16, GoType DEF Repair, At, NoFault, Fault, Programmed, PartlyProgrammed, TypeOK, RecordsOK,
         StagesOK, Stages, Causes
    <2> QED
      BY <2>1, <2>2, <2>3
  <1>17. CASE Fail
    <2>1. TypeOK'
      BY <1>17, GoType, ReleaseType, JournalRenamed, FailedType DEF Fail, At, NoFault, Fault, TypeOK, RecordsOK,
         StagesOK, Stages, Causes
    <2>2. RecordsOK'
      BY <1>17, GoType, ReleaseType, JournalRenamed, FailedType DEF Fail, At, NoFault, Fault, TypeOK, RecordsOK,
         StagesOK, Stages, Causes
    <2>3. StagesOK'
      BY <1>17, GoType, ReleaseType, JournalRenamed, FailedType DEF Fail, At, NoFault, Fault, TypeOK, RecordsOK,
         StagesOK, Stages, Causes
    <2> QED
      BY <2>1, <2>2, <2>3
  <1>18. CASE FailSync
    <2>1. TypeOK'
      BY <1>18, ReleaseType, JournalSynced DEF FailSync, At, NoFault, Fault, TypeOK, RecordsOK,
         StagesOK, Stages, Causes
    <2>2. RecordsOK'
      BY <1>18, ReleaseType, JournalSynced DEF FailSync, At, NoFault, Fault, TypeOK, RecordsOK,
         StagesOK, Stages, Causes
    <2>3. StagesOK'
      BY <1>18, ReleaseType, JournalSynced DEF FailSync, At, NoFault, Fault, TypeOK, RecordsOK,
         StagesOK, Stages, Causes
    <2> QED
      BY <2>1, <2>2, <2>3
  <1>19. CASE Remove
    <2>1. TypeOK'
      BY <1>19, GoType, ReleaseType, JournalRenamed, IdleType, FileType DEF Remove, At, NoFault, Fault, TypeOK, RecordsOK,
         StagesOK, Stages, Causes
    <2>2. RecordsOK'
      BY <1>19, GoType, ReleaseType, JournalRenamed, IdleType, FileType DEF Remove, At, NoFault, Fault, TypeOK, RecordsOK,
         StagesOK, Stages, Causes
    <2>3. StagesOK'
      BY <1>19, GoType, ReleaseType, JournalRenamed, IdleType, FileType DEF Remove, At, NoFault, Fault, TypeOK, RecordsOK,
         StagesOK, Stages, Causes
    <2> QED
      BY <2>1, <2>2, <2>3
  <1>20. CASE RemoveSync
    <2>1. TypeOK'
      BY <1>20, ReleaseType, JournalSynced, IdleType, FileType DEF RemoveSync, At, NoFault, Fault, TypeOK, RecordsOK,
         StagesOK, Stages, Causes
    <2>2. RecordsOK'
      BY <1>20, ReleaseType, JournalSynced, IdleType, FileType DEF RemoveSync, At, NoFault, Fault, TypeOK, RecordsOK,
         StagesOK, Stages, Causes
    <2>3. StagesOK'
      BY <1>20, ReleaseType, JournalSynced, IdleType, FileType DEF RemoveSync, At, NoFault, Fault, TypeOK, RecordsOK,
         StagesOK, Stages, Causes
    <2> QED
      BY <2>1, <2>2, <2>3
  <1>21. CASE Reconcile
    <2>1. TypeOK'
      BY <1>21, FileType DEF Reconcile, At, NoFault, Fault, TypeOK, RecordsOK,
         StagesOK, Stages, Causes
    <2>2. RecordsOK'
      BY <1>21, FileType DEF Reconcile, At, NoFault, Fault, TypeOK, RecordsOK,
         StagesOK, Stages, Causes
    <2>3. StagesOK'
      BY <1>21, FileType DEF Reconcile, At, NoFault, Fault, TypeOK, RecordsOK,
         StagesOK, Stages, Causes
    <2> QED
      BY <2>1, <2>2, <2>3
  <1>22. CASE DeadlinePasses
    <2>1. /\ journal' \in Files(Records)
          /\ journal'.vis = PastDue(journal.vis)
          /\ journal'.may = {PastDue(j) : j \in journal.may}
      BY <1>22, PastDueType, FileType DEF DeadlinePasses, TypeOK, Files
    <2>2. /\ trial' \in Records
          /\ trial'.id = trial.id /\ trial'.state = trial.state
          /\ trial'.before = trial.before
      BY <1>22, PastDueType DEF DeadlinePasses, TypeOK
    <2>3. TypeOK'
      BY <1>22, <2>1, <2>2 DEF DeadlinePasses, TypeOK
    <2>4. RecordsOK'
      BY <1>22, <2>1, <2>2, PastDueType, FileType
         DEF DeadlinePasses, TypeOK, RecordsOK
    <2>5. StagesOK'
      BY <1>22, <2>1, <2>2, PastDueType, FileType
         DEF DeadlinePasses, TypeOK, StagesOK
    <2> QED
      BY <2>3, <2>4, <2>5
  <1>23. CASE Crash
    <2>1. TypeOK'
      BY <1>23, FreeType, IdleType, FaultType DEF Crash, Stopped, TypeOK
    <2>2. RecordsOK'
      BY <1>23, FreeType, IdleType DEF Crash, Stopped, RecordsOK
    <2>3. StagesOK'
      BY <1>23, FreeType DEF Crash, Stopped, StagesOK
    <2> QED
      BY <2>1, <2>2, <2>3
  <1>24. CASE PowerLoss
    <2>1. PICK s \in store.may, j \in journal.may :
            store' = File(s) /\ journal' = File(j)
      BY <1>24 DEF PowerLoss
    <2>2. s \in Docs /\ j \in Records
      BY FileType DEF TypeOK
    <2>3. /\ store' \in Files(Docs) /\ store'.vis \in store'.may
          /\ journal' \in Files(Records) /\ journal'.vis \in journal'.may
          /\ journal'.may = {j}
      BY <2>1, <2>2, DurableType
    <2>4. TypeOK'
      BY <1>24, <2>3, FreeType, IdleType, FaultType DEF PowerLoss, Stopped, TypeOK
    <2>5. RecordsOK'
      BY <1>24, <2>3, FreeType, IdleType DEF PowerLoss, Stopped, RecordsOK
    <2>6. StagesOK'
      BY <1>24, FreeType DEF PowerLoss, Stopped, StagesOK
    <2> QED
      BY <2>4, <2>5, <2>6
  <1>25. CASE Boot
    <2>1. /\ store' \in Files(Docs) /\ store'.vis \in store'.may
          /\ journal' \in Files(Records) /\ journal'.vis \in journal'.may
          /\ journal'.may = {journal.vis}
      BY <1>25, StoreSynced, JournalSynced DEF Boot, TypeOK
    <2>2. journal.vis \in Records /\ journal.vis \in journal.may
      BY FileType DEF TypeOK
    <2>3. CASE journal.vis.state = "idle" /\ NoFault
               /\ UNCHANGED <<trial, op>>
      <3>1. TypeOK' BY <1>25, <2>1, <2>3 DEF Boot, NoFault, TypeOK
      <3>2. RecordsOK' BY <1>25, <2>1, <2>2, <2>3 DEF Boot, RecordsOK
      <3>3. StagesOK' BY <1>25, <2>3 DEF Boot, RecordsOK, StagesOK
      <3> QED BY <3>1, <3>2, <3>3
    <2>4. CASE /\ journal.vis.state # "idle" /\ NoFault
               /\ trial' \in {journal.vis, PastDue(journal.vis)}
               /\ op' = Holder("revert", "boot", NoDoc, NoDoc, 0)
             <3>1. /\ trial' \in Records
            /\ trial'.id = journal.vis.id /\ trial'.state = journal.vis.state
            /\ trial'.before = journal.vis.before
        BY <2>2, <2>4, PastDueType
      <3>2. op' \in Holders /\ op'.stage = "revert" /\ op'.cause = "boot"
        BY <2>4 DEF Holder, Holders, Stages, Causes
      <3>3. journal.vis.id \in Nat
        BY <2>2 DEF Records
      <3>4. TypeOK' BY <1>25, <2>1, <2>4, <3>1, <3>2, <3>3 DEF Boot, NoFault, TypeOK
      <3>5. RecordsOK' BY <1>25, <2>1, <2>2, <2>4, <3>1 DEF Boot, RecordsOK
      <3>6. StagesOK' BY <1>25, <2>2, <2>4, <3>1, <3>2 DEF RecordsOK, StagesOK
      <3> QED BY <3>4, <3>5, <3>6
    <2>5. CASE /\ Fault("read")
               /\ trial' = Record(0, "failed", NoDoc, NoDoc, FALSE)
               /\ UNCHANGED op
      <3>1. trial' \in Records /\ trial'.id = 0 /\ trial'.state = "failed"
        BY <2>5 DEF Record, Records, States
      <3>2. TypeOK' BY <1>25, <2>1, <2>5, <3>1, FaultType DEF Boot, TypeOK
      <3>3. RecordsOK' BY <1>25, <2>1, <2>2, <3>1 DEF Boot, RecordsOK
      <3>4. StagesOK' BY <1>25, <2>5, <3>1 DEF Boot, RecordsOK, StagesOK
      <3> QED BY <3>2, <3>3, <3>4
    <2> QED
      BY <1>25, <2>3, <2>4, <2>5 DEF Boot
  <1> QED
    BY <1>0, <1>1, <1>2, <1>3, <1>4, <1>5, <1>6, <1>7, <1>8, <1>9, <1>10, <1>11, <1>12,
       <1>13, <1>14, <1>15, <1>16, <1>17, <1>18, <1>19, <1>20, <1>21, <1>22, <1>23, <1>24, <1>25
       DEF Next, Step

\* TypeOK holds in every reachable state, whatever faults occur: the state of
\* the lock holder, the trial record and both files keep their shape through
\* every handler, crash and power loss.
THEOREM TypeCorrect == Spec => []TypeOK
  <1>1. Shape => TypeOK
    BY DEF Shape
  <1> QED
    BY <1>1, InitShape, NextShape, PTL DEF Spec

-----------------------------------------------------------------------------
(* The operator's configuration. *)

\* The two directory syncs whose failure the code does not recover from: the
\* one that makes the journal of a new trial durable, and the one that makes
\* its removal on confirmation durable.
DurableSyncs == Faults \cap {"beginDirsync", "confirmDirsync"} = {}

\* AcceptedOK and well-formed records make every restart an accepted one.
LEMMA AcceptedRestartable == Shape /\ AcceptedOK => Restartable
  BY DEF AcceptedOK, Restartable, AfterRestart

\* A freshly installed router holds the document it was installed with.
LEMMA InitAccepted == Init => AcceptedOK
  <1> SUFFICES ASSUME Init PROVE AcceptedOK
    OBVIOUS
  <1>1. journal.may = {Idle} /\ store.may = {InitDoc}
    BY DurableType, IdleType DEF Init
  <1> QED
    BY <1>1, IdleType, FreeType DEF Init, AcceptedOK

\* AcceptedOK survives every step of a well-formed state.
LEMMA NextAccepted ==
  ASSUME DurableSyncs, Shape, Shape', AcceptedOK, [Next]_vars
  PROVE  AcceptedOK'
  <1> USE DEF Shape
  <1>0. CASE UNCHANGED vars
    BY <1>0 DEF vars, AcceptedOK
  <1>1. CASE Edit
    BY <1>1, LockType
       DEF Edit, At, MutationGuard, Stages, Causes, TypeOK, StagesOK, AcceptedOK
  <1>2. CASE Restore
    BY <1>2, LockType
       DEF Restore, At, Stages, Causes, TypeOK, StagesOK, AcceptedOK
  <1>3. CASE Confirm
    BY <1>3, LockType
       DEF Confirm, At, Stages, Causes, Records, TypeOK, StagesOK, AcceptedOK
  <1>4. CASE Revert
    BY <1>4, LockType
       DEF Revert, At, Stages, Causes, Records, TypeOK, StagesOK, AcceptedOK
  <1>5. CASE Tick
    BY <1>5, LockType
       DEF Tick, At, Stages, Causes, TypeOK, StagesOK, AcceptedOK
  <1>6. CASE Protect
    BY <1>6, GoType
       DEF Protect, At, Stages, TypeOK, StagesOK, AcceptedOK
  <1>7. CASE Begin
    <2> DEFINE r == Record(ids + 1, "pending", store.vis, NoDoc, FALSE)
    <2>1. CASE trial.state = "idle" /\ journal' = Renamed(journal, r)
               /\ Go("beginSync")
      <3>1. r \in Records /\ r.state = "pending" /\ r.before = store.vis
        BY BegunType
      <3>2. journal'.may = journal.may \cup {r}
        BY <2>1, <3>1, JournalRenamed DEF TypeOK
      <3>3. store.vis \in accepted
        BY <1>7, <2>1 DEF Begin, At, TypeOK, AcceptedOK
      <3>4. op'.stage = "beginSync"
        BY <2>1, GoType DEF TypeOK, Stages
      <3> HIDE DEF r
      <3> QED
        BY <1>7, <2>1, <3>1, <3>2, <3>3, <3>4
           DEF Begin, At, RecordsOK, AcceptedOK
    <2>2. CASE Release /\ UNCHANGED journal
      BY <1>7, <2>2, ReleaseType DEF Begin, At, AcceptedOK
    <2> QED
      BY <1>7, <2>1, <2>2 DEF Begin
  <1>8. CASE BeginSync
    BY <1>8, GoType, ReleaseType, JournalSynced
       DEF BeginSync, At, Fault, DurableSyncs, Stages, RecordsOK, TypeOK, StagesOK, AcceptedOK
  <1>9. CASE Save
    BY <1>9, GoType, ReleaseType, StoreRenamed, FileType
       DEF Save, At, AfterFailure, Outside, Stages, Holders, TypeOK, StagesOK, AcceptedOK
  <1>10. CASE SaveSync
    BY <1>10, GoType, ReleaseType, StoreSynced
       DEF SaveSync, At, AfterFailure, Outside, Stages, RecordsOK, TypeOK, StagesOK, AcceptedOK
  <1>11. CASE Program
    BY <1>11, GoType, ReleaseType
       DEF Program, At, AfterFailure, Stages, TypeOK, StagesOK, AcceptedOK
  <1>12. CASE MarkRecovering
    <2>1. CASE journal' = Renamed(journal, Marked) /\ Go("markSync")
      <3>1. /\ Marked \in Records /\ Marked.state = "recovering"
            /\ Marked.before = trial.before
        BY MarkedType
      <3>2. journal'.may = journal.may \cup {Marked}
        BY <2>1, <3>1, JournalRenamed DEF TypeOK
      <3>3. op'.stage = "markSync"
        BY <2>1, GoType DEF TypeOK, Stages
      <3> QED
        BY <1>12, <2>1, <3>1, <3>2, <3>3
           DEF MarkRecovering, At, RecordsOK, StagesOK, AcceptedOK
    <2>2. CASE Release /\ UNCHANGED journal
      BY <1>12, <2>2, ReleaseType
         DEF MarkRecovering, At, RecordsOK, StagesOK, AcceptedOK
    <2> QED
      BY <1>12, <2>1, <2>2 DEF MarkRecovering
  <1>13. CASE MarkSync
    BY <1>13, GoType, ReleaseType, JournalSynced, MarkedType
       DEF MarkSync, At, Stages, TypeOK, StagesOK, AcceptedOK
  <1>14. CASE PutBack
    BY <1>14, GoType, StoreRenamed
       DEF PutBack, At, Stages, RecordsOK, TypeOK, StagesOK, AcceptedOK
  <1>15. CASE PutBackSync
    BY <1>15, GoType, StoreSynced
       DEF PutBackSync, At, Stages, TypeOK, StagesOK, AcceptedOK
  <1>16. CASE Repair
    BY <1>16, GoType
       DEF Repair, At, Stages, TypeOK, StagesOK, AcceptedOK
  <1>17. CASE Fail
    BY <1>17, GoType, ReleaseType, JournalRenamed, FailedType
       DEF Fail, At, Stages, RecordsOK, TypeOK, StagesOK, AcceptedOK
  <1>18. CASE FailSync
    BY <1>18, ReleaseType, JournalSynced
       DEF FailSync, At, RecordsOK, TypeOK, StagesOK, AcceptedOK
  <1>19. CASE Remove
    BY <1>19, GoType, ReleaseType, JournalRenamed, IdleType
       DEF Remove, At, Stages, RecordsOK, TypeOK, StagesOK, AcceptedOK
  <1>20. CASE RemoveSync
    BY <1>20, ReleaseType, JournalSynced, IdleType
       DEF RemoveSync, At, Fault, DurableSyncs, RecordsOK, TypeOK, StagesOK, AcceptedOK
  <1>21. CASE Reconcile
    BY <1>21, FileType
       DEF Reconcile, At, TypeOK, StagesOK, AcceptedOK
  <1>22. CASE DeadlinePasses
    BY <1>22, PastDueType, FileType
       DEF DeadlinePasses, At, Files, TypeOK, StagesOK, AcceptedOK
  <1>23. CASE Crash
    BY <1>23, FreeType, IdleType
       DEF Crash, At, Stopped, TypeOK, StagesOK, AcceptedOK
  <1>24. CASE PowerLoss
    BY <1>24, FreeType, IdleType, DurableType, FileType
       DEF PowerLoss, At, Stopped, TypeOK, StagesOK, AcceptedOK
  <1>25. CASE Boot
    BY <1>25, StoreSynced, JournalSynced, PastDueType, FileType
       DEF Boot, At, RecordsOK, Record, Holder, TypeOK, StagesOK, AcceptedOK
  <1> QED
    BY <1>0, <1>1, <1>2, <1>3, <1>4, <1>5, <1>6, <1>7, <1>8, <1>9, <1>10, <1>11, <1>12,
       <1>13, <1>14, <1>15, <1>16, <1>17, <1>18, <1>19, <1>20, <1>21, <1>22, <1>23, <1>24, <1>25
       DEF Next, Step

\* Whatever instant the daemon is killed or the power fails, the router comes
\* back with a configuration its operator accepted, for any documents and any
\* number of trials, crashes and failures other than the two in DurableSyncs.
THEOREM RestartSafe ==
  ASSUME DurableSyncs
  PROVE  Spec => []Restartable
  <1>1. Init => Shape /\ AcceptedOK
    BY InitShape, InitAccepted
  <1>2. Shape /\ AcceptedOK /\ [Next]_vars => (Shape /\ AcceptedOK)'
    BY NextShape, NextAccepted
  <1>3. Shape /\ AcceptedOK => Restartable
    BY AcceptedRestartable
  <1> QED
    BY <1>1, <1>2, <1>3, PTL DEF Spec

\* Memory, journal and store stay consistent with one another and with the
\* lock holder: a journalled trial names an accepted document to come back to,
\* where the journal may be absent the stored document is an accepted one, a
\* trial open in memory has its journal on disk, and a running daemon without
\* a trial has none, however often it failed, crashed or restarted before.
THEOREM RecordsAgree ==
  ASSUME DurableSyncs
  PROVE  Spec => []TrialConsistent
  <1>1. Init => Shape /\ AcceptedOK
    BY InitShape, InitAccepted
  <1>2. Shape /\ AcceptedOK /\ [Next]_vars => (Shape /\ AcceptedOK)'
    BY NextShape, NextAccepted
  <1>3. Shape /\ AcceptedOK => TrialConsistent
    BY DEF Shape, TrialConsistent
  <1> QED
    BY <1>1, <1>2, <1>3, PTL DEF Spec

(***************************************************************************)
(* What a trial promises: that Recovery implements TrialContract, and that *)
(* a recovery that completes retires the trial.  Both rest on Shape and    *)
(* AcceptedOK and on an invariant of their own, ContractOK and RetiresOK.  *)
(***************************************************************************)
\* Besides those of DurableSyncs: the sync that makes an edit durable.
DurableEdits == DurableSyncs /\ "saveDirsync" \notin Faults

\* And the sync that makes the decision to recover durable.  When it fails the
\* trial is still open in memory and already being undone on disk, with the
\* document stored at that moment as the one to retire; an edit made within
\* the trial after that is not retired if the daemon then dies.
DurableMarks == DurableEdits /\ "markDirsync" \notin Faults

Consistent == Shape /\ AcceptedOK

\* Memory, journal and store are consistent in every reachable state.
LEMMA SpecConsistent ==
  ASSUME DurableEdits
  PROVE  Spec => []Consistent
  <1>1. Init => Consistent
    BY InitShape, InitAccepted DEF Consistent
  <1>2. Consistent /\ [Next]_vars => Consistent'
    BY NextShape, NextAccepted DEF Consistent, DurableEdits
  <1> QED
    BY <1>1, <1>2, PTL DEF Spec

\* Requests that take the lock, the first step of a disruptive edit, and the
\* loops that reconcile leave the files and the trial alone.
LEMMA Quiet ==
  ASSUME TypeOK, Edit \/ Restore \/ Confirm \/ Revert \/ Tick \/ Protect \/ Reconcile
  PROVE  /\ UNCHANGED <<store, journal, trial, up, tried>>
         /\ op.stage \in {"free", "protect"}
         /\ op'.stage \notin {"beginSync", "saveSync", "program", "markSync", "removeSync"}
         /\ op'.stage = "remove" => op'.cause = "confirm"
  <1>0. trial.id \in Nat
    BY DEF TypeOK, Records
  <1>1. CASE Edit
    BY <1>1, LockType DEF Edit, Stages, Causes, TypeOK
  <1>2. CASE Restore
    BY <1>2, LockType DEF Restore, Stages, Causes, TypeOK
  <1>3. CASE Confirm
    BY <1>0, <1>3, LockType DEF Confirm, Stages, Causes
  <1>4. CASE Revert
    BY <1>0, <1>4, LockType DEF Revert, Stages, Causes
  <1>5. CASE Tick
    BY <1>5, LockType DEF Tick, Stages, Causes
  <1>6. CASE Protect
    BY <1>6, GoType DEF Protect, At, Stages, TypeOK
  <1>7. CASE Reconcile
    BY <1>7 DEF Reconcile, At
  <1> QED
    BY <1>1, <1>2, <1>3, <1>4, <1>5, <1>6, <1>7

-----------------------------------------------------------------------------
(* Recovery implements the contract. *)

\* A freshly installed router satisfies ContractOK.
LEMMA InitContract == Init => ContractOK
  <1> SUFFICES ASSUME Init PROVE ContractOK
    OBVIOUS
  <1>1. journal.may = {Idle} /\ store.may = {store.vis}
    BY DurableType, IdleType DEF Init
  <1>2. Idle.before = NoDoc
    BY DEF Idle, Record
  <1> QED
    BY <1>1, <1>2, IdleType, FreeType DEF Init, ContractOK

\* ContractOK survives every step of a consistent state.
LEMMA NextContract ==
  ASSUME DurableEdits, Consistent, Consistent', ContractOK, [Next]_vars
  PROVE  ContractOK'
  <1> USE DEF Consistent, Shape
  <1>0. CASE UNCHANGED vars
    BY <1>0 DEF vars, ContractOK
  <1>1. CASE Edit \/ Restore \/ Confirm \/ Revert \/ Tick \/ Protect \/ Reconcile
    BY <1>1, Quiet DEF ContractOK
  <1>7. CASE Begin
    <2> DEFINE r == Record(ids + 1, "pending", store.vis, NoDoc, FALSE)
    <2>1. CASE trial.state = "idle" /\ journal' = Renamed(journal, r)
               /\ Go("beginSync")
      <3>1. r \in Records /\ r.state = "pending"
        BY BegunType
      <3>2. journal'.vis = r /\ journal'.may = journal.may \cup {r}
        BY <2>1, <3>1, JournalRenamed DEF TypeOK
      <3>3. op'.stage = "beginSync"
        BY <2>1, GoType DEF TypeOK, Stages
      <3> HIDE DEF r
      <3> QED
        BY <1>7, <2>1, <3>1, <3>2, <3>3
           DEF Begin, At, RecordsOK, AcceptedOK, ContractOK
    <2>2. CASE Release /\ UNCHANGED journal
      BY <1>7, <2>2, ReleaseType DEF Begin, At, ContractOK
    <2> QED
      BY <1>7, <2>1, <2>2 DEF Begin
  <1>8. CASE BeginSync
    BY <1>8, GoType, JournalSynced
       DEF BeginSync, At, Fault, DurableEdits, DurableSyncs, Stages, RecordsOK,
           TypeOK, StagesOK, ContractOK
  <1>9. CASE Save
    <2>1. CASE /\ store' = Renamed(store, op.doc)
               /\ op' = [op EXCEPT !.stage = "saveSync", !.prev = store.vis]
      <3>1. op'.stage = "saveSync"
        BY <2>1 DEF TypeOK, Holders
      <3>2. trial.state \in {"idle", "pending"}
        BY <1>9 DEF Save, At, StagesOK
      <3> QED
        BY <1>9, <3>1, <3>2 DEF Save, ContractOK
    <2>2. CASE AfterFailure /\ UNCHANGED store
      BY <1>9, <2>2, GoType, ReleaseType
         DEF Save, At, AfterFailure, TypeOK, Stages, ContractOK
    <2> QED
      BY <1>9, <2>1, <2>2 DEF Save
  <1>10. CASE SaveSync
    BY <1>10, GoType, StoreSynced
       DEF SaveSync, At, Fault, DurableEdits, Stages, TypeOK, StagesOK, ContractOK
  <1>11. CASE Program
    BY <1>11, GoType, ReleaseType
       DEF Program, At, AfterFailure, Stages, TypeOK, StagesOK, ContractOK
  <1>12. CASE MarkRecovering
    <2>1. CASE journal' = Renamed(journal, Marked) /\ Go("markSync")
      <3>1. /\ Marked \in Records /\ Marked.state = "recovering"
            /\ Marked.before = trial.before
        BY MarkedType
      <3>2. journal'.vis = Marked /\ journal'.may = journal.may \cup {Marked}
        BY <2>1, <3>1, JournalRenamed DEF TypeOK
      <3>3. op'.stage = "markSync"
        BY <2>1, GoType DEF TypeOK, Stages
      <3> QED
        BY <1>12, <2>1, <3>1, <3>2, <3>3
           DEF MarkRecovering, At, StagesOK, ContractOK
    <2>2. CASE Release /\ UNCHANGED journal
      BY <1>12, <2>2, ReleaseType DEF MarkRecovering, At, StagesOK, ContractOK
    <2> QED
      BY <1>12, <2>1, <2>2 DEF MarkRecovering
  <1>13. CASE MarkSync
    <2>1. CASE journal' = Synced(journal) /\ trial' = Marked /\ Go("putback")
      <3>1. /\ Marked.state = "recovering" /\ Marked.before = trial.before
            /\ Marked.id = trial.id
        BY MarkedType
      <3>2. op'.stage = "putback"
        BY <2>1, GoType DEF TypeOK, Stages
      <3>3. journal'.vis = journal.vis /\ journal'.may = {journal.vis}
            /\ journal.vis \in journal.may
        BY <2>1, JournalSynced DEF TypeOK
      <3> QED
        BY <1>13, <2>1, <3>1, <3>2, <3>3
           DEF MarkSync, At, StagesOK, ContractOK, AcceptedOK
    <2>2. CASE Release /\ UNCHANGED <<journal, trial>>
      BY <1>13, <2>2, ReleaseType DEF MarkSync, At, StagesOK, ContractOK
    <2> QED
      BY <1>13, <2>1, <2>2 DEF MarkSync
  <1>14. CASE PutBack
    BY <1>14, GoType, StoreRenamed
       DEF PutBack, At, Stages, RecordsOK, TypeOK, StagesOK, ContractOK
  <1>15. CASE PutBackSync
    BY <1>15, GoType, StoreSynced
       DEF PutBackSync, At, Stages, RecordsOK, TypeOK, StagesOK, ContractOK
  <1>16. CASE Repair
    BY <1>16, GoType
       DEF Repair, At, Stages, TypeOK, StagesOK, ContractOK
  <1>17. CASE Fail
    BY <1>17, GoType, ReleaseType, JournalRenamed, FailedType
       DEF Fail, At, Stages, RecordsOK, TypeOK, StagesOK, ContractOK
  <1>18. CASE FailSync
    BY <1>18, ReleaseType, JournalSynced
       DEF FailSync, At, RecordsOK, TypeOK, StagesOK, ContractOK
  <1>19. CASE Remove
    BY <1>19, GoType, ReleaseType, JournalRenamed, IdleType
       DEF Remove, At, Stages, RecordsOK, TypeOK, StagesOK, ContractOK, Idle, Record
  <1>20. CASE RemoveSync
    BY <1>20, ReleaseType, JournalSynced, IdleType
       DEF RemoveSync, At, RecordsOK, TypeOK, StagesOK, ContractOK
  <1>22. CASE DeadlinePasses
    <2>1. /\ journal'.vis = PastDue(journal.vis)
          /\ journal'.may = {PastDue(j) : j \in journal.may}
      BY <1>22 DEF DeadlinePasses
    <2>2. /\ \A j \in journal.may : /\ PastDue(j).state = j.state
                                    /\ PastDue(j).before = j.before
          /\ journal.vis \in journal.may
      BY PastDueType, FileType DEF TypeOK
    <2>3. /\ trial'.id = trial.id /\ trial'.state = trial.state
          /\ trial'.before = trial.before
      BY <1>22, PastDueType DEF DeadlinePasses, TypeOK
    <2> QED
      BY <1>22, <2>1, <2>2, <2>3 DEF DeadlinePasses, StagesOK, RecordsOK, ContractOK
  <1>23. CASE Crash
    BY <1>23, FreeType, IdleType DEF Crash, Stopped, ContractOK
  <1>24. CASE PowerLoss
    <2>1. PICK s \in store.may, j \in journal.may :
            store' = File(s) /\ journal' = File(j)
      BY <1>24 DEF PowerLoss
    <2>2. journal'.may = {j}
      BY <2>1, DurableType, FileType DEF TypeOK
    <2> QED
      BY <1>24, <2>2, FreeType, IdleType DEF PowerLoss, Stopped, ContractOK
  <1>25. CASE Boot
    <2>1. /\ store'.may = {store'.vis} /\ journal'.vis = journal.vis
          /\ journal'.may = {journal.vis} /\ journal.vis \in journal.may
      BY <1>25, StoreSynced, JournalSynced DEF Boot, TypeOK
    <2>2. trial.state = "idle" /\ op.stage = "free" /\ trial.id = 0
      BY <1>25 DEF Boot, RecordsOK
    <2>3. CASE UNCHANGED <<trial, op>>
      BY <1>25, <2>1, <2>2, <2>3 DEF Boot, ContractOK
    <2>4. CASE /\ journal.vis.state # "idle"
               /\ trial' \in {journal.vis, PastDue(journal.vis)}
               /\ op' = Holder("revert", "boot", NoDoc, NoDoc, 0)
      <3>1. /\ trial'.state = journal.vis.state /\ trial'.id = journal.vis.id
            /\ trial'.before = journal.vis.before
        BY <2>4, PastDueType, FileType DEF TypeOK
      <3>2. journal.vis.id # 0 /\ op'.stage = "revert"
        BY <2>1, <2>4 DEF RecordsOK, Holder
      <3> QED
        BY <1>25, <2>1, <2>4, <3>1, <3>2 DEF Boot, ContractOK
    <2>5. CASE trial' = Record(0, "failed", NoDoc, NoDoc, FALSE) /\ UNCHANGED op
      BY <1>25, <2>1, <2>2, <2>5 DEF Boot, Record, ContractOK
    <2> QED
      BY <1>25, <2>3, <2>4, <2>5 DEF Boot
  <1> QED
    BY <1>0, <1>1, <1>7, <1>8, <1>9, <1>10, <1>11, <1>12, <1>13, <1>14, <1>15,
       <1>16, <1>17, <1>18, <1>19, <1>20, <1>22, <1>23, <1>24, <1>25
       DEF Next, Step

\* A freshly installed router is in the contract's initial state.
LEMMA InitImplements == Init => Contract!Init
  <1> SUFFICES ASSUME Init PROVE Contract!Init
    OBVIOUS
  <1>1. /\ store.vis = InitDoc /\ journal.vis = Idle /\ trial.id = 0
    BY DurableType, IdleType DEF Init
  <1>2. Idle.state = "idle" /\ Idle.before = NoDoc
    BY DEF Idle, Record
  <1>3. Current = Idle
    BY <1>1 DEF Current
  <1> QED
    BY <1>1, <1>2, <1>3 DEF Phase, Contract!Init

\* A step that leaves alone the stored document and what stands for the open
\* trial, its state and the document to come back to, is none of the contract's.
LEMMA Stutters ==
  ASSUME store'.vis = store.vis, Current'.before = Current.before,
         Current'.state = Current.state
  PROVE  UNCHANGED Contract!vars
  <1>1. Phase' = Phase
    BY DEF Phase
  <1> QED
    BY <1>1 DEF Contract!vars

\* Every step of a consistent state is a step of the contract or none.
LEMMA StepImplements ==
  ASSUME DurableEdits, Consistent, Consistent', ContractOK, ContractOK',
         [Next]_vars
  PROVE  [Contract!Next]_(Contract!vars)
  <1> USE DEF Consistent, Shape
  <1>0. CASE UNCHANGED <<store, journal, trial, up>>
    BY <1>0, Stutters DEF Current
  <1>1. CASE Edit \/ Restore \/ Confirm \/ Revert \/ Tick \/ Protect \/ Reconcile
    BY <1>0, <1>1, Quiet
  <1>7. CASE Begin
    <2> DEFINE r == Record(ids + 1, "pending", store.vis, NoDoc, FALSE)
    <2>1. CASE trial.state = "idle" /\ journal' = Renamed(journal, r)
      <3>1. r \in Records /\ r.state = "pending" /\ r.before = store.vis
        BY BegunType
      <3>2. journal'.vis = r
        BY <2>1, <3>1, JournalRenamed DEF TypeOK
      <3>3. journal.vis.state = "idle" /\ trial.id = 0
        BY <1>7, <2>1 DEF Begin, At, TypeOK, RecordsOK, AcceptedOK
      <3>4. Current = journal.vis /\ Current' = r
        BY <1>7, <3>2, <3>3 DEF Begin, Current
      <3> HIDE DEF r
      <3>5. Phase = "none" /\ Phase' = "open" /\ Current'.before = store.vis
        BY <3>1, <3>3, <3>4 DEF Phase
      <3>6. Contract!Open
        BY <1>7, <3>5 DEF Begin, Contract!Open
      <3> QED
        BY <3>6 DEF Contract!Next
    <2>2. CASE UNCHANGED journal
      BY <1>0, <1>7, <2>2 DEF Begin
    <2> QED
      BY <1>7, <2>1, <2>2 DEF Begin
  <1>8. CASE BeginSync
    <2>1. CASE journal' = Synced(journal) /\ trial' = journal.vis
      <3>1. Current = journal.vis /\ Current' = journal.vis
        BY <1>8, <2>1, JournalSynced DEF BeginSync, At, StagesOK, RecordsOK, TypeOK, Current
      <3> QED
        BY <1>8, <3>1, Stutters DEF BeginSync
    <2>2. CASE UNCHANGED <<journal, trial>>
      BY <1>0, <1>8, <2>2 DEF BeginSync
    <2> QED
      BY <1>8, <2>1, <2>2 DEF BeginSync
  <1>9. CASE Save
    <2>1. CASE store' = Renamed(store, op.doc)
      <3>1. store'.vis \in Docs
        BY FileType DEF TypeOK
      <3>2. Current' = Current /\ Current.state \in {"idle", "pending"}
        BY <1>9 DEF Save, At, StagesOK, RecordsOK, AcceptedOK, TypeOK, Current
      <3>3. Contract!Edit \/ Contract!Try
        BY <3>1, <3>2 DEF Phase, Contract!Edit, Contract!Try
      <3> QED
        BY <3>3 DEF Contract!Next
    <2>2. CASE UNCHANGED store
      BY <1>0, <1>9, <2>2 DEF Save
    <2> QED
      BY <1>9, <2>1, <2>2 DEF Save
  <1>10. CASE SaveSync \/ PutBackSync
    <2>1. store'.vis = store.vis /\ Current' = Current
      BY <1>10, StoreSynced DEF SaveSync, PutBackSync, TypeOK, Current
    <2> QED
      BY <2>1, Stutters
  <1>11. CASE Program \/ Repair
    BY <1>0, <1>11 DEF Program, Repair
  <1>12. CASE MarkRecovering \/ FailSync \/ Remove
    <2>1. up /\ trial.id # 0 /\ UNCHANGED <<trial, up, store>>
      BY <1>12 DEF MarkRecovering, FailSync, Remove, At, StagesOK, RecordsOK
    <2>2. Current' = Current
      BY <2>1 DEF Current
    <2> QED
      BY <2>1, <2>2, Stutters
  <1>13. CASE MarkSync
    <2>1. CASE trial' = Marked
      <3>1. /\ Marked.state = "recovering" /\ Marked.before = trial.before
            /\ Marked.id = trial.id
        BY MarkedType
      <3>2. Current = trial /\ Current' = Marked /\ Current.state # "idle"
        BY <1>13, <2>1, <3>1 DEF MarkSync, At, StagesOK, RecordsOK, Current
      <3>3. CASE trial.state = "pending"
        <4>1. Phase = "open" /\ Phase' = "doomed" /\ Current'.before = Current.before
          BY <3>1, <3>2, <3>3 DEF Phase
        <4>2. store' = store /\ store.vis \in Docs
          BY <1>13, FileType DEF MarkSync, TypeOK
        <4>3. Contract!Doom
          BY <4>1, <4>2 DEF Contract!Doom
        <4> QED
          BY <4>3 DEF Contract!Next
      <3>4. CASE trial.state # "pending"
        <4>1. Phase = "doomed" /\ Phase' = "doomed" /\ Current'.before = Current.before
          BY <3>1, <3>2, <3>4 DEF Phase
        <4> QED
          BY <1>13, <4>1 DEF MarkSync, Contract!vars
      <3> QED
        BY <3>3, <3>4
    <2>2. CASE UNCHANGED <<journal, trial>>
      BY <1>0, <1>13, <2>2 DEF MarkSync
    <2> QED
      BY <1>13, <2>1, <2>2 DEF MarkSync
  <1>14. CASE PutBack
    <2>1. CASE store' = Renamed(store, trial.before)
      <3>1. Current' = Current /\ Current = trial /\ trial.state = "recovering"
        BY <1>14 DEF PutBack, At, StagesOK, RecordsOK, Current
      <3>2. trial.before \in Docs
        BY <3>1 DEF RecordsOK
      <3>3. store'.vis = trial.before
        BY <2>1, <3>2, StoreRenamed DEF TypeOK
      <3>4. Contract!PutBack
        BY <3>1, <3>2, <3>3 DEF Phase, Contract!PutBack
      <3> QED
        BY <3>4 DEF Contract!Next
    <2>2. CASE UNCHANGED store
      BY <1>0, <1>14, <2>2 DEF PutBack
    <2> QED
      BY <1>14, <2>1, <2>2 DEF PutBack
  <1>17. CASE Fail
    <2>1. Failed.id = trial.id /\ Failed.state = "failed" /\ Failed.before = trial.before
      BY FailedType
    <2>2. Current = trial /\ Current' = Failed /\ trial.state = "recovering"
      BY <1>17, <2>1 DEF Fail, At, StagesOK, RecordsOK, Current
    <2>3. Phase = "doomed" /\ Phase' = "doomed" /\ Current'.before = Current.before
      BY <2>1, <2>2 DEF Phase
    <2> QED
      BY <1>17, <2>3 DEF Fail, Contract!vars
  <1>20. CASE RemoveSync
    <2>1. CASE journal' = Synced(journal) /\ trial' = Idle
      <3>1. journal'.vis = journal.vis /\ journal.vis \in journal.may
        BY <2>1, JournalSynced DEF TypeOK
      <3>2. Current'.state = "idle" /\ Current'.before = NoDoc
        BY <1>20, <2>1, <3>1, IdleType DEF RemoveSync, At, StagesOK, ContractOK, Current
      <3>3. Current = trial
        BY <1>20 DEF RemoveSync, At, StagesOK, RecordsOK, Current
      <3>4. CASE op.cause = "confirm"
        <4>1. Phase = "open" /\ Phase' = "none"
          BY <1>20, <3>2, <3>3, <3>4 DEF RemoveSync, At, StagesOK, Phase
        <4>2. Contract!Keep
          BY <1>20, <3>2, <4>1 DEF RemoveSync, Contract!Keep
        <4> QED
          BY <4>2 DEF Contract!Next
      <3>5. CASE op.cause # "confirm"
        <4>1. Phase = "doomed" /\ Phase' = "none" /\ store.vis = trial.before
          BY <1>20, <3>2, <3>3, <3>5 DEF RemoveSync, At, StagesOK, TypeOK, Phase
        <4>2. Contract!Undo
          BY <1>20, <3>2, <3>3, <4>1 DEF RemoveSync, Contract!Undo
        <4> QED
          BY <4>2 DEF Contract!Next
      <3> QED
        BY <3>4, <3>5
    <2>2. CASE UNCHANGED <<journal, trial>>
      BY <1>0, <1>20, <2>2 DEF RemoveSync
    <2> QED
      BY <1>20, <2>1, <2>2 DEF RemoveSync
  <1>22. CASE DeadlinePasses
    <2>1. /\ trial'.id = trial.id /\ trial'.state = trial.state
          /\ trial'.before = trial.before
      BY <1>22, PastDueType DEF DeadlinePasses, TypeOK
    <2>2. /\ journal'.vis.state = journal.vis.state
          /\ journal'.vis.before = journal.vis.before
      BY <1>22, PastDueType, FileType DEF DeadlinePasses, TypeOK
    <2>3. Current'.state = Current.state /\ Current'.before = Current.before
      BY <1>22, <2>1, <2>2 DEF DeadlinePasses, Current
    <2> QED
      BY <1>22, <2>3, Stutters DEF DeadlinePasses
  <1>23. CASE Crash \/ PowerLoss
    <2>1. PICK s \in store.may, j \in journal.may :
            store'.vis = s /\ journal'.vis = j /\ (s = store.vis \/ PowerLoss)
      <3>1. CASE Crash
        BY <3>1 DEF Crash, TypeOK
      <3>2. CASE PowerLoss
        BY <3>2, DurableType, FileType DEF PowerLoss, TypeOK
      <3> QED
        BY <1>23, <3>1, <3>2
    <2>2. s \in Docs /\ up /\ Current' = j
      BY <1>23, <2>1, FileType DEF Crash, PowerLoss, Stopped, TypeOK, Current
    <2>3. CASE trial.id # 0 /\ trial.state = "pending"
      <3>1. Phase = "open" /\ Current = trial
        BY <2>2, <2>3 DEF Current, Phase
      <3>2. CASE j.state = "idle"
        <4>1. op.stage = "removeSync"
          BY <2>3, <3>2 DEF AcceptedOK
        <4>2. store'.vis = store.vis
          BY <2>1, <2>2, <2>3, <4>1 DEF ContractOK
        <4>3. Phase' = "none" /\ Current'.before = NoDoc
          BY <2>2, <3>2 DEF Phase, ContractOK
        <4>4. Contract!Keep
          BY <3>1, <4>2, <4>3 DEF Contract!Keep
        <4> QED
          BY <4>4 DEF Contract!Next
      <3>3. CASE j.state # "idle"
        <4>1. Current'.before = Current.before
          BY <2>2, <2>3, <3>1, <3>3 DEF ContractOK
        <4>2. Phase' \in {"open", "doomed"}
          BY <2>2, <3>3 DEF Phase
        <4>3. Contract!Try \/ Contract!Doom
          BY <2>1, <2>2, <3>1, <4>1, <4>2 DEF Contract!Try, Contract!Doom
        <4> QED
          BY <4>3 DEF Contract!Next
      <3> QED
        BY <3>2, <3>3
    <2>4. CASE trial.id # 0 /\ trial.state # "pending"
      <3>1. Phase = "doomed" /\ Current = trial
        BY <2>2, <2>4 DEF RecordsOK, Current, Phase
      <3>2. trial.state \in {"recovering", "failed"}
        BY <2>4 DEF RecordsOK, TypeOK, Records, States
      <3>3. CASE j.state = "idle"
        <4>1. store.vis = trial.before /\ store'.vis = trial.before
          BY <2>1, <2>4, <3>2, <3>3 DEF ContractOK, TypeOK
        <4>2. Phase' = "none" /\ Current'.before = NoDoc
          BY <2>2, <3>3 DEF Phase, ContractOK
        <4>3. Contract!Undo
          BY <3>1, <4>1, <4>2 DEF Contract!Undo
        <4> QED
          BY <4>3 DEF Contract!Next
      <3>4. CASE j.state # "idle"
        <4>1. Phase' = "doomed" /\ Current'.before = Current.before
          BY <2>2, <2>4, <3>1, <3>2, <3>4 DEF Phase, ContractOK
        <4>2. store'.vis = store.vis \/ store.vis = trial.before
          BY <2>1, <2>2, <3>2 DEF ContractOK, StagesOK
        <4>3. Contract!PutBack \/ UNCHANGED Contract!vars
          BY <2>1, <2>2, <3>1, <4>1, <4>2 DEF Contract!PutBack, Contract!vars
        <4> QED
          BY <4>3 DEF Contract!Next
      <3> QED
        BY <3>3, <3>4
    <2>5. CASE trial.id = 0 /\ trial.state = "failed"
      <3>1. j = journal.vis /\ Current = journal.vis /\ s = store.vis
        BY <2>1, <2>2, <2>5 DEF ContractOK, StagesOK, RecordsOK, Current
      <3> QED
        BY <2>1, <2>2, <3>1, Stutters
    <2>6. CASE trial.id = 0 /\ trial.state = "idle" /\ op.stage = "beginSync"
      <3>1. Current = journal.vis /\ Phase = "open" /\ store'.vis = store.vis
        BY <2>1, <2>2, <2>6 DEF StagesOK, ContractOK, Current, Phase
      <3>2. CASE j.state = "idle"
        <4>1. Phase' = "none" /\ Current'.before = NoDoc
          BY <2>2, <3>2 DEF Phase, ContractOK
        <4>2. Contract!Keep
          BY <3>1, <4>1 DEF Contract!Keep
        <4> QED
          BY <4>2 DEF Contract!Next
      <3>3. CASE j = journal.vis
        BY <2>2, <3>1, <3>3, Stutters
      <3> QED
        BY <2>6, <3>2, <3>3 DEF ContractOK
    <2>7. CASE trial.id = 0 /\ trial.state = "idle" /\ op.stage # "beginSync"
      <3>1. journal.vis.state = "idle" /\ j.state = "idle" /\ Current = journal.vis
        BY <2>2, <2>7 DEF TypeOK, AcceptedOK, Current
      <3>2. /\ Phase = "none" /\ Phase' = "none"
            /\ Current.before = NoDoc /\ Current'.before = NoDoc
        BY <2>2, <3>1 DEF Phase, ContractOK, TypeOK
      <3>3. Contract!Edit
        BY <2>1, <2>2, <3>2 DEF Contract!Edit
      <3> QED
        BY <3>3 DEF Contract!Next
    <2> QED
      BY <2>3, <2>4, <2>5, <2>6, <2>7 DEF RecordsOK
  <1>25. CASE Boot
    <2>1. /\ store'.vis = store.vis /\ journal'.vis = journal.vis
          /\ journal.vis \in journal.may /\ journal.vis \in Records
      BY <1>25, StoreSynced, JournalSynced, FileType DEF Boot, TypeOK
    <2>2. Current = journal.vis
      BY <1>25 DEF Boot, Current
    <2>3. Current'.before = Current.before /\ Current'.state = Current.state
      <3>1. CASE UNCHANGED trial
        BY <1>25, <2>1, <2>2, <3>1 DEF Boot, RecordsOK, Current
      <3>2. CASE trial' \in {journal.vis, PastDue(journal.vis)}
        BY <2>1, <2>2, <3>2, PastDueType DEF Current
      <3>3. CASE trial' = Record(0, "failed", NoDoc, NoDoc, FALSE)
        BY <2>1, <2>2, <3>3 DEF Record, Current
      <3> QED
        BY <1>25, <3>1, <3>2, <3>3 DEF Boot
    <2> QED
      BY <2>1, <2>3, Stutters
  <1> QED
    BY <1>0, <1>1, <1>7, <1>8, <1>9, <1>10, <1>11, <1>12, <1>13, <1>14, <1>17,
       <1>20, <1>22, <1>23, <1>25
       DEF Next, Step, vars

\* Recovery implements TrialContract: whatever handlers, crashes, power losses
\* and failed writes interleave, a trial whose recovery was decided is never
\* kept, the document it returns to is the one in force when it began, and no
\* edit slips in while it is being undone.
THEOREM ImplementsContract ==
  ASSUME DurableEdits
  PROVE  Spec => ContractSpec
  <1>1. Spec => []Consistent
    BY SpecConsistent
  <1>2. Init => ContractOK
    BY InitContract
  <1>3. Consistent /\ Consistent' /\ ContractOK /\ [Next]_vars => ContractOK'
    BY NextContract
  <1>4. Init => Contract!Init
    BY InitImplements
  <1>5. /\ Consistent /\ Consistent' /\ ContractOK /\ ContractOK' /\ [Next]_vars
        => [Contract!Next]_(Contract!vars)
    BY StepImplements
  <1> QED
    BY <1>1, <1>2, <1>3, <1>4, <1>5, PTL DEF Spec, ContractSpec, Contract!Spec
-----------------------------------------------------------------------------
(* A completed recovery retires the trial. *)

\* A freshly installed router has nothing to retire.
LEMMA InitRetires == Init => RetiresOK
  <1> SUFFICES ASSUME Init PROVE RetiresOK
    OBVIOUS
  <1>1. journal.may = {Idle}
    BY DurableType, IdleType DEF Init
  <1> QED
    BY <1>1, IdleType, FreeType DEF Init, RetiresOK

\* The copy a recovery persists retires the trial when the one in memory does.
LEMMA MarkedRetires ==
  ASSUME TypeOK, RecordsOK, RetiresOK, trial.id # 0, op.stage # "saveSync"
  PROVE  Retires(Marked)
  <1>1. /\ Marked.state = "recovering" /\ Marked.before = trial.before
        /\ Marked.from = IF trial.from = NoDoc THEN store.vis ELSE trial.from
    BY DEF TypeOK, Marked, Records
  <1>2. store.vis \in Docs /\ store.vis \in store.may /\ trial.from \in Docs \cup {NoDoc}
    BY FileType DEF TypeOK, Records
  <1>3. trial.from = NoDoc => store.may = {store.vis}
    BY DEF RetiresOK, Retires, RecordsOK, TypeOK, Records, States
  <1>4. trial.from # NoDoc => store.may \subseteq {trial.from, trial.before}
    BY DEF RetiresOK, Retires, RecordsOK, TypeOK, Records, States
  <1>5. Retires(trial)
    BY DEF RetiresOK
  <1> QED
    BY <1>1, <1>2, <1>3, <1>4, <1>5 DEF Retires

\* Loops that reconcile program what is stored, and a stored document other
\* than the previous one is the trial's.
LEMMA ReconcileRetires ==
  ASSUME TypeOK, Reconcile, NEW r \in Records, r.state # "idle", Retires(r)
  PROVE  Retires(r)'
  <1>1. store.vis \in store.may /\ UNCHANGED <<store, tried>>
        /\ runtime' = runtime \cup {store.vis}
    BY DEF Reconcile, TypeOK
  <1>2. r.from = NoDoc \/ store.may \subseteq {r.from, r.before}
    BY DEF Retires, Records, States
  <1> QED
    BY <1>1, <1>2 DEF Retires

\* RetiresOK survives every step of a consistent state.
LEMMA NextRetires ==
  ASSUME DurableMarks, Consistent, Consistent', ContractOK, RetiresOK, [Next]_vars
  PROVE  RetiresOK'
  <1> USE DEF Consistent, Shape
  <1>0. CASE UNCHANGED vars
    BY <1>0 DEF vars, RetiresOK, Retires
  <1>1. CASE Edit \/ Restore \/ Confirm \/ Revert \/ Tick \/ Protect
    <2>1. UNCHANGED runtime
      BY <1>1 DEF Edit, Restore, Confirm, Revert, Tick, Protect
    <2> QED
      BY <1>1, <2>1, Quiet DEF RetiresOK, Retires
  <1>2. CASE Reconcile
    <2>1. \A j \in journal.may : j \in Records /\ (j.state # "idle" => Retires(j))
      BY FileType DEF TypeOK, RetiresOK
    <2>2. \A j \in journal.may : j.state # "idle" => Retires(j)'
      BY <1>2, <2>1, ReconcileRetires
    <2>3. trial.id # 0 => Retires(trial)'
      <3>1. trial.id # 0 =>
              trial.from = NoDoc \/ store.may \subseteq {trial.from, trial.before}
        BY DEF RetiresOK, Retires, RecordsOK, TypeOK, Records, States
      <3> QED
        BY <1>2, <3>1 DEF Reconcile, TypeOK, RetiresOK, Retires
    <2> QED
      BY <1>2, <2>2, <2>3 DEF Reconcile, At, RetiresOK, Retires
  <1>7. CASE Begin
    <2> DEFINE r == Record(ids + 1, "pending", store.vis, NoDoc, FALSE)
    <2>1. CASE /\ trial.state = "idle" /\ journal' = Renamed(journal, r)
               /\ tried' = {} /\ Go("beginSync")
      <3>1. r \in Records /\ r.state = "pending" /\ r.from = NoDoc
        BY BegunType DEF Record
      <3>2. journal'.may = journal.may \cup {r}
        BY <2>1, <3>1, JournalRenamed DEF TypeOK
      <3>3. op'.stage = "beginSync"
        BY <2>1, GoType DEF TypeOK, Stages
      <3> HIDE DEF r
      <3> QED
        BY <1>7, <2>1, <3>1, <3>2, <3>3
           DEF Begin, At, RecordsOK, AcceptedOK, RetiresOK, Retires
    <2>2. CASE Release /\ UNCHANGED <<journal, tried>>
      BY <1>7, <2>2, ReleaseType DEF Begin, At, RetiresOK, Retires
    <2> QED
      BY <1>7, <2>1, <2>2 DEF Begin
  <1>8. CASE BeginSync
    <2>1. /\ journal' = Synced(journal) /\ trial' = journal.vis /\ Go("save")
          /\ up /\ UNCHANGED <<store, runtime, tried>>
      BY <1>8 DEF BeginSync, At, Fault, DurableMarks, DurableEdits, DurableSyncs
    <2>2. journal'.may = {journal.vis} /\ journal.vis \in journal.may
      BY <2>1, JournalSynced DEF TypeOK
    <2>3. op'.stage = "save"
      BY <2>1, GoType DEF TypeOK, Stages
    <2>4. journal.vis.state = "pending" /\ store.may = {store.vis}
      BY <1>8 DEF BeginSync, At, StagesOK, ContractOK
    <2> QED
      BY <2>1, <2>2, <2>3, <2>4 DEF RetiresOK, Retires
  <1>9. CASE Save
    <2>1. CASE /\ store' = Renamed(store, op.doc)
               /\ op' = [op EXCEPT !.stage = "saveSync", !.prev = store.vis]
               /\ tried' = IF trial.state = "idle" THEN tried
                                                   ELSE tried \cup {op.doc}
      <3>1. op'.stage = "saveSync" /\ op'.doc = op.doc
        BY <2>1 DEF TypeOK, Holders
      <3>2. op.doc \in Docs /\ trial.state \in {"idle", "pending"}
        BY <1>9 DEF Save, At, StagesOK
      <3>3. store'.vis = op.doc
        BY <2>1, <3>2, StoreRenamed DEF TypeOK
      <3>4. CASE trial.state = "idle"
        BY <1>9, <3>1, <3>3, <3>4 DEF Save, At, AcceptedOK, RecordsOK, RetiresOK, Retires
      <3>5. CASE trial.state = "pending"
        <4>1. \A j \in journal.may : j.state = "pending" /\ j.from = NoDoc
          BY <1>9, <3>5 DEF Save, At, RetiresOK, Retires
        <4>2. trial.from = NoDoc
          BY <3>5 DEF RetiresOK, Retires, RecordsOK
        <4>3. tried' = tried \cup {op.doc} /\ UNCHANGED <<journal, trial, runtime>>
          BY <1>9, <2>1, <3>5 DEF Save
        <4> QED
          BY <3>1, <3>3, <3>5, <4>1, <4>2, <4>3 DEF RetiresOK, Retires
      <3> QED
        BY <3>2, <3>4, <3>5
    <2>2. CASE AfterFailure /\ UNCHANGED <<store, tried>>
      BY <1>9, <2>2, GoType, ReleaseType
         DEF Save, At, AfterFailure, TypeOK, Stages, RetiresOK, Retires
    <2> QED
      BY <1>9, <2>1, <2>2 DEF Save
  <1>10. CASE SaveSync
    BY <1>10, GoType, StoreSynced
       DEF SaveSync, At, Fault, DurableMarks, DurableEdits, Stages, TypeOK, StagesOK,
           RetiresOK, Retires
  <1>11. CASE Program
    <2>1. /\ op.doc = store.vis /\ trial.state \in {"idle", "pending"}
          /\ runtime' \subseteq runtime \cup {op.doc}
      BY <1>11 DEF Program, At, StagesOK, RetiresOK, Programmed, PartlyProgrammed
    <2>2. op'.stage \in {"free", "revert"}
      BY <1>11, GoType, ReleaseType DEF Program, AfterFailure, TypeOK, Stages
    <2>3. CASE trial.state = "idle"
      BY <1>11, <2>2, <2>3 DEF Program, At, AcceptedOK, RecordsOK, RetiresOK, Retires
    <2>4. CASE trial.state = "pending"
      <3>1. \A j \in journal.may : j.state = "pending" /\ j.from = NoDoc
        BY <1>11, <2>4 DEF Program, At, RetiresOK, Retires
      <3>2. trial.from = NoDoc
        BY <2>4 DEF RetiresOK, Retires, RecordsOK
      <3> QED
        BY <1>11, <2>1, <2>2, <2>4, <3>1, <3>2 DEF Program, At, RetiresOK, Retires
    <2> QED
      BY <2>1, <2>3, <2>4
  <1>12. CASE MarkRecovering
    <2>0. trial.id # 0
      BY <1>12 DEF MarkRecovering, At, StagesOK
    <2>1. CASE journal' = Renamed(journal, Marked) /\ Go("markSync")
      <3>1. Marked \in Records /\ Retires(Marked)
        BY <1>12, <2>0, MarkedType, MarkedRetires DEF MarkRecovering, At
      <3>2. journal'.may = journal.may \cup {Marked}
        BY <2>1, <3>1, JournalRenamed DEF TypeOK
      <3>3. op'.stage = "markSync"
        BY <2>1, GoType DEF TypeOK, Stages
      <3> QED
        BY <1>12, <2>1, <3>1, <3>2, <3>3 DEF MarkRecovering, At, RetiresOK, Retires
    <2>2. CASE Release /\ UNCHANGED journal
      BY <1>12, <2>2, ReleaseType DEF MarkRecovering, At, RetiresOK, Retires
    <2> QED
      BY <1>12, <2>1, <2>2 DEF MarkRecovering
  <1>13. CASE MarkSync
    <2>1. /\ journal' = Synced(journal) /\ trial' = Marked /\ Go("putback")
          /\ UNCHANGED <<store, runtime, tried>>
      BY <1>13 DEF MarkSync, Fault, DurableMarks
    <2>2. journal'.may \subseteq journal.may
      BY <2>1, JournalSynced DEF TypeOK
    <2>3. op'.stage = "putback"
      BY <2>1, GoType DEF TypeOK, Stages
    <2>4. Marked.state = "recovering"
      BY MarkedType
    <2>5. Retires(Marked)
      BY <1>13, MarkedRetires DEF MarkSync, At, StagesOK
    <2> QED
      BY <2>1, <2>2, <2>3, <2>4, <2>5 DEF RetiresOK, Retires
  <1>14. CASE PutBack
    <2>1. CASE store' = Renamed(store, trial.before) /\ Go("putbackSync")
      <3>1. trial.state = "recovering" /\ trial.id # 0 /\ trial.before \in Docs
        BY <1>14 DEF PutBack, At, StagesOK, RecordsOK
      <3>2. store'.vis = trial.before /\ store'.may = store.may \cup {trial.before}
        BY <2>1, <3>1, StoreRenamed DEF TypeOK
      <3>3. op'.stage = "putbackSync"
        BY <2>1, GoType DEF TypeOK, Stages
      <3>4. \A j \in journal.may : j.state # "idle" =>
              /\ j.state \in {"recovering", "failed"} /\ j.before = trial.before
              /\ j.from \in Docs /\ store.may \subseteq {j.from, j.before}
              /\ \A d \in runtime : tried = {d} /\ d # j.before => j.from = d
        <4> SUFFICES ASSUME NEW j \in journal.may, j.state # "idle"
                     PROVE  /\ j.state \in {"recovering", "failed"}
                            /\ j.before = trial.before
                            /\ j.from \in Docs /\ store.may \subseteq {j.from, j.before}
                            /\ \A d \in runtime :
                                 tried = {d} /\ d # j.before => j.from = d
          OBVIOUS
        <4>0. j \in Records
          BY FileType DEF TypeOK
        <4>1. j.state \in States
          BY <4>0 DEF Records
        <4>2. j.state \in {"recovering", "failed"} /\ j.before = trial.before
          BY <3>1, <4>1 DEF ContractOK, States
        <4>3. Retires(j)
          BY DEF RetiresOK
        <4> QED
          BY <4>2, <4>3 DEF Retires
      <3>5. /\ trial.from \in Docs /\ store.may \subseteq {trial.from, trial.before}
            /\ \A d \in runtime : tried = {d} /\ d # trial.before => trial.from = d
        BY <3>1 DEF RetiresOK, Retires
      <3>6. UNCHANGED <<journal, trial, runtime, tried>>
        BY <1>14 DEF PutBack
      <3> QED
        BY <3>1, <3>2, <3>3, <3>4, <3>5, <3>6 DEF RetiresOK, Retires
    <2>2. CASE Go("fail") /\ UNCHANGED store
      BY <1>14, <2>2, GoType DEF PutBack, At, Stages, TypeOK, RetiresOK, Retires
    <2> QED
      BY <1>14, <2>1, <2>2 DEF PutBack
  <1>15. CASE PutBackSync
    BY <1>15, GoType, StoreSynced
       DEF PutBackSync, At, Stages, TypeOK, StagesOK, RetiresOK, Retires
  <1>16. CASE Repair
    <2>1. /\ trial.state = "recovering" /\ trial.id # 0 /\ trial.before \in Docs
          /\ \A j \in journal.may : j.state # "idle" => j.before = trial.before
      BY <1>16 DEF Repair, At, StagesOK, RecordsOK, ContractOK
    <2>2. runtime' \subseteq runtime \cup {trial.before}
      BY <1>16 DEF Repair, Programmed, PartlyProgrammed
    <2>3. \/ op'.stage = "fail"
          \/ /\ op'.stage = "remove"
             /\ runtime' = (runtime \ {trial.from}) \cup {trial.before}
      BY <1>16, GoType DEF Repair, Programmed, TypeOK, Stages
    <2> QED
      BY <1>16, <2>1, <2>2, <2>3 DEF Repair, RetiresOK, Retires
  <1>17. CASE Fail
    <2>1. /\ Failed \in Records /\ Failed.id = trial.id /\ Failed.state = "failed"
          /\ Failed.before = trial.before /\ Failed.from = trial.from
      BY FailedType DEF Failed, TypeOK, Records
    <2>2. trial.state = "recovering" /\ trial.id # 0
      BY <1>17 DEF Fail, At, StagesOK, RecordsOK
    <2>3. journal'.may \subseteq journal.may \cup {Failed}
      BY <1>17, <2>1, JournalRenamed DEF Fail, TypeOK
    <2>4. op'.stage \in {"failSync", "free"}
      BY <1>17, GoType, ReleaseType DEF Fail, TypeOK, Stages
    <2>5. Retires(Failed)
      BY <2>1, <2>2 DEF RetiresOK, Retires
    <2> QED
      BY <1>17, <2>1, <2>2, <2>3, <2>4, <2>5 DEF Fail, RetiresOK, Retires
  <1>18. CASE FailSync
    BY <1>18, ReleaseType, JournalSynced
       DEF FailSync, At, TypeOK, StagesOK, RetiresOK, Retires
  <1>19. CASE Remove
    BY <1>19, GoType, ReleaseType, JournalRenamed, IdleType
       DEF Remove, At, Stages, TypeOK, StagesOK, RetiresOK, Retires
  <1>20. CASE RemoveSync
    BY <1>20, ReleaseType, JournalSynced, IdleType
       DEF RemoveSync, At, Fault, DurableMarks, DurableEdits, DurableSyncs,
           TypeOK, StagesOK, RetiresOK, Retires
  <1>22. CASE DeadlinePasses
    <2>1. /\ journal'.vis = PastDue(journal.vis)
          /\ journal'.may = {PastDue(j) : j \in journal.may}
      BY <1>22 DEF DeadlinePasses
    <2>2. \A j \in journal.may : /\ PastDue(j).state = j.state
                                 /\ PastDue(j).before = j.before
                                 /\ PastDue(j).from = j.from
      BY PastDueType, FileType DEF TypeOK
    <2>3. /\ trial'.id = trial.id /\ trial'.state = trial.state
          /\ trial'.before = trial.before /\ trial'.from = trial.from
      BY <1>22, PastDueType DEF DeadlinePasses, TypeOK
    <2> QED
      BY <1>22, <2>1, <2>2, <2>3 DEF DeadlinePasses, RetiresOK, Retires
  <1>23. CASE Crash
    BY <1>23, FreeType, IdleType DEF Crash, Stopped, RetiresOK, Retires
  <1>24. CASE PowerLoss
    <2>1. PICK s \in store.may, j \in journal.may :
            store' = File(s) /\ journal' = File(j)
      BY <1>24 DEF PowerLoss
    <2>2. journal'.may = {j} /\ store'.may = {s}
      BY <2>1, DurableType, FileType DEF TypeOK
    <2> QED
      BY <1>24, <2>2, FreeType, IdleType DEF PowerLoss, Stopped, RetiresOK, Retires
  <1>25. CASE Boot
    <2>1. /\ store'.may = {store'.vis} /\ store'.vis = store.vis
          /\ store.vis \in store.may
          /\ journal'.may = {journal.vis} /\ journal.vis \in journal.may
      BY <1>25, StoreSynced, JournalSynced DEF Boot, TypeOK
    <2>2. trial.state = "idle" /\ op.stage = "free" /\ trial.id = 0
      BY <1>25 DEF Boot, RecordsOK
    <2>3. CASE UNCHANGED <<trial, op>>
      BY <1>25, <2>1, <2>2, <2>3 DEF Boot, RetiresOK, Retires
    <2>4. CASE /\ journal.vis.state # "idle"
               /\ trial' \in {journal.vis, PastDue(journal.vis)}
               /\ op' = Holder("revert", "boot", NoDoc, NoDoc, 0)
      <3>1. /\ trial'.state = journal.vis.state /\ trial'.from = journal.vis.from
            /\ trial'.before = journal.vis.before
        BY <2>4, PastDueType, FileType DEF TypeOK
      <3>2. op'.stage = "revert"
        BY <2>4 DEF Holder
      <3> QED
        BY <1>25, <2>1, <2>4, <3>1, <3>2 DEF Boot, RetiresOK, Retires
    <2>5. CASE trial' = Record(0, "failed", NoDoc, NoDoc, FALSE) /\ UNCHANGED op
      BY <1>25, <2>1, <2>2, <2>5 DEF Boot, Record, RetiresOK, Retires
    <2> QED
      BY <1>25, <2>3, <2>4, <2>5 DEF Boot
  <1> QED
    BY <1>0, <1>1, <1>2, <1>7, <1>8, <1>9, <1>10, <1>11, <1>12, <1>13, <1>14,
       <1>15, <1>16, <1>17, <1>18, <1>19, <1>20, <1>22, <1>23, <1>24, <1>25
       DEF Next, Step

\* A recovery that completes -- at startup, on the operator's request or on the
\* deadline, after however many failed attempts, crashes and power losses --
\* leaves the previous document stored and programmed, and nothing of the
\* document it was reverted from nor of the only document the trial tried.
THEOREM RecoveryCompletes ==
  ASSUME DurableMarks
  PROVE  Spec => RevertCompletes
  <1>0. DurableEdits
    BY DEF DurableMarks
  <1>1. Spec => []Consistent
    BY <1>0, SpecConsistent
  <1>2. Init => ContractOK /\ RetiresOK
    BY InitContract, InitRetires
  <1>3. /\ Consistent /\ Consistent' /\ ContractOK /\ RetiresOK /\ [Next]_vars
        => ContractOK' /\ RetiresOK'
    BY <1>0, NextContract, NextRetires
  <1>4. ASSUME Consistent, RetiresOK, [Next]_vars,
               up', trial.id # 0, trial'.state = "idle", op.cause # "confirm"
        PROVE  /\ store'.vis = trial.before
               /\ trial.before \in runtime'
               /\ trial.from \in runtime' => trial.from = trial.before
               /\ \A d \in runtime' : tried = {d} => d = trial.before
    <2> USE DEF Consistent, Shape
    <2>1. up /\ trial.state # "idle" /\ trial.state \in States /\ trial' # trial
      BY <1>4 DEF RecordsOK, TypeOK, Records
    <2>2. RemoveSync /\ trial' = Idle
      <3>1. ~ UNCHANGED vars
        BY <2>1 DEF vars
      <3>2. ~ BeginSync
        BY <1>4, <2>1 DEF BeginSync, At, StagesOK
      <3>3. ~ MarkSync /\ ~ Fail
        BY <1>4, <2>1, MarkedType, FailedType DEF MarkSync, Fail
      <3>4. ~ DeadlinePasses
        BY <1>4, <2>1, PastDueType DEF DeadlinePasses, TypeOK
      <3>5. ~ Crash /\ ~ PowerLoss /\ ~ Boot
        BY <1>4, <2>1 DEF Crash, PowerLoss, Boot, Stopped
      <3>6. RemoveSync
        BY <1>4, <2>1, <3>1, <3>2, <3>3, <3>4, <3>5, Quiet
           DEF Next, Step, Begin, Save, SaveSync, Program, MarkRecovering, PutBack,
               PutBackSync, Repair, FailSync, Remove
      <3> QED
        BY <2>1, <3>6 DEF RemoveSync
    <2>3. /\ store.may = {trial.before} /\ store.vis \in store.may
          /\ trial.state = "recovering" /\ UNCHANGED <<store, runtime>>
      BY <1>4, <2>2 DEF RemoveSync, At, StagesOK, TypeOK
    <2>4. /\ trial.before \in runtime
          /\ trial.from \in runtime => trial.from = trial.before
      BY <1>4, <2>2 DEF RemoveSync, At, RetiresOK
    <2>5. Retires(trial) /\ trial.from # NoDoc
      BY <1>4, <2>3 DEF RetiresOK, Retires
    <2> QED
      BY <2>3, <2>4, <2>5 DEF Retires
  <1>5. /\ Consistent /\ RetiresOK /\ [Next]_vars
        => [(up' /\ trial.id # 0 /\ trial'.state = "idle" /\ op.cause # "confirm")
              => /\ store'.vis = trial.before
                 /\ trial.before \in runtime'
                 /\ trial.from \in runtime' => trial.from = trial.before
                 /\ \A d \in runtime' : tried = {d} => d = trial.before]_vars
    BY <1>4
  <1> QED
    BY <1>1, <1>2, <1>3, <1>5, PTL DEF Spec, RevertCompletes
=============================================================================
