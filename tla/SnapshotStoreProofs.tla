-------------------------- MODULE SnapshotStoreProofs --------------------------
(***************************************************************************)
(* Proofs about SnapshotStore, for every number of saves, cancellations    *)
(* and crashes.                                                            *)
(***************************************************************************)
EXTENDS SnapshotStore, TLAPS

(* The type invariant.                                                     *)

LEMMA TypeInit == Init => TypeOK
<1> SUFFICES ASSUME Init PROVE TypeOK
    OBVIOUS
<1>1. writers \subseteq [version : 1..begun, at : Stages]
      BY DEF Init
<1>2. dead \in BOOLEAN
      BY Zenon DEF Init
<1> QED BY <1>1, <1>2, BoundsAssumption DEF Init, TypeOK

LEMMA TypeNext == TypeOK /\ [Next]_vars => TypeOK'
<1> SUFFICES ASSUME TypeOK, [Next]_vars PROVE TypeOK'
    OBVIOUS
<1> USE BoundsAssumption DEF TypeOK, Versions, Stages, Writer
<1>1. CASE Save
      BY <1>1 DEF Save, BeginSave
<1>2. CASE Cancel
      BY <1>2 DEF Cancel
<1>3. ASSUME NEW w \in writers, SyncTemp(w) PROVE TypeOK'
      BY <1>3 DEF SyncTemp
<1>4. ASSUME NEW w \in writers, Replace(w) PROVE TypeOK'
      BY <1>4 DEF Replace
<1>5. ASSUME NEW w \in writers, SyncDirectory(w) PROVE TypeOK'
      BY <1>5 DEF SyncDirectory
<1>6. ASSUME NEW w \in writers, WriteFails(w) PROVE TypeOK'
      BY <1>6 DEF WriteFails
<1>7. CASE OtherAgentSyncs
      BY <1>7 DEF OtherAgentSyncs
<1>8. CASE Remove
      BY <1>8 DEF Remove
<1>9. CASE Stop
      BY <1>9 DEF Stop
<1>10. CASE Crash
      BY <1>10 DEF Crash, Die
<1>11. CASE PowerLoss
      BY <1>11 DEF PowerLoss, Die
<1>12. CASE Restore
      BY <1>12 DEF Restore, BeginSave
<1>13. CASE UNCHANGED vars
      BY <1>13 DEF vars
<1> QED
    BY <1>1, <1>2, <1>3, <1>4, <1>5, <1>6, <1>7, <1>8, <1>9, <1>10, <1>11,
       <1>12, <1>13 DEF Next

\* Every state the store reaches is well typed; the threads' versions and
\* the awaited one are versions that were handed to `save` (snapshot.py:147).
THEOREM StoreTypeCorrect == Spec => []TypeOK
BY TypeInit, TypeNext, PTL DEF Spec


------------------------------------------------------------------------------
(* The serial writer.  While no caller was cancelled there is at most one  *)
(* thread, it writes the awaited version, and that version is the newest:  *)
(* what makes an acknowledged save stand.                                  *)

Serial ==
  cancels = 0 =>
    /\ \A w \in writers : w.version = awaited
    /\ \A u, w \in writers : u = w
    /\ acked <= begun
    /\ ~dead =>
         /\ acked <= entry /\ acked <= durable
         /\ \A w \in writers : w.at = "replaced" => entry = w.version
    /\ dead /\ losses = 0 => entry = 0 /\ mode # "up" /\ writers = {}

StoreInv == TypeOK /\ Serial

LEMMA SerialInit == Init => Serial
BY DEF Init, Serial

LEMMA SerialNext == StoreInv /\ [Next]_vars => Serial'
<1> SUFFICES ASSUME TypeOK, Serial, [Next]_vars, cancels' = 0 PROVE Serial'
    BY DEF StoreInv, Serial
<1>0. TypeOK'
      BY TypeNext
<1>a. cancels = 0 \/ Cancel
      BY DEF Next, vars, Save, SyncTemp, Replace, SyncDirectory, WriteFails, OtherAgentSyncs,
             Remove, Stop, Crash, PowerLoss, Die, Restore
<1>b. cancels = 0
      BY <1>a, <1>0 DEF Cancel, TypeOK
<1> USE <1>b, BoundsAssumption DEF TypeOK, Stages, Serial, Writer
<1>1. CASE Save
      BY <1>1 DEF Save, BeginSave
<1>2. CASE Cancel
      BY <1>2 DEF Cancel
<1>3. ASSUME NEW w \in writers, SyncTemp(w) PROVE Serial'
      BY <1>3 DEF SyncTemp
<1>4. ASSUME NEW w \in writers, Replace(w) PROVE Serial'
      BY <1>4 DEF Replace
<1>5. ASSUME NEW w \in writers, SyncDirectory(w) PROVE Serial'
      BY <1>5 DEF SyncDirectory
<1>6. ASSUME NEW w \in writers, WriteFails(w) PROVE Serial'
      BY <1>6 DEF WriteFails
<1>7. CASE OtherAgentSyncs
      BY <1>7 DEF OtherAgentSyncs
<1>8. CASE Remove
      BY <1>8 DEF Remove
<1>9. CASE Stop
      BY <1>9 DEF Stop
<1>10. CASE Crash
      BY <1>10 DEF Crash, Die
<1>11. CASE PowerLoss
      BY <1>11 DEF PowerLoss, Die
<1>12. CASE Restore
      BY <1>12 DEF Restore, BeginSave
<1>13. CASE UNCHANGED vars
      BY <1>13 DEF vars
<1> QED
    BY <1>1, <1>2, <1>3, <1>4, <1>5, <1>6, <1>7, <1>8, <1>9, <1>10, <1>11,
       <1>12, <1>13 DEF Next

LEMMA StoreInvariant == Spec => []StoreInv
<1>1. Init => StoreInv
      BY TypeInit, SerialInit DEF StoreInv
<1>2. StoreInv /\ [Next]_vars => StoreInv'
      BY TypeNext, SerialNext DEF StoreInv
<1> QED BY <1>1, <1>2, PTL DEF Spec

\* A save that returned stands (core.py:939-962): no later failed write,
\* crash or power loss takes the file behind it while no caller is cancelled.
THEOREM GoodSnapshotStands == Spec => []LastGoodSnapshotStands
<1>1. StoreInv => LastGoodSnapshotStands
      BY DEF StoreInv, Serial, LastGoodSnapshotStands
<1> QED BY <1>1, StoreInvariant, PTL

\* A disposed agent's snapshot (core.py:1028) does not come back while no
\* caller was cancelled and no power was lost.
THEOREM DisposedStaysDisposed == Spec => []DisposedStaysGone
<1>1. StoreInv => DisposedStaysGone
      BY DEF StoreInv, Serial, DisposedStaysGone
<1> QED BY <1>1, StoreInvariant, PTL

------------------------------------------------------------------------------
(* SnapshotStore implements SnapshotFile, whatever is cancelled.  Versions *)
(* tell the threads apart, so a landing write is exactly one of `saving`   *)
(* and `abandoned`.                                                        *)

Distinct == \A u, w \in writers : u.version = w.version => u = w

LEMMA DistinctInvariant == Spec => [](TypeOK /\ Distinct)
<1>1. Init => TypeOK /\ Distinct
      BY TypeInit DEF Init, Distinct
<1>2. TypeOK /\ Distinct /\ [Next]_vars => (TypeOK /\ Distinct)'
  <2> SUFFICES ASSUME TypeOK, Distinct, [Next]_vars PROVE Distinct'
      BY TypeNext
  <2> USE BoundsAssumption DEF TypeOK, Distinct, Stages, Writer
  <2>1. CASE Save
        BY <2>1 DEF Save, BeginSave
  <2>2. ASSUME NEW w \in writers, SyncTemp(w) PROVE Distinct'
        BY <2>2 DEF SyncTemp
  <2>3. ASSUME NEW w \in writers, Replace(w) PROVE Distinct'
        BY <2>3 DEF Replace
  <2>4. CASE Restore
        BY <2>4 DEF Restore, BeginSave
  <2>5. CASE writers' \subseteq writers
        BY <2>5
  <2> QED
      BY <2>1, <2>2, <2>3, <2>4, <2>5 DEF Next, vars, Cancel, SyncDirectory, WriteFails,
         OtherAgentSyncs, Remove, Stop, Crash, PowerLoss, Die
<1> QED BY <1>1, <1>2, PTL DEF Spec

LEMMA RefineInit == Init => File!Init
<1> SUFFICES ASSUME Init PROVE File!Init
    OBVIOUS
<1>1. Pending = {} /\ Saving = 0 /\ Abandoned = {}
      BY DEF Init, Pending, Saving, Abandoned
<1> QED BY <1>1 DEF Init, File!Init, File!Maybe

LEMMA RefineNext ==
  TypeOK /\ TypeOK' /\ Distinct /\ Distinct' /\ [Next]_vars => [File!Next]_(File!vars)
<1> SUFFICES ASSUME TypeOK, TypeOK', Distinct, Distinct', [Next]_vars
             PROVE  File!Next \/ UNCHANGED File!vars
    OBVIOUS
<1> USE BoundsAssumption
        DEF TypeOK, Distinct, Stages, Writer, Versions, Pending, Saving, Abandoned, File!vars
<1>1. CASE Save
  <2>0. begun + 1 \in Versions /\ Writer(begun + 1, "temp") \in Pending'
        BY <1>1 DEF Save, BeginSave
  <2>1. Saving = 0 /\ Saving' = begun + 1
        BY <1>1, <2>0 DEF Save, BeginSave
  <2>2. Abandoned' = Abandoned
        BY <1>1 DEF Save, BeginSave
  <2> QED BY <1>1, <2>0, <2>1, <2>2 DEF Save, File!Next, File!Begin
<1>2. CASE Cancel
  <2>1. CASE Saving = 0
        BY <1>2, <2>1 DEF Cancel
  <2>2. CASE Saving # 0
    <3>1. Abandoned' = Abandoned \cup {Saving} /\ Saving' = 0
          BY <1>2, <2>2 DEF Cancel
    <3> QED BY <1>2, <2>2, <3>1 DEF Cancel, File!Next, File!Abandon, File!Maybe
  <2> QED BY <2>1, <2>2
<1>3. ASSUME NEW w \in writers, SyncTemp(w) PROVE UNCHANGED File!vars
  <2>0. \A v : (\E u \in Pending' : u.version = v) <=> (\E u \in Pending : u.version = v)
    <3>1. w \in Pending /\ Writer(w.version, "synced") \in Pending'
          BY <1>3 DEF SyncTemp
    <3>2. \A u \in Pending' : u = Writer(w.version, "synced") \/ u \in Pending
          BY <1>3 DEF SyncTemp
    <3>3. \A u \in Pending : u = w \/ u \in Pending'
          BY <1>3 DEF SyncTemp
    <3> QED BY <3>1, <3>2, <3>3
  <2>1. Saving' = Saving
        BY <1>3, <2>0 DEF SyncTemp
  <2>2. Abandoned' = Abandoned
        BY <1>3, <2>0 DEF SyncTemp
  <2> QED BY <1>3, <2>1, <2>2 DEF SyncTemp
<1>4. ASSUME NEW w \in writers, Replace(w) PROVE File!Next
  <2>1. CASE w.version = awaited
    <3>1. Saving = w.version /\ Saving # 0 /\ Saving' = 0
          BY <1>4, <2>1 DEF Replace
    <3>2. Abandoned' = Abandoned
          BY <1>4, <2>1 DEF Replace
    <3> QED BY <1>4, <3>1, <3>2 DEF Replace, File!Next, File!Land
  <2>2. CASE w.version # awaited
    <3>1. Saving' = Saving
          BY <1>4, <2>2 DEF Replace
    <3>2. w.version \in Abandoned /\ Abandoned' = Abandoned \ {w.version}
          BY <1>4, <2>2 DEF Replace
    <3>3. w.version \in Versions
          OBVIOUS
    <3> QED BY <1>4, <3>1, <3>2, <3>3 DEF Replace, File!Next, File!LandAbandoned
  <2> QED BY <2>1, <2>2
<1>5. ASSUME NEW w \in writers, SyncDirectory(w) PROVE File!Next
  <2>1. Saving' = Saving
        BY <1>5 DEF SyncDirectory
  <2>2. Abandoned' = Abandoned
        BY <1>5 DEF SyncDirectory
  <2> QED BY <1>5, <2>1, <2>2 DEF SyncDirectory, File!Next, File!Settle
<1>6. ASSUME NEW w \in writers, WriteFails(w) PROVE File!Next \/ UNCHANGED File!vars
  <2>1. CASE w.at = "replaced"
    <3>1. Saving' = Saving /\ Abandoned' = Abandoned
          BY <1>6, <2>1 DEF WriteFails
    <3> QED BY <1>6, <3>1 DEF WriteFails
  <2>2. CASE w.at # "replaced" /\ w.version = awaited
    <3>1. Saving # 0 /\ Saving' = 0 /\ Abandoned' = Abandoned
          BY <1>6, <2>2 DEF WriteFails
    <3> QED BY <1>6, <3>1 DEF WriteFails, File!Next, File!Fail
  <2>3. CASE w.at # "replaced" /\ w.version # awaited
    <3>1. Saving' = Saving
          BY <1>6, <2>3 DEF WriteFails
    <3>2. w.version \in Abandoned /\ Abandoned' = Abandoned \ {w.version}
          BY <1>6, <2>3 DEF WriteFails
    <3>3. w.version \in Versions
          OBVIOUS
    <3> QED BY <1>6, <3>1, <3>2, <3>3 DEF WriteFails, File!Next, File!FailAbandoned
  <2> QED BY <2>1, <2>2, <2>3
<1>7. CASE OtherAgentSyncs
      BY <1>7 DEF OtherAgentSyncs, File!Next, File!Settle
<1>8. CASE Remove
  <2>1. Saving = 0 /\ Saving' = 0 /\ Abandoned' = Abandoned
        BY <1>8 DEF Remove
  <2> QED BY <1>8, <2>1 DEF Remove, File!Next, File!Remove
<1>9. CASE Stop
      BY <1>9 DEF Stop
<1>10. CASE Crash
  <2>1. Saving' = 0 /\ Abandoned' = {}
        BY <1>10 DEF Crash, Die
  <2> QED BY <1>10, <2>1 DEF Crash, Die, File!Next, File!Crash
<1>11. CASE PowerLoss
  <2>1. Saving' = 0 /\ Abandoned' = {}
        BY <1>11 DEF PowerLoss, Die
  <2> QED BY <1>11, <2>1 DEF PowerLoss, Die, File!Next, File!PowerLoss
<1>12. CASE Restore
  <2>1. CASE entry = 0
        BY <1>12, <2>1 DEF Restore
  <2>2. CASE entry # 0
    <3>0. begun + 1 \in Versions /\ Writer(begun + 1, "temp") \in Pending'
          BY <1>12, <2>2 DEF Restore, BeginSave
    <3>1. Saving = 0 /\ Saving' = begun + 1
          BY <1>12, <2>2, <3>0 DEF Restore, BeginSave
    <3>2. Abandoned' = Abandoned
          BY <1>12, <2>2 DEF Restore, BeginSave
    <3> QED BY <1>12, <2>2, <3>0, <3>1, <3>2 DEF Restore, File!Next, File!Begin
  <2> QED BY <2>1, <2>2
<1>13. CASE UNCHANGED vars
      BY <1>13 DEF vars
<1> QED
    BY <1>1, <1>2, <1>3, <1>4, <1>5, <1>6, <1>7, <1>8, <1>9, <1>10, <1>11,
       <1>12, <1>13 DEF Next

\* The threads of SnapshotStore._write (snapshot.py:147-186) implement the
\* abstract file the agent model is written against, for every bound.
THEOREM StoreImplementsFile == Spec => ImplementsSnapshotFile
<1>1. Init => File!Init
      BY RefineInit
<1>2. Spec => [][File!Next]_(File!vars)
      BY DistinctInvariant, RefineNext, PTL DEF Spec
<1> QED BY <1>1, <1>2, PTL DEF Spec, ImplementsSnapshotFile, File!Spec
================================================================================
