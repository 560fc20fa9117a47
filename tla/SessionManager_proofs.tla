----------------------- MODULE SessionManager_proofs ------------------------
(***************************************************************************)
(* Proofs about the session's life cycle, for any number of sockets, close *)
(* requests, TTL tasks, I/O errors and restarts.  SessionInv is inductive: *)
(* each lemma below shows that the steps of one task keep it.              *)
(***************************************************************************)
EXTENDS SessionManager, TLAPS

LEMMA InitSessionInv ==
  Init => SessionInv
<1> SUFFICES ASSUME Init PROVE SessionInv
  OBVIOUS
<1> USE ProcAssumption DEF Init, Procs, Closers
<1>1. TypeOK
  BY FaultAssumption DEF TypeOK, Labels
<1>2. RuntimeInv /\ PtyOwned
  BY DEF RuntimeInv, PtyOwned, InShutdown, ShuttingDown
<1>3. TimerInv /\ TimersTracked /\ DetachInv
  BY DEF TimerInv, TimersTracked, DetachInv
<1>4. CloseInv /\ RestartInv
  BY DEF CloseInv, RestartInv
<1> QED  BY <1>1, <1>2, <1>3, <1>4 DEF SessionInv

\* The create request: create_session, start_live_pty, record_pty_start_failed.
LEMMA CreateStepInv ==
  ASSUME SessionInv, CreateStep
  PROVE  SessionInv'
<1>0. /\ TypeOK /\ RuntimeInv /\ PtyOwned /\ TimerInv /\ TimersTracked
      /\ DetachInv /\ CloseInv /\ RestartInv
  BY DEF SessionInv
<1> USE ProcAssumption, FaultAssumption DEF Step, Procs, Closers, db, memory, env
<1>1. CASE CreateRow
  <2>1. TypeOK'
    BY <1>1, <1>0 DEF CreateRow, Labels, TypeOK
  <2>2. RuntimeInv' /\ PtyOwned'
    BY <1>1, <1>0 DEF CreateRow, RuntimeInv, PtyOwned, Holding, InShutdown, ShuttingDown, TypeOK
  <2>3. TimerInv' /\ TimersTracked'
    BY <1>1, <1>0 DEF CreateRow, RuntimeInv, TimerInv, TimersTracked, TypeOK
  <2>4. DetachInv'
    BY <1>1, <1>0 DEF CreateRow, DetachInv, TypeOK
  <2>5. CloseInv' /\ RestartInv'
    BY <1>1, <1>0 DEF CreateRow, RuntimeInv, TimerInv, CloseInv, RestartInv, InShutdown, ShuttingDown, TypeOK
  <2> QED  BY <2>1, <2>2, <2>3, <2>4, <2>5 DEF SessionInv
<1>2. CASE CreateEvent
  <2>1. TypeOK'
    BY <1>2, <1>0 DEF CreateEvent, Labels, TypeOK
  <2>2. RuntimeInv' /\ PtyOwned'
    BY <1>2, <1>0 DEF CreateEvent, RuntimeInv, PtyOwned, Holding, InShutdown, ShuttingDown, TypeOK
  <2>3. TimerInv' /\ TimersTracked'
    BY <1>2, <1>0 DEF CreateEvent, RuntimeInv, TimerInv, TimersTracked, TypeOK
  <2>4. DetachInv'
    BY <1>2, <1>0 DEF CreateEvent, DetachInv, TypeOK
  <2>5. CloseInv' /\ RestartInv'
    BY <1>2, <1>0 DEF CreateEvent, RuntimeInv, TimerInv, CloseInv, RestartInv, InShutdown, ShuttingDown, TypeOK
  <2> QED  BY <2>1, <2>2, <2>3, <2>4, <2>5 DEF SessionInv
<1>3. CASE CreateRegister
  <2>1. TypeOK'
    BY <1>3, <1>0 DEF CreateRegister, Labels, TypeOK
  <2>2. RuntimeInv' /\ PtyOwned'
    BY <1>3, <1>0 DEF CreateRegister, RuntimeInv, PtyOwned, Holding, InShutdown, ShuttingDown, TypeOK
  <2>3. TimerInv' /\ TimersTracked'
    BY <1>3, <1>0 DEF CreateRegister, RuntimeInv, TimerInv, TimersTracked, TypeOK
  <2>4. DetachInv'
    BY <1>3, <1>0 DEF CreateRegister, DetachInv, TypeOK
  <2>5. CloseInv' /\ RestartInv'
    BY <1>3, <1>0 DEF CreateRegister, RuntimeInv, TimerInv, CloseInv, RestartInv, InShutdown, ShuttingDown, TypeOK
  <2> QED  BY <2>1, <2>2, <2>3, <2>4, <2>5 DEF SessionInv
<1>4. CASE BridgeStarted
  <2>1. TypeOK'
    BY <1>4, <1>0 DEF BridgeStarted, Labels, TypeOK
  <2>2. RuntimeInv' /\ PtyOwned'
    BY <1>4, <1>0 DEF BridgeStarted, RuntimeInv, PtyOwned, Holding, InShutdown, ShuttingDown, TypeOK
  <2>3. TimerInv' /\ TimersTracked'
    BY <1>4, <1>0 DEF BridgeStarted, RuntimeInv, TimerInv, TimersTracked, TypeOK
  <2>4. DetachInv'
    BY <1>4, <1>0 DEF BridgeStarted, DetachInv, TypeOK
  <2>5. CloseInv' /\ RestartInv'
    BY <1>4, <1>0 DEF BridgeStarted, RuntimeInv, TimerInv, CloseInv, RestartInv, InShutdown, ShuttingDown, TypeOK
  <2> QED  BY <2>1, <2>2, <2>3, <2>4, <2>5 DEF SessionInv
<1>5. CASE BridgeFailed
  <2>1. TypeOK'
    BY <1>5, <1>0 DEF BridgeFailed, Labels, TypeOK
  <2>2. RuntimeInv' /\ PtyOwned'
    BY <1>5, <1>0 DEF BridgeFailed, RuntimeInv, PtyOwned, Holding, InShutdown, ShuttingDown, TypeOK
  <2>3. TimerInv' /\ TimersTracked'
    BY <1>5, <1>0 DEF BridgeFailed, RuntimeInv, TimerInv, TimersTracked, TypeOK
  <2>4. DetachInv'
    BY <1>5, <1>0 DEF BridgeFailed, DetachInv, TypeOK
  <2>5. CloseInv' /\ RestartInv'
    BY <1>5, <1>0 DEF BridgeFailed, RuntimeInv, TimerInv, CloseInv, RestartInv, InShutdown, ShuttingDown, TypeOK
  <2> QED  BY <2>1, <2>2, <2>3, <2>4, <2>5 DEF SessionInv
<1>6. CASE StartRead
  <2>1. TypeOK'
    BY <1>6, <1>0 DEF StartRead, StartGivesUp, Labels, TypeOK
  <2>2. RuntimeInv' /\ PtyOwned'
    BY <1>6, <1>0 DEF StartRead, StartGivesUp, RuntimeInv, PtyOwned, Holding, InShutdown, ShuttingDown, TypeOK
  <2>3. TimerInv' /\ TimersTracked'
    BY <1>6, <1>0 DEF StartRead, StartGivesUp, RuntimeInv, TimerInv, TimersTracked, TypeOK
  <2>4. DetachInv'
    BY <1>6, <1>0 DEF StartRead, StartGivesUp, DetachInv, TypeOK
  <2>5. CloseInv' /\ RestartInv'
    BY <1>6, <1>0 DEF StartRead, StartGivesUp, RuntimeInv, TimerInv, CloseInv, RestartInv, InShutdown, ShuttingDown, TypeOK
  <2> QED  BY <2>1, <2>2, <2>3, <2>4, <2>5 DEF SessionInv
<1>7. CASE StartSpawn
  <2>1. TypeOK'
    BY <1>7, <1>0 DEF StartSpawn, StartGivesUp, Labels, TypeOK
  <2>2. RuntimeInv' /\ PtyOwned'
    BY <1>7, <1>0 DEF StartSpawn, StartGivesUp, RuntimeInv, PtyOwned, Holding, InShutdown, ShuttingDown, TypeOK
  <2>3. TimerInv' /\ TimersTracked'
    BY <1>7, <1>0 DEF StartSpawn, StartGivesUp, RuntimeInv, TimerInv, TimersTracked, TypeOK
  <2>4. DetachInv'
    BY <1>7, <1>0 DEF StartSpawn, StartGivesUp, DetachInv, TypeOK
  <2>5. CloseInv' /\ RestartInv'
    BY <1>7, <1>0 DEF StartSpawn, StartGivesUp, RuntimeInv, TimerInv, CloseInv, RestartInv, InShutdown, ShuttingDown, TypeOK
  <2> QED  BY <2>1, <2>2, <2>3, <2>4, <2>5 DEF SessionInv
<1>8. CASE StartMark
  <2>1. TypeOK'
    BY <1>8, <1>0 DEF StartMark, Labels, TypeOK
  <2>2. RuntimeInv' /\ PtyOwned'
    BY <1>8, <1>0 DEF StartMark, RuntimeInv, PtyOwned, Holding, InShutdown, ShuttingDown, TypeOK
  <2>3. TimerInv' /\ TimersTracked'
    BY <1>8, <1>0 DEF StartMark, RuntimeInv, TimerInv, TimersTracked, TypeOK
  <2>4. DetachInv'
    BY <1>8, <1>0 DEF StartMark, DetachInv, TypeOK
  <2>5. CloseInv' /\ RestartInv'
    BY <1>8, <1>0 DEF StartMark, RuntimeInv, TimerInv, CloseInv, RestartInv, InShutdown, ShuttingDown, TypeOK
  <2> QED  BY <2>1, <2>2, <2>3, <2>4, <2>5 DEF SessionInv
<1>9. CASE StartInstall
  <2>1. TypeOK'
    BY <1>9, <1>0 DEF StartInstall, Labels, TypeOK
  <2>2. RuntimeInv' /\ PtyOwned'
    BY <1>9, <1>0 DEF StartInstall, RuntimeInv, PtyOwned, Holding, InShutdown, ShuttingDown, TypeOK
  <2>3. TimerInv' /\ TimersTracked'
    BY <1>9, <1>0 DEF StartInstall, RuntimeInv, TimerInv, TimersTracked, TypeOK
  <2>4. DetachInv'
    BY <1>9, <1>0 DEF StartInstall, DetachInv, TypeOK
  <2>5. CloseInv' /\ RestartInv'
    BY <1>9, <1>0 DEF StartInstall, RuntimeInv, TimerInv, CloseInv, RestartInv, InShutdown, ShuttingDown, TypeOK
  <2> QED  BY <2>1, <2>2, <2>3, <2>4, <2>5 DEF SessionInv
<1>10. CASE RecordEntry
  <2>1. TypeOK'
    BY <1>10, <1>0 DEF RecordEntry, Labels, TypeOK
  <2>2. RuntimeInv' /\ PtyOwned'
    BY <1>10, <1>0 DEF RecordEntry, RuntimeInv, PtyOwned, Holding, InShutdown, ShuttingDown, TypeOK
  <2>3. TimerInv' /\ TimersTracked'
    BY <1>10, <1>0 DEF RecordEntry, RuntimeInv, TimerInv, TimersTracked, TypeOK
  <2>4. DetachInv'
    BY <1>10, <1>0 DEF RecordEntry, DetachInv, TypeOK
  <2>5. CloseInv' /\ RestartInv'
    BY <1>10, <1>0 DEF RecordEntry, RuntimeInv, TimerInv, CloseInv, RestartInv, InShutdown, ShuttingDown, TypeOK
  <2> QED  BY <2>1, <2>2, <2>3, <2>4, <2>5 DEF SessionInv
<1>11. CASE RecordRead
  <2>1. TypeOK'
    BY <1>11, <1>0 DEF RecordRead, Labels, TypeOK
  <2>2. RuntimeInv' /\ PtyOwned'
    BY <1>11, <1>0 DEF RecordRead, RuntimeInv, PtyOwned, Holding, InShutdown, ShuttingDown, TypeOK
  <2>3. TimerInv' /\ TimersTracked'
    BY <1>11, <1>0 DEF RecordRead, RuntimeInv, TimerInv, TimersTracked, TypeOK
  <2>4. DetachInv'
    BY <1>11, <1>0 DEF RecordRead, DetachInv, TypeOK
  <2>5. CloseInv' /\ RestartInv'
    BY <1>11, <1>0 DEF RecordRead, RuntimeInv, TimerInv, CloseInv, RestartInv, InShutdown, ShuttingDown, TypeOK
  <2> QED  BY <2>1, <2>2, <2>3, <2>4, <2>5 DEF SessionInv
<1>12. CASE RecordMark
  <2>1. TypeOK'
    BY <1>12, <1>0 DEF RecordMark, Labels, TypeOK
  <2>2. RuntimeInv' /\ PtyOwned'
    BY <1>12, <1>0 DEF RecordMark, RuntimeInv, PtyOwned, Holding, InShutdown, ShuttingDown, TypeOK
  <2>3. TimerInv' /\ TimersTracked'
    BY <1>12, <1>0 DEF RecordMark, RuntimeInv, TimerInv, TimersTracked, TypeOK
  <2>4. DetachInv'
    BY <1>12, <1>0 DEF RecordMark, DetachInv, TypeOK
  <2>5. CloseInv' /\ RestartInv'
    BY <1>12, <1>0 DEF RecordMark, RuntimeInv, TimerInv, CloseInv, RestartInv, InShutdown, ShuttingDown, TypeOK
  <2> QED  BY <2>1, <2>2, <2>3, <2>4, <2>5 DEF SessionInv
<1>13. CASE RecordEvent
  <2>1. TypeOK'
    BY <1>13, <1>0 DEF RecordEvent, Labels, TypeOK
  <2>2. RuntimeInv' /\ PtyOwned'
    BY <1>13, <1>0 DEF RecordEvent, RuntimeInv, PtyOwned, Holding, InShutdown, ShuttingDown, TypeOK
  <2>3. TimerInv' /\ TimersTracked'
    BY <1>13, <1>0 DEF RecordEvent, RuntimeInv, TimerInv, TimersTracked, TypeOK
  <2>4. DetachInv'
    BY <1>13, <1>0 DEF RecordEvent, DetachInv, TypeOK
  <2>5. CloseInv' /\ RestartInv'
    BY <1>13, <1>0 DEF RecordEvent, RuntimeInv, TimerInv, CloseInv, RestartInv, InShutdown, ShuttingDown, TypeOK
  <2> QED  BY <2>1, <2>2, <2>3, <2>4, <2>5 DEF SessionInv
<1>14. CASE RecordDrop
  <2>1. TypeOK'
    BY <1>14, <1>0 DEF RecordDrop, Labels, TypeOK
  <2>2. RuntimeInv' /\ PtyOwned'
    BY <1>14, <1>0 DEF RecordDrop, RuntimeInv, PtyOwned, Holding, InShutdown, ShuttingDown, TypeOK
  <2>3. TimerInv' /\ TimersTracked'
    BY <1>14, <1>0 DEF RecordDrop, RuntimeInv, TimerInv, TimersTracked, TypeOK
  <2>4. DetachInv'
    BY <1>14, <1>0 DEF RecordDrop, DetachInv, TypeOK
  <2>5. CloseInv' /\ RestartInv'
    BY <1>14, <1>0 DEF RecordDrop, RuntimeInv, TimerInv, CloseInv, RestartInv, InShutdown, ShuttingDown, TypeOK
  <2> QED  BY <2>1, <2>2, <2>3, <2>4, <2>5 DEF SessionInv
<1> QED  BY <1>1, <1>2, <1>3, <1>4, <1>5, <1>6, <1>7, <1>8, <1>9, <1>10, <1>11, <1>12, <1>13, <1>14 DEF CreateStep

\* The forwarder.
LEMMA ForwarderStepInv ==
  ASSUME SessionInv, ForwarderStep
  PROVE  SessionInv'
<1>0. /\ TypeOK /\ RuntimeInv /\ PtyOwned /\ TimerInv /\ TimersTracked
      /\ DetachInv /\ CloseInv /\ RestartInv
  BY DEF SessionInv
<1> USE ProcAssumption, FaultAssumption DEF Step, Procs, Closers, db, memory, env
<1>1. CASE ForwarderEnds
  <2>1. TypeOK'
    BY <1>1, <1>0 DEF ForwarderEnds, Labels, TypeOK
  <2>2. RuntimeInv' /\ PtyOwned'
    BY <1>1, <1>0 DEF ForwarderEnds, RuntimeInv, PtyOwned, Holding, InShutdown, ShuttingDown, TypeOK
  <2>3. TimerInv' /\ TimersTracked'
    BY <1>1, <1>0 DEF ForwarderEnds, RuntimeInv, TimerInv, TimersTracked, TypeOK
  <2>4. DetachInv'
    BY <1>1, <1>0 DEF ForwarderEnds, DetachInv, TypeOK
  <2>5. CloseInv' /\ RestartInv'
    BY <1>1, <1>0 DEF ForwarderEnds, RuntimeInv, TimerInv, CloseInv, RestartInv, InShutdown, ShuttingDown, TypeOK
  <2> QED  BY <2>1, <2>2, <2>3, <2>4, <2>5 DEF SessionInv
<1>2. CASE ForwarderRead
  <2>1. TypeOK'
    BY <1>2, <1>0 DEF ForwarderRead, Labels, TypeOK
  <2>2. RuntimeInv' /\ PtyOwned'
    BY <1>2, <1>0 DEF ForwarderRead, RuntimeInv, PtyOwned, Holding, InShutdown, ShuttingDown, TypeOK
  <2>3. TimerInv' /\ TimersTracked'
    BY <1>2, <1>0 DEF ForwarderRead, RuntimeInv, TimerInv, TimersTracked, TypeOK
  <2>4. DetachInv'
    BY <1>2, <1>0 DEF ForwarderRead, DetachInv, TypeOK
  <2>5. CloseInv' /\ RestartInv'
    BY <1>2, <1>0 DEF ForwarderRead, RuntimeInv, TimerInv, CloseInv, RestartInv, InShutdown, ShuttingDown, TypeOK
  <2> QED  BY <2>1, <2>2, <2>3, <2>4, <2>5 DEF SessionInv
<1>3. CASE ForwarderMark
  <2>1. TypeOK'
    BY <1>3, <1>0 DEF ForwarderMark, Labels, TypeOK
  <2>2. RuntimeInv' /\ PtyOwned'
    BY <1>3, <1>0 DEF ForwarderMark, RuntimeInv, PtyOwned, Holding, InShutdown, ShuttingDown, TypeOK
  <2>3. TimerInv' /\ TimersTracked'
    BY <1>3, <1>0 DEF ForwarderMark, RuntimeInv, TimerInv, TimersTracked, TypeOK
  <2>4. DetachInv'
    BY <1>3, <1>0 DEF ForwarderMark, DetachInv, TypeOK
  <2>5. CloseInv' /\ RestartInv'
    BY <1>3, <1>0 DEF ForwarderMark, RuntimeInv, TimerInv, CloseInv, RestartInv, InShutdown, ShuttingDown, TypeOK
  <2> QED  BY <2>1, <2>2, <2>3, <2>4, <2>5 DEF SessionInv
<1>4. CASE ForwarderEvent
  <2>1. TypeOK'
    BY <1>4, <1>0 DEF ForwarderEvent, Labels, TypeOK
  <2>2. RuntimeInv' /\ PtyOwned'
    BY <1>4, <1>0 DEF ForwarderEvent, RuntimeInv, PtyOwned, Holding, InShutdown, ShuttingDown, TypeOK
  <2>3. TimerInv' /\ TimersTracked'
    BY <1>4, <1>0 DEF ForwarderEvent, RuntimeInv, TimerInv, TimersTracked, TypeOK
  <2>4. DetachInv'
    BY <1>4, <1>0 DEF ForwarderEvent, DetachInv, TypeOK
  <2>5. CloseInv' /\ RestartInv'
    BY <1>4, <1>0 DEF ForwarderEvent, RuntimeInv, TimerInv, CloseInv, RestartInv, InShutdown, ShuttingDown, TypeOK
  <2> QED  BY <2>1, <2>2, <2>3, <2>4, <2>5 DEF SessionInv
<1> QED  BY <1>1, <1>2, <1>3, <1>4 DEF ForwarderStep

\* A socket attaches.
LEMMA AttachStepInv ==
  ASSUME SessionInv, NEW a \in Sockets, AttachStep(a)
  PROVE  SessionInv'
<1>0. /\ TypeOK /\ RuntimeInv /\ PtyOwned /\ TimerInv /\ TimersTracked
      /\ DetachInv /\ CloseInv /\ RestartInv
  BY DEF SessionInv
<1> USE ProcAssumption, FaultAssumption DEF Step, Procs, Closers, db, memory, env
<1>1. CASE AttachRead(a)
  <2>1. TypeOK'
    BY <1>1, <1>0 DEF AttachRead, Labels, TypeOK
  <2>2. RuntimeInv' /\ PtyOwned'
    BY <1>1, <1>0 DEF AttachRead, RuntimeInv, PtyOwned, Holding, InShutdown, ShuttingDown, TypeOK
  <2>3. TimerInv' /\ TimersTracked'
    BY <1>1, <1>0 DEF AttachRead, RuntimeInv, TimerInv, TimersTracked, TypeOK
  <2>4. DetachInv'
    BY <1>1, <1>0 DEF AttachRead, DetachInv, TypeOK
  <2>5. CloseInv' /\ RestartInv'
    BY <1>1, <1>0 DEF AttachRead, RuntimeInv, TimerInv, CloseInv, RestartInv, InShutdown, ShuttingDown, TypeOK
  <2> QED  BY <2>1, <2>2, <2>3, <2>4, <2>5 DEF SessionInv
<1>2. CASE AttachTake(a)
  <2>1. TypeOK'
    BY <1>2, <1>0 DEF AttachTake, Labels, TypeOK
  <2>2. RuntimeInv' /\ PtyOwned'
    BY <1>2, <1>0 DEF AttachTake, RuntimeInv, PtyOwned, Holding, InShutdown, ShuttingDown, TypeOK
  <2>3. TimerInv' /\ TimersTracked'
    BY <1>2, <1>0 DEF AttachTake, RuntimeInv, TimerInv, TimersTracked, TypeOK
  <2>4. DetachInv'
    BY <1>2, <1>0 DEF AttachTake, DetachInv, TypeOK
  <2>5. CloseInv' /\ RestartInv'
    BY <1>2, <1>0 DEF AttachTake, RuntimeInv, TimerInv, CloseInv, RestartInv, InShutdown, ShuttingDown, TypeOK
  <2> QED  BY <2>1, <2>2, <2>3, <2>4, <2>5 DEF SessionInv
<1>3. CASE AttachAbort(a)
  <2>1. TypeOK'
    BY <1>3, <1>0 DEF AttachAbort, Labels, TypeOK
  <2>2. RuntimeInv' /\ PtyOwned'
    BY <1>3, <1>0 DEF AttachAbort, RuntimeInv, PtyOwned, Holding, InShutdown, ShuttingDown, TypeOK
  <2>3. TimerInv' /\ TimersTracked'
    BY <1>3, <1>0 DEF AttachAbort, RuntimeInv, TimerInv, TimersTracked, TypeOK
  <2>4. DetachInv'
    BY <1>3, <1>0 DEF AttachAbort, DetachInv, TypeOK
  <2>5. CloseInv' /\ RestartInv'
    BY <1>3, <1>0 DEF AttachAbort, RuntimeInv, TimerInv, CloseInv, RestartInv, InShutdown, ShuttingDown, TypeOK
  <2> QED  BY <2>1, <2>2, <2>3, <2>4, <2>5 DEF SessionInv
<1>4. CASE AttachRecord(a)
  <2>1. TypeOK'
    BY <1>4, <1>0 DEF AttachRecord, Labels, TypeOK
  <2>2. RuntimeInv' /\ PtyOwned'
    BY <1>4, <1>0 DEF AttachRecord, RuntimeInv, PtyOwned, Holding, InShutdown, ShuttingDown, TypeOK
  <2>3. TimerInv' /\ TimersTracked'
    BY <1>4, <1>0 DEF AttachRecord, RuntimeInv, TimerInv, TimersTracked, TypeOK
  <2>4. DetachInv'
    BY <1>4, <1>0 DEF AttachRecord, DetachInv, TypeOK
  <2>5. CloseInv' /\ RestartInv'
    BY <1>4, <1>0 DEF AttachRecord, RuntimeInv, TimerInv, CloseInv, RestartInv, InShutdown, ShuttingDown, TypeOK
  <2> QED  BY <2>1, <2>2, <2>3, <2>4, <2>5 DEF SessionInv
<1>5. CASE AttachReactivate(a)
  <2>1. TypeOK'
    BY <1>5, <1>0 DEF AttachReactivate, Labels, TypeOK
  <2>2. RuntimeInv' /\ PtyOwned'
    BY <1>5, <1>0 DEF AttachReactivate, RuntimeInv, PtyOwned, Holding, InShutdown, ShuttingDown, TypeOK
  <2>3. TimerInv' /\ TimersTracked'
    BY <1>5, <1>0 DEF AttachReactivate, RuntimeInv, TimerInv, TimersTracked, TypeOK
  <2>4. DetachInv'
    BY <1>5, <1>0 DEF AttachReactivate, DetachInv, TypeOK
  <2>5. CloseInv' /\ RestartInv'
    BY <1>5, <1>0 DEF AttachReactivate, RuntimeInv, TimerInv, CloseInv, RestartInv, InShutdown, ShuttingDown, TypeOK
  <2> QED  BY <2>1, <2>2, <2>3, <2>4, <2>5 DEF SessionInv
<1>6. CASE AttachRegister(a)
  <2>1. TypeOK'
    BY <1>6, <1>0 DEF AttachRegister, Labels, TypeOK
  <2>2. RuntimeInv' /\ PtyOwned'
    BY <1>6, <1>0 DEF AttachRegister, RuntimeInv, PtyOwned, Holding, InShutdown, ShuttingDown, TypeOK
  <2>3. TimerInv' /\ TimersTracked'
    BY <1>6, <1>0 DEF AttachRegister, RuntimeInv, TimerInv, TimersTracked, TypeOK
  <2>4. DetachInv'
    BY <1>6, <1>0 DEF AttachRegister, DetachInv, TypeOK
  <2>5. CloseInv' /\ RestartInv'
    BY <1>6, <1>0 DEF AttachRegister, RuntimeInv, TimerInv, CloseInv, RestartInv, InShutdown, ShuttingDown, TypeOK
  <2> QED  BY <2>1, <2>2, <2>3, <2>4, <2>5 DEF SessionInv
<1> QED  BY <1>1, <1>2, <1>3, <1>4, <1>5, <1>6 DEF AttachStep

\* A socket detaches.
LEMMA DetachStepInv ==
  ASSUME SessionInv, NEW a \in Sockets, DetachStep(a)
  PROVE  SessionInv'
<1>0. /\ TypeOK /\ RuntimeInv /\ PtyOwned /\ TimerInv /\ TimersTracked
      /\ DetachInv /\ CloseInv /\ RestartInv
  BY DEF SessionInv
<1> USE ProcAssumption, FaultAssumption DEF Step, Procs, Closers, db, memory, env
<1>1. CASE DetachRead(a)
  <2>1. TypeOK'
    BY <1>1, <1>0 DEF DetachRead, Labels, TypeOK
  <2>2. RuntimeInv' /\ PtyOwned'
    BY <1>1, <1>0 DEF DetachRead, RuntimeInv, PtyOwned, Holding, InShutdown, ShuttingDown, TypeOK
  <2>3. TimerInv' /\ TimersTracked'
    BY <1>1, <1>0 DEF DetachRead, RuntimeInv, TimerInv, TimersTracked, TypeOK
  <2>4. DetachInv'
    BY <1>1, <1>0 DEF DetachRead, DetachInv, TypeOK
  <2>5. CloseInv' /\ RestartInv'
    BY <1>1, <1>0 DEF DetachRead, RuntimeInv, TimerInv, CloseInv, RestartInv, InShutdown, ShuttingDown, TypeOK
  <2> QED  BY <2>1, <2>2, <2>3, <2>4, <2>5 DEF SessionInv
<1>2. CASE DetachStale(a)
  <2>1. TypeOK'
    BY <1>2, <1>0 DEF DetachStale, Labels, TypeOK
  <2>2. RuntimeInv' /\ PtyOwned'
    BY <1>2, <1>0 DEF DetachStale, RuntimeInv, PtyOwned, Holding, InShutdown, ShuttingDown, TypeOK
  <2>3. TimerInv' /\ TimersTracked'
    BY <1>2, <1>0 DEF DetachStale, RuntimeInv, TimerInv, TimersTracked, TypeOK
  <2>4. DetachInv'
    BY <1>2, <1>0 DEF DetachStale, DetachInv, TypeOK
  <2>5. CloseInv' /\ RestartInv'
    BY <1>2, <1>0 DEF DetachStale, RuntimeInv, TimerInv, CloseInv, RestartInv, InShutdown, ShuttingDown, TypeOK
  <2> QED  BY <2>1, <2>2, <2>3, <2>4, <2>5 DEF SessionInv
<1>3. CASE DetachMark(a)
  <2>1. TypeOK'
    BY <1>3, <1>0 DEF DetachMark, Labels, TypeOK
  <2>2. RuntimeInv' /\ PtyOwned'
    BY <1>3, <1>0 DEF DetachMark, RuntimeInv, PtyOwned, Holding, InShutdown, ShuttingDown, TypeOK
  <2>3. TimerInv' /\ TimersTracked'
    BY <1>3, <1>0 DEF DetachMark, RuntimeInv, TimerInv, TimersTracked, TypeOK
  <2>4. DetachInv'
    BY <1>3, <1>0 DEF DetachMark, DetachInv, TypeOK
  <2>5. CloseInv' /\ RestartInv'
    BY <1>3, <1>0 DEF DetachMark, RuntimeInv, TimerInv, CloseInv, RestartInv, InShutdown, ShuttingDown, TypeOK
  <2> QED  BY <2>1, <2>2, <2>3, <2>4, <2>5 DEF SessionInv
<1>4. CASE DetachEvent(a)
  <2>1. TypeOK'
    BY <1>4, <1>0 DEF DetachEvent, Labels, TypeOK
  <2>2. RuntimeInv' /\ PtyOwned'
    BY <1>4, <1>0 DEF DetachEvent, RuntimeInv, PtyOwned, Holding, InShutdown, ShuttingDown, TypeOK
  <2>3. TimerInv' /\ TimersTracked'
    BY <1>4, <1>0 DEF DetachEvent, RuntimeInv, TimerInv, TimersTracked, TypeOK
  <2>4. DetachInv'
    BY <1>4, <1>0 DEF DetachEvent, DetachInv, TypeOK
  <2>5. CloseInv' /\ RestartInv'
    BY <1>4, <1>0 DEF DetachEvent, RuntimeInv, TimerInv, CloseInv, RestartInv, InShutdown, ShuttingDown, TypeOK
  <2> QED  BY <2>1, <2>2, <2>3, <2>4, <2>5 DEF SessionInv
<1>5. CASE DetachRemove(a)
  <2>1. TypeOK'
    BY <1>5, <1>0 DEF DetachRemove, Labels, TypeOK
  <2>2. RuntimeInv' /\ PtyOwned'
    BY <1>5, <1>0 DEF DetachRemove, RuntimeInv, PtyOwned, Holding, InShutdown, ShuttingDown, TypeOK
  <2>3. TimerInv' /\ TimersTracked'
    BY <1>5, <1>0 DEF DetachRemove, RuntimeInv, TimerInv, TimersTracked, TypeOK
  <2>4. DetachInv'
    BY <1>5, <1>0 DEF DetachRemove, DetachInv, TypeOK
  <2>5. CloseInv' /\ RestartInv'
    BY <1>5, <1>0 DEF DetachRemove, RuntimeInv, TimerInv, CloseInv, RestartInv, InShutdown, ShuttingDown, TypeOK
  <2> QED  BY <2>1, <2>2, <2>3, <2>4, <2>5 DEF SessionInv
<1>6. CASE DetachDecide(a)
  <2>1. TypeOK'
    BY <1>6, <1>0 DEF DetachDecide, Labels, TypeOK
  <2>2. RuntimeInv' /\ PtyOwned'
    BY <1>6, <1>0 DEF DetachDecide, RuntimeInv, PtyOwned, Holding, InShutdown, ShuttingDown, TypeOK
  <2>3. TimerInv' /\ TimersTracked'
    BY <1>6, <1>0 DEF DetachDecide, RuntimeInv, TimerInv, TimersTracked, TypeOK
  <2>4. DetachInv'
    BY <1>6, <1>0 DEF DetachDecide, DetachInv, TypeOK
  <2>5. CloseInv' /\ RestartInv'
    BY <1>6, <1>0 DEF DetachDecide, RuntimeInv, TimerInv, CloseInv, RestartInv, InShutdown, ShuttingDown, TypeOK
  <2> QED  BY <2>1, <2>2, <2>3, <2>4, <2>5 DEF SessionInv
<1>7. CASE ScheduleMark(a)
  <2>1. TypeOK'
    BY <1>7, <1>0 DEF ScheduleMark, Labels, TypeOK
  <2>2. RuntimeInv' /\ PtyOwned'
    BY <1>7, <1>0 DEF ScheduleMark, RuntimeInv, PtyOwned, Holding, InShutdown, ShuttingDown, TypeOK
  <2>3. TimerInv' /\ TimersTracked'
    BY <1>7, <1>0 DEF ScheduleMark, RuntimeInv, TimerInv, TimersTracked, TypeOK
  <2>4. DetachInv'
    BY <1>7, <1>0 DEF ScheduleMark, DetachInv, TypeOK
  <2>5. CloseInv' /\ RestartInv'
    BY <1>7, <1>0 DEF ScheduleMark, RuntimeInv, TimerInv, CloseInv, RestartInv, InShutdown, ShuttingDown, TypeOK
  <2> QED  BY <2>1, <2>2, <2>3, <2>4, <2>5 DEF SessionInv
<1>8. CASE ScheduleInstall(a)
  <2>1. TypeOK'
    BY <1>8, <1>0 DEF ScheduleInstall, Labels, TypeOK
  <2>2. RuntimeInv' /\ PtyOwned'
    BY <1>8, <1>0 DEF ScheduleInstall, RuntimeInv, PtyOwned, Holding, InShutdown, ShuttingDown, TypeOK
  <2>3. TimerInv' /\ TimersTracked'
    BY <1>8, <1>0 DEF ScheduleInstall, RuntimeInv, TimerInv, TimersTracked, TypeOK
  <2>4. DetachInv'
    BY <1>8, <1>0 DEF ScheduleInstall, DetachInv, TypeOK
  <2>5. CloseInv' /\ RestartInv'
    BY <1>8, <1>0 DEF ScheduleInstall, RuntimeInv, TimerInv, CloseInv, RestartInv, InShutdown, ShuttingDown, TypeOK
  <2> QED  BY <2>1, <2>2, <2>3, <2>4, <2>5 DEF SessionInv
<1> QED  BY <1>1, <1>2, <1>3, <1>4, <1>5, <1>6, <1>7, <1>8 DEF DetachStep

\* close_session.
LEMMA CloseStepInv ==
  ASSUME SessionInv, NEW p \in Closers, CloseStep(p)
  PROVE  SessionInv'
<1>0. /\ TypeOK /\ RuntimeInv /\ PtyOwned /\ TimerInv /\ TimersTracked
      /\ DetachInv /\ CloseInv /\ RestartInv
  BY DEF SessionInv
<1> USE ProcAssumption, FaultAssumption DEF Step, Procs, Closers, db, memory, env
<1>1. CASE CloseRead(p)
  <2>1. TypeOK'
    BY <1>1, <1>0 DEF CloseRead, Labels, TypeOK
  <2>2. RuntimeInv' /\ PtyOwned'
    BY <1>1, <1>0 DEF CloseRead, RuntimeInv, PtyOwned, Holding, InShutdown, ShuttingDown, TypeOK
  <2>3. TimerInv' /\ TimersTracked'
    BY <1>1, <1>0 DEF CloseRead, RuntimeInv, TimerInv, TimersTracked, TypeOK
  <2>4. DetachInv'
    BY <1>1, <1>0 DEF CloseRead, DetachInv, TypeOK
  <2>5. CloseInv' /\ RestartInv'
    BY <1>1, <1>0 DEF CloseRead, RuntimeInv, TimerInv, CloseInv, RestartInv, InShutdown, ShuttingDown, TypeOK
  <2> QED  BY <2>1, <2>2, <2>3, <2>4, <2>5 DEF SessionInv
<1>2. CASE CloseMark(p)
  <2>1. TypeOK'
    BY <1>2, <1>0 DEF CloseMark, Labels, TypeOK
  <2>2. RuntimeInv' /\ PtyOwned'
    BY <1>2, <1>0 DEF CloseMark, RuntimeInv, PtyOwned, Holding, InShutdown, ShuttingDown, TypeOK
  <2>3. TimerInv' /\ TimersTracked'
    BY <1>2, <1>0 DEF CloseMark, RuntimeInv, TimerInv, TimersTracked, TypeOK
  <2>4. DetachInv'
    BY <1>2, <1>0 DEF CloseMark, DetachInv, TypeOK
  <2>5. CloseInv' /\ RestartInv'
    BY <1>2, <1>0 DEF CloseMark, RuntimeInv, TimerInv, CloseInv, RestartInv, InShutdown, ShuttingDown, TypeOK
  <2> QED  BY <2>1, <2>2, <2>3, <2>4, <2>5 DEF SessionInv
<1>3. CASE CloseEvent(p)
  <2>1. TypeOK'
    BY <1>3, <1>0 DEF CloseEvent, Labels, TypeOK
  <2>2. RuntimeInv' /\ PtyOwned'
    BY <1>3, <1>0 DEF CloseEvent, RuntimeInv, PtyOwned, Holding, InShutdown, ShuttingDown, TypeOK
  <2>3. TimerInv' /\ TimersTracked'
    BY <1>3, <1>0 DEF CloseEvent, RuntimeInv, TimerInv, TimersTracked, TypeOK
  <2>4. DetachInv'
    BY <1>3, <1>0 DEF CloseEvent, DetachInv, TypeOK
  <2>5. CloseInv' /\ RestartInv'
    BY <1>3, <1>0 DEF CloseEvent, RuntimeInv, TimerInv, CloseInv, RestartInv, InShutdown, ShuttingDown, TypeOK
  <2> QED  BY <2>1, <2>2, <2>3, <2>4, <2>5 DEF SessionInv
<1>4. CASE CloseRemove(p)
  <2>1. TypeOK'
    BY <1>4, <1>0 DEF CloseRemove, Labels, TypeOK
  <2>2. RuntimeInv' /\ PtyOwned'
    BY <1>4, <1>0 DEF CloseRemove, RuntimeInv, PtyOwned, Holding, InShutdown, ShuttingDown, TypeOK
  <2>3. TimerInv' /\ TimersTracked'
    BY <1>4, <1>0 DEF CloseRemove, RuntimeInv, TimerInv, TimersTracked, TypeOK
  <2>4. DetachInv'
    BY <1>4, <1>0 DEF CloseRemove, DetachInv, TypeOK
  <2>5. CloseInv' /\ RestartInv'
    BY <1>4, <1>0 DEF CloseRemove, RuntimeInv, TimerInv, CloseInv, RestartInv, InShutdown, ShuttingDown, TypeOK
  <2> QED  BY <2>1, <2>2, <2>3, <2>4, <2>5 DEF SessionInv
<1>5. CASE CloseStale(p)
  <2>1. TypeOK'
    BY <1>5, <1>0 DEF CloseStale, Labels, TypeOK
  <2>2. RuntimeInv' /\ PtyOwned'
    BY <1>5, <1>0 DEF CloseStale, RuntimeInv, PtyOwned, Holding, InShutdown, ShuttingDown, TypeOK
  <2>3. TimerInv' /\ TimersTracked'
    BY <1>5, <1>0 DEF CloseStale, RuntimeInv, TimerInv, TimersTracked, TypeOK
  <2>4. DetachInv'
    BY <1>5, <1>0 DEF CloseStale, DetachInv, TypeOK
  <2>5. CloseInv' /\ RestartInv'
    BY <1>5, <1>0 DEF CloseStale, RuntimeInv, TimerInv, CloseInv, RestartInv, InShutdown, ShuttingDown, TypeOK
  <2> QED  BY <2>1, <2>2, <2>3, <2>4, <2>5 DEF SessionInv
<1>6. CASE CloseHandle(p)
  <2>1. TypeOK'
    BY <1>6, <1>0 DEF CloseHandle, Labels, TypeOK
  <2>2. RuntimeInv' /\ PtyOwned'
    BY <1>6, <1>0 DEF CloseHandle, RuntimeInv, PtyOwned, Holding, InShutdown, ShuttingDown, TypeOK
  <2>3. TimerInv' /\ TimersTracked'
    BY <1>6, <1>0 DEF CloseHandle, RuntimeInv, TimerInv, TimersTracked, TypeOK
  <2>4. DetachInv'
    BY <1>6, <1>0 DEF CloseHandle, DetachInv, TypeOK
  <2>5. CloseInv' /\ RestartInv'
    BY <1>6, <1>0 DEF CloseHandle, RuntimeInv, TimerInv, CloseInv, RestartInv, InShutdown, ShuttingDown, TypeOK
  <2> QED  BY <2>1, <2>2, <2>3, <2>4, <2>5 DEF SessionInv
<1>7. CASE CloseFinish(p)
  <2>1. TypeOK'
    BY <1>7, <1>0 DEF CloseFinish, Labels, TypeOK
  <2>2. RuntimeInv' /\ PtyOwned'
    BY <1>7, <1>0 DEF CloseFinish, RuntimeInv, PtyOwned, Holding, InShutdown, ShuttingDown, TypeOK
  <2>3. TimerInv' /\ TimersTracked'
    BY <1>7, <1>0 DEF CloseFinish, RuntimeInv, TimerInv, TimersTracked, TypeOK
  <2>4. DetachInv'
    BY <1>7, <1>0 DEF CloseFinish, DetachInv, TypeOK
  <2>5. CloseInv' /\ RestartInv'
    BY <1>7, <1>0 DEF CloseFinish, RuntimeInv, TimerInv, CloseInv, RestartInv, InShutdown, ShuttingDown, TypeOK
  <2> QED  BY <2>1, <2>2, <2>3, <2>4, <2>5 DEF SessionInv
<1> QED  BY <1>1, <1>2, <1>3, <1>4, <1>5, <1>6, <1>7 DEF CloseStep

\* A TTL task wakes.
LEMMA ExpireInv ==
  ASSUME SessionInv, NEW t \in Timers, Expire(t)
  PROVE  SessionInv'
<1>0. /\ TypeOK /\ RuntimeInv /\ PtyOwned /\ TimerInv /\ TimersTracked
      /\ DetachInv /\ CloseInv /\ RestartInv
  BY DEF SessionInv
<1> USE ProcAssumption, FaultAssumption DEF Step, Procs, Closers, db, memory, env
<1>1. CASE Expire(t)
  <2>1. TypeOK'
    BY <1>1, <1>0 DEF Expire, Labels, TypeOK
  <2>2. RuntimeInv' /\ PtyOwned'
    BY <1>1, <1>0 DEF Expire, RuntimeInv, PtyOwned, Holding, InShutdown, ShuttingDown, TypeOK
  <2>3. TimerInv' /\ TimersTracked'
    BY <1>1, <1>0 DEF Expire, RuntimeInv, TimerInv, TimersTracked, TypeOK
  <2>4. DetachInv'
    BY <1>1, <1>0 DEF Expire, DetachInv, TypeOK
  <2>5. CloseInv' /\ RestartInv'
    BY <1>1, <1>0 DEF Expire, RuntimeInv, TimerInv, CloseInv, RestartInv, InShutdown, ShuttingDown, TypeOK
  <2> QED  BY <2>1, <2>2, <2>3, <2>4, <2>5 DEF SessionInv
<1> QED  BY <1>1

\* What a client does on its socket.
LEMMA SocketClientInv ==
  ASSUME SessionInv, NEW a \in Sockets, Upgrade(a) \/ DetachFrame(a) \/ SocketDrop(a) \/ CloseFrame(a)
  PROVE  SessionInv'
<1>0. /\ TypeOK /\ RuntimeInv /\ PtyOwned /\ TimerInv /\ TimersTracked
      /\ DetachInv /\ CloseInv /\ RestartInv
  BY DEF SessionInv
<1> USE ProcAssumption, FaultAssumption DEF Step, Procs, Closers, db, memory, env
<1>1. CASE Upgrade(a)
  <2>1. TypeOK'
    BY <1>1, <1>0 DEF Upgrade, Labels, TypeOK
  <2>2. RuntimeInv' /\ PtyOwned'
    BY <1>1, <1>0 DEF Upgrade, RuntimeInv, PtyOwned, Holding, InShutdown, ShuttingDown, TypeOK
  <2>3. TimerInv' /\ TimersTracked'
    BY <1>1, <1>0 DEF Upgrade, RuntimeInv, TimerInv, TimersTracked, TypeOK
  <2>4. DetachInv'
    BY <1>1, <1>0 DEF Upgrade, DetachInv, TypeOK
  <2>5. CloseInv' /\ RestartInv'
    BY <1>1, <1>0 DEF Upgrade, RuntimeInv, TimerInv, CloseInv, RestartInv, InShutdown, ShuttingDown, TypeOK
  <2> QED  BY <2>1, <2>2, <2>3, <2>4, <2>5 DEF SessionInv
<1>2. CASE DetachFrame(a)
  <2>1. TypeOK'
    BY <1>2, <1>0 DEF DetachFrame, Leave, Labels, TypeOK
  <2>2. RuntimeInv' /\ PtyOwned'
    BY <1>2, <1>0 DEF DetachFrame, Leave, RuntimeInv, PtyOwned, Holding, InShutdown, ShuttingDown, TypeOK
  <2>3. TimerInv' /\ TimersTracked'
    BY <1>2, <1>0 DEF DetachFrame, Leave, RuntimeInv, TimerInv, TimersTracked, TypeOK
  <2>4. DetachInv'
    BY <1>2, <1>0 DEF DetachFrame, Leave, DetachInv, TypeOK
  <2>5. CloseInv' /\ RestartInv'
    BY <1>2, <1>0 DEF DetachFrame, Leave, RuntimeInv, TimerInv, CloseInv, RestartInv, InShutdown, ShuttingDown, TypeOK
  <2> QED  BY <2>1, <2>2, <2>3, <2>4, <2>5 DEF SessionInv
<1>3. CASE SocketDrop(a)
  <2>1. TypeOK'
    BY <1>3, <1>0 DEF SocketDrop, Leave, Labels, TypeOK
  <2>2. RuntimeInv' /\ PtyOwned'
    BY <1>3, <1>0 DEF SocketDrop, Leave, RuntimeInv, PtyOwned, Holding, InShutdown, ShuttingDown, TypeOK
  <2>3. TimerInv' /\ TimersTracked'
    BY <1>3, <1>0 DEF SocketDrop, Leave, RuntimeInv, TimerInv, TimersTracked, TypeOK
  <2>4. DetachInv'
    BY <1>3, <1>0 DEF SocketDrop, Leave, DetachInv, TypeOK
  <2>5. CloseInv' /\ RestartInv'
    BY <1>3, <1>0 DEF SocketDrop, Leave, RuntimeInv, TimerInv, CloseInv, RestartInv, InShutdown, ShuttingDown, TypeOK
  <2> QED  BY <2>1, <2>2, <2>3, <2>4, <2>5 DEF SessionInv
<1>4. CASE CloseFrame(a)
  <2>1. TypeOK'
    BY <1>4, <1>0 DEF CloseFrame, Labels, TypeOK
  <2>2. RuntimeInv' /\ PtyOwned'
    BY <1>4, <1>0 DEF CloseFrame, RuntimeInv, PtyOwned, Holding, InShutdown, ShuttingDown, TypeOK
  <2>3. TimerInv' /\ TimersTracked'
    BY <1>4, <1>0 DEF CloseFrame, RuntimeInv, TimerInv, TimersTracked, TypeOK
  <2>4. DetachInv'
    BY <1>4, <1>0 DEF CloseFrame, DetachInv, TypeOK
  <2>5. CloseInv' /\ RestartInv'
    BY <1>4, <1>0 DEF CloseFrame, RuntimeInv, TimerInv, CloseInv, RestartInv, InShutdown, ShuttingDown, TypeOK
  <2> QED  BY <2>1, <2>2, <2>3, <2>4, <2>5 DEF SessionInv
<1> QED  BY <1>1, <1>2, <1>3, <1>4

\* A create request arrives; the remote shell exits.
LEMMA CreateOrExitInv ==
  ASSUME SessionInv, Create \/ RemoteExit
  PROVE  SessionInv'
<1>0. /\ TypeOK /\ RuntimeInv /\ PtyOwned /\ TimerInv /\ TimersTracked
      /\ DetachInv /\ CloseInv /\ RestartInv
  BY DEF SessionInv
<1> USE ProcAssumption, FaultAssumption DEF Step, Procs, Closers, db, memory, env
<1>1. CASE Create
  <2>1. TypeOK'
    BY <1>1, <1>0 DEF Create, Labels, TypeOK
  <2>2. RuntimeInv' /\ PtyOwned'
    BY <1>1, <1>0 DEF Create, RuntimeInv, PtyOwned, Holding, InShutdown, ShuttingDown, TypeOK
  <2>3. TimerInv' /\ TimersTracked'
    BY <1>1, <1>0 DEF Create, RuntimeInv, TimerInv, TimersTracked, TypeOK
  <2>4. DetachInv'
    BY <1>1, <1>0 DEF Create, DetachInv, TypeOK
  <2>5. CloseInv' /\ RestartInv'
    BY <1>1, <1>0 DEF Create, RuntimeInv, TimerInv, CloseInv, RestartInv, InShutdown, ShuttingDown, TypeOK
  <2> QED  BY <2>1, <2>2, <2>3, <2>4, <2>5 DEF SessionInv
<1>2. CASE RemoteExit
  <2>1. TypeOK'
    BY <1>2, <1>0 DEF RemoteExit, Labels, TypeOK
  <2>2. RuntimeInv' /\ PtyOwned'
    BY <1>2, <1>0 DEF RemoteExit, RuntimeInv, PtyOwned, Holding, InShutdown, ShuttingDown, TypeOK
  <2>3. TimerInv' /\ TimersTracked'
    BY <1>2, <1>0 DEF RemoteExit, RuntimeInv, TimerInv, TimersTracked, TypeOK
  <2>4. DetachInv'
    BY <1>2, <1>0 DEF RemoteExit, DetachInv, TypeOK
  <2>5. CloseInv' /\ RestartInv'
    BY <1>2, <1>0 DEF RemoteExit, RuntimeInv, TimerInv, CloseInv, RestartInv, InShutdown, ShuttingDown, TypeOK
  <2> QED  BY <2>1, <2>2, <2>3, <2>4, <2>5 DEF SessionInv
<1> QED  BY <1>1, <1>2

\* A close request arrives.
LEMMA CloseRequestInv ==
  ASSUME SessionInv, NEW k \in Requests, CloseRequest(k)
  PROVE  SessionInv'
<1>0. /\ TypeOK /\ RuntimeInv /\ PtyOwned /\ TimerInv /\ TimersTracked
      /\ DetachInv /\ CloseInv /\ RestartInv
  BY DEF SessionInv
<1> USE ProcAssumption, FaultAssumption DEF Step, Procs, Closers, db, memory, env
<1>1. CASE CloseRequest(k)
  <2>1. TypeOK'
    BY <1>1, <1>0 DEF CloseRequest, Labels, TypeOK
  <2>2. RuntimeInv' /\ PtyOwned'
    BY <1>1, <1>0 DEF CloseRequest, RuntimeInv, PtyOwned, Holding, InShutdown, ShuttingDown, TypeOK
  <2>3. TimerInv' /\ TimersTracked'
    BY <1>1, <1>0 DEF CloseRequest, RuntimeInv, TimerInv, TimersTracked, TypeOK
  <2>4. DetachInv'
    BY <1>1, <1>0 DEF CloseRequest, DetachInv, TypeOK
  <2>5. CloseInv' /\ RestartInv'
    BY <1>1, <1>0 DEF CloseRequest, RuntimeInv, TimerInv, CloseInv, RestartInv, InShutdown, ShuttingDown, TypeOK
  <2> QED  BY <2>1, <2>2, <2>3, <2>4, <2>5 DEF SessionInv
<1> QED  BY <1>1

\* I/O errors of the create request and of the forwarder, and restarts.
LEMMA TaskFailInv ==
  ASSUME SessionInv, CreateFails \/ StartFails \/ RecordFails \/ ForwarderFails \/ Restart
  PROVE  SessionInv'
<1>0. /\ TypeOK /\ RuntimeInv /\ PtyOwned /\ TimerInv /\ TimersTracked
      /\ DetachInv /\ CloseInv /\ RestartInv
  BY DEF SessionInv
<1> USE ProcAssumption, FaultAssumption DEF Step, Procs, Closers, db, memory, env
<1>1. CASE CreateFails
  <2>1. TypeOK'
    BY <1>1, <1>0 DEF CreateFails, Fault, Labels, TypeOK
  <2>2. RuntimeInv' /\ PtyOwned'
    BY <1>1, <1>0 DEF CreateFails, Fault, RuntimeInv, PtyOwned, Holding, InShutdown, ShuttingDown, TypeOK
  <2>3. TimerInv' /\ TimersTracked'
    BY <1>1, <1>0 DEF CreateFails, Fault, RuntimeInv, TimerInv, TimersTracked, TypeOK
  <2>4. DetachInv'
    BY <1>1, <1>0 DEF CreateFails, Fault, DetachInv, TypeOK
  <2>5. CloseInv' /\ RestartInv'
    BY <1>1, <1>0 DEF CreateFails, Fault, RuntimeInv, TimerInv, CloseInv, RestartInv, InShutdown, ShuttingDown, TypeOK
  <2> QED  BY <2>1, <2>2, <2>3, <2>4, <2>5 DEF SessionInv
<1>2. CASE StartFails
  <2>1. TypeOK'
    BY <1>2, <1>0 DEF StartFails, Fault, StartGivesUp, Labels, TypeOK
  <2>2. RuntimeInv' /\ PtyOwned'
    BY <1>2, <1>0 DEF StartFails, Fault, StartGivesUp, RuntimeInv, PtyOwned, Holding, InShutdown, ShuttingDown, TypeOK
  <2>3. TimerInv' /\ TimersTracked'
    BY <1>2, <1>0 DEF StartFails, Fault, StartGivesUp, RuntimeInv, TimerInv, TimersTracked, TypeOK
  <2>4. DetachInv'
    BY <1>2, <1>0 DEF StartFails, Fault, StartGivesUp, DetachInv, TypeOK
  <2>5. CloseInv' /\ RestartInv'
    BY <1>2, <1>0 DEF StartFails, Fault, StartGivesUp, RuntimeInv, TimerInv, CloseInv, RestartInv, InShutdown, ShuttingDown, TypeOK
  <2> QED  BY <2>1, <2>2, <2>3, <2>4, <2>5 DEF SessionInv
<1>3. CASE RecordFails
  <2>1. TypeOK'
    BY <1>3, <1>0 DEF RecordFails, Fault, Labels, TypeOK
  <2>2. RuntimeInv' /\ PtyOwned'
    BY <1>3, <1>0 DEF RecordFails, Fault, RuntimeInv, PtyOwned, Holding, InShutdown, ShuttingDown, TypeOK
  <2>3. TimerInv' /\ TimersTracked'
    BY <1>3, <1>0 DEF RecordFails, Fault, RuntimeInv, TimerInv, TimersTracked, TypeOK
  <2>4. DetachInv'
    BY <1>3, <1>0 DEF RecordFails, Fault, DetachInv, TypeOK
  <2>5. CloseInv' /\ RestartInv'
    BY <1>3, <1>0 DEF RecordFails, Fault, RuntimeInv, TimerInv, CloseInv, RestartInv, InShutdown, ShuttingDown, TypeOK
  <2> QED  BY <2>1, <2>2, <2>3, <2>4, <2>5 DEF SessionInv
<1>4. CASE ForwarderFails
  <2>1. TypeOK'
    BY <1>4, <1>0 DEF ForwarderFails, Fault, Labels, TypeOK
  <2>2. RuntimeInv' /\ PtyOwned'
    BY <1>4, <1>0 DEF ForwarderFails, Fault, RuntimeInv, PtyOwned, Holding, InShutdown, ShuttingDown, TypeOK
  <2>3. TimerInv' /\ TimersTracked'
    BY <1>4, <1>0 DEF ForwarderFails, Fault, RuntimeInv, TimerInv, TimersTracked, TypeOK
  <2>4. DetachInv'
    BY <1>4, <1>0 DEF ForwarderFails, Fault, DetachInv, TypeOK
  <2>5. CloseInv' /\ RestartInv'
    BY <1>4, <1>0 DEF ForwarderFails, Fault, RuntimeInv, TimerInv, CloseInv, RestartInv, InShutdown, ShuttingDown, TypeOK
  <2> QED  BY <2>1, <2>2, <2>3, <2>4, <2>5 DEF SessionInv
<1>5. CASE Restart
  <2>1. TypeOK'
    BY <1>5, <1>0 DEF Restart, Labels, TypeOK
  <2>2. RuntimeInv' /\ PtyOwned'
    BY <1>5, <1>0 DEF Restart, RuntimeInv, PtyOwned, Holding, InShutdown, ShuttingDown, TypeOK
  <2>3. TimerInv' /\ TimersTracked'
    BY <1>5, <1>0 DEF Restart, RuntimeInv, TimerInv, TimersTracked, TypeOK
  <2>4. DetachInv'
    BY <1>5, <1>0 DEF Restart, DetachInv, TypeOK
  <2>5. CloseInv' /\ RestartInv'
    BY <1>5, <1>0 DEF Restart, RuntimeInv, TimerInv, CloseInv, RestartInv, InShutdown, ShuttingDown, TypeOK
  <2> QED  BY <2>1, <2>2, <2>3, <2>4, <2>5 DEF SessionInv
<1> QED  BY <1>1, <1>2, <1>3, <1>4, <1>5

\* I/O errors of a socket's task.
LEMMA SocketFailInv ==
  ASSUME SessionInv, NEW a \in Sockets, AttachFails(a) \/ AckLost(a) \/ DetachFails(a) \/ ScheduleMarkFails(a)
  PROVE  SessionInv'
<1>0. /\ TypeOK /\ RuntimeInv /\ PtyOwned /\ TimerInv /\ TimersTracked
      /\ DetachInv /\ CloseInv /\ RestartInv
  BY DEF SessionInv
<1> USE ProcAssumption, FaultAssumption DEF Step, Procs, Closers, db, memory, env
<1>1. CASE AttachFails(a)
  <2>1. TypeOK'
    BY <1>1, <1>0 DEF AttachFails, Fault, Labels, TypeOK
  <2>2. RuntimeInv' /\ PtyOwned'
    BY <1>1, <1>0 DEF AttachFails, Fault, RuntimeInv, PtyOwned, Holding, InShutdown, ShuttingDown, TypeOK
  <2>3. TimerInv' /\ TimersTracked'
    BY <1>1, <1>0 DEF AttachFails, Fault, RuntimeInv, TimerInv, TimersTracked, TypeOK
  <2>4. DetachInv'
    BY <1>1, <1>0 DEF AttachFails, Fault, DetachInv, TypeOK
  <2>5. CloseInv' /\ RestartInv'
    BY <1>1, <1>0 DEF AttachFails, Fault, RuntimeInv, TimerInv, CloseInv, RestartInv, InShutdown, ShuttingDown, TypeOK
  <2> QED  BY <2>1, <2>2, <2>3, <2>4, <2>5 DEF SessionInv
<1>2. CASE AckLost(a)
  <2>1. TypeOK'
    BY <1>2, <1>0 DEF AckLost, Fault, Labels, TypeOK
  <2>2. RuntimeInv' /\ PtyOwned'
    BY <1>2, <1>0 DEF AckLost, Fault, RuntimeInv, PtyOwned, Holding, InShutdown, ShuttingDown, TypeOK
  <2>3. TimerInv' /\ TimersTracked'
    BY <1>2, <1>0 DEF AckLost, Fault, RuntimeInv, TimerInv, TimersTracked, TypeOK
  <2>4. DetachInv'
    BY <1>2, <1>0 DEF AckLost, Fault, DetachInv, TypeOK
  <2>5. CloseInv' /\ RestartInv'
    BY <1>2, <1>0 DEF AckLost, Fault, RuntimeInv, TimerInv, CloseInv, RestartInv, InShutdown, ShuttingDown, TypeOK
  <2> QED  BY <2>1, <2>2, <2>3, <2>4, <2>5 DEF SessionInv
<1>3. CASE DetachFails(a)
  <2>1. TypeOK'
    BY <1>3, <1>0 DEF DetachFails, Fault, Labels, TypeOK
  <2>2. RuntimeInv' /\ PtyOwned'
    BY <1>3, <1>0 DEF DetachFails, Fault, RuntimeInv, PtyOwned, Holding, InShutdown, ShuttingDown, TypeOK
  <2>3. TimerInv' /\ TimersTracked'
    BY <1>3, <1>0 DEF DetachFails, Fault, RuntimeInv, TimerInv, TimersTracked, TypeOK
  <2>4. DetachInv'
    BY <1>3, <1>0 DEF DetachFails, Fault, DetachInv, TypeOK
  <2>5. CloseInv' /\ RestartInv'
    BY <1>3, <1>0 DEF DetachFails, Fault, RuntimeInv, TimerInv, CloseInv, RestartInv, InShutdown, ShuttingDown, TypeOK
  <2> QED  BY <2>1, <2>2, <2>3, <2>4, <2>5 DEF SessionInv
<1>4. CASE ScheduleMarkFails(a)
  <2>1. TypeOK'
    BY <1>4, <1>0 DEF ScheduleMarkFails, Fault, Labels, TypeOK
  <2>2. RuntimeInv' /\ PtyOwned'
    BY <1>4, <1>0 DEF ScheduleMarkFails, Fault, RuntimeInv, PtyOwned, Holding, InShutdown, ShuttingDown, TypeOK
  <2>3. TimerInv' /\ TimersTracked'
    BY <1>4, <1>0 DEF ScheduleMarkFails, Fault, RuntimeInv, TimerInv, TimersTracked, TypeOK
  <2>4. DetachInv'
    BY <1>4, <1>0 DEF ScheduleMarkFails, Fault, DetachInv, TypeOK
  <2>5. CloseInv' /\ RestartInv'
    BY <1>4, <1>0 DEF ScheduleMarkFails, Fault, RuntimeInv, TimerInv, CloseInv, RestartInv, InShutdown, ShuttingDown, TypeOK
  <2> QED  BY <2>1, <2>2, <2>3, <2>4, <2>5 DEF SessionInv
<1> QED  BY <1>1, <1>2, <1>3, <1>4

\* I/O errors of close_session.
LEMMA CloseFailInv ==
  ASSUME SessionInv, NEW p \in Closers, CloseFails(p)
  PROVE  SessionInv'
<1>0. /\ TypeOK /\ RuntimeInv /\ PtyOwned /\ TimerInv /\ TimersTracked
      /\ DetachInv /\ CloseInv /\ RestartInv
  BY DEF SessionInv
<1> USE ProcAssumption, FaultAssumption DEF Step, Procs, Closers, db, memory, env
<1>1. CASE CloseFails(p)
  <2>1. TypeOK'
    BY <1>1, <1>0 DEF CloseFails, Fault, Labels, TypeOK
  <2>2. RuntimeInv' /\ PtyOwned'
    BY <1>1, <1>0 DEF CloseFails, Fault, RuntimeInv, PtyOwned, Holding, InShutdown, ShuttingDown, TypeOK
  <2>3. TimerInv' /\ TimersTracked'
    BY <1>1, <1>0 DEF CloseFails, Fault, RuntimeInv, TimerInv, TimersTracked, TypeOK
  <2>4. DetachInv'
    BY <1>1, <1>0 DEF CloseFails, Fault, DetachInv, TypeOK
  <2>5. CloseInv' /\ RestartInv'
    BY <1>1, <1>0 DEF CloseFails, Fault, RuntimeInv, TimerInv, CloseInv, RestartInv, InShutdown, ShuttingDown, TypeOK
  <2> QED  BY <2>1, <2>2, <2>3, <2>4, <2>5 DEF SessionInv
<1> QED  BY <1>1

LEMMA NextSessionInv ==
  SessionInv /\ [Next]_vars => SessionInv'
<1> SUFFICES ASSUME SessionInv, [Next]_vars PROVE SessionInv'
  OBVIOUS
<1>1. CASE CreateStep
  BY <1>1, CreateStepInv
<1>2. CASE ForwarderStep
  BY <1>2, ForwarderStepInv
<1>3. CASE \E a \in Sockets : AttachStep(a) \/ DetachStep(a)
  BY <1>3, AttachStepInv, DetachStepInv
<1>4. CASE \E t \in Timers : Expire(t)
  BY <1>4, ExpireInv
<1>5. CASE \E p \in Closers : CloseStep(p)
  BY <1>5, CloseStepInv
<1>6. CASE ClientStep
  BY <1>6, CreateOrExitInv, SocketClientInv, CloseRequestInv DEF ClientStep
<1>7. CASE FailStep
  BY <1>7, TaskFailInv, SocketFailInv, CloseFailInv DEF FailStep
<1>8. CASE UNCHANGED vars
  <2> USE <1>8 DEF SessionInv, vars, db, memory, env
  <2>1. TypeOK' /\ RuntimeInv' /\ PtyOwned'
    BY DEF TypeOK, RuntimeInv, PtyOwned
  <2>2. TimerInv' /\ TimersTracked' /\ DetachInv'
    BY DEF TimerInv, TimersTracked, DetachInv
  <2>3. CloseInv' /\ RestartInv'
    BY DEF CloseInv, RestartInv
  <2> QED  BY <2>1, <2>2, <2>3
<1> QED  BY <1>1, <1>2, <1>3, <1>4, <1>5, <1>6, <1>7, <1>8 DEF Next, Idle

-----------------------------------------------------------------------------
(***************************************************************************)
(* The theorems.                                                           *)
(***************************************************************************)

\* The inductive invariant holds throughout, with any I/O errors and any
\* restarts.
THEOREM SessionInvariant == Spec => []SessionInv
<1> QED  BY InitSessionInv, NextSessionInv, PTL DEF Spec

\* The session's variables keep their types.
THEOREM SessionTypes == Spec => []TypeOK
<1>1. SessionInv => TypeOK
  BY DEF SessionInv
<1> QED  BY <1>1, SessionInvariant, PTL

\* No PTY is ever orphaned by the race of start_live_pty, close_session and
\* record_pty_start_failed.
THEOREM NoOrphanPty == Spec => []PtyOwned
<1>1. SessionInv => PtyOwned
  BY DEF SessionInv
<1> QED  BY <1>1, SessionInvariant, PTL

\* Once a close has answered Ok the session never has a live runtime again.
THEOREM ClosedForGood == Spec => []CloseIsFinal
<1>1. SessionInv => CloseIsFinal
  BY DEF SessionInv, CloseInv, CloseIsFinal
<1> QED  BY <1>1, SessionInvariant, PTL

\* No TTL task that may still fire is out of the manager's sight.
THEOREM NoStrayTimer == Spec => []TimersTracked
<1>1. SessionInv => TimersTracked
  BY DEF SessionInv
<1> QED  BY <1>1, SessionInvariant, PTL

\* Each attachment gets at most one detached event.
THEOREM DetachedEventOnce == Spec => []DetachedOnce
<1>1. SessionInv => DetachedOnce
  BY DEF SessionInv, DetachInv, DetachedOnce
<1> QED  BY <1>1, SessionInvariant, PTL

\* A session a restart has hit is over for good.
THEOREM RestartIsFinal == Spec => []RestartEndsSession
<1>1. SessionInv => RestartEndsSession
  BY DEF SessionInv, RestartInv, RestartEndsSession
<1> QED  BY <1>1, SessionInvariant, PTL
=============================================================================
