-------------------------- MODULE WindSession_proofs --------------------------
(***************************************************************************)
(* Proofs about WindSession, for any sets of workers and callers, any      *)
(* number of retries and any number of calls.                              *)
(***************************************************************************)
EXTENDS WindSession, TLAPS

\* Whoever is inside start, stop, reconnect or _shutdown owns the lock, and
\* nobody else does.
LockInv == \A t \in Threads : pc[t] \in InLifecycle <=> lock = t

\* The flags say "not usable" while start or reconnect is under way.
DownInv ==
  \A t \in Threads :
    /\ pc[t] = "starting" => ~started
    /\ pc[t] \in {"stopping", "restarting", "sleeping"} => needsReconnect

SdkInv == Usable => sdk # "stopped"

\* A restart that is under way forgets no failure either.
BlameInv ==
  poisoned /\ (Usable \/ \E t \in Threads : pc[t] \in {"starting", "restarting"})
    => \E t \in Threads : pc[t] = "wantInvalidate"

IInv == TypeOK /\ LockInv /\ DownInv /\ SdkInv /\ BlameInv

-----------------------------------------------------------------------------
(* Every step keeps the types. *)
LEMMA TypeStep ==
  ASSUME TypeOK, [Next]_vars
  PROVE  TypeOK'
<1> USE NoThreadAssumption, RetriesAssumption, CallsAssumption DEF TypeOK, InLifecycle, Waiting, Ops, SdkStates, flags
<1>r. 1 \in 0..MaxRetries /\ MaxRetries \in 0..MaxRetries
  BY RetriesAssumption
<1>1. CASE UNCHANGED vars
  BY <1>1 DEF vars
<1>2. CASE SdkDrops
  BY <1>2 DEF SdkDrops
<1>3. ASSUME NEW t \in Threads, Calls(t) \/ Lifecycle(t) \/ Query(t)
      PROVE  TypeOK'
  <2>1. CASE CallGet(t)
    BY <2>1 DEF CallGet, Begin, Goto
  <2>2. CASE CallQuery(t)
    BY <2>2 DEF CallQuery, Begin, Goto
  <2>3. CASE CallInvalidate(t)
    BY <2>3 DEF CallInvalidate, Begin, Goto
  <2>4. CASE CallShutdown(t)
    BY <2>4 DEF CallShutdown, Begin, Goto
  <2>5. CASE GetReady(t)
    BY <2>5 DEF GetReady, AfterGet, IsConnected, Goto
  <2>6. CASE GetStarts(t)
    BY <2>6 DEF GetStarts, Goto
  <2>7. CASE GetReconnects(t)
    <3>1. attempts' = [attempts EXCEPT ![t] = MaxRetries]
      BY <2>7 DEF GetReconnects, EnterReconnect, IsConnected
    <3>2. attempts' \in [Threads -> 0..MaxRetries]
      BY <3>1, <1>r
    <3> QED
      BY <2>7, <3>2 DEF GetReconnects, EnterReconnect, IsConnected, Goto
  <2>8. CASE StartSucceeds(t)
    BY <2>8 DEF StartSucceeds, AfterGet, Goto
  <2>9. CASE StartFails(t)
    BY <2>9 DEF StartFails, Goto
  <2>10. CASE StopReturns(t)
    BY <2>10 DEF StopReturns, Goto
  <2>11. CASE RestartSucceeds(t)
    BY <2>11 DEF RestartSucceeds, AfterGet, Goto
  <2>12. CASE RestartFails(t)
    BY <2>12 DEF RestartFails, Goto
  <2>13. CASE WakesUp(t)
    BY <2>13 DEF WakesUp, Goto
  <2>14. CASE ReconnectGivesUp(t)
    BY <2>14 DEF ReconnectGivesUp, Goto
  <2>15. CASE Invalidate(t)
    BY <2>15 DEF Invalidate, Goto
  <2>16. CASE RecoverReconnects(t)
    <3>1. attempts' = [attempts EXCEPT ![t] = 1]
      BY <2>16 DEF RecoverReconnects
    <3>2. attempts' \in [Threads -> 0..MaxRetries]
      BY <3>1, <1>r
    <3> QED
      BY <2>16, <3>2 DEF RecoverReconnects, Goto
  <2>17. CASE ShutdownStops(t)
    BY <2>17 DEF ShutdownStops, Goto
  <2>18. CASE ShutdownIdle(t)
    BY <2>18 DEF ShutdownIdle, Goto
  <2>19. CASE ShutdownDone(t)
    BY <2>19 DEF ShutdownDone, Goto
  <2>20. CASE QueryReturns(t)
    BY <2>20 DEF QueryReturns, Goto
  <2>21. CASE QueryHitsTransportError(t)
    BY <2>21 DEF QueryHitsTransportError, Goto
  <2> QED
    BY <1>3, <2>1, <2>2, <2>3, <2>4, <2>5, <2>6, <2>7, <2>8, <2>9, <2>10, <2>11, <2>12, <2>13, <2>14, <2>15, <2>16, <2>17, <2>18, <2>19, <2>20, <2>21 DEF Calls, Lifecycle, Query
<1> QED
  BY <1>1, <1>2, <1>3 DEF Next

(* Every step keeps the lock with the thread in the lifecycle code. *)
LEMMA LockStep ==
  ASSUME TypeOK, LockInv, [Next]_vars
  PROVE  LockInv'
<1> USE NoThreadAssumption DEF TypeOK, LockInv, InLifecycle, Waiting
<1>1. CASE UNCHANGED vars
  BY <1>1 DEF vars
<1>2. CASE SdkDrops
  BY <1>2 DEF SdkDrops
<1>3. ASSUME NEW t \in Threads, Calls(t) \/ Lifecycle(t) \/ Query(t)
      PROVE  LockInv'
  <2>1. CASE CallGet(t)
    BY <2>1 DEF CallGet, Begin, Goto
  <2>2. CASE CallQuery(t)
    BY <2>2 DEF CallQuery, Begin, Goto
  <2>3. CASE CallInvalidate(t)
    BY <2>3 DEF CallInvalidate, Begin, Goto
  <2>4. CASE CallShutdown(t)
    BY <2>4 DEF CallShutdown, Begin, Goto
  <2>5. CASE GetReady(t)
    BY <2>5 DEF GetReady, AfterGet, IsConnected, Goto
  <2>6. CASE GetStarts(t)
    BY <2>6 DEF GetStarts, Goto
  <2>7. CASE GetReconnects(t)
    BY <2>7 DEF GetReconnects, EnterReconnect, IsConnected, Goto
  <2>8. CASE StartSucceeds(t)
    BY <2>8 DEF StartSucceeds, AfterGet, Goto
  <2>9. CASE StartFails(t)
    BY <2>9 DEF StartFails, Goto
  <2>10. CASE StopReturns(t)
    BY <2>10 DEF StopReturns, Goto
  <2>11. CASE RestartSucceeds(t)
    BY <2>11 DEF RestartSucceeds, AfterGet, Goto
  <2>12. CASE RestartFails(t)
    BY <2>12 DEF RestartFails, Goto
  <2>13. CASE WakesUp(t)
    BY <2>13 DEF WakesUp, Goto
  <2>14. CASE ReconnectGivesUp(t)
    BY <2>14 DEF ReconnectGivesUp, Goto
  <2>15. CASE Invalidate(t)
    BY <2>15 DEF Invalidate, Goto
  <2>16. CASE RecoverReconnects(t)
    BY <2>16 DEF RecoverReconnects, Goto
  <2>17. CASE ShutdownStops(t)
    BY <2>17 DEF ShutdownStops, Goto
  <2>18. CASE ShutdownIdle(t)
    BY <2>18 DEF ShutdownIdle, Goto
  <2>19. CASE ShutdownDone(t)
    BY <2>19 DEF ShutdownDone, Goto
  <2>20. CASE QueryReturns(t)
    BY <2>20 DEF QueryReturns, Goto
  <2>21. CASE QueryHitsTransportError(t)
    BY <2>21 DEF QueryHitsTransportError, Goto
  <2> QED
    BY <1>3, <2>1, <2>2, <2>3, <2>4, <2>5, <2>6, <2>7, <2>8, <2>9, <2>10, <2>11, <2>12, <2>13, <2>14, <2>15, <2>16, <2>17, <2>18, <2>19, <2>20, <2>21 DEF Calls, Lifecycle, Query
<1> QED
  BY <1>1, <1>2, <1>3 DEF Next

(* Every step keeps the flags down during a restart: whoever raises them
   owns the lock, so nobody else is restarting. *)
LEMMA DownStep ==
  ASSUME TypeOK, LockInv, DownInv, [Next]_vars
  PROVE  DownInv'
<1> USE NoThreadAssumption DEF TypeOK, LockInv, DownInv, InLifecycle, Waiting
<1>1. CASE UNCHANGED vars
  BY <1>1 DEF vars
<1>2. CASE SdkDrops
  BY <1>2 DEF SdkDrops
<1>3. ASSUME NEW t \in Threads, Calls(t) \/ Lifecycle(t) \/ Query(t)
      PROVE  DownInv'
  <2>1. CASE CallGet(t)
    BY <2>1 DEF CallGet, Begin, Goto
  <2>2. CASE CallQuery(t)
    BY <2>2 DEF CallQuery, Begin, Goto
  <2>3. CASE CallInvalidate(t)
    BY <2>3 DEF CallInvalidate, Begin, Goto
  <2>4. CASE CallShutdown(t)
    BY <2>4 DEF CallShutdown, Begin, Goto
  <2>5. CASE GetReady(t)
    BY <2>5 DEF GetReady, AfterGet, IsConnected, Goto
  <2>6. CASE GetStarts(t)
    BY <2>6 DEF GetStarts, Goto
  <2>7. CASE GetReconnects(t)
    BY <2>7 DEF GetReconnects, EnterReconnect, IsConnected, Goto
  <2>8. CASE StartSucceeds(t)
    BY <2>8 DEF StartSucceeds, AfterGet, Goto
  <2>9. CASE StartFails(t)
    BY <2>9 DEF StartFails, Goto
  <2>10. CASE StopReturns(t)
    BY <2>10 DEF StopReturns, Goto
  <2>11. CASE RestartSucceeds(t)
    BY <2>11 DEF RestartSucceeds, AfterGet, Goto
  <2>12. CASE RestartFails(t)
    BY <2>12 DEF RestartFails, Goto
  <2>13. CASE WakesUp(t)
    BY <2>13 DEF WakesUp, Goto
  <2>14. CASE ReconnectGivesUp(t)
    BY <2>14 DEF ReconnectGivesUp, Goto
  <2>15. CASE Invalidate(t)
    BY <2>15 DEF Invalidate, Goto
  <2>16. CASE RecoverReconnects(t)
    BY <2>16 DEF RecoverReconnects, Goto
  <2>17. CASE ShutdownStops(t)
    BY <2>17 DEF ShutdownStops, Goto
  <2>18. CASE ShutdownIdle(t)
    BY <2>18 DEF ShutdownIdle, Goto
  <2>19. CASE ShutdownDone(t)
    BY <2>19 DEF ShutdownDone, Goto
  <2>20. CASE QueryReturns(t)
    BY <2>20 DEF QueryReturns, Goto
  <2>21. CASE QueryHitsTransportError(t)
    BY <2>21 DEF QueryHitsTransportError, Goto
  <2> QED
    BY <1>3, <2>1, <2>2, <2>3, <2>4, <2>5, <2>6, <2>7, <2>8, <2>9, <2>10, <2>11, <2>12, <2>13, <2>14, <2>15, <2>16, <2>17, <2>18, <2>19, <2>20, <2>21 DEF Calls, Lifecycle, Query
<1> QED
  BY <1>1, <1>2, <1>3 DEF Next

(* Every step keeps a usable session on an SDK that is not stopped. *)
LEMMA SdkStep ==
  ASSUME TypeOK, LockInv, DownInv, SdkInv, [Next]_vars
  PROVE  SdkInv'
<1> USE NoThreadAssumption DEF TypeOK, LockInv, DownInv, SdkInv, Usable, SdkStates, InLifecycle
<1>1. CASE UNCHANGED vars
  BY <1>1 DEF vars
<1>2. CASE SdkDrops
  BY <1>2 DEF SdkDrops
<1>3. ASSUME NEW t \in Threads, Calls(t) \/ Lifecycle(t) \/ Query(t)
      PROVE  SdkInv'
  <2>1. CASE CallGet(t)
    BY <2>1 DEF CallGet, Begin, Goto
  <2>2. CASE CallQuery(t)
    BY <2>2 DEF CallQuery, Begin, Goto
  <2>3. CASE CallInvalidate(t)
    BY <2>3 DEF CallInvalidate, Begin, Goto
  <2>4. CASE CallShutdown(t)
    BY <2>4 DEF CallShutdown, Begin, Goto
  <2>5. CASE GetReady(t)
    BY <2>5 DEF GetReady, AfterGet, IsConnected, Goto
  <2>6. CASE GetStarts(t)
    BY <2>6 DEF GetStarts, Goto
  <2>7. CASE GetReconnects(t)
    BY <2>7 DEF GetReconnects, EnterReconnect, IsConnected, Goto
  <2>8. CASE StartSucceeds(t)
    BY <2>8 DEF StartSucceeds, AfterGet, Goto
  <2>9. CASE StartFails(t)
    BY <2>9 DEF StartFails, Goto
  <2>10. CASE StopReturns(t)
    BY <2>10 DEF StopReturns, Goto
  <2>11. CASE RestartSucceeds(t)
    BY <2>11 DEF RestartSucceeds, AfterGet, Goto
  <2>12. CASE RestartFails(t)
    BY <2>12 DEF RestartFails, Goto
  <2>13. CASE WakesUp(t)
    BY <2>13 DEF WakesUp, Goto
  <2>14. CASE ReconnectGivesUp(t)
    BY <2>14 DEF ReconnectGivesUp, Goto
  <2>15. CASE Invalidate(t)
    BY <2>15 DEF Invalidate, Goto
  <2>16. CASE RecoverReconnects(t)
    BY <2>16 DEF RecoverReconnects, Goto
  <2>17. CASE ShutdownStops(t)
    BY <2>17 DEF ShutdownStops, Goto
  <2>18. CASE ShutdownIdle(t)
    BY <2>18 DEF ShutdownIdle, Goto
  <2>19. CASE ShutdownDone(t)
    BY <2>19 DEF ShutdownDone, Goto
  <2>20. CASE QueryReturns(t)
    BY <2>20 DEF QueryReturns, Goto
  <2>21. CASE QueryHitsTransportError(t)
    BY <2>21 DEF QueryHitsTransportError, Goto
  <2> QED
    BY <1>3, <2>1, <2>2, <2>3, <2>4, <2>5, <2>6, <2>7, <2>8, <2>9, <2>10, <2>11, <2>12, <2>13, <2>14, <2>15, <2>16, <2>17, <2>18, <2>19, <2>20, <2>21 DEF Calls, Lifecycle, Query
<1> QED
  BY <1>1, <1>2, <1>3 DEF Next

(* Every step keeps a blamed session unusable or its blamer on the way: the
   mark can be made only while no restart holds the lock. *)
LEMMA BlameStep ==
  ASSUME TypeOK, LockInv, DownInv, BlameInv, [Next]_vars
  PROVE  BlameInv'
<1> USE NoThreadAssumption DEF TypeOK, LockInv, DownInv, BlameInv, Usable, InLifecycle, Waiting
<1>1. CASE UNCHANGED vars
  BY <1>1 DEF vars
<1>2. CASE SdkDrops
  BY <1>2 DEF SdkDrops
<1>3. ASSUME NEW t \in Threads, Calls(t) \/ Lifecycle(t) \/ Query(t)
      PROVE  BlameInv'
  <2>1. CASE CallGet(t)
    BY <2>1 DEF CallGet, Begin, Goto
  <2>2. CASE CallQuery(t)
    BY <2>2 DEF CallQuery, Begin, Goto
  <2>3. CASE CallInvalidate(t)
    BY <2>3 DEF CallInvalidate, Begin, Goto
  <2>4. CASE CallShutdown(t)
    BY <2>4 DEF CallShutdown, Begin, Goto
  <2>5. CASE GetReady(t)
    BY <2>5 DEF GetReady, AfterGet, IsConnected, Goto
  <2>6. CASE GetStarts(t)
    BY <2>6 DEF GetStarts, Goto
  <2>7. CASE GetReconnects(t)
    BY <2>7 DEF GetReconnects, EnterReconnect, IsConnected, Goto
  <2>8. CASE StartSucceeds(t)
    BY <2>8 DEF StartSucceeds, AfterGet, Goto
  <2>9. CASE StartFails(t)
    BY <2>9 DEF StartFails, Goto
  <2>10. CASE StopReturns(t)
    BY <2>10 DEF StopReturns, Goto
  <2>11. CASE RestartSucceeds(t)
    BY <2>11 DEF RestartSucceeds, AfterGet, Goto
  <2>12. CASE RestartFails(t)
    BY <2>12 DEF RestartFails, Goto
  <2>13. CASE WakesUp(t)
    BY <2>13 DEF WakesUp, Goto
  <2>14. CASE ReconnectGivesUp(t)
    BY <2>14 DEF ReconnectGivesUp, Goto
  <2>15. CASE Invalidate(t)
    BY <2>15 DEF Invalidate, Goto
  <2>16. CASE RecoverReconnects(t)
    BY <2>16 DEF RecoverReconnects, Goto
  <2>17. CASE ShutdownStops(t)
    BY <2>17 DEF ShutdownStops, Goto
  <2>18. CASE ShutdownIdle(t)
    BY <2>18 DEF ShutdownIdle, Goto
  <2>19. CASE ShutdownDone(t)
    BY <2>19 DEF ShutdownDone, Goto
  <2>20. CASE QueryReturns(t)
    BY <2>20 DEF QueryReturns, Goto
  <2>21. CASE QueryHitsTransportError(t)
    BY <2>21 DEF QueryHitsTransportError, Goto
  <2> QED
    BY <1>3, <2>1, <2>2, <2>3, <2>4, <2>5, <2>6, <2>7, <2>8, <2>9, <2>10, <2>11, <2>12, <2>13, <2>14, <2>15, <2>16, <2>17, <2>18, <2>19, <2>20, <2>21 DEF Calls, Lifecycle, Query
<1> QED
  BY <1>1, <1>2, <1>3 DEF Next

(* Every step of the session is a step of its contract, or leaves what the
   contract speaks of as it was. *)
LEMMA ContractStep ==
  ASSUME TypeOK, LockInv, DownInv, [Next]_vars
  PROVE  [Contract!SessionNext]_Contract!sessionVars
<1> USE NoThreadAssumption DEF TypeOK, LockInv, DownInv, InLifecycle, Waiting
<1> DEFINE Same == UNCHANGED Contract!sessionVars
<1> USE DEF Contract!sessionVars, Open, Usable, Restarting, Owing
<1>1. CASE UNCHANGED vars
  BY <1>1 DEF vars
<1>2. CASE SdkDrops
  BY <1>2 DEF SdkDrops
<1>3. ASSUME NEW t \in Threads, Calls(t) \/ Lifecycle(t) \/ Query(t)
      PROVE  [Contract!SessionNext]_Contract!sessionVars
  <2>1. ASSUME CallGet(t) PROVE Same
    BY <2>1 DEF CallGet, Begin, Goto
  <2>2. ASSUME CallQuery(t) PROVE Same
    BY <2>2 DEF CallQuery, Begin, Goto
  <2>3. ASSUME CallInvalidate(t) PROVE Contract!Blame(t)
    BY <2>3 DEF CallInvalidate, Begin, Goto, Contract!Blame
  <2>4. ASSUME CallShutdown(t) PROVE Same
    BY <2>4 DEF CallShutdown, Begin, Goto
  <2>5. ASSUME GetReady(t) PROVE Same
    BY <2>5 DEF GetReady, AfterGet, IsConnected, Goto
  <2>6. ASSUME GetStarts(t) PROVE Contract!Acquire(t)
    BY <2>6 DEF GetStarts, Goto, Contract!Acquire
  <2>7. ASSUME GetReconnects(t) PROVE Contract!Acquire(t)
    BY <2>7 DEF GetReconnects, EnterReconnect, IsConnected, Goto, Contract!Acquire
  <2>8. ASSUME StartSucceeds(t) PROVE Contract!Release(t)
    BY <2>8 DEF StartSucceeds, AfterGet, Goto, Contract!Release
  <2>9. ASSUME StartFails(t) PROVE Contract!Release(t)
    BY <2>9 DEF StartFails, Goto, Contract!Release
  <2>10. ASSUME StopReturns(t) PROVE Contract!Restart(t)
    BY <2>10 DEF StopReturns, Goto, Contract!Restart
  <2>11. ASSUME RestartSucceeds(t) PROVE Contract!Release(t)
    BY <2>11 DEF RestartSucceeds, AfterGet, Goto, Contract!Release
  <2>12. ASSUME RestartFails(t) PROVE Contract!RestartFails(t)
    BY <2>12 DEF RestartFails, Goto, Contract!RestartFails
  <2>13. ASSUME WakesUp(t) PROVE Same
    BY <2>13 DEF WakesUp, Goto
  <2>14. ASSUME ReconnectGivesUp(t) PROVE Contract!Release(t)
    BY <2>14 DEF ReconnectGivesUp, Goto, Contract!Release
  <2>15. ASSUME Invalidate(t) PROVE Contract!Invalidate(t)
    BY <2>15 DEF Invalidate, Goto, Contract!Invalidate
  <2>16. ASSUME RecoverReconnects(t) PROVE Contract!Acquire(t)
    BY <2>16 DEF RecoverReconnects, Goto, Contract!Acquire
  <2>17. ASSUME ShutdownStops(t) PROVE Contract!Acquire(t)
    BY <2>17 DEF ShutdownStops, Goto, Contract!Acquire
  <2>18. ASSUME ShutdownIdle(t) PROVE Same
    BY <2>18 DEF ShutdownIdle, Goto
  <2>19. ASSUME ShutdownDone(t) PROVE Contract!Release(t)
    BY <2>19 DEF ShutdownDone, Goto, Contract!Release
  <2>20. ASSUME QueryReturns(t) PROVE Same
    BY <2>20 DEF QueryReturns, Goto
  <2>21. ASSUME QueryHitsTransportError(t) PROVE Contract!Blame(t)
    BY <2>21 DEF QueryHitsTransportError, Goto, Contract!Blame
  <2> HIDE DEF Same, Contract!sessionVars, Open, Usable, Restarting, Owing, TypeOK, LockInv, DownInv
  <2>22. CASE CallGet(t) \/ CallQuery(t) \/ CallShutdown(t) \/ GetReady(t) \/ WakesUp(t) \/ ShutdownIdle(t) \/ QueryReturns(t)
    BY <2>22, <2>1, <2>2, <2>4, <2>5, <2>13, <2>18, <2>20 DEF Same
  <2>23. CASE \/ CallInvalidate(t) \/ GetStarts(t) \/ GetReconnects(t) \/ StartSucceeds(t) \/ StartFails(t)
             \/ StopReturns(t) \/ RestartSucceeds(t) \/ RestartFails(t) \/ ReconnectGivesUp(t) \/ Invalidate(t)
             \/ RecoverReconnects(t) \/ ShutdownStops(t) \/ ShutdownDone(t) \/ QueryHitsTransportError(t)
    BY <2>23, <2>3, <2>6, <2>7, <2>8, <2>9, <2>10, <2>11, <2>12, <2>14, <2>15, <2>16, <2>17, <2>19, <2>21
       DEF Contract!SessionNext
  <2> QED
    BY <1>3, <2>22, <2>23 DEF Calls, Lifecycle, Query
<1> HIDE DEF Contract!sessionVars, Open, Usable, Restarting, Owing, TypeOK, LockInv, DownInv
<1> QED
  BY <1>1, <1>2, <1>3 DEF Next

-----------------------------------------------------------------------------
(* The inductive invariant holds in every state. *)
LEMMA Inductive == Spec => []IInv
<1>1. Init => IInv
  <2> SUFFICES ASSUME Init PROVE IInv
    OBVIOUS
  <2>1. 0 \in 0..MaxRetries /\ 0 \in 0..MaxCalls
    BY RetriesAssumption, CallsAssumption
  <2>2. TypeOK
    BY <2>1 DEF Init, TypeOK, Ops, SdkStates
  <2>3. LockInv /\ DownInv
    BY NoThreadAssumption DEF Init, LockInv, DownInv, InLifecycle
  <2>4. SdkInv /\ BlameInv
    BY DEF Init, SdkInv, BlameInv, Usable
  <2> QED
    BY <2>2, <2>3, <2>4 DEF IInv
<1>2. IInv /\ [Next]_vars => IInv'
  BY TypeStep, LockStep, DownStep, SdkStep, BlameStep DEF IInv
<1> QED
  BY <1>1, <1>2, PTL DEF Spec

(* The types hold in every state: in particular reconnect() never counts its
   attempts below zero or above what it was given. *)
THEOREM TypeCorrect == Spec => []TypeOK
<1>1. IInv => TypeOK
  BY DEF IInv
<1> QED
  BY <1>1, Inductive, PTL

(* invalidate() holds "until a real restart succeeds": whatever the threads
   do, a session that failed a query is handed out again only after a later
   w.start(), or while the thread that saw it fail waits to mark it. *)
THEOREM FailureRemembered == Spec => []FailureNotForgotten
<1>1. IInv => FailureNotForgotten
  BY DEF IInv, BlameInv, FailureNotForgotten
<1> QED
  BY <1>1, Inductive, PTL

(* The flags under the free lock never call a stopped SDK usable. *)
THEOREM FlagsTruthful == Spec => []FlagsMatchSdk
<1>1. IInv => FlagsMatchSdk
  BY DEF IInv, SdkInv, FlagsMatchSdk
<1> QED
  BY <1>1, Inductive, PTL

(* The session, with its flags, its lock and its retries, implements the
   contract the executor's model is built on. *)
THEOREM Implementation == Spec => ImplementsContract
<1>1. Init => Contract!SessionInit
  BY DEF Init, Contract!SessionInit, Open, Usable, Restarting, Owing
<1>2. IInv /\ [Next]_vars => [Contract!SessionNext]_Contract!sessionVars
  BY ContractStep DEF IInv
<1> QED
  BY <1>1, <1>2, Inductive, PTL DEF Spec, ImplementsContract, Contract!SessionSpec

=============================================================================
