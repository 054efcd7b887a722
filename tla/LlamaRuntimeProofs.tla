-------------------------- MODULE LlamaRuntimeProofs --------------------------
(***************************************************************************)
(* What LlamaRuntime does with native contexts and model leases, with the  *)
(* sessions that share a context and at the shutdown is right for every    *)
(* set of sessions, keys and requests, every limit and every number of     *)
(* native failures.                                                        *)
(***************************************************************************)
EXTENDS LlamaRuntime, FiniteSetTheorems, SequenceTheorems, TLAPS

(* The promise-chain mutex.                                                *)

\* A caller that queues up becomes the last element.
LEMMA EnterProperties ==
    ASSUME NEW S, NEW q \in Seq(S), NEW x \in S
    PROVE  /\ Enter(q, x) \in Seq(S)
           /\ Len(Enter(q, x)) = Len(q) + 1
           /\ \A i \in 1..Len(q) : Enter(q, x)[i] = q[i]
           /\ Enter(q, x)[Len(q) + 1] = x
           /\ Enter(q, x) # << >>
<1>1. Enter(q, x) \in Seq(S) /\ Len(Enter(q, x)) = Len(q) + 1
  BY DEF Enter
<1>2. \A i \in 1..Len(q) : Enter(q, x)[i] = q[i]
  BY DEF Enter
<1>3. Enter(q, x)[Len(q) + 1] = x
  BY DEF Enter
<1>4. Len(q) \in Nat
  BY LenProperties
<1>5. Enter(q, x) # << >>
  BY <1>1, <1>4, EmptySeq
<1> QED
  BY <1>1, <1>2, <1>3, <1>5

\* It does not disturb who is running.
LEMMA EnterHead ==
    ASSUME NEW S, NEW q \in Seq(S), q # << >>, NEW x \in S
    PROVE  Enter(q, x) # << >> /\ Head(Enter(q, x)) = Head(q)
<1>1. Head(q) = q[1] /\ Len(q) \in Nat \ {0}
  BY EmptySeq
<1>2. Head(Enter(q, x)) = Enter(q, x)[1]
  BY EnterProperties
<1> QED
  BY <1>1, <1>2, EnterProperties

\* The running caller leaves, everybody else moves up by one.
LEMMA LeaveProperties ==
    ASSUME NEW S, NEW q \in Seq(S), q # << >>
    PROVE  /\ Leave(q) \in Seq(S)
           /\ Len(Leave(q)) = Len(q) - 1
           /\ \A i \in 1..Len(Leave(q)) : Leave(q)[i] = q[i + 1]
           /\ q[1] = Head(q)
           /\ Head(q) \in S
           /\ Len(q) \in Nat \ {0}
<1>1. Head(q) = q[1]
  OBVIOUS
<1>2. Len(q) \in Nat \ {0}
  BY EmptySeq
<1> QED
  BY <1>1, <1>2, HeadTailProperties DEF Leave

-----------------------------------------------------------------------------
(* Types.                                                                  *)

\* The initial state is typed.
LEMMA InitTypeOK == Init => TypeOK
<1> SUFFICES ASSUME Init PROVE TypeOK
  OBVIOUS
<1> USE RuntimeAssumption DEF Init
<1>1. PoolTypes
  BY EmptySeq DEF PoolTypes
<1>2. EntryTypes
  BY DEF EntryTypes
<1>3. NativeTypes
  BY DEF NativeTypes
<1>4. SessionTypes
  BY DEF SessionTypes
<1>5. RuntimeTypes
  BY DEF RuntimeTypes
<1>6. StreamTypes
  <2>1. lane \in [Session -> Seq(Request)]
    BY EmptySeq
  <2> QED
    BY <2>1 DEF StreamTypes
<1> QED
  BY <1>1, <1>2, <1>3, <1>4, <1>5, <1>6 DEF TypeOK

\* The tasks of the pool's mutex.
LEMMA TasksTyped == /\ \A s \in Session : Acquire(s) \in Task /\ Release(s) \in Task
                    /\ ReleaseAll \in Task
  BY DEF Acquire, Release, ReleaseAll, Task

\* What the shared parts of the actions preserve: the end of a task,
LEMMA EndTaskTypes == PoolTypes /\ lifecycle # << >> /\ EndTask => PoolTypes'
  BY LeaveProperties DEF PoolTypes, EndTask

\* a rejected createSession(),
LEMMA RejectTypes == ASSUME NEW s \in Session, SessionTypes, RejectSession(s)
                     PROVE  SessionTypes'
  BY DEF SessionTypes, RejectSession

\* one that resolves,
LEMMA BuildTypes == ASSUME NEW s \in Session, NEW e \in Session, SessionTypes, BuildSession(s, e)
                    PROVE  SessionTypes'
  BY DEF SessionTypes, BuildSession

\* a release attempt that settles,
LEMMA SettleTypes == ASSUME NEW s \in Session, NEW ok \in BOOLEAN,
                            SessionTypes, RuntimeTypes, Settle(s, ok)
                     PROVE  SessionTypes' /\ RuntimeTypes'
  BY DEF SessionTypes, RuntimeTypes, Settle

\* sessions that close,
LEMMA CloseTypes == ASSUME NEW S, SessionTypes, CloseSessions(S) PROVE SessionTypes'
  BY DEF SessionTypes, CloseSessions

\* streams that are aborted,
LEMMA AbortTypes == ASSUME NEW R, StreamTypes, AbortAll(R),
                           UNCHANGED <<sessionOf, idOf, stage, outcome, lane>>
                    PROVE  StreamTypes'
  BY DEF StreamTypes, AbortAll, Interrupt

\* a native completion that is stopped,
LEMMA InterruptTypes == ASSUME NEW es, StreamTypes, Interrupt(es),
                               UNCHANGED <<sessionOf, idOf, stage, aborted, outcome, lane>>
                        PROVE  StreamTypes'
  BY DEF StreamTypes, Interrupt

\* the end of a cleanup,
LEMMA AfterCleanupTypes == ASSUME NEW ok \in BOOLEAN, PoolTypes, SessionTypes, RuntimeTypes,
                                  lifecycle # << >>, AfterCleanup(ok)
                           PROVE  PoolTypes' /\ SessionTypes' /\ RuntimeTypes'
<1>1. CASE Head(lifecycle) = ReleaseAll /\ at' = "next"
           /\ UNCHANGED <<lifecycle, todo, sessionVars, runtimeVars>>
           /\ target' = None /\ failed' = (failed \/ ~ok)
  BY <1>1 DEF PoolTypes, SessionTypes, RuntimeTypes, sessionVars, runtimeVars
<1>2. ASSUME NEW s \in Session, Settle(s, ok), EndTask
      PROVE  PoolTypes' /\ SessionTypes' /\ RuntimeTypes'
  BY <1>2, SettleTypes, EndTaskTypes
<1> QED
  BY <1>1, <1>2 DEF AfterCleanup

USE DEF poolVars, entryVars, nativeVars, sessionVars, runtimeVars, streamVars

\* and a stream that ends.
LEMMA EndStreamTypes == ASSUME NEW r \in Request, NEW result \in {"none", "completed", "failed"},
                               StreamTypes, lane[entryOf[sessionOf[r]]] # << >>, EndStream(r,
                                  result)
                        PROVE  StreamTypes'
  BY LeaveProperties DEF StreamTypes, EndStream

\* Every step of the runtime keeps the types.  A stream that ends holds its
\* lane, so the lane it leaves is not empty.
LEMMA TypesStep == ASSUME TypeOK, LaneInv, Next PROVE TypeOK'
<1> USE DEF TypeOK, PoolTypes, EntryTypes, NativeTypes, SessionTypes, RuntimeTypes, StreamTypes
<1>1. ASSUME NEW s \in Session, NEW k \in Key, CreateSession(s, k) PROVE TypeOK'
  BY <1>1, EnterProperties, TasksTyped DEF CreateSession
<1>2. ASSUME NEW s \in Session, AcquireRefused(s) PROVE TypeOK'
  BY <1>2, LeaveProperties DEF AcquireRefused, Starting, Holds, RejectSession, EndTask
<1>3. ASSUME NEW s \in Session, AcquireShared(s) PROVE TypeOK'
  BY <1>3, LeaveProperties DEF AcquireShared, Starting, Holds, BuildSession, EndTask, EntryAt
<1>4. ASSUME NEW s \in Session, StartLoad(s) PROVE TypeOK'
  BY <1>4 DEF StartLoad
<1>5. ASSUME NEW s \in Session, LoadSucceeds(s) PROVE TypeOK'
  BY <1>5, LeaveProperties DEF LoadSucceeds, Waiting, Holds, BuildSession, EndTask
<1>6. ASSUME NEW s \in Session, LoadFails(s) PROVE TypeOK'
  <2>1. CASE keyOf[s] \in Leased
    BY <1>6, <2>1, RuntimeAssumption DEF LoadFails, Fault
  <2>2. CASE keyOf[s] \notin Leased
    <3>1. lifecycle # << >> /\ EndTask /\ RejectSession(s)
      BY <1>6, <2>2 DEF LoadFails, Waiting, Holds
    <3>2. PoolTypes' /\ SessionTypes'
      BY <3>1, EndTaskTypes, RejectTypes DEF TypeOK
    <3>3. EntryTypes' /\ NativeTypes' /\ RuntimeTypes' /\ StreamTypes'
      BY <1>6, RuntimeAssumption DEF LoadFails, Fault
    <3> QED
      BY <3>2, <3>3 DEF TypeOK
  <2> QED
    BY <2>1, <2>2
<1>7. ASSUME NEW s \in Session, CapabilityReportFails(s) PROVE TypeOK'
  BY <1>7, RuntimeAssumption DEF CapabilityReportFails, Fault
<1>8. ASSUME NEW s \in Session, UndoContext(s) PROVE TypeOK'
  <2>1. lifecycle # << >>
    BY <1>8 DEF UndoContext, Waiting, Holds
  <2>2. PoolTypes' /\ SessionTypes'
    <3>1. CASE EndTask /\ RejectSession(s)
      BY <2>1, <3>1, EndTaskTypes, RejectTypes DEF TypeOK
    <3>2. CASE at' = "undoLease" /\ UNCHANGED <<lifecycle, target, todo, failed, sessionVars>>
      BY <3>2
    <3> QED
      BY <1>8, <3>1, <3>2 DEF UndoContext
  <2>3. CASE faults' = faults /\ pendingCleanup' = pendingCleanup
    BY <1>8, <2>2, <2>3 DEF UndoContext
  <2>4. CASE /\ Fault
             /\ pendingCleanup' = pendingCleanup \cup {s}
             /\ UNCHANGED <<context, contextReleased>>
    BY <1>8, <2>2, <2>4, RuntimeAssumption DEF UndoContext, Fault
  <2> QED
    BY <1>8, <2>3, <2>4 DEF UndoContext
<1>9. ASSUME NEW s \in Session, UndoLease(s) PROVE TypeOK'
  <2>1. lifecycle # << >> /\ EndTask /\ RejectSession(s)
    BY <1>9 DEF UndoLease, Waiting, Holds
  <2>2. PoolTypes' /\ SessionTypes'
    BY <2>1, EndTaskTypes, RejectTypes DEF TypeOK
  <2>3. CASE /\ lease' = [lease EXCEPT ![keyOf[s]] = "returned"]
             /\ leaseReleased' = [leaseReleased EXCEPT ![s] = TRUE]
             /\ UNCHANGED <<pendingCleanup, faults>>
    BY <1>9, <2>2, <2>3 DEF UndoLease
  <2>4. CASE /\ Fault
             /\ pendingCleanup' = pendingCleanup \cup {s}
             /\ UNCHANGED <<lease, leaseReleased>>
    BY <1>9, <2>2, <2>4, RuntimeAssumption DEF UndoLease, Fault
  <2> QED
    BY <1>9, <2>3, <2>4 DEF UndoLease
<1>10. ASSUME NEW s \in Session, ReleaseSession(s) PROVE TypeOK'
  BY <1>10 DEF ReleaseSession, CloseSessions, AbortAll, Interrupt
<1>11. ASSUME NEW s \in Session, SessionDrained(s) PROVE TypeOK'
  BY <1>11, EnterProperties, TasksTyped DEF SessionDrained
<1>12. ASSUME NEW s \in Session, ReleaseFindsNothing(s) PROVE TypeOK'
  BY <1>12, LeaveProperties DEF ReleaseFindsNothing, Starting, Holds, Settle, EndTask
<1>13. ASSUME NEW s \in Session, ReleaseShared(s) PROVE TypeOK'
  BY <1>13, LeaveProperties DEF ReleaseShared, Starting, Holds, Settle, EndTask, EntryAt
<1>14. ASSUME NEW s \in Session, ReleaseLast(s) PROVE TypeOK'
  BY <1>14 DEF ReleaseLast, CleanupFrom, EntryAt
<1>15. CASE StartReleaseAll
  BY <1>15 DEF StartReleaseAll
<1>16. ASSUME NEW e \in Session, VisitNext(e) PROVE TypeOK'
  <2>1. StreamTypes'
    BY <1>16, InterruptTypes DEF VisitNext
  <2> QED
    BY <1>16, <2>1 DEF VisitNext
<1>17. CASE Stopped
  BY <1>17 DEF Stopped
<1>18. CASE ContextCleaned
  <2>1. PoolTypes' /\ SessionTypes' /\ RuntimeTypes'
    <3>1. CASE leaseReleased[target]
      BY <1>18, <3>1, AfterCleanupTypes DEF ContextCleaned, Cleaning
    <3>2. CASE ~leaseReleased[target]
      BY <1>18, <3>2 DEF ContextCleaned
    <3> QED
      BY <3>1, <3>2
  <2>2. EntryTypes' /\ NativeTypes' /\ StreamTypes'
    BY <1>18 DEF ContextCleaned, Unregister
  <2> QED
    BY <2>1, <2>2 DEF TypeOK
<1>19. CASE ContextCleanupFails
  <2>1. PoolTypes' /\ SessionTypes' /\ RuntimeTypes'
    BY <1>19, AfterCleanupTypes DEF ContextCleanupFails, Cleaning
  <2>2. EntryTypes' /\ NativeTypes' /\ StreamTypes'
    BY <1>19, RuntimeAssumption DEF ContextCleanupFails, Fault
  <2> QED
    BY <2>1, <2>2 DEF TypeOK
<1>20. CASE LeaseCleaned
  <2>1. PoolTypes' /\ SessionTypes' /\ RuntimeTypes'
    BY <1>20, AfterCleanupTypes DEF LeaseCleaned, Cleaning
  <2>2. EntryTypes' /\ NativeTypes' /\ StreamTypes'
    BY <1>20 DEF LeaseCleaned, Unregister
  <2> QED
    BY <2>1, <2>2 DEF TypeOK
<1>21. CASE LeaseCleanupFails
  <2>1. PoolTypes' /\ SessionTypes' /\ RuntimeTypes'
    BY <1>21, AfterCleanupTypes DEF LeaseCleanupFails, Cleaning
  <2>2. EntryTypes' /\ NativeTypes' /\ StreamTypes'
    BY <1>21, RuntimeAssumption DEF LeaseCleanupFails, Fault
  <2> QED
    BY <2>1, <2>2 DEF TypeOK
<1>22. CASE ReleaseRuntime
  BY <1>22 DEF ReleaseRuntime, CloseSessions, AbortAll, Interrupt, Live
<1>23. CASE SessionsSettled
  <2>1. lifecycle' \in Seq(Task)
    BY <1>23, EnterProperties, TasksTyped DEF SessionsSettled
  <2> QED
    BY <1>23, <2>1 DEF SessionsSettled
<1>24. CASE FinishReleaseAll
  <2>1. lifecycle # << >> /\ EndTask
    BY <1>24 DEF FinishReleaseAll, Waiting, Holds
  <2>2. PoolTypes'
    BY <2>1, EndTaskTypes DEF TypeOK
  <2>3. SessionTypes' /\ StreamTypes'
    <3>1. CASE failed
      BY <1>24, <3>1 DEF FinishReleaseAll
    <3>2. ASSUME ~failed PROVE SessionTypes' /\ StreamTypes'
      <4>1. CloseSessions(Live) /\ UNCHANGED <<sessionOf, idOf, stage, outcome, lane>>
        BY <1>24, <3>2 DEF FinishReleaseAll
      <4>2. StreamTypes'
        BY <4>1, AbortTypes DEF CloseSessions
      <4> QED
        BY <4>1, <4>2, CloseTypes
    <3> QED
      BY <3>1, <3>2
  <2>4. EntryTypes' /\ NativeTypes' /\ RuntimeTypes'
    BY <1>24 DEF FinishReleaseAll, Live
  <2> QED
    BY <2>2, <2>3, <2>4 DEF TypeOK
<1>25. CASE RetriesSettled
  BY <1>25 DEF RetriesSettled
<1>26. ASSUME NEW s \in Session, NEW r \in Request, NEW i \in Id, Stream(s, r, i) PROVE TypeOK'
  <2>1. lane' \in [Session -> Seq(Request)]
    BY <1>26, EnterProperties DEF Stream
  <2>2. aborted' \in [Request -> BOOLEAN]
    BY <1>26 DEF Stream
  <2> QED
    BY <1>26, <2>1, <2>2 DEF Stream
<1>27. ASSUME NEW s \in Session, NEW r \in Request, StreamRefused(s, r) PROVE TypeOK'
  BY <1>27 DEF StreamRefused
<1>28. ASSUME NEW r \in Request, EnterLane(r) PROVE TypeOK'
  <2>1. CASE aborted[r]
    BY <1>28, <2>1, EndStreamTypes DEF EnterLane, Holds
  <2>2. CASE ~aborted[r]
    BY <1>28, <2>2 DEF EnterLane, Advance
  <2> QED
    BY <2>1, <2>2
<1>29. ASSUME NEW r \in Request, Prepared(r) PROVE TypeOK'
  <2>1. CASE aborted[r]
    BY <1>29, <2>1, EndStreamTypes DEF Prepared, LaneInv, InLane, Holds
  <2>2. CASE ~aborted[r]
    BY <1>29, <2>2 DEF Prepared, Advance
  <2> QED
    BY <2>1, <2>2
<1>30. ASSUME NEW r \in Request, Completed(r) PROVE TypeOK'
  BY <1>30, LeaveProperties DEF Completed, EndStream, LaneInv, InLane, Holds
<1>31. ASSUME NEW r \in Request, StreamFails(r) PROVE TypeOK'
  BY <1>31, LeaveProperties DEF StreamFails, EndStream, LaneInv, InLane, Holds
<1>32. ASSUME NEW r \in Request, AbortStream(r) PROVE TypeOK'
  BY <1>32 DEF AbortStream, AbortAll, Interrupt
<1>33. ASSUME NEW s \in Session, CancelAll(s) PROVE TypeOK'
  BY <1>33 DEF CancelAll, AbortAll, Interrupt
<1> QED
  <2> HIDE DEF TypeOK, PoolTypes, EntryTypes, NativeTypes, SessionTypes, RuntimeTypes,
     StreamTypes
  <2> QED
    BY <1>1, <1>2, <1>3, <1>4, <1>5, <1>6, <1>7, <1>8, <1>9, <1>10, <1>11, <1>12, <1>13,
       <1>14, <1>15, <1>16, <1>17, <1>18, <1>19, <1>20, <1>21, <1>22, <1>23, <1>24, <1>25,
          <1>26, <1>27, <1>28, <1>29, <1>30, <1>31, <1>32, <1>33
       DEF Next, PoolStep, RuntimeStep, StreamStep, UserStep

-----------------------------------------------------------------------------
(* The mutex of the pool.                                                  *)

\* A step that leaves the queue alone.
LEMMA QueueKept ==
    ASSUME QueueInv, PoolTypes, UNCHANGED lifecycle,
           \A task \in Task : Justified(task) => Justified(task)',
           \A s \in Session : attempt'[s] # "none" => phase'[s] = "closing"
    PROVE  QueueInv'
  BY ElementOfSeq DEF QueueInv, PoolTypes

\* A task that is not queued yet joins the queue.
LEMMA QueueGrows ==
    ASSUME QueueInv, PoolTypes, NEW new \in Task, lifecycle' = Enter(lifecycle, new),
           \A i \in 1..Len(lifecycle) : lifecycle[i] # new,
           Justified(new)',
           \A task \in Task : Justified(task) => Justified(task)',
           \A s \in Session : attempt'[s] # "none" => phase'[s] = "closing"
    PROVE  QueueInv'
<1> DEFINE n == Len(lifecycle)
<1>1. lifecycle \in Seq(Task) /\ n \in Nat
  BY LenProperties DEF PoolTypes
<1>2. /\ Len(lifecycle') = n + 1
      /\ \A i \in 1..n : lifecycle'[i] = lifecycle[i]
      /\ lifecycle'[n + 1] = new
  <2>1. /\ Len(Enter(lifecycle, new)) = n + 1
        /\ \A i \in 1..n : Enter(lifecycle, new)[i] = lifecycle[i]
        /\ Enter(lifecycle, new)[n + 1] = new
    BY <1>1, EnterProperties
  <2> QED
    BY <2>1
<1>3. \A i \in 1..n : lifecycle[i] \in Task
  BY <1>1, ElementOfSeq
<1>4. ASSUME NEW i \in 1..(n + 1) PROVE Justified(lifecycle[i])'
  <2>1. CASE i = n + 1
    BY <1>2, <2>1
  <2>2. CASE i # n + 1
    <3>1. i \in 1..n
      BY <1>1, <2>2
    <3>2. lifecycle[i] \in Task /\ Justified(lifecycle[i])
      BY <1>3, <3>1 DEF QueueInv
    <3> QED
      BY <1>2, <3>1, <3>2
  <2> QED
    BY <2>1, <2>2
<1>5. ASSUME NEW i \in 1..(n + 1), NEW j \in 1..(n + 1), lifecycle'[j] = lifecycle'[i]
      PROVE  j = i
  BY <1>1, <1>2, <1>5 DEF QueueInv
<1> QED
  BY <1>2, <1>4, <1>5 DEF QueueInv

\* The running task leaves it; the others stay justified.
LEMMA QueueShrinks ==
    ASSUME QueueInv, PoolTypes, lifecycle # << >>, lifecycle' = Leave(lifecycle),
           \A task \in Task : task # Head(lifecycle) /\ Justified(task) => Justified(task)',
           \A s \in Session : attempt'[s] # "none" => phase'[s] = "closing"
    PROVE  QueueInv'
<1> DEFINE n == Len(lifecycle)
<1>1. lifecycle \in Seq(Task) /\ n \in Nat \ {0} /\ lifecycle[1] = Head(lifecycle)
  BY LeaveProperties DEF PoolTypes
<1>2. /\ Len(lifecycle') = n - 1
      /\ \A i \in 1..(n - 1) : lifecycle'[i] = lifecycle[i + 1]
  BY <1>1, LeaveProperties
<1>3. ASSUME NEW i \in 1..(n - 1) PROVE Justified(lifecycle[i])'
  <2>1. i + 1 \in 1..n /\ 1 \in 1..n /\ i + 1 # 1
    BY <1>1
  <2>2. lifecycle[i + 1] \in Task
    BY <1>1, <2>1, ElementOfSeq
  <2>3. lifecycle[i + 1] # lifecycle[1] /\ Justified(lifecycle[i + 1])
    BY <2>1 DEF QueueInv
  <2> QED
    BY <1>1, <1>2, <2>2, <2>3
<1>4. ASSUME NEW i \in 1..(n - 1), NEW j \in 1..(n - 1), lifecycle'[j] = lifecycle'[i]
      PROVE  j = i
  <2>1. i + 1 \in 1..n /\ j + 1 \in 1..n /\ lifecycle[j + 1] = lifecycle[i + 1]
    BY <1>1, <1>2, <1>4
  <2>2. i + 1 = j + 1
    BY <2>1 DEF QueueInv
  <2> QED
    BY <2>2
<1> QED
  BY <1>2, <1>3, <1>4 DEF QueueInv

\* Who holds the mutex is justified.
LEMMA HolderJustified ==
    ASSUME QueueInv, PoolTypes, NEW task, Holds(lifecycle, task)
    PROVE  Justified(task) /\ task \in Task
<1>1. lifecycle # << >> /\ Head(lifecycle) = task
  BY DEF Holds
<1>2. lifecycle[1] = task /\ 1 \in 1..Len(lifecycle) /\ task \in Task
  BY <1>1, LeaveProperties DEF PoolTypes
<1> QED
  BY <1>2 DEF QueueInv

\* A task is one of three.
LEMMA TaskForms == \A task \in Task :
    /\ task.op = "acquire" => task.by \in Session /\ task = Acquire(task.by)
    /\ task.op = "release" => task.by \in Session /\ task = Release(task.by)
    /\ task.op = "releaseAll" => task = ReleaseAll
    /\ task.op \in {"acquire", "release", "releaseAll"}
  BY DEF Task, Acquire, Release, ReleaseAll

\* The endings of a task: an acquire(),
LEMMA AcquireEndsQueue ==
    ASSUME TypeOK, QueueInv, NEW s \in Session, Holds(lifecycle, Acquire(s)), EndTask,
           RejectSession(s) \/ \E e \in Session : BuildSession(s, e), UNCHANGED runtimeVars
    PROVE  QueueInv'
<1>1. phase[s] = "acquiring" /\ attempt[s] = "none" /\ attempt' = attempt
  BY HolderJustified
     DEF TypeOK, SessionTypes, QueueInv, Justified, Acquire, RejectSession, BuildSession
<1>2. \A t \in Session \ {s} : phase'[t] = phase[t]
  BY DEF RejectSession, BuildSession, TypeOK, SessionTypes
<1>3. \A task \in Task : task # Head(lifecycle) /\ Justified(task) => Justified(task)'
  BY <1>1, <1>2, TaskForms DEF Justified, Holds
<1>4. \A t \in Session : attempt'[t] # "none" => phase'[t] = "closing"
  BY <1>1, <1>2 DEF QueueInv
<1> QED
  BY <1>3, <1>4, QueueShrinks DEF Holds, EndTask, TypeOK

\* a session's release(),
LEMMA ReleaseEndsQueue ==
    ASSUME TypeOK, QueueInv, NEW s \in Session, NEW ok \in BOOLEAN,
           Holds(lifecycle, Release(s)), EndTask, Settle(s, ok)
    PROVE  QueueInv'
<1>1. attempt[s] = "queued" /\ phase[s] = "closing"
  BY HolderJustified DEF TypeOK, QueueInv, Justified, Release
<1>2. /\ \A t \in Session \ {s} : phase'[t] = phase[t] /\ attempt'[t] = attempt[t]
      /\ attempt'[s] = "none" /\ shutdown' = shutdown
  BY DEF Settle, TypeOK, SessionTypes
<1>3. \A task \in Task : task # Head(lifecycle) /\ Justified(task) => Justified(task)'
  BY <1>1, <1>2, TaskForms DEF Justified, Holds
<1>4. \A t \in Session : attempt'[t] # "none" => phase'[t] = "closing"
  BY <1>1, <1>2 DEF QueueInv
<1> QED
  BY <1>3, <1>4, QueueShrinks DEF Holds, EndTask, TypeOK

\* Closing sessions never touches one that is still being created.
LEMMA ClosingJustified ==
    ASSUME TypeOK, QueueInv, NEW S, S \subseteq Live, CloseSessions(S)
    PROVE  /\ \A s \in Session : phase[s] = "acquiring" => phase'[s] = "acquiring"
           /\ \A s \in Session : attempt[s] = "queued" => attempt'[s] = "queued"
           /\ \A s \in Session : attempt'[s] # "none" => phase'[s] = "closing"
  BY DEF TypeOK, SessionTypes, QueueInv, CloseSessions, Live

\* and whatever a cleanup was for.
LEMMA AfterCleanupQueue ==
    ASSUME TypeOK, QueueInv, NEW ok \in BOOLEAN, lifecycle # << >>, AfterCleanup(ok)
    PROVE  QueueInv'
<1>1. CASE UNCHANGED <<lifecycle, todo, sessionVars, runtimeVars>>
  BY <1>1, QueueKept DEF Justified, TypeOK, QueueInv
<1>2. ASSUME NEW s \in Session, Head(lifecycle) = Release(s), Settle(s, ok), EndTask
      PROVE  QueueInv'
  BY <1>2, ReleaseEndsQueue DEF Holds
<1> QED
  BY <1>1, <1>2 DEF AfterCleanup

\* Every step keeps the mutex in order.
LEMMA QueueStep == ASSUME TypeOK, QueueInv, Next PROVE QueueInv'
<1>1. ASSUME NEW s \in Session, NEW k \in Key, CreateSession(s, k) PROVE QueueInv'
  <2>1. Acquire(s) \in Task /\ \A j \in 1..Len(lifecycle) : lifecycle[j] # Acquire(s)
    BY <1>1, TasksTyped DEF CreateSession, QueueInv, Justified, Acquire
  <2>2. /\ Justified(Acquire(s))'
        /\ \A t \in Session : phase[t] = "acquiring" => phase'[t] = "acquiring"
    BY <1>1 DEF CreateSession, Justified, Acquire, TypeOK, SessionTypes
  <2>3. \A task \in Task : Justified(task) => Justified(task)'
    BY <1>1, <2>2, TaskForms DEF CreateSession, Justified
  <2>4. \A t \in Session : attempt'[t] # "none" => phase'[t] = "closing"
    BY <1>1 DEF CreateSession, QueueInv, TypeOK, SessionTypes
  <2> QED
    BY <1>1, <2>1, <2>2, <2>3, <2>4, QueueGrows DEF CreateSession, TypeOK
<1>2. ASSUME NEW s \in Session, AcquireRefused(s) PROVE QueueInv'
  BY <1>2, AcquireEndsQueue DEF AcquireRefused, Starting
<1>3. ASSUME NEW s \in Session, AcquireShared(s) PROVE QueueInv'
  BY <1>3, AcquireEndsQueue DEF AcquireShared, Starting, EntryAt, TypeOK, EntryTypes
<1>4. ASSUME NEW s \in Session, StartLoad(s) PROVE QueueInv'
  BY <1>4, QueueKept DEF StartLoad, TypeOK, QueueInv, Justified
<1>5. ASSUME NEW s \in Session, LoadSucceeds(s) PROVE QueueInv'
  BY <1>5, AcquireEndsQueue DEF LoadSucceeds, Waiting
<1>6. ASSUME NEW s \in Session, LoadFails(s) PROVE QueueInv'
  <2>1. CASE keyOf[s] \in Leased
    BY <1>6, <2>1, QueueKept DEF LoadFails, TypeOK, QueueInv, Justified
  <2>2. CASE keyOf[s] \notin Leased
    BY <1>6, <2>2, AcquireEndsQueue DEF LoadFails, Waiting
  <2> QED
    BY <2>1, <2>2
<1>7. ASSUME NEW s \in Session, CapabilityReportFails(s) PROVE QueueInv'
  BY <1>7, QueueKept DEF CapabilityReportFails, TypeOK, QueueInv, Justified
<1>8. ASSUME NEW s \in Session, UndoContext(s) PROVE QueueInv'
  <2>1. CASE EndTask /\ RejectSession(s)
    BY <1>8, <2>1, AcquireEndsQueue DEF UndoContext, Waiting
  <2>2. CASE UNCHANGED <<lifecycle, target, todo, failed, sessionVars>>
    BY <1>8, <2>2, QueueKept DEF UndoContext, TypeOK, QueueInv, Justified
  <2> QED
    BY <1>8, <2>1, <2>2 DEF UndoContext
<1>9. ASSUME NEW s \in Session, UndoLease(s) PROVE QueueInv'
  BY <1>9, AcquireEndsQueue DEF UndoLease, Waiting
<1>10. ASSUME NEW s \in Session, ReleaseSession(s) PROVE QueueInv'
  <2>1. CloseSessions({s}) /\ {s} \subseteq Live /\ UNCHANGED <<lifecycle, shutdown>>
    BY <1>10 DEF ReleaseSession
  <2> QED
    BY <2>1, ClosingJustified, TaskForms, QueueKept DEF Justified, TypeOK
<1>11. ASSUME NEW s \in Session, SessionDrained(s) PROVE QueueInv'
  <2>1. Release(s) \in Task /\ \A j \in 1..Len(lifecycle) : lifecycle[j] # Release(s)
    BY <1>11, TasksTyped DEF SessionDrained, QueueInv, Justified, Release
  <2>2. /\ Justified(Release(s))'
        /\ \A t \in Session : attempt[t] = "queued" => attempt'[t] = "queued"
        /\ \A t \in Session : attempt'[t] # "none" => attempt[t] # "none"
    BY <1>11 DEF SessionDrained, Justified, Release, TypeOK, SessionTypes
  <2>3. \A task \in Task : Justified(task) => Justified(task)'
    BY <1>11, <2>2, TaskForms DEF SessionDrained, Justified
  <2>4. \A t \in Session : attempt'[t] # "none" => phase'[t] = "closing"
    BY <1>11, <2>2 DEF SessionDrained, QueueInv
  <2> QED
    BY <1>11, <2>1, <2>2, <2>3, <2>4, QueueGrows DEF SessionDrained, TypeOK
<1>12. ASSUME NEW s \in Session, ReleaseFindsNothing(s) PROVE QueueInv'
  BY <1>12, ReleaseEndsQueue DEF ReleaseFindsNothing, Starting
<1>13. ASSUME NEW s \in Session, ReleaseShared(s) PROVE QueueInv'
  BY <1>13, ReleaseEndsQueue DEF ReleaseShared, Starting
<1>14. ASSUME NEW s \in Session, ReleaseLast(s) PROVE QueueInv'
  BY <1>14, QueueKept DEF ReleaseLast, TypeOK, QueueInv, Justified
<1>15. CASE StartReleaseAll
  BY <1>15, QueueKept DEF StartReleaseAll, TypeOK, QueueInv, Justified
<1>16. ASSUME NEW e \in Session, VisitNext(e) PROVE QueueInv'
  BY <1>16, QueueKept DEF VisitNext, TypeOK, QueueInv, Justified
<1>17. CASE Stopped
  BY <1>17, QueueKept DEF Stopped, TypeOK, QueueInv, Justified
<1>18. CASE ContextCleaned
  <2>1. CASE leaseReleased[target]
    BY <1>18, <2>1, AfterCleanupQueue DEF ContextCleaned, Cleaning
  <2>2. CASE ~leaseReleased[target]
    BY <1>18, <2>2, QueueKept DEF ContextCleaned, TypeOK, QueueInv, Justified
  <2> QED
    BY <2>1, <2>2
<1>19. CASE ContextCleanupFails
  BY <1>19, AfterCleanupQueue DEF ContextCleanupFails, Cleaning
<1>20. CASE LeaseCleaned
  BY <1>20, AfterCleanupQueue DEF LeaseCleaned, Cleaning
<1>21. CASE LeaseCleanupFails
  BY <1>21, AfterCleanupQueue DEF LeaseCleanupFails, Cleaning
<1>22. CASE ReleaseRuntime
  <2>1. CloseSessions(Live) /\ UNCHANGED lifecycle /\ shutdown # "pool"
    BY <1>22 DEF ReleaseRuntime
  <2>2. \A task \in Task : Justified(task) => Justified(task)'
    BY <2>1, ClosingJustified, TaskForms DEF Justified
  <2> QED
    BY <2>1, <2>2, ClosingJustified, QueueKept DEF TypeOK
<1>23. CASE SessionsSettled
  <2>1. ReleaseAll \in Task /\ \A j \in 1..Len(lifecycle) : lifecycle[j] # ReleaseAll
    BY <1>23, TasksTyped DEF SessionsSettled, QueueInv, Justified, ReleaseAll
  <2>2. Justified(ReleaseAll)' /\ \A task \in Task : Justified(task) => Justified(task)'
    BY <1>23 DEF SessionsSettled, Justified, ReleaseAll
  <2>3. \A t \in Session : attempt'[t] # "none" => phase'[t] = "closing"
    BY <1>23 DEF SessionsSettled, QueueInv
  <2> QED
    BY <1>23, <2>1, <2>2, <2>3, QueueGrows DEF SessionsSettled, TypeOK
<1>24. CASE FinishReleaseAll
  <2>1. lifecycle # << >> /\ Head(lifecycle) = ReleaseAll /\ lifecycle' = Leave(lifecycle)
    BY <1>24 DEF FinishReleaseAll, Waiting, Holds, EndTask
  <2>2. /\ \A s \in Session : phase[s] = "acquiring" => phase'[s] = "acquiring"
        /\ \A s \in Session : attempt[s] = "queued" => attempt'[s] = "queued"
        /\ \A s \in Session : attempt'[s] # "none" => phase'[s] = "closing"
    BY <1>24, ClosingJustified DEF FinishReleaseAll, QueueInv
  <2>3. \A task \in Task : task # Head(lifecycle) /\ Justified(task) => Justified(task)'
    BY <2>1, <2>2, TaskForms DEF Justified
  <2> QED
    BY <2>1, <2>2, <2>3, QueueShrinks DEF TypeOK
<1>25. CASE RetriesSettled
  BY <1>25, QueueKept DEF RetriesSettled, TypeOK, QueueInv, Justified
<1>26. ASSUME NEW s \in Session, NEW r \in Request, NEW i \in Id, Stream(s, r,
   i) PROVE QueueInv'
  BY <1>26, QueueKept DEF Stream, TypeOK, QueueInv, Justified
<1>27. ASSUME NEW s \in Session, NEW r \in Request, StreamRefused(s, r) PROVE QueueInv'
  BY <1>27, QueueKept DEF StreamRefused, TypeOK, QueueInv, Justified
<1>28. ASSUME NEW r \in Request, EnterLane(r) PROVE QueueInv'
  BY <1>28, QueueKept DEF EnterLane, TypeOK, QueueInv, Justified
<1>29. ASSUME NEW r \in Request, Prepared(r) PROVE QueueInv'
  BY <1>29, QueueKept DEF Prepared, TypeOK, QueueInv, Justified
<1>30. ASSUME NEW r \in Request, Completed(r) PROVE QueueInv'
  BY <1>30, QueueKept DEF Completed, TypeOK, QueueInv, Justified
<1>31. ASSUME NEW r \in Request, StreamFails(r) PROVE QueueInv'
  BY <1>31, QueueKept DEF StreamFails, TypeOK, QueueInv, Justified
<1>32. ASSUME NEW r \in Request, AbortStream(r) PROVE QueueInv'
  BY <1>32, QueueKept DEF AbortStream, TypeOK, QueueInv, Justified
<1>33. ASSUME NEW s \in Session, CancelAll(s) PROVE QueueInv'
  BY <1>33, QueueKept DEF CancelAll, TypeOK, QueueInv, Justified
<1> QED
  BY <1>1, <1>2, <1>3, <1>4, <1>5, <1>6, <1>7, <1>8, <1>9, <1>10, <1>11, <1>12, <1>13, <1>14,
     <1>15, <1>16, <1>17, <1>18, <1>19, <1>20, <1>21, <1>22, <1>23, <1>24, <1>25, <1>26,
        <1>27, <1>28, <1>29, <1>30, <1>31, <1>32, <1>33
     DEF Next, PoolStep, RuntimeStep, StreamStep, UserStep

-----------------------------------------------------------------------------
(* The lanes.                                                              *)

Built(s) == phase[s] \in {"open", "closing", "released"}

\* Steps that admit, advance or end no stream.
LEMMA LaneKept ==
    ASSUME TypeOK, LaneInv, UNCHANGED <<sessionOf, stage, lane>>,
           \A s \in Session : Built(s) => Built(s)' /\ entryOf'[s] = entryOf[s]
    PROVE  LaneInv'
  BY DEF LaneInv, InLane, Built, TypeOK, StreamTypes

\* The pool's tasks and the release attempts change no built session's entry.
LEMMA AcquireEndsLane ==
    ASSUME TypeOK, QueueInv, LaneInv, NEW s \in Session, Holds(lifecycle, Acquire(s)),
           RejectSession(s) \/ \E e \in Session : BuildSession(s, e),
           UNCHANGED <<sessionOf, stage, lane>>
    PROVE  LaneInv'
<1>1. ~Built(s)
  BY HolderJustified DEF Built, Justified, Acquire, TypeOK
<1>2. \A t \in Session : Built(t) => Built(t)' /\ entryOf'[t] = entryOf[t]
  BY <1>1 DEF Built, RejectSession, BuildSession, TypeOK, SessionTypes
<1> QED
  BY <1>2, LaneKept

\* A release attempt that settles, sessions that close and the end of a
\* cleanup leave the streams where they are.
LEMMA SettleLane ==
    ASSUME TypeOK, LaneInv, NEW s \in Session, NEW ok \in BOOLEAN, Settle(s, ok),
           UNCHANGED <<sessionOf, stage, lane>>
    PROVE  LaneInv'
<1>1. \A t \in Session : Built(t) => Built(t)' /\ entryOf'[t] = entryOf[t]
  BY DEF Built, Settle, TypeOK, SessionTypes
<1> QED
  BY <1>1, LaneKept

\* See SettleLane.
LEMMA CloseLane ==
    ASSUME TypeOK, LaneInv, NEW S, S \subseteq Live, CloseSessions(S), UNCHANGED <<sessionOf,
       stage, lane>>
    PROVE  LaneInv'
<1>1. \A t \in Session : Built(t) => Built(t)' /\ entryOf'[t] = entryOf[t]
  BY DEF Built, CloseSessions, TypeOK, SessionTypes
<1> QED
  BY <1>1, LaneKept

\* See SettleLane.
LEMMA AfterCleanupLane ==
    ASSUME TypeOK, LaneInv, NEW ok \in BOOLEAN, AfterCleanup(ok), UNCHANGED streamVars
    PROVE  LaneInv'
<1>1. CASE UNCHANGED sessionVars
  BY <1>1, LaneKept DEF Built
<1>2. ASSUME NEW s \in Session, Settle(s, ok) PROVE LaneInv'
  BY <1>2, SettleLane
<1> QED
  BY <1>1, <1>2 DEF AfterCleanup

\* A stream that ends gives the lane to the next one.
LEMMA EndStreamLane ==
    ASSUME TypeOK, LaneInv, NEW r \in Request, NEW result, EndStream(r, result),
       UNCHANGED sessionVars,
           stage[r] # "none", Holds(lane[entryOf[sessionOf[r]]], r)
    PROVE  LaneInv'
<1>1. ASSUME NEW q \in Request, InLane(q)' PROVE Holds(lane[entryOf[sessionOf[q]]], q)'
  <2>1. q # r /\ InLane(q)
    BY <1>1 DEF EndStream, InLane, TypeOK, StreamTypes
  <2>2. Holds(lane[entryOf[sessionOf[q]]], q)
    BY <2>1 DEF LaneInv
  <2>3. entryOf[sessionOf[q]] # entryOf[sessionOf[r]]
    BY <2>1, <2>2 DEF Holds
  <2>4. lane'[entryOf[sessionOf[q]]] = lane[entryOf[sessionOf[q]]]
    BY <2>3 DEF EndStream, TypeOK, StreamTypes
  <2> QED
    BY <2>2, <2>4 DEF EndStream, Holds
<1>2. \A q \in Request : stage'[q] # "none" => stage[q] # "none"
  BY DEF EndStream, TypeOK, StreamTypes
<1> QED
  BY <1>1, <1>2 DEF LaneInv, EndStream

\* A stream that goes on to its next native call.
LEMMA AdvanceLane ==
    ASSUME TypeOK, LaneInv, NEW r \in Request, NEW to, Advance(r, to), UNCHANGED sessionVars,
           stage[r] # "none", Holds(lane[entryOf[sessionOf[r]]], r)
    PROVE  LaneInv'
  BY DEF LaneInv, Advance, InLane, TypeOK, StreamTypes

\* A new stream joins the end of its lane.
LEMMA StreamLane ==
    ASSUME TypeOK, LaneInv, NEW s \in Session, NEW r \in Request, NEW i \in Id, Stream(s, r, i)
    PROVE  LaneInv'
<1>1. ASSUME NEW q \in Request, InLane(q)' PROVE Holds(lane[entryOf[sessionOf[q]]], q)'
  <2> DEFINE e == entryOf[sessionOf[q]]
  <2>1. q # r /\ InLane(q) /\ sessionOf'[q] = sessionOf[q]
    BY <1>1 DEF Stream, InLane, TypeOK, StreamTypes
  <2>2. Holds(lane[e], q)
    BY <2>1 DEF LaneInv
  <2>3. CASE e = entryOf[s] /\ e \in Session
    <3>1. lane[e] \in Seq(Request) /\ lane'[e] = Enter(lane[e], r)
      BY <2>3 DEF Stream, TypeOK, StreamTypes
    <3>2. lane[e] \in Seq(Request) /\ lane[e] # << >>
      BY <2>2, <3>1 DEF Holds
    <3> HIDE DEF e
    <3>3. Enter(lane[e], r) # << >> /\ Head(Enter(lane[e], r)) = Head(lane[e])
      BY <3>2, EnterHead
    <3> QED
      BY <2>1, <2>2, <3>1, <3>3 DEF Stream, Holds, e
  <2>4. CASE ~(e = entryOf[s] /\ e \in Session)
    <3>1. lane'[e] = lane[e]
      BY <2>4 DEF Stream, TypeOK, StreamTypes
    <3> QED
      BY <2>1, <2>2, <3>1 DEF Stream, Holds
  <2> QED
    BY <2>3, <2>4
<1>2. ASSUME NEW q \in Request, stage'[q] # "none"
      PROVE  sessionOf'[q] \in Session /\ phase'[sessionOf'[q]] \in {"open", "closing", "released"}
  BY <1>2 DEF Stream, LaneInv, TypeOK, StreamTypes
<1> QED
  BY <1>1, <1>2 DEF LaneInv

\* Every step keeps the lanes in order.
LEMMA LaneStep == ASSUME TypeOK, QueueInv, LaneInv, Next PROVE LaneInv'

<1>1. ASSUME NEW s \in Session, NEW k \in Key, CreateSession(s, k) PROVE LaneInv'
  BY <1>1, LaneKept DEF CreateSession, Built, TypeOK, SessionTypes
<1>2. ASSUME NEW s \in Session, AcquireRefused(s) PROVE LaneInv'
  BY <1>2, AcquireEndsLane DEF AcquireRefused, Starting
<1>3. ASSUME NEW s \in Session, AcquireShared(s) PROVE LaneInv'
  BY <1>3, AcquireEndsLane DEF AcquireShared, Starting, EntryAt, TypeOK, EntryTypes
<1>4. ASSUME NEW s \in Session, StartLoad(s) PROVE LaneInv'
  BY <1>4, LaneKept DEF StartLoad, Built
<1>5. ASSUME NEW s \in Session, LoadSucceeds(s) PROVE LaneInv'
  BY <1>5, AcquireEndsLane DEF LoadSucceeds, Waiting
<1>6. ASSUME NEW s \in Session, LoadFails(s) PROVE LaneInv'
  <2>1. CASE UNCHANGED sessionVars
    BY <1>6, <2>1, LaneKept DEF LoadFails, Built
  <2>2. CASE RejectSession(s)
    BY <1>6, <2>2, AcquireEndsLane DEF LoadFails, Waiting
  <2> QED
    BY <1>6, <2>1, <2>2 DEF LoadFails
<1>7. ASSUME NEW s \in Session, CapabilityReportFails(s) PROVE LaneInv'
  BY <1>7, LaneKept DEF CapabilityReportFails, Built
<1>8. ASSUME NEW s \in Session, UndoContext(s) PROVE LaneInv'
  <2>1. CASE UNCHANGED sessionVars
    BY <1>8, <2>1, LaneKept DEF UndoContext, Built
  <2>2. CASE RejectSession(s)
    BY <1>8, <2>2, AcquireEndsLane DEF UndoContext, Waiting
  <2> QED
    BY <1>8, <2>1, <2>2 DEF UndoContext
<1>9. ASSUME NEW s \in Session, UndoLease(s) PROVE LaneInv'
  BY <1>9, AcquireEndsLane DEF UndoLease, Waiting
<1>10. ASSUME NEW s \in Session, ReleaseSession(s) PROVE LaneInv'
  BY <1>10, CloseLane DEF ReleaseSession
<1>11. ASSUME NEW s \in Session, SessionDrained(s) PROVE LaneInv'
  BY <1>11, LaneKept DEF SessionDrained, Built
<1>12. ASSUME NEW s \in Session, ReleaseFindsNothing(s) PROVE LaneInv'
  BY <1>12, SettleLane DEF ReleaseFindsNothing
<1>13. ASSUME NEW s \in Session, ReleaseShared(s) PROVE LaneInv'
  BY <1>13, SettleLane DEF ReleaseShared
<1>14. ASSUME NEW s \in Session, ReleaseLast(s) PROVE LaneInv'
  BY <1>14, LaneKept DEF ReleaseLast, Built
<1>15. CASE StartReleaseAll
  BY <1>15, LaneKept DEF StartReleaseAll, Built
<1>16. ASSUME NEW e \in Session, VisitNext(e) PROVE LaneInv'
  BY <1>16, LaneKept DEF VisitNext, Built
<1>17. CASE Stopped
  BY <1>17, LaneKept DEF Stopped, Built
<1>18. CASE ContextCleaned
  <2>1. CASE leaseReleased[target]
    BY <1>18, <2>1, AfterCleanupLane DEF ContextCleaned
  <2>2. CASE ~leaseReleased[target]
    BY <1>18, <2>2, LaneKept DEF ContextCleaned, Built
  <2> QED
    BY <2>1, <2>2
<1>19. CASE ContextCleanupFails
  BY <1>19, AfterCleanupLane DEF ContextCleanupFails
<1>20. CASE LeaseCleaned
  BY <1>20, AfterCleanupLane DEF LeaseCleaned
<1>21. CASE LeaseCleanupFails
  BY <1>21, AfterCleanupLane DEF LeaseCleanupFails
<1>22. CASE ReleaseRuntime
  BY <1>22, CloseLane DEF ReleaseRuntime
<1>23. CASE SessionsSettled
  BY <1>23, LaneKept DEF SessionsSettled, Built
<1>24. CASE FinishReleaseAll
  <2>1. CASE failed
    BY <1>24, <2>1, LaneKept DEF FinishReleaseAll, Built
  <2>2. CASE ~failed
    BY <1>24, <2>2, CloseLane DEF FinishReleaseAll
  <2> QED
    BY <2>1, <2>2
<1>25. CASE RetriesSettled
  BY <1>25, LaneKept DEF RetriesSettled, Built
<1>26. ASSUME NEW s \in Session, NEW r \in Request, NEW i \in Id, Stream(s, r, i) PROVE LaneInv'
  BY <1>26, StreamLane
<1>27. ASSUME NEW s \in Session, NEW r \in Request, StreamRefused(s, r) PROVE LaneInv'
  BY <1>27 DEF StreamRefused, LaneInv, InLane, TypeOK, StreamTypes
<1>28. ASSUME NEW r \in Request, EnterLane(r) PROVE LaneInv'
  BY <1>28, EndStreamLane, AdvanceLane DEF EnterLane
<1>29. ASSUME NEW r \in Request, Prepared(r) PROVE LaneInv'
  <2>1. stage[r] # "none" /\ Holds(lane[entryOf[sessionOf[r]]], r)
    BY <1>29 DEF Prepared, LaneInv, InLane
  <2> QED
    BY <1>29, <2>1, EndStreamLane, AdvanceLane DEF Prepared
<1>30. ASSUME NEW r \in Request, Completed(r) PROVE LaneInv'
  <2>1. stage[r] # "none" /\ Holds(lane[entryOf[sessionOf[r]]], r)
    BY <1>30 DEF Completed, LaneInv, InLane
  <2> QED
    BY <1>30, <2>1, EndStreamLane DEF Completed
<1>31. ASSUME NEW r \in Request, StreamFails(r) PROVE LaneInv'
  <2>1. stage[r] # "none" /\ Holds(lane[entryOf[sessionOf[r]]], r)
    BY <1>31 DEF StreamFails, LaneInv, InLane
  <2> QED
    BY <1>31, <2>1, EndStreamLane DEF StreamFails
<1>32. ASSUME NEW r \in Request, AbortStream(r) PROVE LaneInv'
  BY <1>32, LaneKept DEF AbortStream, Built
<1>33. ASSUME NEW s \in Session, CancelAll(s) PROVE LaneInv'
  BY <1>33, LaneKept DEF CancelAll, Built
<1> QED
  BY <1>1, <1>2, <1>3, <1>4, <1>5, <1>6, <1>7, <1>8, <1>9, <1>10, <1>11, <1>12, <1>13, <1>14,
     <1>15, <1>16, <1>17, <1>18, <1>19, <1>20, <1>21, <1>22, <1>23, <1>24, <1>25, <1>26,
        <1>27, <1>28, <1>29, <1>30, <1>31, <1>32, <1>33
     DEF Next, PoolStep, RuntimeStep, StreamStep, UserStep

-----------------------------------------------------------------------------
(* Resources.                                                              *)

\* Nobody's key changes, and calls that are unused or acquiring stay so.
PhasesKept ==
    /\ keyOf' = keyOf
    /\ \A s \in Session : /\ phase'[s] = "unused" <=> phase[s] = "unused"
                          /\ phase'[s] = "acquiring" <=> phase[s] = "acquiring"

\* A release attempt that settles,
LEMMA SettlePhases ==
    ASSUME TypeOK, QueueInv, NEW s \in Session, NEW ok \in BOOLEAN,
           Holds(lifecycle, Release(s)), Settle(s, ok)
    PROVE  PhasesKept
<1>1. phase[s] = "closing"
  BY HolderJustified DEF TypeOK, QueueInv, Justified, Release
<1> QED
  BY <1>1 DEF PhasesKept, Settle, TypeOK, SessionTypes

\* sessions that close
LEMMA ClosePhases ==
    ASSUME TypeOK, NEW S, S \subseteq Live, CloseSessions(S)
    PROVE  PhasesKept
  BY DEF PhasesKept, CloseSessions, Live, TypeOK, SessionTypes

\* and the end of a cleanup are about built sessions only.
LEMMA AfterCleanupPhases ==
    ASSUME TypeOK, QueueInv, NEW ok \in BOOLEAN, lifecycle # << >>, AfterCleanup(ok)
    PROVE  PhasesKept /\ at' \in {"idle", "next"}
<1>1. CASE UNCHANGED sessionVars /\ at' = "next"
  BY <1>1 DEF PhasesKept
<1>2. ASSUME NEW s \in Session, Head(lifecycle) = Release(s), Settle(s, ok), EndTask
      PROVE  PhasesKept /\ at' = "idle"
  BY <1>2, SettlePhases DEF Holds, EndTask
<1> QED
  BY <1>1, <1>2 DEF AfterCleanup

\* Steps that touch no resource and no part of the running task.
LEMMA ResourcesKept ==
    ASSUME TypeOK, TaskInv, ResourceInv, NothingIsForgotten,
           UNCHANGED <<at, target, todo, entryVars, nativeVars>>, PhasesKept,
           at # "idle" => \A task : Holds(lifecycle', task) <=> Holds(lifecycle, task)
    PROVE  TaskInv' /\ ResourceInv' /\ NothingIsForgotten'
<1>1. TaskInv'
  BY DEF TaskInv, PhasesKept, EntryAt, PendingAt, Full, Registered, Holds, ReleaseAll,
         Acquire, Release
<1>2. ResourceInv'
  BY DEF ResourceInv, PhasesKept, Registered, Undoing
<1>3. NothingIsForgotten'
  BY DEF NothingIsForgotten, PhasesKept, Owed, Registered
<1> QED
  BY <1>1, <1>2, <1>3

\* A caller that queues up behind the running task does not disturb it.
LEMMA QueuedBehind ==
    ASSUME TypeOK, TaskInv, NEW new \in Task, lifecycle' = Enter(lifecycle, new), at # "idle"
    PROVE  \A task : Holds(lifecycle', task) <=> Holds(lifecycle, task)
<1>1. lifecycle # << >>
  BY DEF TypeOK, PoolTypes, TaskInv, Holds
<1>2. lifecycle' # << >> /\ Head(lifecycle') = Head(lifecycle)
  BY <1>1, EnterHead DEF TypeOK, PoolTypes
<1> QED
  BY <1>1, <1>2 DEF Holds

\* What the end of a cleanup means for the running task.
LEMMA AfterCleanupTask ==
    ASSUME TypeOK, TaskInv, NEW ok \in BOOLEAN, at \in {"context", "lease"},
           AfterCleanup(ok), Registered \ {target} \subseteq Registered'
    PROVE  TaskInv'
<1>1. CASE Head(lifecycle) = ReleaseAll /\ at' = "next" /\ UNCHANGED <<lifecycle, todo>>
  <2>1. Holds(lifecycle, ReleaseAll) /\ target \notin todo /\ todo \subseteq Registered
    BY <1>1 DEF TaskInv, Holds, Release, ReleaseAll
  <2> QED
    BY <1>1, <2>1 DEF TaskInv, Holds
<1>2. CASE at' = "idle"
  BY <1>2 DEF TaskInv
<1> QED
  BY <1>1, <1>2 DEF AfterCleanup, EndTask

\* A failed cleanup leaves every resource and every flag as it was.
LEMMA FailedCleanupKeeps ==
    ASSUME TypeOK, QueueInv, TaskInv, ResourceInv, NothingIsForgotten,
           at \in {"context", "lease"}, lifecycle # << >>, AfterCleanup(FALSE),
           UNCHANGED <<entryVars, context, lease>>
    PROVE  TaskInv' /\ ResourceInv' /\ NothingIsForgotten'
<1>1. PhasesKept /\ at' \in {"idle", "next"}
  BY AfterCleanupPhases
<1>2. TaskInv'
  BY AfterCleanupTask DEF Registered
<1>3. ResourceInv'
  BY <1>1 DEF ResourceInv, PhasesKept, Registered, Undoing
<1>4. NothingIsForgotten'
  BY <1>1 DEF NothingIsForgotten, PhasesKept, Owed, Registered
<1> QED
  BY <1>2, <1>3, <1>4

\* Every step keeps maps, flags and native resources in step.
LEMMA ResourceStep ==
    ASSUME TypeOK, QueueInv, TaskInv, ResourceInv, NothingIsForgotten, Next
    PROVE  TaskInv' /\ ResourceInv' /\ NothingIsForgotten'
<1>1. ASSUME NEW s \in Session, NEW k \in Key, CreateSession(s, k)
     PROVE  TaskInv' /\ ResourceInv' /\ NothingIsForgotten'
  <2>1. TaskInv'
    <3>1. CASE at = "idle"
      BY <1>1, <3>1 DEF CreateSession, TaskInv
    <3>2. CASE at # "idle"
      <4>1. Acquire(s) \in Task /\ lifecycle' = Enter(lifecycle, Acquire(s))
        BY <1>1, TasksTyped DEF CreateSession
      <4>2. \A task : Holds(lifecycle', task) <=> Holds(lifecycle, task)
        BY <3>2, <4>1, QueuedBehind
      <4>3. s \notin Registered
        BY <1>1 DEF CreateSession, ResourceInv
      <4>4. at \in {"load", "undoContext", "undoLease"} => target # s
        <5>1. Holds(lifecycle, Acquire(s)) => phase[s] = "acquiring"
          BY HolderJustified DEF Justified, Acquire, TypeOK
        <5> QED
          BY <1>1, <5>1 DEF CreateSession, TaskInv
      <4>5. \A t \in Session \ {s} : keyOf'[t] = keyOf[t]
        BY <1>1 DEF CreateSession, TypeOK, SessionTypes
      <4>6. at \in {"load", "undoContext", "undoLease"} =>
              /\ EntryAt(keyOf[target])' = EntryAt(keyOf[target])
              /\ PendingAt(keyOf[target])' = PendingAt(keyOf[target])
        BY <1>1, <4>3, <4>4, <4>5
           DEF CreateSession, EntryAt, PendingAt, Registered, TaskInv, TypeOK, EntryTypes
      <4> QED
        BY <1>1, <4>2, <4>6
           DEF CreateSession, TaskInv, Registered, Full, Acquire, Release, ReleaseAll
    <3> QED
      BY <3>1, <3>2
  <2>2. ResourceInv'
    BY <1>1, HolderJustified
       DEF CreateSession, TypeOK, SessionTypes, TaskInv, ResourceInv, Registered,
         Undoing, Acquire, Justified
  <2>3. NothingIsForgotten'
    BY <1>1 DEF CreateSession, ResourceInv, NothingIsForgotten, Owed, Registered,
         Undoing
  <2> QED
    BY <2>1, <2>2, <2>3
<1>2. ASSUME NEW s \in Session, AcquireRefused(s)
     PROVE  TaskInv' /\ ResourceInv' /\ NothingIsForgotten'
  <2>1. TaskInv'
    BY <1>2 DEF AcquireRefused, TaskInv, EndTask
  <2>2. ResourceInv'
    BY <1>2, HolderJustified
       DEF AcquireRefused, TypeOK, ResourceInv, Registered, Undoing, Starting,
         EndTask, RejectSession, Acquire, Justified
  <2>3. NothingIsForgotten'
    BY <1>2 DEF AcquireRefused, NothingIsForgotten, Owed, Registered, Starting,
         RejectSession
  <2> QED
    BY <2>1, <2>2, <2>3
<1>3. ASSUME NEW s \in Session, AcquireShared(s)
     PROVE  TaskInv' /\ ResourceInv' /\ NothingIsForgotten'
  <2>1. TaskInv'
    BY <1>3 DEF AcquireShared, TaskInv, EndTask
  <2>2. ResourceInv'
    BY <1>3 DEF AcquireShared, TypeOK, EntryTypes, ResourceInv, Registered, Undoing,
         Starting, EndTask, BuildSession, EntryAt
  <2>3. NothingIsForgotten'
    BY <1>3 DEF AcquireShared, NothingIsForgotten, Owed, Registered, Starting,
         BuildSession
  <2> QED
    BY <2>1, <2>2, <2>3
<1>4. ASSUME NEW s \in Session, StartLoad(s)
     PROVE  TaskInv' /\ ResourceInv' /\ NothingIsForgotten'
  <2>1. TaskInv'
    BY <1>4 DEF StartLoad, TaskInv, Holds, Starting, EntryAt, PendingAt, Full, Acquire,
         ReleaseAll
  <2>2. ResourceInv'
    BY <1>4 DEF StartLoad, ResourceInv, Registered, Undoing, Starting
  <2>3. NothingIsForgotten'
    BY <1>4 DEF StartLoad, NothingIsForgotten, Owed, Registered, Starting
  <2> QED
    BY <2>1, <2>2, <2>3
<1>5. ASSUME NEW s \in Session, LoadSucceeds(s)
     PROVE  TaskInv' /\ ResourceInv' /\ NothingIsForgotten'
  <2>1. TaskInv'
    BY <1>5 DEF LoadSucceeds, TaskInv, EndTask
  <2>2. ResourceInv'
    BY <1>5, HolderJustified
       DEF LoadSucceeds, TypeOK, EntryTypes, NativeTypes, SessionTypes, TaskInv,
         ResourceInv, Registered, Undoing, Holds, Waiting, EndTask, BuildSession,
         EntryAt, PendingAt, Acquire, Justified
  <2>3. NothingIsForgotten'
    BY <1>5 DEF LoadSucceeds, NothingIsForgotten, Owed, Registered, Waiting,
         BuildSession
  <2> QED
    BY <2>1, <2>2, <2>3
<1>6. ASSUME NEW s \in Session, LoadFails(s)
     PROVE  TaskInv' /\ ResourceInv' /\ NothingIsForgotten'
  <2>1. TaskInv'
    BY <1>6 DEF LoadFails, TypeOK, EntryTypes, TaskInv, ResourceInv, Registered, Holds,
         Waiting, EndTask, EntryAt, PendingAt, Full, Acquire
  <2>2. ResourceInv'
    BY <1>6, HolderJustified
       DEF LoadFails, TypeOK, EntryTypes, SessionTypes, TaskInv, ResourceInv,
         Registered, Undoing, Holds, Waiting, EndTask, RejectSession, Acquire,
         Justified
  <2>3. NothingIsForgotten'
    BY <1>6 DEF LoadFails, TaskInv, NothingIsForgotten, Owed, Registered, Holds, Waiting,
         RejectSession, Acquire
  <2> QED
    BY <2>1, <2>2, <2>3
<1>7. ASSUME NEW s \in Session, CapabilityReportFails(s)
     PROVE  TaskInv' /\ ResourceInv' /\ NothingIsForgotten'
  <2>1. TaskInv'
    BY <1>7 DEF CapabilityReportFails, TypeOK, EntryTypes, NativeTypes, TaskInv, Holds,
         Waiting, EntryAt, PendingAt, Full, Acquire, ReleaseAll
  <2>2. ResourceInv'
    BY <1>7 DEF CapabilityReportFails, TypeOK, EntryTypes, NativeTypes, TaskInv,
         ResourceInv, NothingIsForgotten, Owed, Registered, Undoing, Holds,
         Waiting, Acquire
  <2>3. NothingIsForgotten'
    BY <1>7 DEF CapabilityReportFails, TaskInv, NothingIsForgotten, Owed, Registered,
         Holds, Waiting, Acquire
  <2> QED
    BY <2>1, <2>2, <2>3
<1>8. ASSUME NEW s \in Session, UndoContext(s)
     PROVE  TaskInv' /\ ResourceInv' /\ NothingIsForgotten'
  <2>1. TaskInv'
    BY <1>8 DEF UndoContext, TypeOK, EntryTypes, NativeTypes, TaskInv, Holds, Waiting,
         EndTask, EntryAt, PendingAt, Full, Acquire, ReleaseAll
  <2>2. ResourceInv'
    <3>1. phase[s] = "acquiring" /\ target = s
      BY <1>8, HolderJustified
         DEF UndoContext, Waiting, Justified, Acquire, TypeOK, TaskInv, Holds
    <3>2. ASSUME context' = [context EXCEPT ![s] = "gone"],
       contextReleased' = [contextReleased EXCEPT ![s] = TRUE],
                 UNCHANGED pendingCleanup
          PROVE  ResourceInv'
      <4>1. UNCHANGED <<entries, leaseReleased, lease, keyOf>> /\ Undoing /\ s \notin Registered
        BY <1>8, <3>1 DEF UndoContext, Waiting, RejectSession, Undoing, ResourceInv
      <4>2. /\ \A t \in Session \ {s} : phase'[t] = phase[t]
            /\ \/ phase'[s] = "acquiring" /\ at' = "undoLease" /\ target' = s
               \/ phase'[s] = "failed" /\ at' = "idle"
        BY <1>8, <3>1 DEF UndoContext, RejectSession, EndTask, TypeOK, SessionTypes
      <4> QED
        BY <3>1, <3>2, <4>1, <4>2
           DEF ResourceInv, Registered, Undoing, TypeOK, EntryTypes, NativeTypes
    <3>4. CASE /\ pendingCleanup' = pendingCleanup \cup {s}
               /\ EndTask /\ RejectSession(s)
               /\ UNCHANGED <<context, contextReleased>>
      BY <1>8, <3>1, <3>4
         DEF UndoContext, Waiting, RejectSession, EndTask, ResourceInv, Registered, Undoing,
             TaskInv, EntryAt, PendingAt, TypeOK, EntryTypes, NativeTypes, SessionTypes
    <3> QED
      BY <1>8, <3>2, <3>4 DEF UndoContext
  <2>3. NothingIsForgotten'
    BY <1>8
       DEF UndoContext, Waiting, Holds, Acquire, TaskInv, NothingIsForgotten, Owed,
           Registered, EndTask, RejectSession, TypeOK, EntryTypes, NativeTypes
  <2> QED
    BY <2>1, <2>2, <2>3
<1>9. ASSUME NEW s \in Session, UndoLease(s)
     PROVE  TaskInv' /\ ResourceInv' /\ NothingIsForgotten'
  <2>1. TaskInv'
    BY <1>9 DEF UndoLease, TaskInv, EndTask
  <2>2. ResourceInv'
    <3>1. phase[s] = "acquiring" /\ target = s /\ context[s] # "live" /\ contextReleased[s]
      BY <1>9, HolderJustified
         DEF UndoLease, Waiting, Justified, Acquire, TypeOK, TaskInv, Holds
    <3>2. EntryAt(keyOf[s]) = {} /\ PendingAt(keyOf[s]) = {}
      BY <1>9, <3>1 DEF UndoLease, Waiting, TaskInv
    <3>3. CASE /\ lease' = [lease EXCEPT ![keyOf[s]] = "returned"]
               /\ leaseReleased' = [leaseReleased EXCEPT ![s] = TRUE]
               /\ UNCHANGED pendingCleanup
      BY <1>9, <3>1, <3>2, <3>3
         DEF UndoLease, Waiting, RejectSession, EndTask, ResourceInv, Registered, Undoing,
             TypeOK, EntryTypes, NativeTypes, SessionTypes
    <3>4. CASE pendingCleanup' = pendingCleanup \cup {s} /\ UNCHANGED <<lease, leaseReleased>>
      BY <1>9, <3>1, <3>2, <3>4
         DEF UndoLease, Waiting, RejectSession, EndTask, ResourceInv, Registered, Undoing,
             EntryAt, PendingAt, TypeOK, EntryTypes, NativeTypes, SessionTypes
    <3> QED
      BY <1>9, <3>3, <3>4 DEF UndoLease
  <2>3. NothingIsForgotten'
    BY <1>9, RuntimeAssumption
       DEF UndoLease, TypeOK, NativeTypes, TaskInv, NothingIsForgotten, Owed,
         Registered, Holds, Waiting, RejectSession, Acquire
  <2> QED
    BY <2>1, <2>2, <2>3
<1>10. ASSUME NEW s \in Session, ReleaseSession(s)
      PROVE  TaskInv' /\ ResourceInv' /\ NothingIsForgotten'
  BY <1>10, ClosePhases, ResourcesKept DEF ReleaseSession
<1>11. ASSUME NEW s \in Session, SessionDrained(s)
      PROVE  TaskInv' /\ ResourceInv' /\ NothingIsForgotten'
  <2>1. PhasesKept
    BY <1>11 DEF SessionDrained, PhasesKept
  <2>2. Release(s) \in Task
    BY TasksTyped
  <2> QED
    BY <1>11, <2>1, <2>2, QueuedBehind, ResourcesKept DEF SessionDrained
<1>12. ASSUME NEW s \in Session, ReleaseFindsNothing(s)
      PROVE  TaskInv' /\ ResourceInv' /\ NothingIsForgotten'
  <2>1. PhasesKept
    BY <1>12, SettlePhases DEF ReleaseFindsNothing, Starting
  <2>2. TaskInv'
    BY <1>12 DEF ReleaseFindsNothing, TaskInv, EndTask
  <2>3. ResourceInv'
    BY <1>12, <2>1
       DEF ReleaseFindsNothing, ResourceInv, PhasesKept, Registered, Undoing, Starting, EndTask
  <2>4. NothingIsForgotten'
    BY <1>12, <2>1
       DEF ReleaseFindsNothing, NothingIsForgotten, PhasesKept, Owed, Registered, Starting
  <2> QED
    BY <2>2, <2>3, <2>4
<1>13. ASSUME NEW s \in Session, ReleaseShared(s)
      PROVE  TaskInv' /\ ResourceInv' /\ NothingIsForgotten'
  <2>1. PhasesKept
    BY <1>13, SettlePhases DEF ReleaseShared, Starting
  <2>2. TaskInv'
    BY <1>13 DEF ReleaseShared, TaskInv, EndTask
  <2>3. ResourceInv'
    BY <1>13, <2>1
       DEF ReleaseShared, ResourceInv, PhasesKept, Registered, Undoing, Starting, EndTask
  <2>4. NothingIsForgotten'
    BY <1>13, <2>1 DEF ReleaseShared, NothingIsForgotten, PhasesKept, Owed, Registered, Starting
  <2> QED
    BY <2>2, <2>3, <2>4
<1>14. ASSUME NEW s \in Session, ReleaseLast(s)
      PROVE  TaskInv' /\ ResourceInv' /\ NothingIsForgotten'
  <2>1. TaskInv'
    BY <1>14 DEF ReleaseLast, TaskInv, Registered, Holds, Starting, EntryAt, CleanupFrom,
         Release, ReleaseAll
  <2>2. ResourceInv'
    BY <1>14 DEF ReleaseLast, ResourceInv, Registered, Undoing, Starting, CleanupFrom
  <2>3. NothingIsForgotten'
    BY <1>14 DEF ReleaseLast, NothingIsForgotten, Owed, Registered, Starting
  <2> QED
    BY <2>1, <2>2, <2>3
<1>15. ASSUME StartReleaseAll PROVE TaskInv' /\ ResourceInv' /\ NothingIsForgotten'
  <2>1. TaskInv'
    BY <1>15 DEF StartReleaseAll, TaskInv, Registered, Starting
  <2>2. ResourceInv'
    BY <1>15 DEF StartReleaseAll, ResourceInv, Registered, Undoing, Starting
  <2>3. NothingIsForgotten'
    BY <1>15 DEF StartReleaseAll, NothingIsForgotten, Owed, Registered, Starting
  <2> QED
    BY <2>1, <2>2, <2>3
<1>16. ASSUME NEW e \in Session, VisitNext(e)
      PROVE  TaskInv' /\ ResourceInv' /\ NothingIsForgotten'
  <2>1. TaskInv'
    BY <1>16 DEF VisitNext, TaskInv, Registered, Waiting
  <2>2. ResourceInv'
    BY <1>16 DEF VisitNext, ResourceInv, Registered, Undoing, Waiting
  <2>3. NothingIsForgotten'
    BY <1>16 DEF VisitNext, NothingIsForgotten, Owed, Registered, Waiting
  <2> QED
    BY <2>1, <2>2, <2>3
<1>17. ASSUME Stopped PROVE TaskInv' /\ ResourceInv' /\ NothingIsForgotten'
  <2>1. TaskInv'
    BY <1>17 DEF Stopped, TaskInv, Registered, Waiting
  <2>2. ResourceInv'
    BY <1>17 DEF Stopped, ResourceInv, Registered, Undoing, Waiting
  <2>3. NothingIsForgotten'
    BY <1>17 DEF Stopped, NothingIsForgotten, Owed, Registered, Waiting
  <2> QED
    BY <2>1, <2>2, <2>3
<1>18. ASSUME ContextCleaned PROVE TaskInv' /\ ResourceInv' /\ NothingIsForgotten'
  <2>1. target \in Registered /\ target \in Session /\ ~contextReleased[target]
    BY <1>18 DEF ContextCleaned, Cleaning, TaskInv, Registered, TypeOK, EntryTypes
  <2>2. CASE leaseReleased[target]
    <3>1. PhasesKept /\ at' \in {"idle", "next"}
      BY <1>18, <2>2, AfterCleanupPhases DEF ContextCleaned, Cleaning
    <3>2. Registered' = Registered \ {target}
      BY <1>18, <2>2 DEF ContextCleaned, Unregister, Registered
    <3>3. TaskInv'
      BY <1>18, <2>2, <3>2, AfterCleanupTask DEF ContextCleaned, Cleaning
    <3>4. ResourceInv'
      BY <1>18, <2>1, <2>2, <3>1, <3>2
         DEF ContextCleaned, Cleaning, ResourceInv, PhasesKept, Registered, Undoing,
             Unregister, TypeOK, EntryTypes, NativeTypes
    <3>5. NothingIsForgotten'
      BY <1>18, <2>1, <2>2, <3>1, <3>2
         DEF ContextCleaned, Cleaning, NothingIsForgotten, ResourceInv, PhasesKept, Owed,
             Registered, Undoing, TypeOK, EntryTypes, NativeTypes
    <3> QED
      BY <3>3, <3>4, <3>5
  <2>3. CASE ~leaseReleased[target]
    <3>1. /\ at = "context" /\ at' = "lease"
          /\ UNCHANGED <<lifecycle, target, todo, entries, pendingCleanup, leaseReleased, lease,
                         sessionVars>>
      BY <1>18, <2>3 DEF ContextCleaned, Cleaning
    <3>2. /\ context' = [context EXCEPT ![target] = "gone"]
          /\ contextReleased' = [contextReleased EXCEPT ![target] = TRUE]
      BY <1>18 DEF ContextCleaned
    <3>3. TaskInv'
      BY <2>1, <3>1, <3>2
         DEF TaskInv, Registered, Holds, ReleaseAll, Release, TypeOK, EntryTypes
    <3>4. ResourceInv'
      BY <2>1, <3>1, <3>2 DEF ResourceInv, Registered, Undoing, TypeOK, EntryTypes, NativeTypes
    <3>5. NothingIsForgotten'
      BY <2>1, <3>1, <3>2
         DEF NothingIsForgotten, Owed, Registered, TypeOK, EntryTypes, NativeTypes
    <3> QED
      BY <3>3, <3>4, <3>5
  <2> QED
    BY <2>2, <2>3
<1>19. ASSUME ContextCleanupFails PROVE TaskInv' /\ ResourceInv' /\ NothingIsForgotten'
  BY <1>19, FailedCleanupKeeps DEF ContextCleanupFails, Cleaning
<1>20. ASSUME LeaseCleaned PROVE TaskInv' /\ ResourceInv' /\ NothingIsForgotten'
  <2>1. target \in Registered /\ target \in Session /\ contextReleased[target] /\ at = "lease"
    BY <1>20 DEF LeaseCleaned, Cleaning, TaskInv, Registered, TypeOK, EntryTypes
  <2>2. PhasesKept /\ at' \in {"idle", "next"}
    BY <1>20, AfterCleanupPhases DEF LeaseCleaned, Cleaning
  <2>3. Registered' = Registered \ {target}
    BY <1>20 DEF LeaseCleaned, Unregister, Registered
  <2>4. TaskInv'
    BY <1>20, <2>1, <2>3, AfterCleanupTask DEF LeaseCleaned
  <2>5. ResourceInv'
    BY <1>20, <2>1, <2>2, <2>3
       DEF LeaseCleaned, ResourceInv, PhasesKept, Registered, Undoing, Unregister, TypeOK,
           EntryTypes, NativeTypes
  <2>6. NothingIsForgotten'
    BY <1>20, <2>1, <2>2, <2>3
       DEF LeaseCleaned, NothingIsForgotten, ResourceInv, PhasesKept, Owed, Registered,
           Undoing, TypeOK, EntryTypes, NativeTypes
  <2> QED
    BY <2>4, <2>5, <2>6
<1>21. ASSUME LeaseCleanupFails PROVE TaskInv' /\ ResourceInv' /\ NothingIsForgotten'
  BY <1>21, FailedCleanupKeeps DEF LeaseCleanupFails, Cleaning
<1>22. ASSUME ReleaseRuntime PROVE TaskInv' /\ ResourceInv' /\ NothingIsForgotten'
  BY <1>22, ClosePhases, ResourcesKept DEF ReleaseRuntime
<1>23. ASSUME SessionsSettled PROVE TaskInv' /\ ResourceInv' /\ NothingIsForgotten'
  <2>1. PhasesKept
    BY <1>23 DEF SessionsSettled, PhasesKept
  <2>2. ReleaseAll \in Task
    BY TasksTyped
  <2> QED
    BY <1>23, <2>1, <2>2, QueuedBehind, ResourcesKept DEF SessionsSettled
<1>24. ASSUME FinishReleaseAll PROVE TaskInv' /\ ResourceInv' /\ NothingIsForgotten'
  <2>1. PhasesKept
    <3>1. CASE failed
      BY <1>24, <3>1 DEF FinishReleaseAll, PhasesKept
    <3>2. CASE ~failed
      BY <1>24, <3>2, ClosePhases DEF FinishReleaseAll
    <3> QED
      BY <3>1, <3>2
  <2>2. TaskInv'
    BY <1>24 DEF FinishReleaseAll, TaskInv, EndTask
  <2>3. ResourceInv'
    BY <1>24, <2>1
       DEF FinishReleaseAll, ResourceInv, PhasesKept, Registered, Undoing, Waiting, EndTask
  <2>4. NothingIsForgotten'
    BY <1>24, <2>1
       DEF FinishReleaseAll, NothingIsForgotten, PhasesKept, Owed, Registered, Waiting, EndTask
  <2> QED
    BY <2>2, <2>3, <2>4
<1>25. ASSUME RetriesSettled PROVE TaskInv' /\ ResourceInv' /\ NothingIsForgotten'
  BY <1>25, ResourcesKept DEF RetriesSettled, PhasesKept
<1>26. ASSUME NEW s \in Session, NEW r \in Request, NEW i \in Id, Stream(s, r, i)
      PROVE  TaskInv' /\ ResourceInv' /\ NothingIsForgotten'
  BY <1>26, ResourcesKept DEF Stream, PhasesKept
<1>27. ASSUME NEW s \in Session, NEW r \in Request, StreamRefused(s, r)
      PROVE  TaskInv' /\ ResourceInv' /\ NothingIsForgotten'
  BY <1>27, ResourcesKept DEF StreamRefused, PhasesKept
<1>28. ASSUME NEW r \in Request, EnterLane(r)
      PROVE  TaskInv' /\ ResourceInv' /\ NothingIsForgotten'
  BY <1>28, ResourcesKept DEF EnterLane, PhasesKept
<1>29. ASSUME NEW r \in Request, Prepared(r)
      PROVE  TaskInv' /\ ResourceInv' /\ NothingIsForgotten'
  BY <1>29, ResourcesKept DEF Prepared, PhasesKept
<1>30. ASSUME NEW r \in Request, Completed(r)
      PROVE  TaskInv' /\ ResourceInv' /\ NothingIsForgotten'
  BY <1>30, ResourcesKept DEF Completed, PhasesKept
<1>31. ASSUME NEW r \in Request, StreamFails(r)
      PROVE  TaskInv' /\ ResourceInv' /\ NothingIsForgotten'
  BY <1>31, ResourcesKept DEF StreamFails, PhasesKept
<1>32. ASSUME NEW r \in Request, AbortStream(r)
      PROVE  TaskInv' /\ ResourceInv' /\ NothingIsForgotten'
  BY <1>32, ResourcesKept DEF AbortStream, PhasesKept
<1>33. ASSUME NEW s \in Session, CancelAll(s)
      PROVE  TaskInv' /\ ResourceInv' /\ NothingIsForgotten'
  BY <1>33, ResourcesKept DEF CancelAll, PhasesKept
<1> QED
  BY <1>1, <1>2, <1>3, <1>4, <1>5, <1>6, <1>7, <1>8, <1>9, <1>10, <1>11,
     <1>12, <1>13, <1>14, <1>15, <1>16, <1>17, <1>18, <1>19, <1>20, <1>21,
     <1>22, <1>23, <1>24, <1>25, <1>26, <1>27, <1>28, <1>29, <1>30, <1>31,
     <1>32, <1>33
     DEF Next, PoolStep, RuntimeStep, StreamStep, UserStep

-----------------------------------------------------------------------------
(* The inductive invariant.                                                *)

\* Nothing but the variables of the module is mentioned by the invariant.
LEMMA InvariantStutters == ResourcesInductive /\ UNCHANGED vars => ResourcesInductive'
<1> SUFFICES ASSUME ResourcesInductive, UNCHANGED vars PROVE ResourcesInductive'
  OBVIOUS
<1> USE DEF vars, ResourcesInductive
<1>1. TypeOK'
  BY DEF TypeOK, PoolTypes, EntryTypes, NativeTypes, SessionTypes, RuntimeTypes, StreamTypes
<1>2. QueueInv'
  BY QueueKept DEF Justified, TypeOK, QueueInv
<1>3. LaneInv'
  BY LaneKept DEF Built
<1>4. TaskInv' /\ ResourceInv' /\ NothingIsForgotten'
  BY ResourcesKept DEF PhasesKept
<1> QED
  BY <1>1, <1>2, <1>3, <1>4

\* Every step of the runtime preserves it.
LEMMA InductiveStep == ResourcesInductive /\ [Next]_vars => ResourcesInductive'
<1>1. ASSUME ResourcesInductive, Next PROVE ResourcesInductive'
  BY <1>1, TypesStep, QueueStep, LaneStep, ResourceStep DEF ResourcesInductive
<1> QED
  BY <1>1, InvariantStutters

\* The initial state satisfies all of it.
LEMMA InitInductive == Init => ResourcesInductive
<1> SUFFICES ASSUME Init PROVE ResourcesInductive
  OBVIOUS
<1> USE DEF Init
<1>1. QueueInv
  BY EmptySeq DEF QueueInv
<1>2. LaneInv
  BY DEF LaneInv, InLane
<1>3. TaskInv
  BY DEF TaskInv
<1>4. ResourceInv
  BY DEF ResourceInv, Registered, Undoing
<1>5. NothingIsForgotten
  BY DEF NothingIsForgotten, Owed
<1> QED
  BY <1>1, <1>2, <1>3, <1>4, <1>5, InitTypeOK DEF ResourcesInductive

\* The maps, the queue and the flags of the pool stay in step with the native
\* contexts and leases, whatever is released, retried or fails in between.
THEOREM ResourcesAreInductive == Spec => []ResourcesInductive
<1> QED
  BY InitInductive, InductiveStep, PTL DEF Spec

\* Every variable keeps its type; a reference count never becomes negative.
THEOREM TypeCorrect == Spec => []TypeOK
<1>1. ResourcesInductive => TypeOK
  BY DEF ResourcesInductive
<1> QED
  BY <1>1, ResourcesAreInductive, PTL

\* Whatever fails, a live context and a lease whose context is gone stay known
\* to the pool until they are released.
THEOREM NothingForgotten == Spec => []NothingIsForgotten
<1>1. ResourcesInductive => NothingIsForgotten
  BY DEF ResourcesInductive
<1> QED
  BY <1>1, ResourcesAreInductive, PTL

-----------------------------------------------------------------------------
(* The runtime implements NativeResources.                                 *)

\* While an acquire() loads, every live context is registered: the limit on the
\* maps is a limit on the contexts.
LEMMA RoomForOneMore ==
    ASSUME ResourcesInductive, at = "load"
    PROVE  Cardinality(Native!LiveContexts) < MaxLoadedContexts
<1>1. Native!LiveContexts \subseteq entries \cup pendingCleanup
  BY DEF Native!LiveContexts, ResourcesInductive, ResourceInv, Registered
<1>2. IsFiniteSet(entries) /\ IsFiniteSet(pendingCleanup)
  BY RuntimeAssumption, FS_Subset DEF ResourcesInductive, TypeOK, EntryTypes
<1>3. /\ IsFiniteSet(entries \cup pendingCleanup)
      /\ Cardinality(entries \cup pendingCleanup)
           = Cardinality(entries) + Cardinality(pendingCleanup)
               - Cardinality(entries \cap pendingCleanup)
  BY <1>2, FS_Union
<1>4. entries \cap pendingCleanup = {}
  BY DEF ResourcesInductive, ResourceInv
<1>5. Cardinality(entries \cap pendingCleanup) = 0
  BY <1>4, FS_EmptySet
<1>6. Cardinality(Native!LiveContexts) <= Cardinality(entries \cup pendingCleanup)
  BY <1>1, <1>3, FS_Subset
<1>7. /\ Cardinality(entries) \in Nat /\ Cardinality(pendingCleanup) \in Nat
      /\ Cardinality(Native!LiveContexts) \in Nat
  BY <1>1, <1>2, <1>3, FS_Subset, FS_CardinalityType
<1>8. Cardinality(entries) + Cardinality(pendingCleanup) < MaxLoadedContexts
  BY <1>7, RuntimeAssumption DEF ResourcesInductive, TaskInv, Full
<1> QED
  BY <1>3, <1>5, <1>6, <1>7, <1>8, RuntimeAssumption

\* A step that loads the context of the acquire() under way.
LEMMA LoadsOne ==
    ASSUME ResourcesInductive, NEW s \in Session, Waiting(Acquire(s), "load"),
           lease[keyOf[s]] = "held", context' = [context EXCEPT ![s] = "live"],
           UNCHANGED <<keyOf, lease>>
    PROVE  Native!Load(s)
<1>1. phase[s] = "acquiring" /\ at = "load"
  BY HolderJustified DEF Waiting, Justified, Acquire, ResourcesInductive, TypeOK
<1>2. context[s] = "none" /\ keyOf[s] \in Key
  BY <1>1 DEF ResourcesInductive, ResourceInv, Undoing
<1>3. Cardinality(Native!LiveContexts) < MaxLoadedContexts
  BY <1>1, RoomForOneMore
<1>4. Native!Cardinality(Native!LiveContexts) = Cardinality(Native!LiveContexts)
  BY DEF Native!Cardinality, Cardinality
<1> QED
  BY <1>2, <1>3, <1>4 DEF Native!Load

\* A step that returns the lease behind e, which has no context any more.
LEMMA ReturnsOne ==
    ASSUME ResourcesInductive, NEW e \in Session, keyOf[e] \in Key,
           \A c \in Session : context[c] = "live" => keyOf[c] # keyOf[e],
           lease' = [lease EXCEPT ![keyOf[e]] = "returned"], UNCHANGED <<keyOf, context>>
    PROVE  Native!Next \/ UNCHANGED Native!vars
<1>1. CASE lease[keyOf[e]] = "held"
  <2>1. Native!ReturnLease(keyOf[e])
    BY <1>1 DEF Native!ReturnLease, Native!LiveContexts
  <2> QED
    BY <2>1 DEF Native!Next
<1>2. CASE lease[keyOf[e]] = "returned"
  BY <1>2 DEF Native!vars, ResourcesInductive, TypeOK, NativeTypes
<1> QED
  BY <1>1, <1>2 DEF ResourcesInductive, TypeOK, NativeTypes

\* Every step of the runtime is a step of NativeResources or changes none of its
\* variables.
LEMMA NativeStep == ASSUME ResourcesInductive, Next PROVE Native!Next \/ UNCHANGED Native!vars
<1> DEFINE Goal == Native!Next \/ UNCHANGED Native!vars
<1>1. ASSUME NEW s \in Session, NEW k \in Key, CreateSession(s, k) PROVE Goal
  <2>1. keyOf[s] = None /\ context[s] = "none"
    BY <1>1, HolderJustified DEF CreateSession, ResourcesInductive, ResourceInv, TaskInv,
                                 Undoing, Justified, Acquire, TypeOK
  <2>2. Native!Choose(s, k)
    BY <1>1, <2>1 DEF CreateSession, Native!Choose
  <2> QED
    BY <2>2 DEF Native!Next
<1>2. ASSUME NEW s \in Session, LoadSucceeds(s) \/ CapabilityReportFails(s) PROVE Goal
  BY <1>2, LoadsOne DEF LoadSucceeds, CapabilityReportFails, BuildSession, Native!Next
<1>3. ASSUME NEW s \in Session, UndoContext(s) PROVE Goal
  <2>1. context[s] = "live" /\ UNCHANGED <<keyOf, lease>>
    BY <1>3 DEF UndoContext, Waiting, RejectSession, Holds, Acquire, ResourcesInductive, TaskInv
  <2>2. CASE context' = [context EXCEPT ![s] = "gone"]
    BY <2>1, <2>2 DEF Native!Destroy, Native!Next
  <2>3. CASE UNCHANGED context
    BY <2>1, <2>3 DEF Native!vars
  <2> QED
    BY <1>3, <2>2, <2>3 DEF UndoContext
<1>4. ASSUME NEW s \in Session, UndoLease(s) PROVE Goal
  <2>1. phase[s] = "acquiring" /\ at = "undoLease" /\ target = s
    BY <1>4, HolderJustified
       DEF UndoLease, Waiting, Justified, Holds, Acquire, ResourcesInductive, TypeOK, TaskInv
  <2>2. keyOf[s] \in Key
    BY <2>1 DEF ResourcesInductive, ResourceInv
  <2>3. \A c \in Session : context[c] = "live" => keyOf[c] # keyOf[s]
    BY <2>1 DEF ResourcesInductive, ResourceInv, TaskInv, Registered, EntryAt, PendingAt
  <2>4. UNCHANGED <<keyOf, context>>
    BY <1>4 DEF UndoLease, RejectSession
  <2>5. CASE lease' = [lease EXCEPT ![keyOf[s]] = "returned"]
    BY <2>2, <2>3, <2>4, <2>5, ReturnsOne
  <2>6. CASE UNCHANGED lease
    BY <2>4, <2>6 DEF Native!vars
  <2> QED
    BY <1>4, <2>5, <2>6 DEF UndoLease
<1>5. ASSUME ContextCleaned PROVE Goal
  <2>1. target \in Registered /\ ~contextReleased[target]
    BY <1>5 DEF ContextCleaned, Cleaning, ResourcesInductive, TaskInv
  <2>2. target \in Session /\ context[target] = "live"
    BY <2>1 DEF ResourcesInductive, ResourceInv, Registered, TypeOK, EntryTypes
  <2>3. keyOf' = keyOf
    <3>1. CASE leaseReleased[target]
      BY <1>5, <3>1, AfterCleanupPhases
         DEF ContextCleaned, Cleaning, PhasesKept, ResourcesInductive
    <3>2. CASE ~leaseReleased[target]
      BY <1>5, <3>2 DEF ContextCleaned
    <3> QED
      BY <3>1, <3>2
  <2> QED
    BY <1>5, <2>2, <2>3 DEF ContextCleaned, Native!Destroy, Native!Next
<1>6. ASSUME LeaseCleaned PROVE Goal
  <2>1. target \in Registered /\ contextReleased[target] /\ at = "lease"
    BY <1>6 DEF LeaseCleaned, Cleaning, ResourcesInductive, TaskInv
  <2>2. target \in Session /\ keyOf[target] \in Key
    BY <2>1 DEF ResourcesInductive, ResourceInv, Registered, TypeOK, EntryTypes
  <2>3. \A c \in Session : context[c] = "live" => keyOf[c] # keyOf[target]
    BY <2>1 DEF ResourcesInductive, ResourceInv
  <2>4. UNCHANGED <<keyOf, context>>
    BY <1>6, AfterCleanupPhases DEF LeaseCleaned, Cleaning, PhasesKept, ResourcesInductive
  <2> QED
    BY <1>6, <2>2, <2>3, <2>4, ReturnsOne DEF LeaseCleaned
<1>7. ASSUME ContextCleanupFails \/ LeaseCleanupFails PROVE Goal
  BY <1>7, AfterCleanupPhases DEF ContextCleanupFails, LeaseCleanupFails, Cleaning, PhasesKept,
                                  ResourcesInductive, Native!vars
<1>8. ASSUME NEW s \in Session,
             \/ AcquireRefused(s) \/ AcquireShared(s) \/ StartLoad(s) \/ LoadFails(s)
             \/ ReleaseFindsNothing(s) \/ ReleaseShared(s) \/ ReleaseLast(s) \/ VisitNext(s)
      PROVE  Goal
  BY <1>8 DEF AcquireRefused, AcquireShared, StartLoad, LoadFails, ReleaseFindsNothing,
              ReleaseShared, ReleaseLast, VisitNext, RejectSession, BuildSession, Settle,
                 Native!vars
<1>9. ASSUME StartReleaseAll \/ Stopped \/ FinishReleaseAll \/ RuntimeStep \/ ReleaseRuntime
      PROVE  Goal
  BY <1>9 DEF StartReleaseAll, Stopped, FinishReleaseAll, RuntimeStep, SessionsSettled,
              RetriesSettled, ReleaseRuntime, CloseSessions, Native!vars
<1>10. ASSUME NEW s \in Session,
   ReleaseSession(s) \/ SessionDrained(s) \/ CancelAll(s) PROVE Goal
  BY <1>10 DEF ReleaseSession, SessionDrained, CancelAll, CloseSessions, Native!vars
<1>11. ASSUME NEW r \in Request, StreamStep(r) \/ AbortStream(r) PROVE Goal
  BY <1>11 DEF StreamStep, EnterLane, Prepared, Completed, StreamFails, AbortStream, Native!vars
<1>12. ASSUME NEW s \in Session, NEW r \in Request, StreamRefused(s,
   r) \/ \E i \in Id : Stream(s, r, i)
       PROVE  Goal
  BY <1>12 DEF StreamRefused, Stream, Native!vars
<1> HIDE DEF Goal
<1>13. Goal
  BY <1>1, <1>2, <1>3, <1>4, <1>5, <1>6, <1>7, <1>8, <1>9, <1>10, <1>11, <1>12
     DEF Next, PoolStep, UserStep
<1> QED
  BY <1>13 DEF Goal

\* A context is loaded once and within the limit, and a model lease goes back
\* only when no context maps the model behind it any more.
THEOREM RuntimeRespectsResources == Spec => ResourcesRespected
<1>1. Init => Native!Init
  BY DEF Init, Native!Init
<1>2. ResourcesInductive /\ [Next]_vars => [Native!Next]_(Native!vars)
  <2>1. ASSUME UNCHANGED vars PROVE UNCHANGED Native!vars
    BY <2>1 DEF vars, Native!vars
  <2> QED
    BY <2>1, NativeStep
<1> QED
  BY <1>1, <1>2, ResourcesAreInductive, PTL DEF Spec, ResourcesRespected, Native!Spec

-----------------------------------------------------------------------------
(* Sessions that share a context, the streams they run on it and the       *)
(* shutdown of the runtime.                                                *)

(* The order of the mutex.                                                 *)

\* A step that leaves the queue alone.
LEMMA OrderKept ==
    ASSUME OrderInv, UNCHANGED lifecycle,
           runtime' = "open" => runtime = "open" /\ shutdown' = shutdown,
           \A s \in Session : phase'[s] = "acquiring" => phase[s] = "acquiring"
    PROVE  OrderInv'
  BY DEF OrderInv

\* A task joins the queue: an acquire() only while no releaseAll() waits.
LEMMA OrderGrows ==
    ASSUME OrderInv, PoolTypes, NEW new \in Task, lifecycle' = Enter(lifecycle, new),
           runtime' = "open" => shutdown' = "none",
           \A s \in Session : phase'[s] = "acquiring" => phase[s] = "acquiring" \/ new = Acquire(s),
           new.op \in {"acquire", "releaseAll"} =>
              \A i \in 1..Len(lifecycle) : lifecycle[i] # ReleaseAll
    PROVE  OrderInv'
<1> DEFINE n == Len(lifecycle)
<1>1. lifecycle \in Seq(Task) /\ n \in Nat
  BY LenProperties DEF PoolTypes
<1>2. /\ Len(lifecycle') = n + 1
      /\ \A i \in 1..n : lifecycle'[i] = lifecycle[i]
      /\ lifecycle'[n + 1] = new
  <2>1. /\ Len(Enter(lifecycle, new)) = n + 1
        /\ \A i \in 1..n : Enter(lifecycle, new)[i] = lifecycle[i]
        /\ Enter(lifecycle, new)[n + 1] = new
    BY <1>1, EnterProperties
  <2> QED
    BY <2>1
<1>3. ASSUME NEW s \in Session, phase'[s] = "acquiring"
      PROVE  \E i \in 1..(n + 1) : lifecycle'[i] = Acquire(s)
  <2>1. CASE phase[s] = "acquiring"
    <3>1. PICK i \in 1..n : lifecycle[i] = Acquire(s)
      BY <2>1 DEF OrderInv
    <3> QED
      BY <1>1, <1>2, <3>1
  <2>2. CASE new = Acquire(s)
    BY <1>1, <1>2, <2>2
  <2> QED
    BY <1>3, <2>1, <2>2
<1>4. ASSUME NEW i \in 1..(n + 1), NEW j \in 1..(n + 1),
             lifecycle'[i] = ReleaseAll, lifecycle'[j].op = "acquire"
      PROVE  j < i
  <2>1. CASE i \in 1..n /\ j \in 1..n
    BY <1>2, <1>4, <2>1 DEF OrderInv
  <2>2. CASE i = n + 1 /\ j # n + 1
    BY <1>1, <2>2
  <2>3. CASE i # n + 1 /\ j = n + 1
    <3>1. i \in 1..n /\ lifecycle[i] = ReleaseAll
      BY <1>1, <1>2, <1>4, <2>3
    <3>2. new.op = "acquire"
      BY <1>2, <1>4, <2>3
    <3> QED
      BY <3>1, <3>2
  <2>4. CASE i = n + 1 /\ j = n + 1
    BY <1>2, <1>4, <2>4 DEF ReleaseAll
  <2> QED
    BY <1>1, <2>1, <2>2, <2>3, <2>4
<1> QED
  BY <1>2, <1>3, <1>4 DEF OrderInv

\* The running task leaves.
LEMMA OrderShrinks ==
    ASSUME OrderInv, PoolTypes, lifecycle # << >>, lifecycle' = Leave(lifecycle),
           runtime' = "open" => runtime = "open" /\ shutdown' = shutdown,
           \A s \in Session : phase'[s] = "acquiring" =>
              phase[s] = "acquiring" /\ Head(lifecycle) # Acquire(s)
    PROVE  OrderInv'
<1> DEFINE n == Len(lifecycle)
<1>1. lifecycle \in Seq(Task) /\ n \in Nat \ {0} /\ lifecycle[1] = Head(lifecycle)
  BY LeaveProperties DEF PoolTypes
<1>2. /\ Len(lifecycle') = n - 1
      /\ \A i \in 1..(n - 1) : lifecycle'[i] = lifecycle[i + 1]
  BY <1>1, LeaveProperties
<1>3. ASSUME NEW s \in Session, phase'[s] = "acquiring"
      PROVE  \E i \in 1..(n - 1) : lifecycle'[i] = Acquire(s)
  <2>1. PICK i \in 1..n : lifecycle[i] = Acquire(s)
    BY <1>3 DEF OrderInv
  <2>2. i # 1
    BY <1>1, <1>3, <2>1
  <2>3. i - 1 \in 1..(n - 1) /\ lifecycle'[i - 1] = lifecycle[(i - 1) + 1] /\ (i - 1) + 1 = i
    BY <1>1, <1>2, <2>2
  <2> QED
    BY <2>1, <2>3
<1>4. ASSUME NEW i \in 1..(n - 1), NEW j \in 1..(n - 1),
             lifecycle'[i] = ReleaseAll, lifecycle'[j].op = "acquire"
      PROVE  j < i
  <2>1. i + 1 \in 1..n /\ j + 1 \in 1..n
    BY <1>1
  <2>2. j + 1 < i + 1
    BY <1>2, <1>4, <2>1 DEF OrderInv
  <2> QED
    BY <2>2
<1> QED
  BY <1>2, <1>3, <1>4 DEF OrderInv

\* When releaseAll() runs, no acquire() is under way and none will be.
LEMMA ReleaseAllIsLast ==
    ASSUME TypeOK, QueueInv, OrderInv, Holds(lifecycle, ReleaseAll)
    PROVE  NoMoreSessions /\ shutdown = "pool"
<1>1. lifecycle # << >> /\ lifecycle[1] = ReleaseAll /\ 1 \in 1..Len(lifecycle)
  BY LeaveProperties DEF Holds, TypeOK, PoolTypes
<1>2. shutdown = "pool"
  BY HolderJustified DEF Justified, ReleaseAll, TypeOK
<1>3. ASSUME NEW s \in Session, phase[s] = "acquiring" PROVE FALSE
  <2>1. PICK j \in 1..Len(lifecycle) : lifecycle[j] = Acquire(s)
    BY <1>3 DEF OrderInv
  <2>2. lifecycle[j].op = "acquire"
    BY <2>1 DEF Acquire
  <2>3. j < 1
    BY <1>1, <2>2 DEF OrderInv
  <2> QED
    BY <2>3
<1> QED
  BY <1>2, <1>3 DEF NoMoreSessions, OrderInv

\* The end of a cleanup leaves the order as it is.
LEMMA AfterCleanupOrder ==
    ASSUME TypeOK, QueueInv, OrderInv, NEW ok \in BOOLEAN, lifecycle # << >>, AfterCleanup(ok)
    PROVE  OrderInv'
<1>1. CASE UNCHANGED <<lifecycle, sessionVars, runtimeVars>>
  BY <1>1, OrderKept
<1>2. ASSUME NEW s \in Session, Head(lifecycle) = Release(s), Settle(s, ok), EndTask
      PROVE  OrderInv'
  <2>1. PhasesKept /\ UNCHANGED <<runtime, shutdown>>
    BY <1>2, SettlePhases DEF Holds, Settle
  <2> QED
    BY <1>2, <2>1, OrderShrinks DEF PhasesKept, EndTask, Release, Acquire, TypeOK
<1> QED
  BY <1>1, <1>2 DEF AfterCleanup

\* An acquire() that ends is no longer waited for.
LEMMA AcquireEndsOrder ==
    ASSUME TypeOK, QueueInv, OrderInv, NEW s \in Session, Holds(lifecycle, Acquire(s)), EndTask,
           RejectSession(s) \/ \E e \in Session : BuildSession(s, e), UNCHANGED runtimeVars
    PROVE  OrderInv'
<1>1. \A t \in Session : phase'[t] = "acquiring" => phase[t] = "acquiring" /\ t # s
  BY DEF RejectSession, BuildSession, TypeOK, SessionTypes
<1>2. \A t \in Session : t # s => Acquire(t) # Head(lifecycle)
  BY DEF Holds, Acquire
<1> QED
  BY <1>1, <1>2, OrderShrinks DEF Holds, EndTask, TypeOK

\* Every step keeps acquires before the shutdown's releaseAll().
LEMMA OrderStep == ASSUME TypeOK, QueueInv, OrderInv, Next PROVE OrderInv'
<1>1. ASSUME NEW s \in Session, NEW k \in Key, CreateSession(s, k) PROVE OrderInv'
  <2>1. runtime = "open" /\ shutdown = "none"
    BY <1>1 DEF CreateSession, OrderInv
  <2>2. \A i \in 1..Len(lifecycle) : lifecycle[i] # ReleaseAll
    BY <2>1 DEF QueueInv, Justified, ReleaseAll
  <2>3. \A t \in Session : phase'[t] = "acquiring" => phase[t] = "acquiring" \/ t = s
    BY <1>1 DEF CreateSession, TypeOK, SessionTypes
  <2> QED
    BY <1>1, <2>1, <2>2, <2>3, TasksTyped, OrderGrows DEF CreateSession, TypeOK
<1>2. ASSUME NEW s \in Session, AcquireRefused(s) \/ AcquireShared(s) \/ LoadSucceeds(s) \/ UndoLease(s)
      PROVE  OrderInv'
  <2>1. /\ Holds(lifecycle, Acquire(s)) /\ EndTask /\ UNCHANGED runtimeVars
        /\ RejectSession(s) \/ \E e \in Session : BuildSession(s, e)
    BY <1>2 DEF AcquireRefused, AcquireShared, LoadSucceeds, UndoLease, Starting, Waiting, EntryAt,
                TypeOK, EntryTypes
  <2> QED
    BY <2>1, AcquireEndsOrder
<1>3. ASSUME NEW s \in Session, LoadFails(s) \/ UndoContext(s) PROVE OrderInv'
  <2>1. CASE EndTask /\ RejectSession(s)
    BY <1>3, <2>1, AcquireEndsOrder DEF LoadFails, UndoContext, Waiting
  <2>2. CASE UNCHANGED <<lifecycle, sessionVars>>
    BY <1>3, <2>2, OrderKept DEF LoadFails, UndoContext
  <2> QED
    BY <1>3, <2>1, <2>2 DEF LoadFails, UndoContext
<1>4. ASSUME NEW s \in Session, StartLoad(s) \/ CapabilityReportFails(s) \/ ReleaseLast(s) \/ VisitNext(s)
      PROVE  OrderInv'
  BY <1>4, OrderKept DEF StartLoad, CapabilityReportFails, ReleaseLast, VisitNext
<1>5. ASSUME NEW s \in Session, ReleaseSession(s) PROVE OrderInv'
  BY <1>5, ClosePhases, OrderKept DEF ReleaseSession, PhasesKept
<1>6. ASSUME NEW s \in Session, SessionDrained(s) PROVE OrderInv'
  BY <1>6, TasksTyped, OrderGrows DEF SessionDrained, Release, OrderInv, TypeOK
<1>7. ASSUME NEW s \in Session, ReleaseFindsNothing(s) \/ ReleaseShared(s) PROVE OrderInv'
  <2>1. Holds(lifecycle, Release(s)) /\ Settle(s, TRUE) /\ EndTask
    BY <1>7 DEF ReleaseFindsNothing, ReleaseShared, Starting
  <2>2. PhasesKept /\ UNCHANGED <<runtime, shutdown>>
    BY <2>1, SettlePhases DEF Settle
  <2> QED
    BY <2>1, <2>2, OrderShrinks DEF PhasesKept, EndTask, Holds, Release, Acquire, TypeOK
<1>8. ASSUME StartReleaseAll \/ Stopped \/ RetriesSettled PROVE OrderInv'
  BY <1>8, OrderKept DEF StartReleaseAll, Stopped, RetriesSettled, OrderInv
<1>9. ASSUME ContextCleaned \/ ContextCleanupFails \/ LeaseCleaned \/ LeaseCleanupFails PROVE OrderInv'
  <2>1. CASE \E ok \in BOOLEAN : AfterCleanup(ok)
    BY <1>9, <2>1, AfterCleanupOrder
       DEF ContextCleaned, ContextCleanupFails, LeaseCleaned, LeaseCleanupFails, Cleaning
  <2>2. CASE UNCHANGED <<lifecycle, sessionVars, runtimeVars>>
    BY <2>2, OrderKept
  <2> QED
    BY <1>9, <2>1, <2>2 DEF ContextCleaned, ContextCleanupFails, LeaseCleaned, LeaseCleanupFails
<1>10. ASSUME ReleaseRuntime PROVE OrderInv'
  BY <1>10, ClosePhases, OrderKept DEF ReleaseRuntime, PhasesKept
<1>11. ASSUME SessionsSettled PROVE OrderInv'
  <2>1. \A i \in 1..Len(lifecycle) : lifecycle[i] # ReleaseAll
    BY <1>11 DEF SessionsSettled, QueueInv, Justified, ReleaseAll
  <2> QED
    BY <1>11, <2>1, TasksTyped, OrderGrows DEF SessionsSettled, OrderInv, TypeOK
<1>12. ASSUME FinishReleaseAll PROVE OrderInv'
  <2>1. NoMoreSessions /\ lifecycle # << >> /\ lifecycle' = Leave(lifecycle) /\ runtime' = runtime
    BY <1>12, ReleaseAllIsLast DEF FinishReleaseAll, Waiting, Holds, EndTask
  <2>2. \A s \in Session : phase'[s] = "acquiring" => phase[s] = "acquiring"
    BY <1>12, ClosePhases DEF FinishReleaseAll, PhasesKept
  <2> QED
    BY <2>1, <2>2, OrderShrinks DEF NoMoreSessions, TypeOK
<1>13. ASSUME UNCHANGED <<poolVars, sessionVars, runtimeVars>> PROVE OrderInv'
  BY <1>13, OrderKept
<1>14. ASSUME NEW r \in Request, StreamStep(r) \/ AbortStream(r) PROVE OrderInv'
  BY <1>13, <1>14 DEF StreamStep, EnterLane, Prepared, Completed, StreamFails, AbortStream
<1>15. ASSUME NEW s \in Session, NEW r \in Request,
              StreamRefused(s, r) \/ \E i \in Id : Stream(s, r, i)
       PROVE  OrderInv'
  BY <1>13, <1>15 DEF StreamRefused, Stream
<1>16. ASSUME NEW s \in Session, CancelAll(s) PROVE OrderInv'
  BY <1>13, <1>16 DEF CancelAll
<1> QED
  BY <1>1, <1>2, <1>3, <1>4, <1>5, <1>6, <1>7, <1>8, <1>9, <1>10, <1>11, <1>12, <1>14, <1>15, <1>16
     DEF Next, PoolStep, RuntimeStep, UserStep

-----------------------------------------------------------------------------
(* The entries and who holds them.                                         *)

\* Only createSession() makes a call acquire, and a runtime never reopens.
LEMMA NobodyNew == ASSUME TypeOK, QueueInv, Next, NoMoreSessions PROVE NoMoreSessions'
<1>1. ASSUME runtime' # "open", \A s \in Session : phase'[s] = "acquiring" => phase[s] = "acquiring"
      PROVE  NoMoreSessions'
  BY <1>1 DEF NoMoreSessions
<1>2. ASSUME PhasesKept, runtime' # "open" PROVE NoMoreSessions'
  BY <1>1, <1>2 DEF PhasesKept
<1>3. runtime # "open" /\ \A s \in Session : ~Holds(lifecycle, Acquire(s))
  BY HolderJustified DEF NoMoreSessions, Justified, Acquire, TypeOK
<1>4. ASSUME NEW s \in Session, NEW ok \in BOOLEAN, Holds(lifecycle, Release(s)), Settle(s, ok)
      PROVE  NoMoreSessions'
  BY <1>2, <1>3, <1>4, SettlePhases DEF Settle
<1>5. ASSUME NEW ok \in BOOLEAN, lifecycle # << >>, AfterCleanup(ok) PROVE NoMoreSessions'
  BY <1>3, <1>4, <1>5 DEF AfterCleanup, Holds, NoMoreSessions
<1>6. ASSUME NEW s \in Session,
             \/ AcquireRefused(s) \/ AcquireShared(s) \/ StartLoad(s) \/ LoadSucceeds(s)
             \/ LoadFails(s) \/ CapabilityReportFails(s) \/ UndoContext(s) \/ UndoLease(s)
             \/ \E k \in Key : CreateSession(s, k)
      PROVE  NoMoreSessions'
  BY <1>3, <1>6 DEF AcquireRefused, AcquireShared, StartLoad, LoadSucceeds, LoadFails,
                    CapabilityReportFails, UndoContext, UndoLease, Starting, Waiting, CreateSession
<1>7. ASSUME NEW s \in Session, ReleaseFindsNothing(s) \/ ReleaseShared(s) PROVE NoMoreSessions'
  BY <1>4, <1>7 DEF ReleaseFindsNothing, ReleaseShared, Starting
<1>8. ASSUME NEW S, S \subseteq Live, CloseSessions(S), runtime' # "open" PROVE NoMoreSessions'
  BY <1>2, <1>8, ClosePhases
<1>9. ASSUME NEW s \in Session, ReleaseSession(s) PROVE NoMoreSessions'
  BY <1>3, <1>8, <1>9 DEF ReleaseSession
<1>10. ASSUME ReleaseRuntime \/ FinishReleaseAll \/ RetriesSettled PROVE NoMoreSessions'
  BY <1>3, <1>8, <1>10 DEF ReleaseRuntime, FinishReleaseAll, RetriesSettled, NoMoreSessions
<1>11. ASSUME ContextCleaned \/ ContextCleanupFails \/ LeaseCleaned \/ LeaseCleanupFails
       PROVE  NoMoreSessions'
  BY <1>5, <1>11 DEF ContextCleaned, ContextCleanupFails, LeaseCleaned, LeaseCleanupFails,
                     Cleaning, NoMoreSessions
<1>12. ASSUME UNCHANGED <<runtime, phase>> PROVE NoMoreSessions'
  BY <1>12 DEF NoMoreSessions
<1>13. ASSUME NEW s \in Session,
              ReleaseLast(s) \/ VisitNext(s) \/ SessionDrained(s) \/ CancelAll(s)
       PROVE  NoMoreSessions'
  BY <1>12, <1>13 DEF ReleaseLast, VisitNext, SessionDrained, CancelAll
<1>14. ASSUME StartReleaseAll \/ Stopped \/ SessionsSettled PROVE NoMoreSessions'
  BY <1>12, <1>14 DEF StartReleaseAll, Stopped, SessionsSettled
<1>15. ASSUME NEW r \in Request, StreamStep(r) \/ AbortStream(r) PROVE NoMoreSessions'
  BY <1>12, <1>15 DEF StreamStep, EnterLane, Prepared, Completed, StreamFails, AbortStream
<1>16. ASSUME NEW s \in Session, NEW r \in Request, StreamRefused(s, r) \/ \E i \in Id : Stream(s, r, i)
       PROVE  NoMoreSessions'
  BY <1>12, <1>16 DEF StreamRefused, Stream
<1> QED
  BY <1>6, <1>7, <1>9, <1>10, <1>11, <1>13, <1>14, <1>15, <1>16
     DEF Next, PoolStep, RuntimeStep, UserStep

\* A set of one that has a known element.
LEMMA OneElement ==
    ASSUME NEW S, IsFiniteSet(S), NEW x \in S, Cardinality(S) = 1
    PROVE  S = {x}
<1>1. IsFiniteSet(S \ {x}) /\ Cardinality(S \ {x}) = 0
  BY FS_RemoveElement
<1>2. S \ {x} = {}
  BY <1>1, FS_EmptySet
<1> QED
  BY <1>2

\* The only entry a session's key finds is its own.
LEMMA OwnEntry ==
    ASSUME TypeOK, ResourceInv, EntryInv, NEW s \in Live, NEW e \in EntryAt(keyOf[entryOf[s]])
    PROVE  e = entryOf[s] /\ e \in entries
  BY DEF EntryInv, ResourceInv, EntryAt, Registered, Live

\* Who releases is still a holder.
LEMMA ReleaserIsLive ==
    ASSUME TypeOK, QueueInv, NEW s \in Session, Holds(lifecycle, Release(s))
    PROVE  s \in Live /\ phase[s] = "closing" /\ attempt[s] = "queued"
  BY HolderJustified DEF TypeOK, QueueInv, Justified, Release, Live

\* Sessions that close stay live.
LEMMA ClosingStaysLive ==
    ASSUME TypeOK, NEW S, S \subseteq Live, CloseSessions(S)
    PROVE  /\ Live' = Live /\ entryOf' = entryOf /\ PhasesKept
           /\ \A s \in Session : phase[s] = "closing" => phase'[s] = "closing"
<1>1. PhasesKept
  BY ClosePhases
<1>2. \A s \in Session : phase'[s] = phase[s] \/ (s \in Live /\ phase'[s] = "closing")
  BY DEF CloseSessions, TypeOK, SessionTypes
<1> QED
  BY <1>1, <1>2 DEF CloseSessions, Live

\* A release that settles: the session is no holder any more, or still closing.
LEMMA SettlingSession ==
    ASSUME TypeOK, QueueInv, NEW s \in Session, NEW ok \in BOOLEAN,
           Holds(lifecycle, Release(s)), Settle(s, ok)
    PROVE  /\ PhasesKept /\ entryOf' = entryOf
           /\ Live' = IF ok THEN Live \ {s} ELSE Live
           /\ \A t \in Live' : phase'[t] = phase[t]
<1>1. PhasesKept /\ s \in Live /\ phase[s] = "closing"
  BY SettlePhases, ReleaserIsLive
<1> QED
  BY <1>1 DEF Settle, Live, TypeOK, SessionTypes

\* Steps that register or drop no entry and raise or lower no count.
LEMMA EntriesKept ==
    ASSUME TypeOK, EntryInv, UNCHANGED <<entries, references, keyOf, entryOf>>,
           NoMoreSessions => NoMoreSessions',
           Live' \subseteq Live,
           \A s \in Live' : phase[s] = "closing" => phase'[s] = "closing",
           \A s \in Session : phase[s] \notin {"unused", "acquiring"} =>
              phase'[s] \notin {"unused", "acquiring"},
           \A e \in pendingCleanup' \ pendingCleanup : phase[e] = "acquiring",
           \A e \in entries : contextReleased'[e] => contextReleased[e] \/ references[e] = 0,
           at' \in {"stop", "context", "lease"} =>
              /\ at \in {"stop", "context", "lease"} /\ target' = target
              /\ \A s \in Session : Holds(lifecycle', Release(s)) => Holds(lifecycle, Release(s))
    PROVE  EntryInv'
<1>1. ASSUME NEW s \in Live'
      PROVE  /\ entryOf[s] \in Session \ pendingCleanup'
             /\ phase'[entryOf[s]] \notin {"unused", "acquiring"}
             /\ entryOf[s] \notin entries => NoMoreSessions' /\ EntryAt(keyOf[entryOf[s]]) = {}
  BY <1>1 DEF EntryInv
<1>2. ASSUME NEW e \in entries
      PROVE  IF references[e] = 0
             THEN NoMoreSessions' \/ \A s, t \in Holders(e)' : s = t /\ phase'[s] = "closing"
             ELSE ~contextReleased'[e]
  BY <1>2 DEF EntryInv, Holders
<1>3. at' \in {"stop", "context", "lease"} =>
         /\ references[target'] = 0
         /\ \A s \in Session : Holds(lifecycle', Release(s)) => target' = entryOf[s]
  BY DEF EntryInv
<1> QED
  BY <1>1, <1>2, <1>3 DEF EntryInv, EntryAt

\* An acquire() that fails touches no entry.
LEMMA RejectedKeepsEntries ==
    ASSUME TypeOK, QueueInv, TaskInv, EntryInv, NEW s \in Session, Holds(lifecycle, Acquire(s)),
           RejectSession(s) \/ UNCHANGED sessionVars,
           at' \notin {"stop", "context", "lease"},
           UNCHANGED <<entries, references, runtimeVars>>,
           pendingCleanup' \subseteq pendingCleanup \cup {s},
           \A e \in entries : contextReleased'[e] => contextReleased[e] \/ references[e] = 0
    PROVE  EntryInv'
<1>1. phase[s] = "acquiring"
  BY HolderJustified DEF Justified, Acquire, TypeOK
<1>2. /\ UNCHANGED <<keyOf, entryOf>>
      /\ \A t \in Session : phase'[t] = phase[t] \/ (t = s /\ phase'[t] = "failed")
  BY DEF RejectSession, TypeOK, SessionTypes
<1>3. Live' = Live
  BY <1>1, <1>2 DEF Live
<1>4. ~NoMoreSessions
  BY <1>1 DEF NoMoreSessions
<1> QED
  BY <1>1, <1>2, <1>3, <1>4, EntriesKept DEF Live

\* A cleanup that ended in failure touches no entry either.
LEMMA FailedCleanupEntries ==
    ASSUME TypeOK, QueueInv, EntryInv, lifecycle # << >>, AfterCleanup(FALSE),
           NoMoreSessions => NoMoreSessions', UNCHANGED entryVars
    PROVE  EntryInv'
<1>1. /\ at' \in {"idle", "next"} /\ PhasesKept /\ entryOf' = entryOf /\ Live' = Live
      /\ \A t \in Live' : phase'[t] = phase[t]
  <2>1. CASE UNCHANGED sessionVars /\ at' = "next"
    BY <2>1 DEF PhasesKept, Live
  <2>2. ASSUME NEW s \in Session, Head(lifecycle) = Release(s), Settle(s, FALSE), EndTask
        PROVE  /\ at' = "idle" /\ PhasesKept /\ entryOf' = entryOf /\ Live' = Live
               /\ \A t \in Live' : phase'[t] = phase[t]
    BY <2>2, SettlingSession DEF Holds, EndTask
  <2> QED
    BY <2>1, <2>2 DEF AfterCleanup
<1> QED
  BY <1>1, EntriesKept DEF PhasesKept

\* An entry whose cleanup succeeds leaves the maps with its last holder, or when
\* nobody can ask for its key any more.
LEMMA UnregisteredEntry ==
    ASSUME ResourcesInductive, OrderInv, EntryInv, at \in {"context", "lease"}, lifecycle # << >>,
           Unregister(target), AfterCleanup(TRUE), NoMoreSessions => NoMoreSessions',
           references' = references,
           \A e \in Session \ {target} : contextReleased'[e] = contextReleased[e]
    PROVE  EntryInv'
<1> USE DEF ResourcesInductive
<1>1. target \in Registered /\ references[target] = 0
  BY DEF TaskInv, EntryInv
<1>2. /\ at' \in {"idle", "next"} /\ PhasesKept /\ entryOf' = entryOf /\ Live' \subseteq Live
      /\ \A t \in Live' : phase'[t] = phase[t]
      /\ NoMoreSessions \/ \E s \in Session : Holds(lifecycle, Release(s)) /\ s \notin Live'
  <2>1. CASE Head(lifecycle) = ReleaseAll /\ UNCHANGED sessionVars /\ at' = "next"
    BY <2>1, ReleaseAllIsLast DEF PhasesKept, Live, Holds
  <2>2. ASSUME NEW s \in Session, Head(lifecycle) = Release(s), Settle(s, TRUE), EndTask
        PROVE  /\ at' = "idle" /\ PhasesKept /\ entryOf' = entryOf /\ Live' \subseteq Live
               /\ \A t \in Live' : phase'[t] = phase[t]
               /\ \E u \in Session : Holds(lifecycle, Release(u)) /\ u \notin Live'
    BY <2>2, SettlingSession DEF Holds, EndTask
  <2> QED
    BY <2>1, <2>2 DEF AfterCleanup
<1>3. keyOf' = keyOf /\ entries' = entries \ {target} /\ pendingCleanup' = pendingCleanup \ {target}
  BY <1>2 DEF PhasesKept, Unregister
<1>4. ASSUME NEW s \in Live', entryOf[s] \in entries, entryOf[s] \notin entries'
      PROVE  NoMoreSessions'
  <2>1. entryOf[s] = target /\ target \in entries
    BY <1>3, <1>4
  <2>2. CASE NoMoreSessions
    BY <2>2
  <2>3. ASSUME NEW u \in Session, Holds(lifecycle, Release(u)), u \notin Live'
        PROVE  NoMoreSessions'
    <3>1. u \in Live /\ entryOf[u] = target
      BY <2>3, ReleaserIsLive DEF EntryInv
    <3>2. s \in Holders(target) /\ u \in Holders(target) /\ s # u
      BY <1>2, <1>4, <2>1, <2>3, <3>1 DEF Holders
    <3> QED
      BY <1>1, <2>1, <3>2 DEF EntryInv
  <2> QED
    BY <1>2, <2>2, <2>3
<1>5. ASSUME NEW s \in Live'
      PROVE  /\ entryOf[s] \in Session \ pendingCleanup'
             /\ phase'[entryOf[s]] \notin {"unused", "acquiring"}
             /\ entryOf[s] \notin entries' =>
                   NoMoreSessions' /\ {e \in entries' : keyOf[e] = keyOf[entryOf[s]]} = {}
  <2>1. s \in Live
    BY <1>2, <1>5
  <2>2. entryOf[s] \in Session \ pendingCleanup /\ phase[entryOf[s]] \notin {"unused", "acquiring"}
    BY <2>1 DEF EntryInv
  <2>3. CASE entryOf[s] \in entries
    <3>1. \A e \in entries : keyOf[e] = keyOf[entryOf[s]] => e = entryOf[s]
      BY <2>3 DEF ResourceInv, Registered
    <3> QED
      BY <1>2, <1>3, <1>4, <1>5, <2>2, <2>3, <3>1 DEF PhasesKept
  <2>4. CASE entryOf[s] \notin entries
    <3>1. NoMoreSessions /\ {e \in entries : keyOf[e] = keyOf[entryOf[s]]} = {}
      BY <2>1, <2>4 DEF EntryInv, EntryAt
    <3> QED
      BY <1>2, <1>3, <2>2, <2>4, <3>1 DEF PhasesKept
  <2> QED
    BY <2>3, <2>4
<1>6. ASSUME NEW e \in entries'
      PROVE  IF references[e] = 0
             THEN NoMoreSessions' \/ \A s, t \in Holders(e)' : s = t /\ phase'[s] = "closing"
             ELSE ~contextReleased'[e]
  <2>1. e \in entries /\ contextReleased'[e] = contextReleased[e]
    BY <1>3, <1>6 DEF TypeOK, EntryTypes
  <2>2. \A s \in Holders(e)' : s \in Holders(e) /\ phase'[s] = phase[s]
    BY <1>2 DEF Holders
  <2> QED
    BY <2>1, <2>2 DEF EntryInv
<1> QED
  BY <1>2, <1>3, <1>5, <1>6 DEF EntryInv, EntryAt

\* Every step keeps a live session's entry in the maps while it matters.
LEMMA EntryStep ==
    ASSUME ResourcesInductive, OrderInv, EntryInv, ReferencesCountHolders, Next
    PROVE  EntryInv'
<1> USE DEF ResourcesInductive
<1>0. NoMoreSessions => NoMoreSessions'
  BY NobodyNew
<1>1. ASSUME NEW s \in Session, NEW k \in Key, CreateSession(s, k) PROVE EntryInv'
  <2>1. s \notin entries /\ s \notin Live /\ ~NoMoreSessions
    BY <1>1 DEF CreateSession, ResourceInv, Registered, Live, NoMoreSessions
  <2>2. /\ UNCHANGED <<entries, pendingCleanup, references, contextReleased, entryOf, at, target>>
        /\ \A t \in Session \ {s} : phase'[t] = phase[t] /\ keyOf'[t] = keyOf[t]
        /\ phase'[s] = "acquiring"
    BY <1>1 DEF CreateSession, TypeOK, SessionTypes
  <2>3. Live' = Live
    BY <2>1, <2>2 DEF Live
  <2>4. ASSUME NEW t \in Live'
        PROVE  /\ entryOf[t] \in entries /\ entryOf[t] \in Session \ pendingCleanup
               /\ phase'[entryOf[t]] \notin {"unused", "acquiring"}
    <3>1. /\ entryOf[t] \in entries /\ entryOf[t] \in Session \ pendingCleanup
          /\ phase[entryOf[t]] \notin {"unused", "acquiring"}
      BY <2>1, <2>3, <2>4 DEF EntryInv
    <3> QED
      BY <2>1, <2>2, <3>1
  <2>5. ASSUME NEW e \in entries
        PROVE  IF references[e] = 0
               THEN \A t, u \in Holders(e)' : t = u /\ phase'[t] = "closing"
               ELSE ~contextReleased[e]
    <3>1. \A t \in Holders(e)' : t \in Holders(e) /\ phase'[t] = phase[t]
      BY <2>1, <2>2, <2>3 DEF Holders, Live
    <3> QED
      BY <2>1, <3>1 DEF EntryInv
  <2>6. at \in {"stop", "context", "lease"} =>
           \A t \in Session : Holds(lifecycle', Release(t)) => Holds(lifecycle, Release(t))
    BY <1>1, TasksTyped, QueuedBehind DEF CreateSession
  <2> QED
    BY <2>2, <2>4, <2>5, <2>6 DEF EntryInv
<1>2. ASSUME NEW s \in Session,
             AcquireRefused(s) \/ LoadFails(s) \/ CapabilityReportFails(s) \/ UndoContext(s) \/ UndoLease(s)
      PROVE  EntryInv'
  <2>1. Holds(lifecycle, Acquire(s))
    BY <1>2 DEF AcquireRefused, LoadFails, CapabilityReportFails, UndoContext, UndoLease, Starting,
                Waiting
  <2>2. phase[s] = "acquiring"
    BY <2>1, HolderJustified DEF Justified, Acquire, TypeOK
  <2>3. s \notin entries
    BY <2>2 DEF ResourceInv, Registered
  <2>4. \A e \in entries : contextReleased'[e] => contextReleased[e] \/ references[e] = 0
    BY <1>2, <2>3 DEF AcquireRefused, LoadFails, CapabilityReportFails, UndoContext, UndoLease,
                      TypeOK, EntryTypes
  <2>5. /\ RejectSession(s) \/ UNCHANGED sessionVars
        /\ at' \notin {"stop", "context", "lease"}
    BY <1>2 DEF AcquireRefused, LoadFails, CapabilityReportFails, UndoContext, UndoLease, EndTask
  <2>6. /\ UNCHANGED <<entries, references, runtimeVars>>
        /\ pendingCleanup' \subseteq pendingCleanup \cup {s}
    BY <1>2 DEF AcquireRefused, LoadFails, CapabilityReportFails, UndoContext, UndoLease
  <2> QED
    BY <2>1, <2>4, <2>5, <2>6, RejectedKeepsEntries
<1>3. ASSUME NEW s \in Session, AcquireShared(s) PROVE EntryInv'
  <2>1. phase[s] = "acquiring" /\ s \notin Live /\ ~NoMoreSessions
    BY <1>3, HolderJustified DEF AcquireShared, Starting, Justified, Acquire, TypeOK, Live, NoMoreSessions
  <2>2. PICK e \in entries : /\ references[e] > 0 /\ ~contextReleased[e]
                             /\ references' = [references EXCEPT ![e] = @ + 1]
                             /\ BuildSession(s, e)
    BY <1>3 DEF AcquireShared, EntryAt, Shareable
  <2>3. /\ UNCHANGED <<entries, pendingCleanup, contextReleased, keyOf>> /\ at' = "idle"
        /\ \A t \in Session \ {s} : phase'[t] = phase[t] /\ entryOf'[t] = entryOf[t]
        /\ phase'[s] = "open" /\ entryOf'[s] = e /\ e \in Session
    BY <1>3, <2>2 DEF AcquireShared, BuildSession, EndTask, TypeOK, SessionTypes, EntryTypes
  <2>4. ASSUME NEW t \in Live'
        PROVE  /\ entryOf'[t] \in entries /\ entryOf'[t] \in Session \ pendingCleanup
               /\ phase'[entryOf'[t]] \notin {"unused", "acquiring"}
    <3>1. CASE t = s
      BY <2>3, <3>1 DEF ResourceInv, Registered
    <3>2. CASE t # s
      BY <2>1, <2>3, <2>4, <3>2 DEF EntryInv, Live
    <3> QED
      BY <3>1, <3>2
  <2>5. ASSUME NEW f \in entries
        PROVE  IF references'[f] = 0
               THEN \A t, u \in Holders(f)' : t = u /\ phase'[t] = "closing"
               ELSE ~contextReleased[f]
    <3>1. CASE f = e
      BY <2>2, <3>1 DEF TypeOK, EntryTypes
    <3>2. CASE f # e
      <4>1. references'[f] = references[f]
        BY <2>2, <3>2 DEF TypeOK, EntryTypes
      <4>2. \A t \in Holders(f)' : t \in Holders(f) /\ phase'[t] = phase[t]
        BY <2>3, <3>2 DEF Holders, Live
      <4> QED
        BY <2>1, <4>1, <4>2 DEF EntryInv
    <3> QED
      BY <3>1, <3>2
  <2> QED
    BY <2>3, <2>4, <2>5 DEF EntryInv
<1>4. ASSUME NEW s \in Session, LoadSucceeds(s) PROVE EntryInv'
  <2>1. phase[s] = "acquiring" /\ s \notin Live /\ ~NoMoreSessions
    BY <1>4, HolderJustified DEF LoadSucceeds, Waiting, Justified, Acquire, TypeOK, Live, NoMoreSessions
  <2>2. /\ UNCHANGED <<pendingCleanup, keyOf>> /\ at' = "idle" /\ entries' = entries \cup {s}
        /\ \A t \in Session \ {s} :
              /\ phase'[t] = phase[t] /\ entryOf'[t] = entryOf[t]
              /\ references'[t] = references[t] /\ contextReleased'[t] = contextReleased[t]
        /\ phase'[s] = "open" /\ entryOf'[s] = s /\ references'[s] = 1 /\ ~contextReleased'[s]
    BY <1>4 DEF LoadSucceeds, BuildSession, EndTask, TypeOK, SessionTypes, EntryTypes
  <2>3. s \notin pendingCleanup
    BY <2>1 DEF ResourceInv, Registered
  <2>4. ASSUME NEW t \in Live'
        PROVE  /\ entryOf'[t] \in entries' /\ entryOf'[t] \in Session \ pendingCleanup
               /\ phase'[entryOf'[t]] \notin {"unused", "acquiring"}
    <3>1. CASE t = s
      BY <2>2, <2>3, <3>1
    <3>2. CASE t # s
      BY <2>1, <2>2, <2>4, <3>2 DEF EntryInv, Live
    <3> QED
      BY <3>1, <3>2
  <2>5. ASSUME NEW f \in entries'
        PROVE  IF references'[f] = 0
               THEN \A t, u \in Holders(f)' : t = u /\ phase'[t] = "closing"
               ELSE ~contextReleased'[f]
    <3>1. CASE f = s
      BY <2>2, <3>1
    <3>2. CASE f # s
      <4>1. f \in entries /\ references'[f] = references[f] /\ contextReleased'[f] = contextReleased[f]
        BY <2>2, <2>5, <3>2 DEF TypeOK, EntryTypes
      <4>2. \A t \in Holders(f)' : t \in Holders(f) /\ phase'[t] = phase[t]
        BY <2>2, <3>2 DEF Holders, Live
      <4> QED
        BY <2>1, <4>1, <4>2 DEF EntryInv
    <3> QED
      BY <3>1, <3>2
  <2> QED
    BY <2>2, <2>4, <2>5 DEF EntryInv
<1>5. ASSUME NEW s \in Session, ReleaseShared(s) PROVE EntryInv'
  <2>1. PhasesKept /\ entryOf' = entryOf /\ Live' = Live \ {s} /\ \A t \in Live' : phase'[t] = phase[t]
    BY <1>5, SettlingSession DEF ReleaseShared, Starting
  <2>2. PICK e \in entries : references[e] > 1 /\ references' = [references EXCEPT ![e] = @ - 1]
    BY <1>5 DEF ReleaseShared, EntryAt
  <2>3. \A f \in entries : /\ references'[f] = 0 => references[f] = 0
                           /\ references'[f] # 0 => references[f] # 0
    BY <2>2 DEF TypeOK, EntryTypes
  <2>4. UNCHANGED <<entries, pendingCleanup, contextReleased, keyOf>> /\ at' = "idle"
    BY <1>5, <2>1 DEF ReleaseShared, EndTask, PhasesKept
  <2>5. ASSUME NEW t \in Live'
        PROVE  /\ entryOf[t] \in Session \ pendingCleanup
               /\ phase'[entryOf[t]] \notin {"unused", "acquiring"}
               /\ entryOf[t] \notin entries => NoMoreSessions' /\ EntryAt(keyOf[entryOf[t]]) = {}
    BY <1>0, <2>1, <2>5 DEF EntryInv, PhasesKept
  <2>6. ASSUME NEW f \in entries
        PROVE  IF references'[f] = 0
               THEN NoMoreSessions' \/ \A t, u \in Holders(f)' : t = u /\ phase'[t] = "closing"
               ELSE ~contextReleased[f]
    <3>1. \A t \in Holders(f)' : t \in Holders(f) /\ phase'[t] = phase[t]
      BY <2>1 DEF Holders
    <3> QED
      BY <1>0, <2>3, <3>1 DEF EntryInv
  <2> QED
    BY <2>1, <2>4, <2>5, <2>6 DEF EntryInv, EntryAt
<1>6. ASSUME NEW s \in Session, ReleaseLast(s) PROVE EntryInv'
  <2>1. s \in Live /\ phase[s] = "closing" /\ Head(lifecycle) = Release(s)
    BY <1>6, ReleaserIsLive DEF ReleaseLast, Starting, Holds
  <2>2. PICK e \in EntryAt(keyOf[entryOf[s]]) :
              references[e] <= 1 /\ references' = [references EXCEPT ![e] = 0] /\ target' = e
    BY <1>6 DEF ReleaseLast
  <2>3. e = entryOf[s] /\ e \in entries /\ e \in Session
    BY <2>1, <2>2, OwnEntry DEF TypeOK, EntryTypes
  <2>4. /\ UNCHANGED <<lifecycle, entries, pendingCleanup, contextReleased, keyOf, entryOf, phase, runtime>>
        /\ references'[e] = 0 /\ \A f \in Session \ {e} : references'[f] = references[f]
    BY <1>6, <2>2, <2>3 DEF ReleaseLast, TypeOK, EntryTypes
  <2>5. \A f : Holders(f)' = Holders(f)
    BY <2>4 DEF Holders, Live
  <2>6. NoMoreSessions \/ \A t, u \in Holders(e) : t = u /\ phase[t] = "closing"
    <3>1. CASE references[e] = 0
      BY <2>3, <3>1 DEF EntryInv
    <3>2. CASE references[e] # 0
      <4>1. references[e] = 1 /\ Cardinality(Holders(e)) = 1
        BY <2>2, <2>3, <3>2 DEF ReferencesCountHolders, TypeOK, EntryTypes
      <4>2. IsFiniteSet(Holders(e)) /\ s \in Holders(e)
        BY <2>1, <2>3, RuntimeAssumption, FS_Subset DEF Holders, Live
      <4>3. Holders(e) = {s}
        BY <4>1, <4>2, OneElement
      <4> QED
        BY <2>1, <4>3
    <3> QED
      BY <3>1, <3>2
  <2>7. \A t \in Session : Holds(lifecycle', Release(t)) => target' = entryOf'[t]
    BY <2>1, <2>2, <2>3, <2>4 DEF Holds, Release
  <2>8. ASSUME NEW f \in entries
        PROVE  IF references'[f] = 0
               THEN NoMoreSessions \/ \A t, u \in Holders(f) : t = u /\ phase[t] = "closing"
               ELSE ~contextReleased[f]
    <3>1. CASE f = e
      BY <2>4, <2>6, <3>1
    <3>2. CASE f # e
      BY <2>4, <3>2 DEF EntryInv, TypeOK, EntryTypes
    <3> QED
      BY <3>1, <3>2
  <2>9. \A t \in Live : /\ entryOf[t] \in Session \ pendingCleanup
                        /\ phase[entryOf[t]] \notin {"unused", "acquiring"}
                        /\ entryOf[t] \notin entries => NoMoreSessions /\ EntryAt(keyOf[entryOf[t]]) = {}
    BY DEF EntryInv
  <2>10. Live' = Live /\ NoMoreSessions' = NoMoreSessions
    BY <2>4 DEF Live, NoMoreSessions
  <2> QED
    BY <2>2, <2>4, <2>5, <2>7, <2>8, <2>9, <2>10 DEF EntryInv, EntryAt
<1>7. ASSUME NEW e \in Session, VisitNext(e) PROVE EntryInv'
  <2>1. NoMoreSessions /\ NoMoreSessions' /\ Head(lifecycle) = ReleaseAll
    BY <1>0, <1>7, ReleaseAllIsLast DEF VisitNext, Waiting, Holds
  <2>2. /\ UNCHANGED <<lifecycle, entries, pendingCleanup, contextReleased, keyOf, entryOf, phase>>
        /\ references'[e] = 0 /\ \A f \in Session \ {e} : references'[f] = references[f]
        /\ target' = e
    BY <1>7 DEF VisitNext, TypeOK, EntryTypes
  <2>3. \A t \in Session : ~Holds(lifecycle', Release(t))
    BY <2>1, <2>2 DEF Holds, Release, ReleaseAll
  <2>4. \A f \in entries : references'[f] # 0 => ~contextReleased[f]
    BY <2>2 DEF EntryInv, TypeOK, EntryTypes
  <2>5. \A t \in Live : /\ entryOf[t] \in Session \ pendingCleanup
                        /\ phase[entryOf[t]] \notin {"unused", "acquiring"}
                        /\ entryOf[t] \notin entries => EntryAt(keyOf[entryOf[t]]) = {}
    BY DEF EntryInv
  <2>6. Live' = Live
    BY <2>2 DEF Live
  <2> QED
    BY <2>1, <2>2, <2>3, <2>4, <2>5, <2>6 DEF EntryInv, EntryAt
<1>8. ASSUME NEW s \in Session, ReleaseFindsNothing(s) PROVE EntryInv'
  <2>1. PhasesKept /\ entryOf' = entryOf /\ Live' = Live \ {s} /\ \A t \in Live' : phase'[t] = phase[t]
    BY <1>8, SettlingSession DEF ReleaseFindsNothing, Starting
  <2> QED
    BY <1>0, <1>8, <2>1, EntriesKept DEF ReleaseFindsNothing, EndTask, PhasesKept
<1>9. ASSUME NEW S, S \subseteq Live, CloseSessions(S), UNCHANGED entryVars,
             at' = "idle" \/ UNCHANGED <<lifecycle, at, target>>
      PROVE  EntryInv'
  <2>1. /\ Live' = Live /\ UNCHANGED <<keyOf, entryOf>>
        /\ \A s \in Session : phase[s] = "closing" => phase'[s] = "closing"
        /\ \A s \in Session : phase[s] \notin {"unused", "acquiring"} =>
              phase'[s] \notin {"unused", "acquiring"}
    BY <1>9, ClosingStaysLive DEF PhasesKept
  <2>2. \A s \in Live' : phase[s] = "closing" => phase'[s] = "closing"
    BY <2>1 DEF Live
  <2> QED
    BY <1>0, <1>9, <2>1, <2>2, EntriesKept
<1>10. ASSUME NEW s \in Session, ReleaseSession(s) PROVE EntryInv'
  BY <1>9, <1>10 DEF ReleaseSession
<1>11. ASSUME ReleaseRuntime PROVE EntryInv'
  BY <1>9, <1>11 DEF ReleaseRuntime
<1>12. ASSUME UNCHANGED <<entryVars, phase, keyOf, entryOf>>,
              at' \in {"stop", "context", "lease"} =>
                 /\ at \in {"stop", "context", "lease"} /\ target' = target
                 /\ \A s \in Session : Holds(lifecycle', Release(s)) => Holds(lifecycle, Release(s))
       PROVE  EntryInv'
  <2>1. Live' = Live
    BY <1>12 DEF Live
  <2> QED
    BY <1>0, <1>12, <2>1, EntriesKept
<1>13. ASSUME FinishReleaseAll PROVE EntryInv'
  <2>1. CASE failed
    BY <1>12, <1>13, <2>1 DEF FinishReleaseAll, EndTask
  <2>2. CASE ~failed
    BY <1>9, <1>13, <2>2 DEF FinishReleaseAll, EndTask
  <2> QED
    BY <2>1, <2>2
<1>14. ASSUME NEW s \in Session, StartLoad(s) \/ CancelAll(s) PROVE EntryInv'
  BY <1>12, <1>14 DEF StartLoad, CancelAll
<1>15. ASSUME NEW s \in Session, SessionDrained(s) PROVE EntryInv'
  <2>1. at # "idle" => \A task : Holds(lifecycle', task) <=> Holds(lifecycle, task)
    BY <1>15, TasksTyped, QueuedBehind DEF SessionDrained
  <2> QED
    BY <1>12, <1>15, <2>1 DEF SessionDrained
<1>16. ASSUME SessionsSettled PROVE EntryInv'
  <2>1. at # "idle" => \A task : Holds(lifecycle', task) <=> Holds(lifecycle, task)
    BY <1>16, TasksTyped, QueuedBehind DEF SessionsSettled
  <2> QED
    BY <1>12, <1>16, <2>1 DEF SessionsSettled
<1>17. ASSUME StartReleaseAll \/ Stopped \/ RetriesSettled PROVE EntryInv'
  BY <1>12, <1>17 DEF StartReleaseAll, Stopped, RetriesSettled, Waiting
<1>18. ASSUME ContextCleaned PROVE EntryInv'
  <2>1. target \in Registered /\ target \in Session /\ references[target] = 0 /\ at = "context"
    BY <1>18 DEF ContextCleaned, Cleaning, TaskInv, EntryInv, Registered, TypeOK, EntryTypes
  <2>2. /\ references' = references
        /\ \A e \in Session \ {target} : contextReleased'[e] = contextReleased[e]
    BY <1>18, <2>1 DEF ContextCleaned, TypeOK, EntryTypes
  <2>3. CASE leaseReleased[target]
    BY <1>0, <1>18, <2>1, <2>2, <2>3, UnregisteredEntry DEF ContextCleaned, Cleaning
  <2>4. CASE ~leaseReleased[target]
    <3>1. UNCHANGED <<lifecycle, target, entries, pendingCleanup, sessionVars>> /\ at' = "lease"
      BY <1>18, <2>4 DEF ContextCleaned
    <3>2. \A e \in entries : contextReleased'[e] => contextReleased[e] \/ references[e] = 0
      BY <2>1, <2>2 DEF TypeOK, EntryTypes
    <3>3. Live' = Live
      BY <3>1 DEF Live
    <3> QED
      BY <1>0, <2>1, <2>2, <3>1, <3>2, <3>3, EntriesKept
  <2> QED
    BY <2>3, <2>4
<1>19. ASSUME LeaseCleaned PROVE EntryInv'
  BY <1>0, <1>19, UnregisteredEntry DEF LeaseCleaned, Cleaning
<1>20. ASSUME ContextCleanupFails \/ LeaseCleanupFails PROVE EntryInv'
  BY <1>0, <1>20, FailedCleanupEntries DEF ContextCleanupFails, LeaseCleanupFails, Cleaning
<1>21. ASSUME NEW r \in Request, StreamStep(r) \/ AbortStream(r) PROVE EntryInv'
  BY <1>12, <1>21 DEF StreamStep, EnterLane, Prepared, Completed, StreamFails, AbortStream
<1>22. ASSUME NEW s \in Session, NEW r \in Request, StreamRefused(s, r) \/ \E i \in Id : Stream(s, r, i)
       PROVE  EntryInv'
  BY <1>12, <1>22 DEF StreamRefused, Stream
<1> QED
  BY <1>1, <1>2, <1>3, <1>4, <1>5, <1>6, <1>7, <1>8, <1>10, <1>11, <1>13, <1>14, <1>15, <1>16,
     <1>17, <1>18, <1>19, <1>20, <1>21, <1>22
     DEF Next, PoolStep, RuntimeStep, UserStep

\* Steps that change no count and no holder of an entry that has references.
LEMMA CountsKept ==
    ASSUME ReferencesCountHolders,
           \A e \in entries' : references'[e] > 0 =>
              e \in entries /\ references'[e] = references[e] /\ Holders(e)' = Holders(e)
    PROVE  ReferencesCountHolders'
<1>1. ASSUME NEW e \in entries', references'[e] > 0
      PROVE  references'[e] = Cardinality(Holders(e)')
  <2>1. e \in entries /\ references'[e] = references[e] /\ Holders(e)' = Holders(e)
    BY <1>1
  <2> HIDE DEF Holders
  <2> QED
    BY <1>1, <2>1 DEF ReferencesCountHolders
<1> QED
  BY <1>1 DEF ReferencesCountHolders

\* A release that settles over an entry without references.
LEMMA CountsSettle ==
    ASSUME ResourcesInductive, ReferencesCountHolders, NEW s \in Session, NEW ok \in BOOLEAN,
           Holds(lifecycle, Release(s)), Settle(s, ok),
           entryOf[s] \in entries' => references[entryOf[s]] = 0,
           entries' \subseteq entries, references' = references
    PROVE  ReferencesCountHolders'
<1>1. entryOf' = entryOf /\ Live \ {s} \subseteq Live' /\ Live' \subseteq Live
  BY SettlingSession DEF ResourcesInductive
<1>2. ASSUME NEW e \in entries', references'[e] > 0 PROVE Holders(e)' = Holders(e)
  BY <1>1, <1>2 DEF Holders
<1> QED
  BY <1>2, CountsKept

\* The end of a cleanup: what was cleaned up has no references.
LEMMA AfterCleanupCounts ==
    ASSUME ResourcesInductive, EntryInv, ReferencesCountHolders, NEW ok \in BOOLEAN,
           at \in {"context", "lease"}, lifecycle # << >>, AfterCleanup(ok),
           entries' \subseteq entries, references' = references
    PROVE  ReferencesCountHolders'
<1>1. ASSUME UNCHANGED sessionVars PROVE ReferencesCountHolders'
  <2>1. \A e : Holders(e)' = Holders(e)
    BY <1>1 DEF Holders, Live
  <2> QED
    BY <2>1, CountsKept
<1>2. ASSUME NEW s \in Session, Head(lifecycle) = Release(s), Settle(s, ok)
      PROVE  ReferencesCountHolders'
  <2>1. Holds(lifecycle, Release(s)) /\ references[entryOf[s]] = 0
    BY <1>2 DEF Holds, EntryInv
  <2> QED
    BY <1>2, <2>1, CountsSettle
<1> QED
  BY <1>1, <1>2 DEF AfterCleanup

\* Every step counts the holders of every entry somebody may still share.
LEMMA CountStep ==
    ASSUME ResourcesInductive, EntryInv, ReferencesCountHolders, Next
    PROVE  ReferencesCountHolders'
<1> USE DEF ResourcesInductive
<1>1. ASSUME UNCHANGED <<entries, references, entryOf>>, Live' = Live PROVE ReferencesCountHolders'
  <2>1. \A e : Holders(e)' = Holders(e)
    BY <1>1 DEF Holders
  <2> QED
    BY <1>1, <2>1, CountsKept
<1>2. ASSUME UNCHANGED <<entries, references, entryOf, phase>> PROVE ReferencesCountHolders'
  BY <1>1, <1>2 DEF Live
<1>3. ASSUME NEW s \in Session, NEW k \in Key, CreateSession(s, k) PROVE ReferencesCountHolders'
  <2>1. Live' = Live
    BY <1>3 DEF CreateSession, Live, TypeOK, SessionTypes
  <2> QED
    BY <1>1, <1>3, <2>1 DEF CreateSession
<1>4. ASSUME NEW s \in Session, Holds(lifecycle, Acquire(s)), RejectSession(s),
             UNCHANGED <<entries, references>>
      PROVE  ReferencesCountHolders'
  <2>1. phase[s] = "acquiring"
    BY <1>4, HolderJustified DEF Justified, Acquire, TypeOK
  <2>2. Live' = Live
    BY <1>4, <2>1 DEF RejectSession, Live, TypeOK, SessionTypes
  <2> QED
    BY <1>1, <1>4, <2>2 DEF RejectSession
<1>5. ASSUME NEW s \in Session,
             AcquireRefused(s) \/ LoadFails(s) \/ UndoContext(s) \/ UndoLease(s)
      PROVE  ReferencesCountHolders'
  <2>1. Holds(lifecycle, Acquire(s)) /\ UNCHANGED <<entries, references>>
    BY <1>5 DEF AcquireRefused, LoadFails, UndoContext, UndoLease, Starting, Waiting
  <2>2. RejectSession(s) \/ UNCHANGED sessionVars
    BY <1>5 DEF AcquireRefused, LoadFails, UndoContext, UndoLease
  <2> QED
    BY <1>2, <1>4, <2>1, <2>2
<1>6. ASSUME NEW s \in Session, AcquireShared(s) PROVE ReferencesCountHolders'
  <2>1. s \notin Live
    BY <1>6, HolderJustified DEF AcquireShared, Starting, Justified, Acquire, TypeOK, Live
  <2>2. PICK e \in entries : /\ references[e] > 0
                             /\ references' = [references EXCEPT ![e] = @ + 1]
                             /\ BuildSession(s, e)
    BY <1>6 DEF AcquireShared, EntryAt, Shareable
  <2>3. entryOf' = [entryOf EXCEPT ![s] = e] /\ Live' = Live \cup {s} /\ entries' = entries
    BY <1>6, <2>2 DEF AcquireShared, BuildSession, Live, TypeOK, SessionTypes
  <2>4. Holders(e)' = Holders(e) \cup {s} /\ s \notin Holders(e)
    BY <2>1, <2>3 DEF Holders, Live, TypeOK, SessionTypes
  <2>5. \A f \in entries \ {e} : Holders(f)' = Holders(f)
    BY <2>1, <2>3 DEF Holders, Live, TypeOK, SessionTypes
  <2>6. references'[e] = references[e] + 1 /\ \A f \in entries \ {e} : references'[f] = references[f]
    BY <2>2 DEF TypeOK, EntryTypes
  <2>7. IsFiniteSet(Holders(e))
    BY RuntimeAssumption, FS_Subset DEF Holders, Live
  <2>8. ASSUME NEW f \in entries, references'[f] > 0
        PROVE  references'[f] = Cardinality(Holders(f)')
    <3> HIDE DEF Holders
    <3>1. CASE f = e
      <4>1. references[e] = Cardinality(Holders(e))
        BY <2>2 DEF ReferencesCountHolders
      <4>2. Cardinality(Holders(e) \cup {s}) = Cardinality(Holders(e)) + 1
        BY <2>4, <2>7, FS_AddElement
      <4> QED
        BY <2>4, <2>6, <3>1, <4>1, <4>2
    <3>2. CASE f # e
      BY <2>5, <2>6, <2>8, <3>2 DEF ReferencesCountHolders
    <3> QED
      BY <3>1, <3>2
  <2> QED
    BY <2>3, <2>8 DEF ReferencesCountHolders
<1>7. ASSUME NEW s \in Session, LoadSucceeds(s) PROVE ReferencesCountHolders'
  <2>1. phase[s] = "acquiring"
    BY <1>7, HolderJustified DEF LoadSucceeds, Waiting, Justified, Acquire, TypeOK
  <2>2. \A t \in Live : entryOf[t] # s
    BY <2>1 DEF EntryInv
  <2>3. /\ entryOf' = [entryOf EXCEPT ![s] = s] /\ Live' = Live \cup {s}
        /\ entries' = entries \cup {s} /\ references' = [references EXCEPT ![s] = 1]
    BY <1>7 DEF LoadSucceeds, BuildSession, Live, TypeOK, SessionTypes
  <2>4. Holders(s)' = {s} /\ s \notin Live
    BY <2>1, <2>2, <2>3 DEF Holders, Live, TypeOK, SessionTypes
  <2>5. \A f \in entries \ {s} : Holders(f)' = Holders(f)
    BY <2>3, <2>4 DEF Holders, Live, TypeOK, SessionTypes
  <2>6. references'[s] = 1 /\ \A f \in entries \ {s} : references'[f] = references[f]
    BY <2>3 DEF TypeOK, EntryTypes
  <2>7. ASSUME NEW f \in entries', references'[f] > 0
        PROVE  references'[f] = Cardinality(Holders(f)')
    <3> HIDE DEF Holders
    <3>1. CASE f = s
      BY <2>4, <2>6, <3>1, FS_Singleton
    <3>2. CASE f # s
      <4>1. f \in entries
        BY <2>3, <2>7, <3>2
      <4> QED
        BY <2>5, <2>6, <2>7, <3>2, <4>1 DEF ReferencesCountHolders
    <3> QED
      BY <3>1, <3>2
  <2> QED
    BY <2>7 DEF ReferencesCountHolders
<1>8. ASSUME NEW s \in Session, ReleaseShared(s) PROVE ReferencesCountHolders'
  <2>1. entryOf' = entryOf /\ Live' = Live \ {s} /\ s \in Live
    BY <1>8, SettlingSession, ReleaserIsLive DEF ReleaseShared, Starting
  <2>2. PICK e \in EntryAt(keyOf[entryOf[s]]) :
              references[e] > 1 /\ references' = [references EXCEPT ![e] = @ - 1]
    BY <1>8 DEF ReleaseShared
  <2>3. e = entryOf[s] /\ e \in entries /\ entries' = entries
    BY <1>8, <2>1, <2>2, OwnEntry DEF ReleaseShared
  <2>4. Holders(e)' = Holders(e) \ {s} /\ s \in Holders(e)
    BY <2>1, <2>3 DEF Holders
  <2>5. \A f \in entries \ {e} : Holders(f)' = Holders(f)
    BY <2>1, <2>3 DEF Holders
  <2>6. references'[e] = references[e] - 1 /\ \A f \in entries \ {e} : references'[f] = references[f]
    BY <2>2, <2>3 DEF TypeOK, EntryTypes
  <2>7. IsFiniteSet(Holders(e))
    BY RuntimeAssumption, FS_Subset DEF Holders, Live
  <2>8. ASSUME NEW f \in entries, references'[f] > 0
        PROVE  references'[f] = Cardinality(Holders(f)')
    <3> HIDE DEF Holders
    <3>1. CASE f = e
      <4>1. references[e] = Cardinality(Holders(e))
        BY <2>2, <2>3 DEF ReferencesCountHolders, TypeOK, EntryTypes
      <4>2. Cardinality(Holders(e) \ {s}) = Cardinality(Holders(e)) - 1
        BY <2>4, <2>7, FS_RemoveElement
      <4> QED
        BY <2>4, <2>6, <3>1, <4>1, <4>2
    <3>2. CASE f # e
      BY <2>5, <2>6, <2>8, <3>2 DEF ReferencesCountHolders
    <3> QED
      BY <3>1, <3>2
  <2> QED
    BY <2>3, <2>8 DEF ReferencesCountHolders
<1>9. ASSUME NEW e \in Session, references' = [references EXCEPT ![e] = 0],
             UNCHANGED <<entries, entryOf, phase>>
      PROVE  ReferencesCountHolders'
  <2>1. \A f : Holders(f)' = Holders(f)
    BY <1>9 DEF Holders, Live
  <2>2. \A f \in entries : references'[f] > 0 => references'[f] = references[f]
    BY <1>9 DEF TypeOK, EntryTypes
  <2> QED
    BY <1>9, <2>1, <2>2, CountsKept
<1>10. ASSUME NEW s \in Session, ReleaseLast(s) \/ VisitNext(s) PROVE ReferencesCountHolders'
  BY <1>9, <1>10 DEF ReleaseLast, VisitNext, EntryAt, TypeOK, EntryTypes
<1>11. ASSUME NEW s \in Session, ReleaseFindsNothing(s) PROVE ReferencesCountHolders'
  <2>1. Holds(lifecycle, Release(s)) /\ Settle(s, TRUE) /\ UNCHANGED <<entries, references>>
    BY <1>11 DEF ReleaseFindsNothing, Starting
  <2>2. entryOf[s] \notin entries
    BY <1>11 DEF ReleaseFindsNothing, EntryAt
  <2> QED
    BY <2>1, <2>2, CountsSettle
<1>12. ASSUME NEW S, S \subseteq Live, CloseSessions(S), UNCHANGED <<entries, references>>
       PROVE  ReferencesCountHolders'
  BY <1>1, <1>12, ClosingStaysLive
<1>13. ASSUME NEW s \in Session, ReleaseSession(s) PROVE ReferencesCountHolders'
  BY <1>12, <1>13 DEF ReleaseSession
<1>14. ASSUME ReleaseRuntime PROVE ReferencesCountHolders'
  BY <1>12, <1>14 DEF ReleaseRuntime
<1>15. ASSUME FinishReleaseAll PROVE ReferencesCountHolders'
  BY <1>2, <1>12, <1>15 DEF FinishReleaseAll
<1>16. ASSUME ContextCleaned \/ ContextCleanupFails \/ LeaseCleaned \/ LeaseCleanupFails
       PROVE  ReferencesCountHolders'
  <2>1. /\ at \in {"context", "lease"} /\ lifecycle # << >>
        /\ entries' \subseteq entries /\ references' = references
    BY <1>16 DEF ContextCleaned, ContextCleanupFails, LeaseCleaned, LeaseCleanupFails, Cleaning,
                 Unregister
  <2>2. (\E ok \in BOOLEAN : AfterCleanup(ok)) \/ UNCHANGED <<entries, sessionVars>>
    BY <1>16 DEF ContextCleaned, ContextCleanupFails, LeaseCleaned, LeaseCleanupFails
  <2> QED
    BY <1>2, <2>1, <2>2, AfterCleanupCounts
<1>17. ASSUME NEW s \in Session,
              StartLoad(s) \/ CapabilityReportFails(s) \/ SessionDrained(s) \/ CancelAll(s)
       PROVE  ReferencesCountHolders'
  BY <1>2, <1>17 DEF StartLoad, CapabilityReportFails, SessionDrained, CancelAll
<1>18. ASSUME StartReleaseAll \/ Stopped \/ RuntimeStep PROVE ReferencesCountHolders'
  BY <1>2, <1>18 DEF StartReleaseAll, Stopped, RuntimeStep, SessionsSettled, RetriesSettled
<1>19. ASSUME NEW r \in Request, StreamStep(r) \/ AbortStream(r) PROVE ReferencesCountHolders'
  BY <1>2, <1>19 DEF StreamStep, EnterLane, Prepared, Completed, StreamFails, AbortStream
<1>20. ASSUME NEW s \in Session, NEW r \in Request, StreamRefused(s, r) \/ \E i \in Id : Stream(s, r, i)
       PROVE  ReferencesCountHolders'
  BY <1>2, <1>20 DEF StreamRefused, Stream
<1> QED
  BY <1>3, <1>5, <1>6, <1>7, <1>8, <1>10, <1>11, <1>13, <1>14, <1>15, <1>16, <1>17, <1>18, <1>19, <1>20
     DEF Next, PoolStep, UserStep

-----------------------------------------------------------------------------
(* Who may still stream.                                                   *)

\* A call that acquires or a session whose release is queued has no streams.
LEMMA QuietTask ==
    ASSUME TypeOK, QueueInv, UserInv, NEW s \in Session,
           Holds(lifecycle, Acquire(s)) \/ Holds(lifecycle, Release(s))
    PROVE  Jobs(s) = {} /\ phase[s] # "open"
<1>1. CASE Holds(lifecycle, Acquire(s))
  <2>1. phase[s] = "acquiring" /\ attempt[s] # "draining"
    BY <1>1, HolderJustified DEF Justified, Acquire, TypeOK, QueueInv
  <2> QED
    BY <2>1 DEF UserInv
<1>2. CASE Holds(lifecycle, Release(s))
  BY <1>2, ReleaserIsLive DEF UserInv
<1> QED
  BY <1>1, <1>2

\* While releaseAll() runs, only late sessions are open or have streams.
LEMMA ReleaseAllMeetsLate ==
    ASSUME TypeOK, QueueInv, OrderInv, UserInv, Holds(lifecycle, ReleaseAll)
    PROVE  \A s \in Session \ late : phase[s] # "open" /\ Jobs(s) = {}
  BY ReleaseAllIsLast DEF UserInv, NoMoreSessions

\* Steps that admit no stream and open no session.
LEMMA UsersKept ==
    ASSUME UserInv, late' = late,
           \A s \in Session :
              /\ Jobs(s)' # {} => Jobs(s) # {} /\ (phase'[s] = "open" \/ attempt'[s] = "draining")
              /\ phase'[s] = "open" => phase[s] = "open"
              /\ phase'[s] = "open" \/ Jobs(s)' # {} => entryOf'[s] = entryOf[s],
           \A s \in Session \ late :
              /\ Jobs(s)' # {} /\ (runtime = "open" \/ (shutdown = "sessions" /\ s \in awaited)) =>
                    runtime' = "open" \/ (shutdown' = "sessions" /\ s \in awaited')
              /\ phase'[s] = "open" /\ runtime = "open" => runtime' = "open"
              /\ (phase'[s] = "open" \/ Jobs(s)' # {}) /\ entryOf[s] \in entries /\ references[entryOf[s]] > 0 =>
                    entryOf[s] \in entries' /\ references'[entryOf[s]] > 0
    PROVE  UserInv'
<1>1. ASSUME NEW s \in Session
      PROVE  /\ Jobs(s)' # {} => phase'[s] = "open" \/ attempt'[s] = "draining"
             /\ s \notin late /\ phase'[s] = "open" => runtime' = "open"
             /\ s \notin late /\ Jobs(s)' # {} =>
                   runtime' = "open" \/ (shutdown' = "sessions" /\ s \in awaited')
             /\ s \notin late /\ (phase'[s] = "open" \/ Jobs(s)' # {}) =>
                   entryOf'[s] \in entries' /\ references'[entryOf'[s]] > 0
  BY DEF UserInv
<1> QED
  BY <1>1 DEF UserInv

\* Steps of the pool: no stream moves and no session opens.
LEMMA UsersIdle ==
    ASSUME UserInv, late' = late, UNCHANGED <<sessionOf, stage, runtime, shutdown>>,
           \A s \in Session :
              /\ Jobs(s) # {} => phase'[s] = phase[s] /\ attempt'[s] = attempt[s]
              /\ phase'[s] = "open" => phase[s] = "open"
              /\ phase'[s] = "open" \/ Jobs(s) # {} => entryOf'[s] = entryOf[s],
           \A s \in Session \ late :
              /\ Jobs(s) # {} /\ s \in awaited => s \in awaited'
              /\ (phase'[s] = "open" \/ Jobs(s) # {}) /\ entryOf[s] \in entries /\ references[entryOf[s]] > 0 =>
                    entryOf[s] \in entries' /\ references'[entryOf[s]] > 0
    PROVE  UserInv'
<1>1. \A s : Jobs(s)' = Jobs(s)
  BY DEF Jobs
<1>2. \A s \in Session : Jobs(s) # {} => phase[s] = "open" \/ attempt[s] = "draining"
  BY DEF UserInv
<1> QED
  BY <1>1, <1>2, UsersKept

\* A call that acquires becomes a session with a context of its own, or fails.
LEMMA AcquireEndsUsers ==
    ASSUME TypeOK, QueueInv, UserInv, NEW s \in Session, Holds(lifecycle, Acquire(s)),
           \/ RejectSession(s)
           \/ \E e \in entries' : BuildSession(s, e) /\ references'[e] > 0,
           UNCHANGED <<sessionOf, stage, runtimeVars>>,
           \A e \in entries : references[e] > 0 => e \in entries' /\ references'[e] > 0
    PROVE  UserInv'
<1>1. Jobs(s) = {} /\ \A t : Jobs(t)' = Jobs(t)
  BY QuietTask DEF Jobs
<1>2. ASSUME NEW t \in Session \ {s}
      PROVE  /\ phase'[t] = phase[t] /\ attempt'[t] = attempt[t] /\ entryOf'[t] = entryOf[t]
             /\ t \in late' => t \in late
             /\ t \in late => t \in late'
  BY DEF RejectSession, BuildSession, TypeOK, SessionTypes
<1>3. s \notin late' /\ phase'[s] = "open" =>
         runtime' = "open" /\ entryOf'[s] \in entries' /\ references'[entryOf'[s]] > 0
  BY DEF RejectSession, BuildSession, TypeOK, SessionTypes
<1>4. ASSUME NEW t \in Session
      PROVE  /\ Jobs(t)' # {} => phase'[t] = "open" \/ attempt'[t] = "draining"
             /\ t \notin late' /\ phase'[t] = "open" => runtime' = "open"
             /\ t \notin late' /\ Jobs(t)' # {} =>
                   runtime' = "open" \/ (shutdown' = "sessions" /\ t \in awaited')
             /\ t \notin late' /\ (phase'[t] = "open" \/ Jobs(t)' # {}) =>
                   entryOf'[t] \in entries' /\ references'[entryOf'[t]] > 0
  <2>1. CASE t = s
    BY <1>1, <1>3, <2>1
  <2>2. CASE t # s
    BY <1>1, <1>2, <2>2 DEF UserInv
  <2> QED
    BY <2>1, <2>2
<1> QED
  BY <1>4 DEF UserInv

\* A release attempt that settles.
LEMMA SettleUsers ==
    ASSUME TypeOK, QueueInv, UserInv, NEW s \in Session, NEW ok \in BOOLEAN,
           Holds(lifecycle, Release(s)), Settle(s, ok), UNCHANGED <<sessionOf, stage>>,
           \A e \in entries : references[e] > 0 => e \in entries' /\ references'[e] > 0
    PROVE  UserInv'
<1>1. Jobs(s) = {} /\ phase[s] # "open"
  BY QuietTask
<1>2. /\ UNCHANGED <<entryOf, late, runtime, shutdown>> /\ awaited' = awaited \ {s}
      /\ \A t \in Session \ {s} : phase'[t] = phase[t] /\ attempt'[t] = attempt[t]
      /\ phase'[s] # "open"
  BY DEF Settle, TypeOK, SessionTypes
<1> QED
  BY <1>1, <1>2, UsersIdle

\* The end of a cleanup: what was cleaned up had no references.
LEMMA AfterCleanupUsers ==
    ASSUME TypeOK, QueueInv, UserInv, NEW ok \in BOOLEAN, lifecycle # << >>, AfterCleanup(ok),
           UNCHANGED streamVars,
           \A e \in entries : references[e] > 0 => e \in entries' /\ references'[e] > 0
    PROVE  UserInv'
<1>1. CASE UNCHANGED <<sessionVars, runtimeVars>>
  BY <1>1, UsersIdle
<1>2. ASSUME NEW s \in Session, Head(lifecycle) = Release(s), Settle(s, ok) PROVE UserInv'
  BY <1>2, SettleUsers DEF Holds
<1> QED
  BY <1>1, <1>2 DEF AfterCleanup

\* Sessions that close drain their streams first.
LEMMA CloseUsers ==
    ASSUME TypeOK, QueueInv, UserInv, NEW S, S \subseteq Live, CloseSessions(S),
           UNCHANGED <<sessionOf, stage, entries, references>>,
           \/ UNCHANGED runtimeVars
           \/ S = Live /\ awaited' = Live /\ shutdown' = "sessions"
           \/ S = Live /\ \A s \in Session \ late : phase[s] # "open" /\ Jobs(s) = {}
    PROVE  UserInv'
<1>1. \A s : Jobs(s)' = Jobs(s)
  BY DEF Jobs
<1>2. ASSUME NEW s \in Session
      PROVE  /\ \/ phase'[s] = phase[s] /\ attempt'[s] = attempt[s]
                \/ phase'[s] = "closing" /\ attempt'[s] = "draining"
             /\ s \in S /\ phase[s] = "open" => phase'[s] = "closing"
  BY <1>2 DEF CloseSessions, QueueInv, TypeOK, SessionTypes
<1>3. late' = late /\ entryOf' = entryOf
  BY DEF CloseSessions
<1>4. \A s \in Session : Jobs(s) # {} \/ phase[s] = "open" => s \in Live
  BY DEF UserInv, QueueInv, Live
<1>5. CASE UNCHANGED runtimeVars
  <2>1. \A s \in Session : Jobs(s) # {} => phase'[s] = "open" \/ attempt'[s] = "draining"
    BY <1>2 DEF UserInv
  <2> QED
    BY <1>1, <1>2, <1>3, <1>5, <2>1, UsersKept
<1>6. CASE S = Live /\ awaited' = Live /\ shutdown' = "sessions"
  <2>1. \A s \in Session : Jobs(s) # {} => attempt'[s] = "draining" /\ s \in awaited'
    BY <1>2, <1>4, <1>6 DEF UserInv
  <2>2. \A s \in Session : phase'[s] # "open"
    BY <1>2, <1>4, <1>6
  <2> QED
    BY <1>1, <1>2, <1>3, <1>6, <2>1, <2>2, UsersKept
<1>7. CASE S = Live /\ \A s \in Session \ late : phase[s] # "open" /\ Jobs(s) = {}
  <2>1. \A s \in Session : Jobs(s) # {} => attempt'[s] = "draining"
    BY <1>2, <1>4, <1>7 DEF UserInv
  <2>2. \A s \in Session : phase'[s] # "open"
    BY <1>2, <1>4, <1>7
  <2> QED
    BY <1>1, <1>2, <1>3, <1>7, <2>1, <2>2, UsersKept
<1> QED
  BY <1>5, <1>6, <1>7

\* A stream is admitted by an open session only.
LEMMA StreamUsers ==
    ASSUME TypeOK, UserInv, NEW s \in Session, NEW r \in Request, NEW i \in Id, Stream(s, r, i)
    PROVE  UserInv'
<1>1. /\ phase[s] = "open"
      /\ UNCHANGED <<entries, references, phase, entryOf, attempt, late, runtimeVars>>
  BY DEF Stream
<1>2. \A t \in Session : Jobs(t)' # {} => Jobs(t) # {} \/ t = s
  BY DEF Stream, Jobs, TypeOK, StreamTypes
<1>3. ASSUME NEW t \in Session
      PROVE  /\ Jobs(t)' # {} => phase[t] = "open" \/ attempt[t] = "draining"
             /\ t \notin late /\ phase[t] = "open" => runtime = "open"
             /\ t \notin late /\ Jobs(t)' # {} =>
                   runtime = "open" \/ (shutdown = "sessions" /\ t \in awaited)
             /\ t \notin late /\ (phase[t] = "open" \/ Jobs(t)' # {}) =>
                   entryOf[t] \in entries /\ references[entryOf[t]] > 0
  BY <1>1, <1>2 DEF UserInv
<1> QED
  BY <1>1, <1>3 DEF UserInv

\* Every step keeps the contexts of those who may still stream.
LEMMA UserStepKept ==
    ASSUME ResourcesInductive, OrderInv, EntryInv, ReferencesCountHolders, UserInv, Next
    PROVE  UserInv'
<1> USE DEF ResourcesInductive
<1>1. ASSUME UNCHANGED <<entries, references, sessionVars, runtimeVars, sessionOf, stage>>
      PROVE  UserInv'
  BY <1>1, UsersIdle
<1>2. ASSUME NEW s \in Session, NEW k \in Key, CreateSession(s, k) PROVE UserInv'
  <2>1. phase[s] = "unused" /\ attempt[s] # "draining"
    BY <1>2 DEF CreateSession, QueueInv
  <2>2. Jobs(s) = {}
    BY <2>1 DEF UserInv
  <2>3. /\ UNCHANGED <<entries, references, entryOf, attempt, late, runtimeVars, sessionOf, stage>>
        /\ \A t \in Session \ {s} : phase'[t] = phase[t]
        /\ phase'[s] = "acquiring"
    BY <1>2 DEF CreateSession, TypeOK, SessionTypes
  <2> QED
    BY <2>2, <2>3, UsersIdle
<1>3. ASSUME NEW s \in Session,
             AcquireRefused(s) \/ LoadFails(s) \/ UndoContext(s) \/ UndoLease(s)
      PROVE  UserInv'
  <2>1. /\ Holds(lifecycle, Acquire(s))
        /\ UNCHANGED <<entries, references, sessionOf, stage, runtimeVars>>
    BY <1>3 DEF AcquireRefused, LoadFails, UndoContext, UndoLease, Starting, Waiting
  <2>2. RejectSession(s) \/ UNCHANGED sessionVars
    BY <1>3 DEF AcquireRefused, LoadFails, UndoContext, UndoLease
  <2> QED
    BY <1>1, <2>1, <2>2, AcquireEndsUsers
<1>4. ASSUME NEW s \in Session, AcquireShared(s) PROVE UserInv'
  <2>1. PICK e \in entries : /\ references[e] > 0 /\ BuildSession(s, e)
                             /\ references' = [references EXCEPT ![e] = @ + 1]
    BY <1>4 DEF AcquireShared, EntryAt, Shareable
  <2>2. references'[e] > 0 /\ \A f \in entries : references[f] > 0 => references'[f] > 0
    BY <2>1 DEF TypeOK, EntryTypes
  <2>3. Holds(lifecycle, Acquire(s)) /\ UNCHANGED <<entries, sessionOf, stage, runtimeVars>>
    BY <1>4 DEF AcquireShared, Starting
  <2> QED
    BY <2>1, <2>2, <2>3, AcquireEndsUsers
<1>5. ASSUME NEW s \in Session, LoadSucceeds(s) PROVE UserInv'
  <2>1. /\ s \in entries' /\ entries \subseteq entries' /\ references'[s] > 0 /\ BuildSession(s, s)
        /\ \A f \in entries : references[f] > 0 => references'[f] > 0
    BY <1>5 DEF LoadSucceeds, TypeOK, EntryTypes
  <2>2. Holds(lifecycle, Acquire(s)) /\ UNCHANGED <<sessionOf, stage, runtimeVars>>
    BY <1>5 DEF LoadSucceeds, Waiting
  <2> QED
    BY <2>1, <2>2, AcquireEndsUsers
<1>6. ASSUME NEW s \in Session, ReleaseFindsNothing(s) \/ ReleaseShared(s) PROVE UserInv'
  <2>1. Holds(lifecycle, Release(s)) /\ Settle(s, TRUE) /\ UNCHANGED <<entries, sessionOf, stage>>
    BY <1>6 DEF ReleaseFindsNothing, ReleaseShared, Starting
  <2>2. \A e \in entries : references[e] > 0 => references'[e] > 0
    <3>1. CASE references' = references
      BY <3>1
    <3>2. ASSUME NEW f \in entries, references[f] > 1, references' = [references EXCEPT ![f] = @ - 1]
          PROVE  \A e \in entries : references[e] > 0 => references'[e] > 0
      BY <3>2 DEF TypeOK, EntryTypes
    <3> QED
      BY <1>6, <3>1, <3>2 DEF ReleaseFindsNothing, ReleaseShared, EntryAt
  <2> QED
    BY <2>1, <2>2, SettleUsers
<1>7. ASSUME NEW s \in Session, ReleaseLast(s) PROVE UserInv'
  <2>1. s \in Live /\ phase[s] = "closing" /\ Jobs(s) = {} /\ phase[s] # "open"
    BY <1>7, ReleaserIsLive, QuietTask DEF ReleaseLast, Starting
  <2>2. PICK e \in EntryAt(keyOf[entryOf[s]]) :
              references[e] <= 1 /\ references' = [references EXCEPT ![e] = 0]
    BY <1>7 DEF ReleaseLast
  <2>3. e = entryOf[s] /\ e \in entries /\ e \in Session
    BY <2>1, <2>2, OwnEntry DEF TypeOK, EntryTypes
  <2>4. ASSUME NEW t \in Session, phase[t] = "open" \/ Jobs(t) # {}, references[entryOf[t]] > 0
        PROVE  entryOf[t] # e
    <3>1. SUFFICES ASSUME entryOf[t] = e PROVE FALSE
      OBVIOUS
    <3>2. t \in Holders(e) /\ s \in Holders(e) /\ t # s
      BY <2>1, <2>3, <2>4, <3>1 DEF Holders, Live, UserInv, QueueInv
    <3>3. Cardinality(Holders(e)) = 1
      BY <2>2, <2>3, <2>4, <3>1 DEF ReferencesCountHolders, TypeOK, EntryTypes
    <3>4. IsFiniteSet(Holders(e))
      BY RuntimeAssumption, FS_Subset DEF Holders, Live
    <3>5. Holders(e) = {s}
      BY <3>2, <3>3, <3>4, OneElement
    <3> QED
      BY <3>2, <3>5
  <2>5. UNCHANGED <<entries, sessionVars, runtimeVars, sessionOf, stage>>
    BY <1>7 DEF ReleaseLast
  <2>6. ASSUME NEW t \in Session, phase[t] = "open" \/ Jobs(t) # {},
               entryOf[t] \in entries, references[entryOf[t]] > 0
        PROVE  references'[entryOf[t]] > 0
    BY <2>2, <2>4, <2>6 DEF TypeOK, EntryTypes
  <2> QED
    BY <2>5, <2>6, UsersIdle
<1>8. ASSUME NEW e \in Session, VisitNext(e) PROVE UserInv'
  <2>1. \A s \in Session \ late : phase[s] # "open" /\ Jobs(s) = {}
    BY <1>8, ReleaseAllMeetsLate DEF VisitNext, Waiting
  <2>2. UNCHANGED <<entries, sessionVars, runtimeVars, sessionOf, stage>>
    BY <1>8 DEF VisitNext
  <2> QED
    BY <2>1, <2>2, UsersIdle
<1>9. ASSUME ContextCleaned \/ ContextCleanupFails \/ LeaseCleaned \/ LeaseCleanupFails
      PROVE  UserInv'
  <2>1. /\ at \in {"context", "lease"} /\ lifecycle # << >> /\ references' = references
        /\ entries \ {target} \subseteq entries' /\ UNCHANGED streamVars
    BY <1>9 DEF ContextCleaned, ContextCleanupFails, LeaseCleaned, LeaseCleanupFails, Cleaning,
                Unregister
  <2>2. references[target] = 0
    BY <2>1 DEF EntryInv
  <2>3. \A e \in entries : references[e] > 0 => e \in entries' /\ references'[e] > 0
    BY <2>1, <2>2
  <2>4. (\E ok \in BOOLEAN : AfterCleanup(ok)) \/ UNCHANGED <<entries, sessionVars, runtimeVars>>
    BY <1>9 DEF ContextCleaned, ContextCleanupFails, LeaseCleaned, LeaseCleanupFails
  <2> QED
    BY <1>1, <2>1, <2>3, <2>4, AfterCleanupUsers
<1>10. ASSUME NEW s \in Session, ReleaseSession(s) PROVE UserInv'
  <2>1. {s} \subseteq Live
    BY <1>10 DEF ReleaseSession
  <2> QED
    BY <1>10, <2>1, CloseUsers DEF ReleaseSession
<1>11. ASSUME ReleaseRuntime PROVE UserInv'
  BY <1>11, CloseUsers DEF ReleaseRuntime
<1>12. ASSUME SessionsSettled PROVE UserInv'
  <2>1. /\ shutdown = "sessions" /\ awaited = {} /\ shutdown' = "pool" /\ runtime # "open"
        /\ UNCHANGED <<entries, references, sessionVars, runtime, awaited, sessionOf, stage>>
    BY <1>12 DEF SessionsSettled, OrderInv
  <2>2. \A s \in Session \ late : Jobs(s) = {}
    BY <2>1 DEF UserInv
  <2>3. \A s : Jobs(s)' = Jobs(s)
    BY <2>1 DEF Jobs
  <2>4. \A s \in Session : Jobs(s) # {} => phase[s] = "open" \/ attempt[s] = "draining"
    BY DEF UserInv
  <2> QED
    BY <2>1, <2>2, <2>3, <2>4, UsersKept
<1>13. ASSUME FinishReleaseAll PROVE UserInv'
  <2>1. \A s \in Session \ late : phase[s] # "open" /\ Jobs(s) = {}
    BY <1>13, ReleaseAllMeetsLate DEF FinishReleaseAll, Waiting
  <2>2. UNCHANGED <<entries, references, runtime, late, entryOf>>
    BY <1>13 DEF FinishReleaseAll, CloseSessions
  <2>3. CASE failed
    <3>1. UNCHANGED <<sessionVars, sessionOf, stage>>
      BY <1>13, <2>3 DEF FinishReleaseAll
    <3>2. \A s : Jobs(s)' = Jobs(s)
      BY <3>1 DEF Jobs
    <3>3. \A s \in Session : Jobs(s) # {} => phase[s] = "open" \/ attempt[s] = "draining"
      BY DEF UserInv
    <3> QED
      BY <2>1, <2>2, <3>1, <3>2, <3>3, UsersKept
  <2>4. CASE ~failed
    BY <1>13, <2>1, <2>2, <2>4, CloseUsers DEF FinishReleaseAll
  <2> QED
    BY <2>3, <2>4
<1>14. ASSUME RetriesSettled PROVE UserInv'
  <2>1. /\ shutdown = "retry" /\ runtime # "open"
        /\ UNCHANGED <<entries, references, sessionVars, sessionOf, stage>>
    BY <1>14 DEF RetriesSettled, OrderInv
  <2>2. \A s \in Session \ late : Jobs(s) = {} /\ phase[s] # "open"
    BY <2>1 DEF UserInv
  <2>3. \A s : Jobs(s)' = Jobs(s)
    BY <2>1 DEF Jobs
  <2>4. \A s \in Session : Jobs(s) # {} => phase[s] = "open" \/ attempt[s] = "draining"
    BY DEF UserInv
  <2> QED
    BY <2>1, <2>2, <2>3, <2>4, UsersKept
<1>15. ASSUME NEW s \in Session, SessionDrained(s) PROVE UserInv'
  <2>1. /\ Jobs(s) = {}
        /\ UNCHANGED <<entries, references, phase, entryOf, late, runtimeVars, sessionOf, stage>>
        /\ \A t \in Session \ {s} : attempt'[t] = attempt[t]
    BY <1>15 DEF SessionDrained, TypeOK, SessionTypes
  <2> QED
    BY <2>1, UsersIdle
<1>16. ASSUME NEW s \in Session, StartLoad(s) \/ CapabilityReportFails(s) \/ CancelAll(s)
       PROVE  UserInv'
  BY <1>1, <1>16 DEF StartLoad, CapabilityReportFails, CancelAll
<1>17. ASSUME StartReleaseAll \/ Stopped PROVE UserInv'
  BY <1>1, <1>17 DEF StartReleaseAll, Stopped
<1>18. ASSUME UNCHANGED <<entries, references, sessionVars, runtimeVars>>,
              \A s \in Session : Jobs(s)' \subseteq Jobs(s)
       PROVE  UserInv'
  <2>1. \A s \in Session : Jobs(s)' # {} => Jobs(s) # {}
    BY <1>18
  <2>2. \A s \in Session : Jobs(s) # {} => phase[s] = "open" \/ attempt[s] = "draining"
    BY DEF UserInv
  <2> QED
    BY <1>18, <2>1, <2>2, UsersKept
<1>19. ASSUME NEW r \in Request, StreamStep(r) PROVE UserInv'
  <2>1. sessionOf' = sessionOf /\ \A q \in Request : stage[q] = "done" => stage'[q] = "done"
    BY <1>19 DEF StreamStep, EnterLane, Prepared, Completed, StreamFails, EndStream, Advance, InLane,
                 TypeOK, StreamTypes
  <2>2. UNCHANGED <<entries, references, sessionVars, runtimeVars>>
    BY <1>19 DEF StreamStep, EnterLane, Prepared, Completed, StreamFails
  <2>3. \A s \in Session : Jobs(s)' \subseteq Jobs(s)
    BY <2>1 DEF Jobs
  <2> QED
    BY <1>18, <2>2, <2>3
<1>20. ASSUME NEW r \in Request, AbortStream(r) PROVE UserInv'
  BY <1>1, <1>20 DEF AbortStream
<1>21. ASSUME NEW s \in Session, NEW r \in Request, StreamRefused(s, r) PROVE UserInv'
  <2>1. \A t \in Session : Jobs(t)' \subseteq Jobs(t)
    BY <1>21 DEF StreamRefused, Jobs, TypeOK, StreamTypes
  <2> QED
    BY <1>18, <1>21, <2>1 DEF StreamRefused
<1>22. ASSUME NEW s \in Session, NEW r \in Request, NEW i \in Id, Stream(s, r, i) PROVE UserInv'
  BY <1>22, StreamUsers
<1> QED
  BY <1>2, <1>3, <1>4, <1>5, <1>6, <1>7, <1>8, <1>9, <1>10, <1>11, <1>12, <1>13, <1>14, <1>15, <1>16,
     <1>17, <1>19, <1>20, <1>21, <1>22
     DEF Next, PoolStep, RuntimeStep, UserStep

-----------------------------------------------------------------------------
(* Completions that are stopped.                                           *)

\* Requests of the same context never run native calls at the same time.
LEMMA OneInLane ==
    ASSUME LaneInv, NEW q \in Request, NEW r \in Request, InLane(q), InLane(r),
           entryOf[sessionOf[q]] = entryOf[sessionOf[r]]
    PROVE  q = r
  BY DEF LaneInv, Holds

\* abort() stops the completion of an aborted request or of nobody.
LEMMA AbortStopsOwn ==
    ASSUME TypeOK, LaneInv, StopHitsOnlyItsOwner, NEW R, R \subseteq Request, AbortAll(R),
           UNCHANGED <<sessionOf, stage, outcome>>, late \subseteq late'
    PROVE  StopHitsOnlyItsOwner'
<1>1. ASSUME NEW r \in Request, interrupted'[r]
      PROVE  interrupted[r] \/ (stage[r] = "completing" /\ aborted'[r])
  <2>1. SUFFICES ASSUME ~interrupted[r] PROVE stage[r] = "completing" /\ aborted'[r]
    OBVIOUS
  <2>2. PICK q \in Request : /\ q \in R /\ InLane(q) /\ r \in HitBy(entryOf[sessionOf[q]])
    BY <1>1, <2>1 DEF AbortAll, Interrupt, TypeOK, StreamTypes
  <2>3. stage[r] = "completing" /\ InLane(r) /\ q = r
    BY <2>2, OneInLane DEF HitBy, InLane
  <2> QED
    BY <2>2, <2>3 DEF AbortAll
<1>2. \A r \in Request : aborted[r] => aborted'[r]
  BY DEF AbortAll
<1>3. ASSUME NEW r \in Request
      PROVE  /\ interrupted'[r] /\ sessionOf[r] \notin late' => aborted'[r] /\ outcome[r] # "completed"
             /\ interrupted'[r] => stage[r] \in {"completing", "done"}
             /\ outcome[r] # "none" => stage[r] = "done"
  BY <1>1, <1>2 DEF StopHitsOnlyItsOwner
<1> QED
  BY <1>3 DEF StopHitsOnlyItsOwner

\* Every step that stops a completion stops its owner's.
LEMMA StopStep ==
    ASSUME ResourcesInductive, OrderInv, UserInv, StopHitsOnlyItsOwner, Next
    PROVE  StopHitsOnlyItsOwner'
<1> USE DEF ResourcesInductive
<1>1. ASSUME UNCHANGED streamVars, late \subseteq late' PROVE StopHitsOnlyItsOwner'
  BY <1>1 DEF StopHitsOnlyItsOwner
<1>2. ASSUME NEW S, CloseSessions(S), UNCHANGED <<sessionOf, stage, outcome>>
      PROVE  StopHitsOnlyItsOwner'
  BY <1>2, AbortStopsOwn DEF CloseSessions
<1>3. ASSUME NEW s \in Session, Settle(s, TRUE) \/ Settle(s, FALSE) PROVE late' = late
  BY <1>3 DEF Settle
<1>4. ASSUME NEW s \in Session,
             \/ AcquireRefused(s) \/ AcquireShared(s) \/ StartLoad(s) \/ LoadSucceeds(s) \/ LoadFails(s)
             \/ CapabilityReportFails(s) \/ UndoContext(s) \/ UndoLease(s)
             \/ ReleaseLast(s) \/ SessionDrained(s) \/ \E k \in Key : CreateSession(s, k)
      PROVE  StopHitsOnlyItsOwner'
  <2>1. UNCHANGED streamVars
    BY <1>4 DEF AcquireRefused, AcquireShared, StartLoad, LoadSucceeds, LoadFails, CapabilityReportFails,
                UndoContext, UndoLease, ReleaseLast, SessionDrained, CreateSession
  <2>2. late \subseteq late'
    BY <1>4 DEF AcquireRefused, AcquireShared, StartLoad, LoadSucceeds, LoadFails, CapabilityReportFails,
                UndoContext, UndoLease, ReleaseLast, SessionDrained, CreateSession, RejectSession,
                BuildSession
  <2> QED
    BY <1>1, <2>1, <2>2
<1>5. ASSUME NEW s \in Session, ReleaseFindsNothing(s) \/ ReleaseShared(s) PROVE StopHitsOnlyItsOwner'
  BY <1>1, <1>3, <1>5 DEF ReleaseFindsNothing, ReleaseShared
<1>6. ASSUME ContextCleaned \/ ContextCleanupFails \/ LeaseCleaned \/ LeaseCleanupFails
      PROVE  StopHitsOnlyItsOwner'
  <2>1. UNCHANGED streamVars
    BY <1>6 DEF ContextCleaned, ContextCleanupFails, LeaseCleaned, LeaseCleanupFails
  <2>2. late' = late
    BY <1>3, <1>6 DEF ContextCleaned, ContextCleanupFails, LeaseCleaned, LeaseCleanupFails, AfterCleanup
  <2> QED
    BY <1>1, <2>1, <2>2
<1>7. ASSUME NEW e \in Session, VisitNext(e) PROVE StopHitsOnlyItsOwner'
  <2>1. \A s \in Session \ late : Jobs(s) = {}
    BY <1>7, ReleaseAllMeetsLate DEF VisitNext, Waiting
  <2>2. UNCHANGED <<sessionOf, stage, aborted, outcome, late>>
    BY <1>7 DEF VisitNext
  <2>3. \A r \in Request : interrupted'[r] => interrupted[r] \/ stage[r] = "completing"
    BY <1>7 DEF VisitNext, Interrupt, HitBy, TypeOK, StreamTypes
  <2>4. \A r \in Request : stage[r] = "completing" => sessionOf[r] \in late
    BY <2>1 DEF LaneInv, Jobs
  <2>5. ASSUME NEW r \in Request
        PROVE  /\ interrupted'[r] /\ sessionOf[r] \notin late => aborted[r] /\ outcome[r] # "completed"
               /\ interrupted'[r] => stage[r] \in {"completing", "done"}
               /\ outcome[r] # "none" => stage[r] = "done"
    BY <2>3, <2>4 DEF StopHitsOnlyItsOwner
  <2> QED
    BY <2>2, <2>5 DEF StopHitsOnlyItsOwner
<1>8. ASSUME NEW s \in Session, ReleaseSession(s) PROVE StopHitsOnlyItsOwner'
  BY <1>2, <1>8 DEF ReleaseSession
<1>9. ASSUME ReleaseRuntime PROVE StopHitsOnlyItsOwner'
  BY <1>2, <1>9 DEF ReleaseRuntime
<1>10. ASSUME FinishReleaseAll PROVE StopHitsOnlyItsOwner'
  BY <1>1, <1>2, <1>10 DEF FinishReleaseAll
<1>11. ASSUME StartReleaseAll \/ Stopped \/ RuntimeStep PROVE StopHitsOnlyItsOwner'
  BY <1>1, <1>11 DEF StartReleaseAll, Stopped, RuntimeStep, SessionsSettled, RetriesSettled
<1>12. ASSUME NEW s \in Session, CancelAll(s) PROVE StopHitsOnlyItsOwner'
  BY <1>12, AbortStopsOwn DEF CancelAll, Jobs
<1>13. ASSUME NEW r \in Request, AbortStream(r) PROVE StopHitsOnlyItsOwner'
  BY <1>13, AbortStopsOwn DEF AbortStream
<1>14. ASSUME NEW r \in Request, NEW result \in {"completed", "failed"}, EndStream(r, result),
              late' = late, aborted[r] => result = "failed"
       PROVE  StopHitsOnlyItsOwner'
  <2>1. /\ UNCHANGED <<sessionOf, aborted, interrupted>>
        /\ \A q \in Request \ {r} : stage'[q] = stage[q] /\ outcome'[q] = outcome[q]
        /\ stage'[r] = "done" /\ outcome'[r] = result
    BY <1>14 DEF EndStream, TypeOK, StreamTypes
  <2>2. ASSUME NEW q \in Request
        PROVE  /\ interrupted[q] /\ sessionOf[q] \notin late => aborted[q] /\ outcome'[q] # "completed"
               /\ interrupted[q] => stage'[q] \in {"completing", "done"}
               /\ outcome'[q] # "none" => stage'[q] = "done"
    <3>1. CASE q = r
      BY <1>14, <2>1, <3>1 DEF StopHitsOnlyItsOwner
    <3>2. CASE q # r
      BY <2>1, <3>2 DEF StopHitsOnlyItsOwner
    <3> QED
      BY <3>1, <3>2
  <2> QED
    BY <1>14, <2>1, <2>2 DEF StopHitsOnlyItsOwner
<1>15. ASSUME NEW r \in Request, NEW to, Advance(r, to), late' = late, stage[r] \in {"waiting", "preparing"}
       PROVE  StopHitsOnlyItsOwner'
  <2>1. ~interrupted[r] /\ outcome[r] = "none"
    BY <1>15 DEF StopHitsOnlyItsOwner
  <2>2. UNCHANGED <<sessionOf, aborted, interrupted, outcome>> /\ \A q \in Request \ {r} : stage'[q] = stage[q]
    BY <1>15 DEF Advance, TypeOK, StreamTypes
  <2>3. ASSUME NEW q \in Request
        PROVE  /\ interrupted[q] /\ sessionOf[q] \notin late => aborted[q] /\ outcome[q] # "completed"
               /\ interrupted[q] => stage'[q] \in {"completing", "done"}
               /\ outcome[q] # "none" => stage'[q] = "done"
    BY <2>1, <2>2 DEF StopHitsOnlyItsOwner
  <2> QED
    BY <1>15, <2>2, <2>3 DEF StopHitsOnlyItsOwner
<1>16. ASSUME NEW r \in Request, StreamStep(r) PROVE StopHitsOnlyItsOwner'
  <2>1. late' = late
    BY <1>16 DEF StreamStep, EnterLane, Prepared, Completed, StreamFails
  <2>2. CASE \E result \in {"completed", "failed"} :
               EndStream(r, result) /\ (aborted[r] => result = "failed")
    BY <1>14, <2>1, <2>2
  <2>3. CASE \E to : Advance(r, to) /\ stage[r] \in {"waiting", "preparing"}
    BY <1>15, <2>1, <2>3
  <2> QED
    BY <1>16, <2>2, <2>3 DEF StreamStep, EnterLane, Prepared, Completed, StreamFails
<1>17. ASSUME NEW s \in Session, NEW r \in Request, StreamRefused(s, r) \/ \E i \in Id : Stream(s, r, i)
       PROVE  StopHitsOnlyItsOwner'
  <2>1. ~interrupted[r] /\ outcome[r] = "none"
    BY <1>17 DEF StreamRefused, Stream, StopHitsOnlyItsOwner
  <2>2. /\ UNCHANGED <<late, interrupted>>
        /\ \A q \in Request \ {r} : /\ sessionOf'[q] = sessionOf[q] /\ stage'[q] = stage[q]
                                    /\ aborted'[q] = aborted[q] /\ outcome'[q] = outcome[q]
        /\ outcome'[r] # "none" => stage'[r] = "done"
    BY <1>17, <2>1 DEF StreamRefused, Stream, TypeOK, StreamTypes
  <2>3. ASSUME NEW q \in Request
        PROVE  /\ interrupted[q] /\ sessionOf'[q] \notin late => aborted'[q] /\ outcome'[q] # "completed"
               /\ interrupted[q] => stage'[q] \in {"completing", "done"}
               /\ outcome'[q] # "none" => stage'[q] = "done"
    BY <2>1, <2>2 DEF StopHitsOnlyItsOwner
  <2> QED
    BY <2>2, <2>3 DEF StopHitsOnlyItsOwner
<1> QED
  BY <1>4, <1>5, <1>6, <1>7, <1>8, <1>9, <1>10, <1>11, <1>12, <1>13, <1>16, <1>17
     DEF Next, PoolStep, UserStep

-----------------------------------------------------------------------------
(* The shutdown.                                                           *)

\* The second round of session releases finds nothing to clean up.
LEMMA NothingFailsInRetry ==
    ASSUME TaskInv, ShutdownInv, shutdown = "retry"
    PROVE  at \notin {"stop", "context", "lease"}
  BY DEF TaskInv, ShutdownInv

\* Steps outside releaseAll() and the second round.
LEMMA ShutdownKept ==
    ASSUME ShutdownInv, NoMoreSessions => NoMoreSessions',
           Holds(lifecycle', ReleaseAll) /\ at' # "idle" =>
              /\ Holds(lifecycle, ReleaseAll) /\ UNCHANGED <<at, target, todo, failed>>
              /\ Registered' \subseteq Registered,
           shutdown' = "retry" => /\ shutdown = "retry" /\ Registered' \subseteq Registered
                                  /\ \A s \in Live' : s \in Live /\ (s \in awaited => s \in awaited'),
           runtime' = "released" => runtime = "released" /\ shutdown' = shutdown
    PROVE  ShutdownInv'
<1>1. Holds(lifecycle', ReleaseAll) /\ at' # "idle" /\ ~failed' =>
         Registered' \subseteq todo' \cup (IF at' = "next" THEN {} ELSE {target'})
  BY DEF ShutdownInv
<1>2. shutdown' = "retry" => NoMoreSessions' /\ Registered' = {} /\ Live' \subseteq awaited'
  BY DEF ShutdownInv
<1>3. runtime' = "released" => shutdown' = "none"
  BY DEF ShutdownInv
<1> QED
  BY <1>1, <1>2, <1>3 DEF ShutdownInv

\* The end of a cleanup: releaseAll() goes on, and a session's release() does
\* not happen in the second round.
LEMMA AfterCleanupShutdown ==
    ASSUME ResourcesInductive, ShutdownInv, SecondRoundCannotFail, NEW ok \in BOOLEAN,
           at \in {"context", "lease"}, lifecycle # << >>, AfterCleanup(ok),
           NoMoreSessions => NoMoreSessions',
           Registered' = IF ok THEN Registered \ {target} ELSE Registered
    PROVE  ShutdownInv' /\ SecondRoundCannotFail'
<1> USE DEF ResourcesInductive
<1>1. shutdown # "retry"
  BY NothingFailsInRetry
<1>2. CASE /\ Head(lifecycle) = ReleaseAll /\ at' = "next" /\ failed' = (failed \/ ~ok)
           /\ UNCHANGED <<lifecycle, todo, sessionVars, runtimeVars>>
  <2>1. ~failed' => Registered' \subseteq todo
    BY <1>2 DEF ShutdownInv, Holds
  <2> QED
    BY <1>1, <1>2, <2>1 DEF ShutdownInv, SecondRoundCannotFail
<1>3. ASSUME NEW s \in Session, Settle(s, ok), EndTask PROVE ShutdownInv' /\ SecondRoundCannotFail'
  <2>1. at' = "idle" /\ UNCHANGED <<runtime, shutdown>> /\ retryFailed' = retryFailed
    BY <1>1, <1>3 DEF Settle, EndTask, TypeOK, RuntimeTypes
  <2> QED
    BY <1>1, <2>1, ShutdownKept DEF SecondRoundCannotFail
<1> QED
  BY <1>2, <1>3 DEF AfterCleanup

\* A release attempt that succeeds without a cleanup.
LEMMA SettleShutdown ==
    ASSUME ResourcesInductive, ShutdownInv, SecondRoundCannotFail, NEW s \in Session,
           Holds(lifecycle, Release(s)), Settle(s, TRUE), EndTask,
           NoMoreSessions => NoMoreSessions', Registered' = Registered
    PROVE  ShutdownInv' /\ SecondRoundCannotFail'
<1>1. Live' = Live \ {s}
  BY SettlingSession DEF ResourcesInductive
<1>2. /\ at' = "idle" /\ UNCHANGED <<runtime, shutdown, retryFailed>> /\ awaited' = awaited \ {s}
  BY DEF Settle, EndTask, ResourcesInductive, TypeOK, RuntimeTypes
<1> QED
  BY <1>1, <1>2, ShutdownKept DEF SecondRoundCannotFail

\* Every step keeps the shutdown's account of what is left to do.
LEMMA ShutdownStep ==
    ASSUME ResourcesInductive, OrderInv, ShutdownInv, SecondRoundCannotFail, Next
    PROVE  ShutdownInv' /\ SecondRoundCannotFail'
<1> DEFINE Goal == ShutdownInv' /\ SecondRoundCannotFail'
<1> USE DEF ResourcesInductive
<1>0. NoMoreSessions => NoMoreSessions'
  BY NobodyNew
<1>1. ASSUME UNCHANGED <<entries, pendingCleanup, phase, runtimeVars>>,
             Holds(lifecycle', ReleaseAll) /\ at' # "idle" =>
                Holds(lifecycle, ReleaseAll) /\ UNCHANGED <<at, target, todo, failed>>
      PROVE  Goal
  <2>1. Live' = Live /\ Registered' = Registered
    BY <1>1 DEF Live, Registered
  <2> QED
    BY <1>0, <1>1, <2>1, ShutdownKept DEF SecondRoundCannotFail
<1>2. ASSUME NEW s \in Session, Holds(lifecycle, Acquire(s)), UNCHANGED runtimeVars,
             at' = "idle" \/ lifecycle' = lifecycle
      PROVE  Goal
  <2>1. phase[s] = "acquiring" /\ ~Holds(lifecycle, ReleaseAll)
    BY <1>2, HolderJustified DEF Holds, Justified, Acquire, ReleaseAll, TypeOK
  <2>2. shutdown # "retry"
    BY <2>1 DEF ShutdownInv, NoMoreSessions
  <2> QED
    BY <1>0, <1>2, <2>1, <2>2, ShutdownKept DEF SecondRoundCannotFail
<1>3. ASSUME NEW s \in Session,
             \/ AcquireRefused(s) \/ AcquireShared(s) \/ StartLoad(s) \/ LoadSucceeds(s)
             \/ LoadFails(s) \/ CapabilityReportFails(s) \/ UndoContext(s) \/ UndoLease(s)
      PROVE  Goal
  <2>1. /\ Holds(lifecycle, Acquire(s)) /\ UNCHANGED runtimeVars
        /\ at' = "idle" \/ lifecycle' = lifecycle
    BY <1>3 DEF AcquireRefused, AcquireShared, StartLoad, LoadSucceeds, LoadFails, EndTask,
                CapabilityReportFails, UndoContext, UndoLease, Starting, Waiting
  <2> QED
    BY <1>2, <2>1
<1>4. ASSUME NEW s \in Session, NEW k \in Key, CreateSession(s, k) PROVE Goal
  <2>1. shutdown # "retry" /\ UNCHANGED <<entries, pendingCleanup, runtimeVars, at, target, todo, failed>>
    BY <1>4 DEF CreateSession, OrderInv
  <2>2. at # "idle" => \A task : Holds(lifecycle', task) <=> Holds(lifecycle, task)
    BY <1>4, TasksTyped, QueuedBehind DEF CreateSession
  <2>3. Registered' = Registered
    BY <2>1 DEF Registered
  <2> QED
    BY <1>0, <2>1, <2>2, <2>3, ShutdownKept DEF SecondRoundCannotFail
<1>5. ASSUME NEW s \in Session, ReleaseFindsNothing(s) \/ ReleaseShared(s) PROVE Goal
  <2>1. Registered' = Registered
    BY <1>5 DEF ReleaseFindsNothing, ReleaseShared, Registered
  <2> QED
    BY <1>0, <1>5, <2>1, SettleShutdown DEF ReleaseFindsNothing, ReleaseShared, Starting
<1>6. ASSUME NEW s \in Session, ReleaseLast(s) PROVE Goal
  <2>1. Head(lifecycle) = Release(s) /\ lifecycle' = lifecycle
    BY <1>6 DEF ReleaseLast, Starting, Holds
  <2>2. ~Holds(lifecycle', ReleaseAll)
    BY <2>1 DEF Holds, Release, ReleaseAll
  <2> QED
    BY <1>1, <1>6, <2>2 DEF ReleaseLast
<1>7. ASSUME NEW e \in Session, VisitNext(e) PROVE Goal
  <2>1. Holds(lifecycle, ReleaseAll) /\ at = "next" /\ shutdown = "pool" /\ runtime # "released"
    BY <1>7, ReleaseAllIsLast DEF VisitNext, Waiting, ShutdownInv
  <2>2. /\ UNCHANGED <<entries, pendingCleanup, runtimeVars, failed>>
        /\ todo' = todo \ {e} /\ target' = e /\ at' # "next"
    BY <1>7 DEF VisitNext
  <2>3. ~failed => Registered' \subseteq todo' \cup {target'}
    BY <2>1, <2>2 DEF ShutdownInv, Registered
  <2> QED
    BY <2>1, <2>2, <2>3 DEF ShutdownInv, SecondRoundCannotFail
<1>8. ASSUME StartReleaseAll PROVE Goal
  <2>1. shutdown = "pool" /\ runtime # "released"
    BY <1>8, ReleaseAllIsLast DEF StartReleaseAll, Starting, ShutdownInv
  <2>2. UNCHANGED runtimeVars /\ at' = "next" /\ Registered' \subseteq todo'
    BY <1>8 DEF StartReleaseAll, Registered
  <2> QED
    BY <2>1, <2>2 DEF ShutdownInv, SecondRoundCannotFail
<1>9. ASSUME Stopped PROVE Goal
  <2>1. Holds(lifecycle, ReleaseAll) /\ at = "stop" /\ shutdown = "pool" /\ runtime # "released"
    BY <1>9, ReleaseAllIsLast DEF Stopped, Waiting, ShutdownInv
  <2>2. /\ UNCHANGED <<entries, pendingCleanup, runtimeVars, failed, todo, target>> /\ at' = "context"
    BY <1>9 DEF Stopped
  <2>3. ~failed => Registered' \subseteq todo' \cup {target'}
    BY <2>1, <2>2 DEF ShutdownInv, Registered
  <2> QED
    BY <2>1, <2>2, <2>3 DEF ShutdownInv, SecondRoundCannotFail
<1>10. ASSUME ContextCleaned \/ LeaseCleaned PROVE Goal
  <2>1. at \in {"context", "lease"} /\ lifecycle # << >>
    BY <1>10 DEF ContextCleaned, LeaseCleaned, Cleaning
  <2>2. CASE AfterCleanup(TRUE) /\ Unregister(target)
    <3>1. Registered' = Registered \ {target}
      BY <2>2 DEF Unregister, Registered
    <3> QED
      BY <1>0, <2>1, <2>2, <3>1, AfterCleanupShutdown
  <2>3. CASE /\ ContextCleaned /\ at' = "lease"
             /\ UNCHANGED <<lifecycle, target, todo, failed, entries, pendingCleanup, phase, runtimeVars>>
    <3>1. at = "context" /\ shutdown # "retry" /\ Registered' = Registered
      BY <2>3, NothingFailsInRetry DEF ContextCleaned, Cleaning, Registered
    <3> QED
      BY <2>3, <3>1 DEF ShutdownInv, SecondRoundCannotFail
  <2> QED
    BY <1>10, <2>2, <2>3 DEF ContextCleaned, LeaseCleaned
<1>11. ASSUME ContextCleanupFails \/ LeaseCleanupFails PROVE Goal
  <2>1. /\ at \in {"context", "lease"} /\ lifecycle # << >> /\ AfterCleanup(FALSE)
        /\ Registered' = Registered
    BY <1>11 DEF ContextCleanupFails, LeaseCleanupFails, Cleaning, Registered
  <2> QED
    BY <1>0, <2>1, AfterCleanupShutdown
<1>12. ASSUME NEW s \in Session, ReleaseSession(s) PROVE Goal
  <2>1. {s} \subseteq Live
    BY <1>12 DEF ReleaseSession
  <2>2. Live' = Live
    BY <1>12, <2>1, ClosingStaysLive DEF ReleaseSession
  <2>3. Registered' = Registered
    BY <1>12 DEF ReleaseSession, Registered
  <2> QED
    BY <1>0, <1>12, <2>2, <2>3, ShutdownKept DEF ReleaseSession, SecondRoundCannotFail
<1>13. ASSUME ReleaseRuntime PROVE Goal
  <2>1. /\ runtime' = "closing" /\ shutdown' = "sessions" /\ retryFailed' = FALSE
        /\ UNCHANGED <<lifecycle, at, target, todo, failed>> /\ Registered' = Registered
    BY <1>13 DEF ReleaseRuntime, Registered
  <2> QED
    BY <1>0, <2>1, ShutdownKept DEF SecondRoundCannotFail
<1>14. ASSUME SessionsSettled PROVE Goal
  <2>1. /\ runtime # "released" /\ shutdown' = "pool" /\ UNCHANGED <<runtime, retryFailed, at, target, todo, failed>>
        /\ Registered' = Registered
    BY <1>14 DEF SessionsSettled, Registered, ShutdownInv
  <2>2. at # "idle" => \A task : Holds(lifecycle', task) <=> Holds(lifecycle, task)
    BY <1>14, TasksTyped, QueuedBehind DEF SessionsSettled
  <2> QED
    BY <1>0, <2>1, <2>2, ShutdownKept DEF SecondRoundCannotFail
<1>15. ASSUME FinishReleaseAll PROVE Goal
  <2>1. /\ Holds(lifecycle, ReleaseAll) /\ at = "next" /\ todo = {} /\ at' = "idle"
        /\ UNCHANGED <<runtime, retryFailed>> /\ Registered' = Registered
    BY <1>15 DEF FinishReleaseAll, Waiting, EndTask, Registered
  <2>2. NoMoreSessions' /\ runtime # "released"
    BY <1>0, <2>1, ReleaseAllIsLast DEF ShutdownInv
  <2>3. CASE failed
    BY <1>15, <2>1, <2>2, <2>3 DEF FinishReleaseAll, ShutdownInv, SecondRoundCannotFail
  <2>4. CASE ~failed
    <3>1. Registered = {}
      BY <2>1, <2>4 DEF ShutdownInv
    <3>2. Live' = Live /\ awaited' = Live /\ shutdown' = "retry"
      BY <1>15, <2>4, ClosingStaysLive DEF FinishReleaseAll
    <3> QED
      BY <2>1, <2>2, <3>1, <3>2 DEF ShutdownInv, SecondRoundCannotFail
  <2> QED
    BY <2>3, <2>4
<1>16. ASSUME RetriesSettled PROVE Goal
  <2>1. /\ shutdown = "retry" /\ shutdown' = "none"
        /\ UNCHANGED <<lifecycle, at, target, todo, failed, retryFailed>> /\ Registered' = Registered
    BY <1>16 DEF RetriesSettled, Registered
  <2> QED
    BY <2>1 DEF ShutdownInv, SecondRoundCannotFail
<1>17. ASSUME NEW s \in Session, SessionDrained(s) PROVE Goal
  <2>1. at # "idle" => \A task : Holds(lifecycle', task) <=> Holds(lifecycle, task)
    BY <1>17, TasksTyped, QueuedBehind DEF SessionDrained
  <2> QED
    BY <1>1, <1>17, <2>1 DEF SessionDrained
<1>18. ASSUME NEW s \in Session, CancelAll(s) PROVE Goal
  BY <1>1, <1>18 DEF CancelAll
<1>19. ASSUME NEW r \in Request, StreamStep(r) \/ AbortStream(r) PROVE Goal
  BY <1>1, <1>19 DEF StreamStep, EnterLane, Prepared, Completed, StreamFails, AbortStream
<1>20. ASSUME NEW s \in Session, NEW r \in Request, StreamRefused(s, r) \/ \E i \in Id : Stream(s, r, i)
       PROVE  Goal
  BY <1>1, <1>20 DEF StreamRefused, Stream
<1> HIDE DEF Goal
<1>21. Goal
  BY <1>3, <1>4, <1>5, <1>6, <1>7, <1>8, <1>9, <1>10, <1>11, <1>12, <1>13, <1>14, <1>15, <1>16,
     <1>17, <1>18, <1>19, <1>20
     DEF Next, PoolStep, RuntimeStep, UserStep
<1> QED
  BY <1>21 DEF Goal

\* Only the end of the second round releases the runtime.
LEMMA ReleasedByRetries ==
    ASSUME Next, runtime # "released", runtime' = "released"
    PROVE  RetriesSettled
<1>1. ASSUME NEW s \in Session, Settle(s, TRUE) \/ Settle(s, FALSE) PROVE runtime' = runtime
  BY <1>1 DEF Settle
<1>2. ASSUME NEW s \in Session,
             \/ AcquireRefused(s) \/ AcquireShared(s) \/ StartLoad(s) \/ LoadSucceeds(s)
             \/ LoadFails(s) \/ CapabilityReportFails(s) \/ UndoContext(s) \/ UndoLease(s)
             \/ ReleaseLast(s) \/ VisitNext(s) \/ SessionDrained(s) \/ CancelAll(s)
             \/ ReleaseSession(s) \/ \E k \in Key : CreateSession(s, k)
      PROVE  runtime' = runtime
  BY <1>2 DEF AcquireRefused, AcquireShared, StartLoad, LoadSucceeds, LoadFails, CapabilityReportFails,
              UndoContext, UndoLease, ReleaseLast, VisitNext, SessionDrained, CancelAll, ReleaseSession,
              CreateSession
<1>3. ASSUME NEW s \in Session, ReleaseFindsNothing(s) \/ ReleaseShared(s) PROVE runtime' = runtime
  BY <1>1, <1>3 DEF ReleaseFindsNothing, ReleaseShared
<1>4. ASSUME ContextCleaned \/ ContextCleanupFails \/ LeaseCleaned \/ LeaseCleanupFails
      PROVE  runtime' = runtime
  BY <1>1, <1>4 DEF ContextCleaned, ContextCleanupFails, LeaseCleaned, LeaseCleanupFails, AfterCleanup
<1>5. ASSUME StartReleaseAll \/ Stopped \/ FinishReleaseAll \/ SessionsSettled PROVE runtime' = runtime
  BY <1>5 DEF StartReleaseAll, Stopped, FinishReleaseAll, SessionsSettled
<1>6. ASSUME NEW r \in Request, StreamStep(r) \/ AbortStream(r) PROVE runtime' = runtime
  BY <1>6 DEF StreamStep, EnterLane, Prepared, Completed, StreamFails, AbortStream
<1>7. ASSUME NEW s \in Session, NEW r \in Request, StreamRefused(s, r) \/ \E i \in Id : Stream(s, r, i)
      PROVE  runtime' = runtime
  BY <1>7 DEF StreamRefused, Stream
<1>8. ASSUME ReleaseRuntime PROVE runtime' = "closing"
  BY <1>8 DEF ReleaseRuntime
<1> QED
  BY <1>2, <1>3, <1>4, <1>5, <1>6, <1>7, <1>8 DEF Next, PoolStep, RuntimeStep, UserStep

\* In a released runtime nothing runs any more: streams can only be refused.
LEMMA ReleasedIsQuiet ==
    ASSUME ResourcesInductive, ShutdownInv, ReleasedMeansClean, runtime = "released", Next
    PROVE  \E s \in Session, r \in Request : StreamRefused(s, r)
<1>1. /\ \A task : ~Holds(lifecycle, task)
      /\ Live = {} /\ \A s \in Session : attempt[s] = "none" /\ phase[s] # "open"
      /\ \A r \in Request : stage[r] \in {"none", "done"} /\ ~InLane(r)
      /\ lifecycle = << >> /\ shutdown = "none"
  BY DEF ReleasedMeansClean, ShutdownInv, Holds, Live, InLane, ResourcesInductive, QueueInv,
         TypeOK, SessionTypes
<1>2. ~PoolStep
  <2>1. \A s \in Session :
           /\ ~AcquireRefused(s) /\ ~AcquireShared(s) /\ ~StartLoad(s) /\ ~LoadSucceeds(s) /\ ~LoadFails(s)
           /\ ~CapabilityReportFails(s) /\ ~UndoContext(s) /\ ~UndoLease(s)
           /\ ~ReleaseFindsNothing(s) /\ ~ReleaseShared(s) /\ ~ReleaseLast(s) /\ ~VisitNext(s)
    BY <1>1 DEF AcquireRefused, AcquireShared, StartLoad, LoadSucceeds, LoadFails, CapabilityReportFails,
                UndoContext, UndoLease, ReleaseFindsNothing, ReleaseShared, ReleaseLast, VisitNext,
                Starting, Waiting
  <2>2. /\ ~StartReleaseAll /\ ~Stopped /\ ~FinishReleaseAll
        /\ ~ContextCleaned /\ ~ContextCleanupFails /\ ~LeaseCleaned /\ ~LeaseCleanupFails
    BY <1>1 DEF StartReleaseAll, Stopped, FinishReleaseAll, ContextCleaned, ContextCleanupFails,
                LeaseCleaned, LeaseCleanupFails, Starting, Waiting, Cleaning
  <2> QED
    BY <2>1, <2>2 DEF PoolStep
<1>3. ~RuntimeStep /\ \A s \in Session : ~SessionDrained(s)
  BY <1>1 DEF RuntimeStep, SessionsSettled, RetriesSettled, SessionDrained
<1>4. \A r \in Request : ~StreamStep(r) /\ ~AbortStream(r)
  BY <1>1 DEF StreamStep, EnterLane, Prepared, Completed, StreamFails, AbortStream, InLane
<1>5. \A s \in Session : /\ ~ReleaseSession(s) /\ ~CancelAll(s) /\ \A k \in Key : ~CreateSession(s, k)
                         /\ \A r \in Request, i \in Id : ~Stream(s, r, i)
  BY <1>1 DEF ReleaseSession, CancelAll, CreateSession, Stream
<1>6. ~ReleaseRuntime
  BY DEF ReleaseRuntime
<1> QED
  BY <1>2, <1>3, <1>4, <1>5, <1>6 DEF Next, UserStep

\* release() resolves over nothing, and nothing comes back.
LEMMA CleanStep ==
    ASSUME ResourcesInductive, UserInv, ShutdownInv, ReleasedMeansClean, Next
    PROVE  ReleasedMeansClean'
<1> USE DEF ResourcesInductive
<1>1. CASE runtime = "released"
  <2>1. PICK s \in Session, r \in Request : StreamRefused(s, r)
    BY <1>1, ReleasedIsQuiet
  <2>2. UNCHANGED <<poolVars, entryVars, nativeVars, sessionVars, runtimeVars>>
    BY <2>1 DEF StreamRefused
  <2>3. \A q \in Request : stage'[q] \in {"none", "done"}
    BY <1>1, <2>1 DEF StreamRefused, ReleasedMeansClean, TypeOK, StreamTypes
  <2> QED
    BY <1>1, <2>2, <2>3 DEF ReleasedMeansClean, Registered, Owed
<1>2. CASE runtime # "released" /\ runtime' = "released"
  <2>1. RetriesSettled
    BY <1>2, ReleasedByRetries
  <2>2. /\ shutdown = "retry" /\ awaited = {}
        /\ UNCHANGED <<poolVars, entryVars, nativeVars, sessionVars, streamVars>>
    BY <2>1 DEF RetriesSettled
  <2>3. NoMoreSessions /\ Registered = {} /\ Live = {}
    BY <2>2 DEF ShutdownInv
  <2>4. \A s \in Session : phase[s] \in {"unused", "failed", "released"} /\ attempt[s] = "none"
    BY <2>3 DEF NoMoreSessions, Live, TypeOK, SessionTypes, QueueInv
  <2>5. lifecycle = << >>
    <3>1. SUFFICES ASSUME lifecycle # << >> PROVE FALSE
      OBVIOUS
    <3>2. Head(lifecycle) \in Task /\ Justified(Head(lifecycle))
      BY <3>1, HolderJustified DEF Holds, TypeOK
    <3> QED
      BY <2>2, <2>4, <3>2, TaskForms DEF Justified
  <2>6. \A e \in Session : ~Owed(e)
    BY <2>3, <2>5 DEF NothingIsForgotten, TaskInv, Holds
  <2>7. ASSUME NEW r \in Request PROVE stage[r] \in {"none", "done"}
    <3>1. SUFFICES ASSUME stage[r] # "none", stage[r] # "done" PROVE FALSE
      OBVIOUS
    <3>2. sessionOf[r] \in Session /\ Jobs(sessionOf[r]) # {}
      BY <3>1 DEF LaneInv, Jobs
    <3> QED
      BY <2>4, <3>2 DEF UserInv
  <2> QED
    BY <2>2, <2>3, <2>4, <2>5, <2>6, <2>7 DEF ReleasedMeansClean, Registered, Owed
<1>3. CASE runtime' # "released"
  BY <1>3 DEF ReleasedMeansClean
<1> QED
  BY <1>1, <1>2, <1>3

-----------------------------------------------------------------------------
(* The invariant of sharing and shutting down.                             *)

\* What the steps preserve together.
RuntimeInductive ==
    /\ ResourcesInductive
    /\ OrderInv /\ EntryInv /\ ReferencesCountHolders /\ UserInv
    /\ StopHitsOnlyItsOwner
    /\ ShutdownInv /\ SecondRoundCannotFail /\ ReleasedMeansClean

\* It says of every session and stream what the properties promise.
LEMMA RuntimeInductiveImplies ==
    RuntimeInductive => SharingIsExact /\ NoCallOnDyingContext /\ ShutdownIsClean
<1> SUFFICES ASSUME RuntimeInductive PROVE SharingIsExact /\ NoCallOnDyingContext /\ ShutdownIsClean
  OBVIOUS
<1> USE DEF RuntimeInductive, ResourcesInductive
<1>1. KeyedLookupIsExact
  <2>1. \A s \in Live : EntryAt(keyOf[entryOf[s]]) \subseteq {entryOf[s]}
    BY OwnEntry
  <2> QED
    BY <2>1 DEF KeyedLookupIsExact, ResourceInv
<1>2. ASSUME NEW s \in Session \ late, phase[s] = "open" \/ Jobs(s) # {}
      PROVE  /\ entryOf[s] \in entries /\ references[entryOf[s]] > 0 /\ context[entryOf[s]] = "live"
             /\ ~(target = entryOf[s] /\ at \in {"stop", "context", "lease"})
  <2>1. entryOf[s] \in entries /\ references[entryOf[s]] > 0
    BY <1>2 DEF UserInv
  <2>2. ~contextReleased[entryOf[s]] /\ references[entryOf[s]] # 0
    BY <2>1 DEF EntryInv
  <2>3. context[entryOf[s]] = "live"
    BY <2>1, <2>2 DEF ResourceInv, Registered
  <2> QED
    BY <2>1, <2>2, <2>3 DEF EntryInv
<1>3. OpenSessionKeepsContext
  BY <1>2 DEF OpenSessionKeepsContext
<1>4. NoCallOnDyingContext
  <2>1. ASSUME NEW r \in Request, InLane(r), sessionOf[r] \notin late
        PROVE  sessionOf[r] \in Session \ late /\ Jobs(sessionOf[r]) # {}
    BY <2>1 DEF LaneInv, InLane, Jobs
  <2> QED
    BY <1>2, <2>1 DEF NoCallOnDyingContext
<1> QED
  BY <1>1, <1>3, <1>4 DEF SharingIsExact, ShutdownIsClean

\* A step that changes nothing.
LEMMA RuntimeStutters ==
    ASSUME RuntimeInductive, UNCHANGED vars
    PROVE  RuntimeInductive'
<1> USE DEF RuntimeInductive, vars
<1>1. ResourcesInductive'
  BY InvariantStutters
<1>2. \A s : Jobs(s)' = Jobs(s) /\ Holders(s)' = Holders(s)
  BY DEF Jobs, Holders, Live
<1>3. Live' = Live /\ Registered' = Registered /\ NoMoreSessions' = NoMoreSessions
  BY DEF Live, Registered, NoMoreSessions
<1>4. OrderInv'
  BY OrderKept
<1>5. EntryInv'
  BY <1>3, EntriesKept DEF ResourcesInductive
<1>6. ReferencesCountHolders'
  BY <1>2, CountsKept
<1>7. UserInv'
  BY UsersIdle
<1>8. StopHitsOnlyItsOwner'
  BY DEF StopHitsOnlyItsOwner
<1>9. ShutdownInv' /\ SecondRoundCannotFail'
  BY <1>3, ShutdownKept DEF SecondRoundCannotFail
<1>10. ReleasedMeansClean'
  BY <1>3 DEF ReleasedMeansClean, Owed
<1> QED
  BY <1>1, <1>4, <1>5, <1>6, <1>7, <1>8, <1>9, <1>10

\* Every step of the runtime preserves it.
LEMMA RuntimeInductiveStep == RuntimeInductive /\ [Next]_vars => RuntimeInductive'
<1>1. ASSUME RuntimeInductive, Next PROVE RuntimeInductive'
  <2>1. ResourcesInductive'
    BY <1>1, InductiveStep DEF RuntimeInductive
  <2>2. OrderInv'
    BY <1>1, OrderStep DEF RuntimeInductive, ResourcesInductive
  <2>3. EntryInv' /\ ReferencesCountHolders' /\ UserInv'
    BY <1>1, EntryStep, CountStep, UserStepKept DEF RuntimeInductive
  <2>4. StopHitsOnlyItsOwner'
    BY <1>1, StopStep DEF RuntimeInductive
  <2>5. ShutdownInv' /\ SecondRoundCannotFail' /\ ReleasedMeansClean'
    BY <1>1, ShutdownStep, CleanStep DEF RuntimeInductive
  <2> QED
    BY <2>1, <2>2, <2>3, <2>4, <2>5 DEF RuntimeInductive
<1> QED
  BY <1>1, RuntimeStutters

\* Nothing is shared, streaming or closing at first.
LEMMA InitRuntimeInductive == Init => RuntimeInductive
<1> SUFFICES ASSUME Init PROVE RuntimeInductive
  OBVIOUS
<1>1. ResourcesInductive
  BY InitInductive
<1> USE RuntimeAssumption DEF Init
<1>2. OrderInv
  BY EmptySeq DEF OrderInv
<1>3. EntryInv /\ ReferencesCountHolders
  BY DEF EntryInv, ReferencesCountHolders, Live
<1>4. UserInv
  BY DEF UserInv, Jobs
<1>5. StopHitsOnlyItsOwner
  BY DEF StopHitsOnlyItsOwner
<1>6. ShutdownInv /\ SecondRoundCannotFail /\ ReleasedMeansClean
  BY DEF ShutdownInv, SecondRoundCannotFail, ReleasedMeansClean
<1> QED
  BY <1>1, <1>2, <1>3, <1>4, <1>5, <1>6 DEF RuntimeInductive

\* Sessions, streams and the shutdown stay in order in every reachable state.
THEOREM RuntimeIsInductive == Spec => []RuntimeInductive
<1> QED
  BY InitRuntimeInductive, RuntimeInductiveStep, PTL DEF Spec

\* Lookups by key find a session's own entry, reference counts are exact, and
\* nobody's release takes the context of an open session.
THEOREM SharingAlwaysExact == Spec => []SharingIsExact
<1>1. RuntimeInductive => SharingIsExact
  BY RuntimeInductiveImplies
<1> QED
  BY <1>1, RuntimeIsInductive, PTL

\* No native call of a stream runs on a context that is gone or going, sessions
\* built during the shutdown excepted.
THEOREM CallsRunOnLiveContexts == Spec => []NoCallOnDyingContext
<1>1. RuntimeInductive => NoCallOnDyingContext
  BY RuntimeInductiveImplies
<1> QED
  BY <1>1, RuntimeIsInductive, PTL

\* A completion is stopped on behalf of its own request only, and its stump is
\* never reported as an answer.
THEOREM AbortsHitTheirOwner == Spec => []StopHitsOnlyItsOwner
<1>1. RuntimeInductive => StopHitsOnlyItsOwner
  BY DEF RuntimeInductive
<1> QED
  BY <1>1, RuntimeIsInductive, PTL

\* The runtime's release() resolves over nothing, whatever failed before, and its
\* second round of session releases cannot fail.
THEOREM ShutdownAlwaysClean == Spec => []ShutdownIsClean
<1>1. RuntimeInductive => ShutdownIsClean
  BY RuntimeInductiveImplies
<1> QED
  BY <1>1, RuntimeIsInductive, PTL
===============================================================================
