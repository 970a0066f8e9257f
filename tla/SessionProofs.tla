---------------------------- MODULE SessionProofs ---------------------------
(***************************************************************************)
(* Proofs about the Tokio client.  Every step of the session is a step of  *)
(* the synchronous client or leaves it alone, so what is proved of Client  *)
(* holds here as well.                                                     *)
(***************************************************************************)
EXTENDS Session, ClientProofs, TLAPS

(* Every step of the Tokio layer takes at most one step of the synchronous *)
(* client, on one of its threads.                                          *)
LEMMA SessionStepSimulates == [SessionNext]_sessionVars => [ClientNext]_clientVars
<1>. SUFFICES ASSUME [SessionNext]_sessionVars
              PROVE  [ClientNext]_clientVars
    OBVIOUS
<1>. USE SessionAssumption
<1>1. CASE ClosureStep
    <2>1. CASE UNCHANGED clientVars
        BY <2>1
    <2>2. CASE EvaluateBegin(Blocking) \/ ProvideCredentialsBegin(Blocking)
        BY <2>2 DEF ClientNext, ThreadCall
    <2>3. CASE EvaluateEnd(Blocking) \/ ProvideCredentialsEnd(Blocking)
        BY <2>3 DEF ClientNext, ThreadStep
    <2>. QED
        BY <1>1, <2>1, <2>2, <2>3
        DEF ClosureStep, ClosureBegin, ClosureEnd, ClosureRelease
<1>2. CASE WorkerStep
    <2>1. CASE WorkerPrepare
        BY <2>1 DEF WorkerPrepare, ClientNext, ThreadCall
    <2>2. CASE WorkerRefused
        BY <2>2 DEF WorkerRefused
    <2>3. CASE WorkerRun
        <3>1. ThreadStep(Worker)
            BY <2>3 DEF WorkerRun, ThreadStep
        <3>. QED  BY <3>1 DEF ClientNext
    <2>4. CASE WorkerFinish
        BY <2>4 DEF WorkerFinish, ClientNext, ThreadStep
    <2>. QED  BY <1>2, <2>1, <2>2, <2>3, <2>4 DEF WorkerStep
<1>3. CASE DriverStep
    <2>1. CASE DriverStopSwap
        BY <2>1 DEF DriverStopSwap, ClientNext, ThreadCall
    <2>2. CASE DriverStopNative
        BY <2>2 DEF DriverStopNative, ClientNext, ThreadStep
    <2>3. CASE UNCHANGED clientVars
        BY <2>3
    <2>. QED
        BY <1>3, <2>1, <2>2, <2>3
        DEF DriverStep, SelectJoined, SelectCancelled, SelectCommand, SelectClosed,
            CertCheckDone, DriverStopped, Join, GuardRelease, Complete, DriverEnds
<1>4. ASSUME NEW t \in Tasks, TaskStep(t)
      PROVE  [ClientNext]_clientVars
    <2>1. CASE CancelStopSwap(t)
        BY <2>1 DEF CancelStopSwap, ClientNext, ThreadCall
    <2>2. CASE CancelStopNative(t)
        BY <2>2 DEF CancelStopNative, ClientNext, ThreadStep
    <2>3. CASE UNCHANGED clientVars
        BY <2>3
    <2>. QED
        BY <1>4, <2>1, <2>2, <2>3
        DEF TaskStep, ConnectClaim, ConnectStarted, RequestSent, RequestClosed, StopReplied
<1>5. ASSUME NEW t \in Tasks, TaskCall(t)
      PROVE  [ClientNext]_clientVars
    BY <1>5
    DEF TaskCall, SetupCall, RequestCall, ConnectCheck, Cancel, SessionDrop, TakeHandle,
        DropSessionHandle, SetupAbandon, ConnectAbandon, RequestAbandon
<1>6. CASE CancelToken \/ SessionPoll
    BY <1>6 DEF CancelToken, SessionPoll
<1>7. CASE UNCHANGED sessionVars
    BY <1>7 DEF sessionVars
<1>. QED
    BY <1>1, <1>2, <1>3, <1>4, <1>5, <1>6, <1>7 DEF SessionNext

(* The Tokio client drives the synchronous client only through behaviours  *)
(* that client allows: tokio.rs uses no transition client.rs does not have *)
THEOREM SessionImplementsClient == SessionSpec => ClientSpec
<1>1. SessionInit => ClientInit
    BY DEF SessionInit
<1>. QED
    BY <1>1, SessionStepSimulates, PTL DEF SessionSpec, ClientSpec

(* The invariant of the synchronous client holds under the Tokio layer.    *)
THEOREM SessionKeepsClientInv == SessionSpec => []ClientInv
    BY SessionImplementsClient, ClientInvariant, PTL

(* Types are preserved: the command channel never exceeds its capacity.    *)
LEMMA SessionTypeStep ==
    ASSUME SessionTypeOK, [SessionNext]_sessionVars
    PROVE  SessionTypeOK'
<1>. USE SessionAssumption, ThreadsAssumption
<1>. USE DEF SessionTypeOK, TaskStates, DriverStates, Kinds
<1>0. <<>> \in Seq(CommandSet) /\ Len(<<>>) <= Capacity
    OBVIOUS
<1>1. CASE ClosureStep
    BY <1>1 DEF ClosureStep, ClosureBegin, ClosureEnd, ClosureRelease, closureRest
<1>2. CASE WorkerStep
    <2>1. started' \in {"none", "pending", "sent"}
        BY <1>2 DEF WorkerStep, WorkerPrepare, WorkerRefused, WorkerRun, WorkerFinish
    <2>2. worker' \in {"none", "queued", "running", "finished"}
        BY <1>2 DEF WorkerStep, WorkerPrepare, WorkerRefused, WorkerRun, WorkerFinish
    <2>3. UNCHANGED workerRest
        BY <1>2 DEF WorkerStep, WorkerPrepare, WorkerRefused, WorkerRun, WorkerFinish
    <2>. QED  BY <2>1, <2>2, <2>3 DEF workerRest
<1>3. CASE SelectJoined \/ SelectCancelled \/ SelectClosed \/ Join
    <2>1. commands_open' \in BOOLEAN /\ driver' \in DriverStates
        BY <1>3 DEF SelectJoined, SelectCancelled, SelectClosed, Join
    <2>. QED
        BY <1>3, <2>1 DEF SelectJoined, SelectCancelled, SelectClosed, Join, driverRest
<1>4. CASE SelectCommand
    <2>1. Head(commands) \in CommandSet /\ Tail(commands) \in Seq(CommandSet)
          /\ Len(Tail(commands)) <= Capacity
        BY <1>4 DEF SelectCommand
    <2>2. commands' \in Seq(CommandSet) /\ Len(commands') <= Capacity
        BY <1>4, <2>1 DEF SelectCommand
    <2>3. current' \in CommandSet \cup {NoCommand}
        BY <1>4, <2>1 DEF SelectCommand
    <2>4. task' \in [Tasks -> TaskStates] /\ driver' \in DriverStates
        BY <1>4 DEF SelectCommand, Reply
    <2>. QED  BY <1>4, <2>2, <2>3, <2>4 DEF SelectCommand, driverRest
<1>5. CASE CertCheckDone \/ DriverStopped
    <2>1. task' \in [Tasks -> TaskStates]
        BY <1>5 DEF CertCheckDone, DriverStopped, Reply
    <2>2. current' \in CommandSet \cup {NoCommand} /\ driver' \in DriverStates
        BY <1>5 DEF CertCheckDone, DriverStopped
    <2>. QED  BY <1>5, <2>1, <2>2 DEF CertCheckDone, DriverStopped, driverRest
<1>6. CASE DriverStopSwap \/ DriverStopNative
    BY <1>6 DEF DriverStopSwap, DriverStopNative, asyncVars
<1>7. CASE GuardRelease \/ Complete \/ DriverEnds
    <2>1. session_active' \in BOOLEAN
        BY <1>7 DEF GuardRelease, Complete, DriverEnds, driverRest
    <2>2. commands' \in Seq(CommandSet) /\ Len(commands') <= Capacity
        BY <1>0, <1>7 DEF GuardRelease, Complete, DriverEnds
    <2>3. task' \in [Tasks -> TaskStates]
        BY <1>7 DEF GuardRelease, Complete, DriverEnds
    <2>. QED  BY <1>7, <2>1, <2>2, <2>3 DEF GuardRelease, Complete, DriverEnds, driverRest
<1>8. ASSUME NEW t \in Tasks,
             \/ ConnectStarted(t) \/ ConnectCheck(t) \/ ConnectAbandon(t) \/ SetupAbandon(t)
      PROVE  SessionTypeOK'
    BY <1>8 DEF ConnectStarted, ConnectCheck, ConnectAbandon, SetupAbandon, Await
<1>9. ASSUME NEW t \in Tasks, ConnectClaim(t)
      PROVE  SessionTypeOK'
    <2>1. session_active' \in BOOLEAN /\ commands_open' \in BOOLEAN /\ token' \in BOOLEAN
        BY <1>9 DEF ConnectClaim
    <2>2. commands' \in Seq(CommandSet) /\ Len(commands') <= Capacity
        BY <1>0, <1>9 DEF ConnectClaim
    <2>3. task' \in [Tasks -> TaskStates] /\ setup' \in Tasks \cup {Blocking, NoThread}
        BY <1>9 DEF ConnectClaim, Await
    <2>. QED  BY <1>9, <2>1, <2>2, <2>3 DEF ConnectClaim
<1>10. ASSUME NEW t \in Tasks,
              \/ RequestClosed(t) \/ StopReplied(t) \/ Cancel(t) \/ SessionDrop(t)
              \/ TakeHandle(t) \/ DropSessionHandle(t)
       PROVE  SessionTypeOK'
    <2>1. token' \in BOOLEAN /\ holders' \in SUBSET Tasks
        BY <1>10
        DEF RequestClosed, StopReplied, Cancel, SessionDrop, TakeHandle, DropSessionHandle
    <2>. QED
        BY <1>10, <2>1
        DEF RequestClosed, StopReplied, Cancel, SessionDrop, TakeHandle, DropSessionHandle,
            Await, taskRest
<1>11. ASSUME NEW t \in Tasks, CancelStopSwap(t) \/ CancelStopNative(t)
       PROVE  SessionTypeOK'
    BY <1>11 DEF CancelStopSwap, CancelStopNative, Await, taskRest
<1>12. ASSUME NEW t \in Tasks, RequestSent(t)
       PROVE  SessionTypeOK'
    <2>1. [reply |-> t, kind |-> request[t]] \in CommandSet
        BY DEF CommandSet
    <2>. QED  BY <1>12, <2>1 DEF RequestSent, Await, taskRest
<1>13. ASSUME NEW t \in Tasks, RequestAbandon(t)
       PROVE  SessionTypeOK'
    <2>1. \A c \in CommandSet : Unreply(c, t) \in CommandSet
        BY DEF Unreply, CommandSet
    <2>2. commands' \in Seq(CommandSet) /\ Len(commands') = Len(commands)
        BY <1>13, <2>1 DEF RequestAbandon
    <2>3. current' \in CommandSet \cup {NoCommand}
        BY <1>13, <2>1 DEF RequestAbandon, Unreply, NoCommand
    <2>. QED  BY <1>13, <2>2, <2>3 DEF RequestAbandon, Await, taskRest
<1>14. ASSUME NEW t \in Tasks,
              NEW operation \in {"evaluate", "provide_credentials", "self_test"},
              SetupCall(t, operation)
       PROVE  SessionTypeOK'
    BY <1>14 DEF SetupCall, Await
<1>15. ASSUME NEW t \in Tasks, NEW kind \in Kinds, RequestCall(t, kind)
       PROVE  SessionTypeOK'
    BY <1>15 DEF RequestCall, Await, taskRest
<1>16. CASE CancelToken \/ SessionPoll
    <2>1. token' \in BOOLEAN
        BY <1>16 DEF CancelToken, SessionPoll
    <2>. QED  BY <1>16, <2>1 DEF CancelToken, SessionPoll, taskRest
<1>17. CASE UNCHANGED sessionVars
    BY <1>17 DEF sessionVars, asyncVars
<1>. QED
    BY <1>1, <1>2, <1>3, <1>4, <1>5, <1>6, <1>7, <1>8, <1>9, <1>10, <1>11, <1>12,
       <1>13, <1>14, <1>15, <1>16, <1>17
    DEF SessionNext, DriverStep, TaskStep, TaskCall

(* Every action keeps the other parts; one step per action, and under it   *)
(* one per part it can disturb.                                            *)
LEMMA SessionPartsStep ==
    ASSUME ClientInv, SessionInv, [SessionNext]_sessionVars
    PROVE  (/\ ThreadInv /\ DriverInv /\ SetupInv /\ QuietInv
             /\ ReplyInv /\ ReportInv /\ StopNotLost)'
<1>. DEFINE Parts == /\ ThreadInv /\ DriverInv /\ SetupInv /\ QuietInv
                      /\ ReplyInv /\ ReportInv /\ StopNotLost
<1>. USE SessionAssumption, ThreadsAssumption
<1>a. Parts /\ SessionTypeOK
    BY DEF SessionInv
<1>b. /\ pc \in [Threads -> Positions]
      /\ task \in [Tasks -> TaskStates]
      /\ session \in {"none", "live", "completed", "dropped"}
      /\ setup \in Tasks \cup {Blocking, NoThread}
      /\ driver \in DriverStates
      /\ commands \in Seq(CommandSet)
    BY <1>a DEF ClientInv, ClientTypeOK, SessionTypeOK
<1>c. lifecycle = "Connecting" <=> pc[Worker] # "idle"
    BY <1>a DEF ClientInv, FrameInv, ConnectFrame, ThreadInv
<1>d. /\ lifecycle \in {"New", "Ready"} => core = "idle"
      /\ lifecycle = "Finished" => core = "done"
      /\ pc[Worker] \in {"preparing", "entering"} => core = "idle"
      /\ pc[Worker] = "connecting" => core \in {"setup", "access", "run", "returned"}
      /\ pc[Worker] = "resetting" => core = "done"
      /\ lifecycle \in {"New", "Ready", "Connecting", "Finished"}
    BY <1>a DEF ClientInv, PhaseInv, HandleInv, ThreadInv, ClientTypeOK, Lifecycle
<1>e. pc[Blocking] \in {"evaluating", "crediting"} => lifecycle \in {"New", "Ready"}
    BY DEF ClientInv, FrameInv
<1>. HIDE DEF Parts
<1>1. ASSUME ClosureBegin
      PROVE  Parts'
    <2>. USE <1>1, <1>a, <1>b DEF Parts, ClosureBegin, EvaluateBegin,
         ProvideCredentialsBegin, Idle, Goto, closureRest, clientVars
    <2>1. (DriverInv /\ QuietInv /\ ReplyInv)'  BY DEF DriverInv, QuietInv, ReplyInv
    <2>2. ThreadInv'  BY DEF ThreadInv
    <2>3. SetupInv'  BY DEF SetupInv
    <2>4. ReportInv'  BY DEF ReportInv
    <2>5. StopNotLost'  BY DEF StopNotLost
    <2>. QED  BY <2>1, <2>2, <2>3, <2>4, <2>5 DEF Parts
<1>2. ASSUME ClosureEnd
      PROVE  Parts'
    <2>. USE <1>2, <1>a, <1>b DEF Parts, ClosureEnd, EvaluateEnd, ProvideCredentialsEnd,
         Goto, closureRest, clientVars
    <2>1. (QuietInv /\ ReplyInv)'  BY DEF QuietInv, ReplyInv
    <2>2. ThreadInv'  BY DEF ThreadInv
    <2>3. DriverInv'  BY <1>e DEF DriverInv
    <2>4. SetupInv'  BY DEF SetupInv
    <2>5. ReportInv'  BY DEF ReportInv
    <2>6. StopNotLost'  BY DEF StopNotLost
    <2>. QED  BY <2>1, <2>2, <2>3, <2>4, <2>5, <2>6 DEF Parts
<1>3. ASSUME ClosureRelease
      PROVE  Parts'
    <2>. USE <1>3, <1>a, <1>b DEF Parts, ClosureRelease, clientVars
    <2>1. (DriverInv /\ ReportInv /\ StopNotLost)'  BY DEF DriverInv, ReportInv, StopNotLost
    <2>2. ThreadInv'  BY DEF ThreadInv
    <2>3. SetupInv'  BY DEF SetupInv
    <2>4. QuietInv'  BY DEF QuietInv
    <2>5. ReplyInv'  BY DEF ReplyInv
    <2>. QED  BY <2>1, <2>2, <2>3, <2>4, <2>5 DEF Parts
<1>4. ASSUME WorkerPrepare
      PROVE  Parts'
    <2>. USE <1>4, <1>a, <1>b DEF Parts, WorkerPrepare, PrepareConnect, Idle, Goto,
         workerRest
    <2>1. (QuietInv /\ ReplyInv)'  BY DEF QuietInv, ReplyInv
    <2>2. ThreadInv'  BY DEF ThreadInv
    <2>3. DriverInv'  BY DEF DriverInv
    <2>4. SetupInv'  BY DEF SetupInv
    <2>5. ReportInv'  BY DEF ReportInv
    <2>6. StopNotLost'  BY DEF StopNotLost
    <2>. QED  BY <2>1, <2>2, <2>3, <2>4, <2>5, <2>6 DEF Parts
<1>5. ASSUME WorkerRefused
      PROVE  Parts'
    <2>. USE <1>5, <1>a, <1>b DEF Parts, WorkerRefused, workerRest, clientVars
    <2>1. (SetupInv /\ QuietInv /\ ReplyInv /\ StopNotLost)'
        BY DEF SetupInv, QuietInv, ReplyInv, StopNotLost
    <2>2. ThreadInv'  BY DEF ThreadInv
    <2>3. DriverInv'  BY <1>c, <1>d DEF DriverInv, ThreadInv
    <2>4. ReportInv'  BY <1>d, <1>c DEF ReportInv, DriverInv, ThreadInv
    <2>. QED  BY <2>1, <2>2, <2>3, <2>4 DEF Parts
<1>6. ASSUME WorkerRun
      PROVE  Parts'
    <2>. USE <1>6, <1>a, <1>b DEF Parts, WorkerRun, ClearStopRequested, ConnectEnter,
         CoreSetup, CoreRunEnds, ConnectRun, ConnectReturn, NotifyConnectStarted, Goto,
         workerRest
    <2>1. (DriverInv /\ SetupInv /\ QuietInv /\ ReplyInv)'
        BY DEF DriverInv, SetupInv, QuietInv, ReplyInv
    <2>2. ThreadInv'  BY DEF ThreadInv
    <2>3. ReportInv'  BY <1>d DEF ReportInv
    <2>4. StopNotLost'  BY DEF StopNotLost, ReportInv, ForeignAccess
    <2>. QED  BY <2>1, <2>2, <2>3, <2>4 DEF Parts
<1>7. ASSUME WorkerFinish
      PROVE  Parts'
    <2>. USE <1>7, <1>a, <1>b DEF Parts, WorkerFinish, LifecycleReset, Goto, workerRest
    <2>1. (QuietInv /\ ReplyInv)'  BY DEF QuietInv, ReplyInv
    <2>2. ThreadInv'  BY DEF ThreadInv
    <2>3. DriverInv'  BY DEF DriverInv
    <2>4. SetupInv'  BY DEF SetupInv
    <2>5. ReportInv'  BY DEF ReportInv
    <2>6. StopNotLost'  BY DEF StopNotLost
    <2>. QED  BY <2>1, <2>2, <2>3, <2>4, <2>5, <2>6 DEF Parts
<1>8. ASSUME SelectJoined
      PROVE  Parts'
    <2>. USE <1>8, <1>a, <1>b DEF Parts, SelectJoined, driverRest, clientVars
    <2>1. (SetupInv /\ ReportInv /\ StopNotLost)'  BY DEF SetupInv, ReportInv, StopNotLost
    <2>2. ThreadInv'  BY DEF ThreadInv
    <2>3. DriverInv'  BY DEF DriverInv, DriverActive, DriverStates
    <2>4. QuietInv'  BY DEF QuietInv
    <2>5. ReplyInv'  BY DEF ReplyInv
    <2>. QED  BY <2>1, <2>2, <2>3, <2>4, <2>5 DEF Parts
<1>9. ASSUME SelectCancelled
      PROVE  Parts'
    <2>. USE <1>9, <1>a, <1>b DEF Parts, SelectCancelled, driverRest, clientVars
    <2>1. (SetupInv /\ ReportInv /\ StopNotLost)'  BY DEF SetupInv, ReportInv, StopNotLost
    <2>2. ThreadInv'  BY DEF ThreadInv
    <2>3. DriverInv'  BY DEF DriverInv, DriverActive, DriverStates
    <2>4. QuietInv'  BY DEF QuietInv
    <2>5. ReplyInv'  BY DEF ReplyInv
    <2>. QED  BY <2>1, <2>2, <2>3, <2>4, <2>5 DEF Parts
<1>10. ASSUME SelectCommand
      PROVE  Parts'
    <2>. USE <1>10, <1>a, <1>b DEF Parts, SelectCommand, driverRest, Reply, clientVars
    <2>1. (ReportInv /\ StopNotLost)'  BY DEF ReportInv, StopNotLost
    <2>2. ThreadInv'  BY DEF ThreadInv, ReplyInv
    <2>3. DriverInv'  BY DEF DriverInv, DriverActive, DriverStates
    <2>4. SetupInv'  BY DEF SetupInv, ReplyInv
    <2>5. QuietInv'  BY DEF QuietInv
    <2>6. ReplyInv'  BY DEF ReplyInv
    <2>. QED  BY <2>1, <2>2, <2>3, <2>4, <2>5, <2>6 DEF Parts
<1>11. ASSUME SelectClosed
      PROVE  Parts'
    <2>. USE <1>11, <1>a, <1>b DEF Parts, SelectClosed, driverRest, clientVars
    <2>1. (ThreadInv /\ DriverInv /\ SetupInv /\ QuietInv /\ ReplyInv /\ ReportInv /\ StopNotLost)'
        BY DEF ThreadInv, DriverInv, SetupInv, QuietInv, ReplyInv, ReportInv,
           StopNotLost
    <2>. QED  BY <2>1 DEF Parts
<1>12. ASSUME CertCheckDone
      PROVE  Parts'
    <2>. USE <1>12, <1>a, <1>b DEF Parts, CertCheckDone, driverRest, Reply, clientVars
    <2>1. (ReportInv /\ StopNotLost)'  BY DEF ReportInv, StopNotLost
    <2>2. ThreadInv'  BY DEF ThreadInv, ReplyInv
    <2>3. DriverInv'  BY DEF DriverInv, DriverActive, DriverStates
    <2>4. SetupInv'  BY DEF SetupInv, ReplyInv
    <2>5. QuietInv'  BY DEF QuietInv
    <2>6. ReplyInv'  BY DEF ReplyInv, NoCommand
    <2>. QED  BY <2>1, <2>2, <2>3, <2>4, <2>5, <2>6 DEF Parts
<1>13. ASSUME DriverStopSwap
      PROVE  Parts'
    <2>. USE <1>13, <1>a, <1>b DEF Parts, DriverStopSwap, StopSwap, Idle, Goto,
         asyncVars
    <2>1. (DriverInv /\ SetupInv /\ QuietInv /\ ReplyInv)'
        BY DEF DriverInv, SetupInv, QuietInv, ReplyInv
    <2>2. ThreadInv'  BY DEF ThreadInv
    <2>3. ReportInv'  BY <1>d DEF ReportInv, DriverInv, QuietInv
    <2>4. StopNotLost'  BY DEF StopNotLost
    <2>. QED  BY <2>1, <2>2, <2>3, <2>4 DEF Parts
<1>14. ASSUME DriverStopNative
      PROVE  Parts'
    <2>. USE <1>14, <1>a, <1>b DEF Parts, DriverStopNative, StopNative, NativeStop,
         Goto, asyncVars
    <2>1. (DriverInv /\ SetupInv /\ QuietInv /\ ReplyInv)'
        BY DEF DriverInv, SetupInv, QuietInv, ReplyInv
    <2>2. ThreadInv'  BY DEF ThreadInv
    <2>3. ReportInv'  BY DEF ReportInv
    <2>4. StopNotLost'  BY DEF StopNotLost
    <2>. QED  BY <2>1, <2>2, <2>3, <2>4 DEF Parts
<1>15. ASSUME DriverStopped
      PROVE  Parts'
    <2>. USE <1>15, <1>a, <1>b DEF Parts, DriverStopped, driverRest, Reply, clientVars
    <2>1. (ReportInv /\ StopNotLost)'  BY DEF ReportInv, StopNotLost
    <2>2. ThreadInv'  BY DEF ThreadInv, ReplyInv
    <2>3. DriverInv'  BY DEF DriverInv, DriverActive, DriverStates
    <2>4. SetupInv'  BY DEF SetupInv, ReplyInv
    <2>5. QuietInv'  BY DEF QuietInv
    <2>6. ReplyInv'  BY DEF ReplyInv, NoCommand
    <2>. QED  BY <2>1, <2>2, <2>3, <2>4, <2>5, <2>6 DEF Parts
<1>16. ASSUME Join
      PROVE  Parts'
    <2>. USE <1>16, <1>a, <1>b DEF Parts, Join, driverRest, clientVars
    <2>1. (SetupInv /\ ReportInv /\ StopNotLost)'  BY DEF SetupInv, ReportInv, StopNotLost
    <2>2. ThreadInv'  BY DEF ThreadInv
    <2>3. DriverInv'  BY DEF DriverInv, DriverActive, DriverStates
    <2>4. QuietInv'  BY DEF QuietInv
    <2>5. ReplyInv'  BY DEF ReplyInv
    <2>. QED  BY <2>1, <2>2, <2>3, <2>4, <2>5 DEF Parts
<1>17. ASSUME GuardRelease
      PROVE  Parts'
    <2>. USE <1>17, <1>a, <1>b DEF Parts, GuardRelease, clientVars
    <2>1. (ReportInv /\ StopNotLost)'  BY DEF ReportInv, StopNotLost
    <2>2. ThreadInv'  BY DEF ThreadInv
    <2>3. DriverInv'  BY DEF DriverInv, DriverActive, DriverStates
    <2>4. SetupInv'  BY DEF SetupInv
    <2>5. QuietInv'  BY DEF QuietInv
    <2>6. ReplyInv'  BY DEF ReplyInv
    <2>. QED  BY <2>1, <2>2, <2>3, <2>4, <2>5, <2>6 DEF Parts
<1>18. ASSUME Complete
      PROVE  Parts'
    <2>. USE <1>18, <1>a, <1>b DEF Parts, Complete, clientVars
    <2>1. (ReportInv /\ StopNotLost)'  BY DEF ReportInv, StopNotLost
    <2>2. ThreadInv'  BY DEF ThreadInv
    <2>3. DriverInv'  BY DEF DriverInv, DriverActive, DriverStates
    <2>4. SetupInv'  BY DEF SetupInv
    <2>5. QuietInv'  BY DEF QuietInv
    <2>6. ReplyInv'  BY DEF ReplyInv
    <2>. QED  BY <2>1, <2>2, <2>3, <2>4, <2>5, <2>6 DEF Parts
<1>39. ASSUME DriverEnds
      PROVE  Parts'
    <2>. USE <1>39, <1>a, <1>b DEF Parts, DriverEnds, driverRest, clientVars
    <2>1. (ReportInv /\ StopNotLost)'  BY DEF ReportInv, StopNotLost
    <2>2. ThreadInv'  BY DEF ThreadInv, ReplyInv
    <2>3. DriverInv'  BY DEF DriverInv, DriverActive, DriverStates
    <2>4. SetupInv'  BY DEF SetupInv, ReplyInv
    <2>5. QuietInv'  BY DEF QuietInv
    <2>6. ReplyInv'  BY DEF ReplyInv
    <2>. QED  BY <2>1, <2>2, <2>3, <2>4, <2>5, <2>6 DEF Parts
<1>19. ASSUME NEW t \in Tasks, ConnectClaim(t)
      PROVE  Parts'
    <2>. USE <1>19, <1>a, <1>b DEF Parts, ConnectClaim, Await, clientVars
    <2>1. (StopNotLost)'  BY DEF StopNotLost
    <2>2. ThreadInv'  BY DEF ThreadInv, DriverInv, DriverActive, DriverStates
    <2>3. DriverInv'  BY DEF DriverInv, DriverActive, DriverStates, SetupInv
    <2>4. SetupInv'  BY DEF SetupInv
    <2>5. QuietInv'  BY DEF QuietInv
    <2>6. ReplyInv'  BY DEF ReplyInv, NoCommand
    <2>7. ReportInv'  BY DEF ReportInv
    <2>. QED  BY <2>1, <2>2, <2>3, <2>4, <2>5, <2>6, <2>7 DEF Parts
<1>20. ASSUME NEW t \in Tasks, ConnectStarted(t)
      PROVE  Parts'
    <2>. USE <1>20, <1>a, <1>b DEF Parts, ConnectStarted, Await, clientVars
    <2>1. (DriverInv /\ StopNotLost)'  BY DEF DriverInv, StopNotLost
    <2>2. ThreadInv'  BY DEF ThreadInv
    <2>3. SetupInv'  BY DEF SetupInv
    <2>4. QuietInv'  BY DEF QuietInv
    <2>5. ReplyInv'  BY DEF ReplyInv
    <2>6. ReportInv'  BY DEF ReportInv
    <2>. QED  BY <2>1, <2>2, <2>3, <2>4, <2>5, <2>6 DEF Parts
<1>21. ASSUME NEW t \in Tasks, RequestSent(t)
      PROVE  Parts'
    <2>. USE <1>21, <1>a, <1>b DEF Parts, RequestSent, Await, taskRest, clientVars
    <2>1. (DriverInv /\ ReportInv /\ StopNotLost)'  BY DEF DriverInv, ReportInv, StopNotLost
    <2>2. ThreadInv'  BY DEF ThreadInv
    <2>3. SetupInv'  BY DEF SetupInv
    <2>4. QuietInv'  BY DEF QuietInv
    <2>5. ReplyInv'  BY DEF ReplyInv
    <2>. QED  BY <2>1, <2>2, <2>3, <2>4, <2>5 DEF Parts
<1>22. ASSUME NEW t \in Tasks, RequestClosed(t)
      PROVE  Parts'
    <2>. USE <1>22, <1>a, <1>b DEF Parts, RequestClosed, Await, taskRest, clientVars
    <2>1. (DriverInv /\ ReportInv /\ StopNotLost)'  BY DEF DriverInv, ReportInv, StopNotLost
    <2>2. ThreadInv'  BY DEF ThreadInv
    <2>3. SetupInv'  BY DEF SetupInv
    <2>4. QuietInv'  BY DEF QuietInv
    <2>5. ReplyInv'  BY DEF ReplyInv
    <2>. QED  BY <2>1, <2>2, <2>3, <2>4, <2>5 DEF Parts
<1>23. ASSUME NEW t \in Tasks, StopReplied(t)
      PROVE  Parts'
    <2>. USE <1>23, <1>a, <1>b DEF Parts, StopReplied, Await, taskRest, clientVars
    <2>1. (DriverInv /\ ReportInv /\ StopNotLost)'  BY DEF DriverInv, ReportInv, StopNotLost
    <2>2. ThreadInv'  BY DEF ThreadInv
    <2>3. SetupInv'  BY DEF SetupInv
    <2>4. QuietInv'  BY DEF QuietInv
    <2>5. ReplyInv'  BY DEF ReplyInv
    <2>. QED  BY <2>1, <2>2, <2>3, <2>4, <2>5 DEF Parts
<1>24. ASSUME NEW t \in Tasks, CancelStopSwap(t)
      PROVE  Parts'
    <2>. USE <1>24, <1>a, <1>b DEF Parts, CancelStopSwap, StopSwap, Idle, Goto, Await,
         taskRest, clientVars
    <2>1. (DriverInv)'  BY DEF DriverInv
    <2>2. ThreadInv'  BY DEF ThreadInv
    <2>3. SetupInv'  BY DEF SetupInv
    <2>4. QuietInv'  BY DEF QuietInv
    <2>5. ReplyInv'  BY DEF ReplyInv
    <2>6. ReportInv'  BY DEF ReportInv, QuietInv
    <2>7. StopNotLost'  BY DEF StopNotLost
    <2>. QED  BY <2>1, <2>2, <2>3, <2>4, <2>5, <2>6, <2>7 DEF Parts
<1>25. ASSUME NEW t \in Tasks, CancelStopNative(t)
      PROVE  Parts'
    <2>. USE <1>25, <1>a, <1>b DEF Parts, CancelStopNative, StopNative, NativeStop,
         Goto, Await, taskRest
    <2>1. (DriverInv)'  BY DEF DriverInv
    <2>2. ThreadInv'  BY DEF ThreadInv
    <2>3. SetupInv'  BY DEF SetupInv
    <2>4. QuietInv'  BY DEF QuietInv
    <2>5. ReplyInv'  BY DEF ReplyInv
    <2>6. ReportInv'  BY DEF ReportInv
    <2>7. StopNotLost'  BY DEF StopNotLost
    <2>. QED  BY <2>1, <2>2, <2>3, <2>4, <2>5, <2>6, <2>7 DEF Parts
<1>26. ASSUME NEW t \in Tasks,
             NEW operation \in {"evaluate", "provide_credentials", "self_test"},
             SetupCall(t, operation)
      PROVE  Parts'
    <2>. USE <1>26, <1>a, <1>b DEF Parts, SetupCall, Await, clientVars
    <2>1. (DriverInv /\ ReportInv /\ StopNotLost)'  BY DEF DriverInv, ReportInv, StopNotLost
    <2>2. ThreadInv'  BY DEF ThreadInv, SetupInv
    <2>3. SetupInv'  BY DEF SetupInv
    <2>4. QuietInv'  BY DEF QuietInv
    <2>5. ReplyInv'  BY DEF ReplyInv
    <2>. QED  BY <2>1, <2>2, <2>3, <2>4, <2>5 DEF Parts
<1>27. ASSUME NEW t \in Tasks, NEW kind \in Kinds, RequestCall(t, kind)
      PROVE  Parts'
    <2>. USE <1>27, <1>a, <1>b DEF Parts, RequestCall, Await, taskRest, clientVars
    <2>1. (DriverInv /\ ReportInv /\ StopNotLost)'  BY DEF DriverInv, ReportInv, StopNotLost
    <2>2. ThreadInv'  BY DEF ThreadInv
    <2>3. SetupInv'  BY DEF SetupInv
    <2>4. QuietInv'  BY DEF QuietInv
    <2>5. ReplyInv'  BY DEF ReplyInv
    <2>. QED  BY <2>1, <2>2, <2>3, <2>4, <2>5 DEF Parts
<1>28. ASSUME NEW t \in Tasks, ConnectCheck(t)
      PROVE  Parts'
    <2>. USE <1>28, <1>a, <1>b DEF Parts, ConnectCheck, Await, clientVars
    <2>1. (DriverInv /\ ReportInv /\ StopNotLost)'  BY DEF DriverInv, ReportInv, StopNotLost
    <2>2. ThreadInv'  BY DEF ThreadInv
    <2>3. SetupInv'  BY <1>d DEF SetupInv, ReportInv
    <2>4. QuietInv'  BY DEF QuietInv
    <2>5. ReplyInv'  BY DEF ReplyInv
    <2>. QED  BY <2>1, <2>2, <2>3, <2>4, <2>5 DEF Parts
<1>29. ASSUME NEW t \in Tasks, Cancel(t)
      PROVE  Parts'
    <2>. USE <1>29, <1>a, <1>b DEF Parts, Cancel, Await, taskRest, clientVars
    <2>1. (DriverInv /\ ReportInv /\ StopNotLost)'  BY DEF DriverInv, ReportInv, StopNotLost
    <2>2. ThreadInv'  BY DEF ThreadInv
    <2>3. SetupInv'  BY DEF SetupInv
    <2>4. QuietInv'  BY DEF QuietInv
    <2>5. ReplyInv'  BY DEF ReplyInv
    <2>. QED  BY <2>1, <2>2, <2>3, <2>4, <2>5 DEF Parts
<1>30. ASSUME NEW t \in Tasks, SessionDrop(t)
      PROVE  Parts'
    <2>. USE <1>30, <1>a, <1>b DEF Parts, SessionDrop, Await, taskRest, clientVars
    <2>1. (DriverInv /\ StopNotLost)'  BY DEF DriverInv, StopNotLost
    <2>2. ThreadInv'  BY DEF ThreadInv
    <2>3. SetupInv'  BY DEF SetupInv
    <2>4. QuietInv'  BY DEF QuietInv
    <2>5. ReplyInv'  BY DEF ReplyInv
    <2>6. ReportInv'  BY DEF ReportInv
    <2>. QED  BY <2>1, <2>2, <2>3, <2>4, <2>5, <2>6 DEF Parts
<1>31. ASSUME NEW t \in Tasks, TakeHandle(t)
      PROVE  Parts'
    <2>. USE <1>31, <1>a, <1>b DEF Parts, TakeHandle, taskRest, clientVars
    <2>1. (ThreadInv /\ DriverInv /\ SetupInv /\ ReplyInv /\ ReportInv /\ StopNotLost)'
        BY DEF ThreadInv, DriverInv, SetupInv, ReplyInv, ReportInv, StopNotLost
    <2>2. QuietInv'  BY DEF QuietInv
    <2>. QED  BY <2>1, <2>2 DEF Parts
<1>32. ASSUME NEW t \in Tasks, DropSessionHandle(t)
      PROVE  Parts'
    <2>. USE <1>32, <1>a, <1>b DEF Parts, DropSessionHandle, taskRest, clientVars
    <2>1. (ThreadInv /\ DriverInv /\ SetupInv /\ ReplyInv /\ ReportInv /\ StopNotLost)'
        BY DEF ThreadInv, DriverInv, SetupInv, ReplyInv, ReportInv, StopNotLost
    <2>2. QuietInv'  BY DEF QuietInv
    <2>. QED  BY <2>1, <2>2 DEF Parts
<1>33. ASSUME NEW t \in Tasks, SetupAbandon(t)
      PROVE  Parts'
    <2>. USE <1>33, <1>a, <1>b DEF Parts, SetupAbandon, Await, clientVars
    <2>1. (DriverInv /\ ReportInv /\ StopNotLost)'  BY DEF DriverInv, ReportInv, StopNotLost
    <2>2. ThreadInv'  BY DEF ThreadInv
    <2>3. SetupInv'  BY DEF SetupInv
    <2>4. QuietInv'  BY DEF QuietInv
    <2>5. ReplyInv'  BY DEF ReplyInv
    <2>. QED  BY <2>1, <2>2, <2>3, <2>4, <2>5 DEF Parts
<1>34. ASSUME NEW t \in Tasks, ConnectAbandon(t)
      PROVE  Parts'
    <2>. USE <1>34, <1>a, <1>b DEF Parts, ConnectAbandon, Await, clientVars
    <2>1. (DriverInv /\ ReportInv /\ StopNotLost)'  BY DEF DriverInv, ReportInv, StopNotLost
    <2>2. ThreadInv'  BY DEF ThreadInv
    <2>3. SetupInv'  BY DEF SetupInv
    <2>4. QuietInv'  BY DEF QuietInv
    <2>5. ReplyInv'  BY DEF ReplyInv
    <2>. QED  BY <2>1, <2>2, <2>3, <2>4, <2>5 DEF Parts
<1>35. ASSUME NEW t \in Tasks, RequestAbandon(t)
      PROVE  Parts'
    <2>. USE <1>35, <1>a, <1>b DEF Parts, RequestAbandon, Await, taskRest, Unreply,
         clientVars
    <2>1. (DriverInv /\ ReportInv /\ StopNotLost)'  BY DEF DriverInv, ReportInv, StopNotLost
    <2>2. ThreadInv'  BY DEF ThreadInv
    <2>3. SetupInv'  BY DEF SetupInv
    <2>4. QuietInv'  BY DEF QuietInv
    <2>5. ReplyInv'  BY DEF ReplyInv, NoCommand
    <2>. QED  BY <2>1, <2>2, <2>3, <2>4, <2>5 DEF Parts
<1>36. ASSUME CancelToken
      PROVE  Parts'
    <2>. USE <1>36, <1>a, <1>b DEF Parts, CancelToken, taskRest, clientVars
    <2>1. (ThreadInv /\ DriverInv /\ SetupInv /\ ReplyInv /\ ReportInv /\ StopNotLost)'
        BY DEF ThreadInv, DriverInv, SetupInv, ReplyInv, ReportInv, StopNotLost
    <2>2. QuietInv'  BY DEF QuietInv
    <2>. QED  BY <2>1, <2>2 DEF Parts
<1>37. ASSUME SessionPoll
      PROVE  Parts'
    <2>. USE <1>37, <1>a, <1>b DEF Parts, SessionPoll, taskRest, clientVars
    <2>1. (ThreadInv /\ DriverInv /\ ReplyInv /\ StopNotLost)'
        BY DEF ThreadInv, DriverInv, ReplyInv, StopNotLost
    <2>2. SetupInv'  BY DEF SetupInv
    <2>3. QuietInv'  BY DEF QuietInv
    <2>4. ReportInv'  BY DEF ReportInv
    <2>. QED  BY <2>1, <2>2, <2>3, <2>4 DEF Parts
<1>38. CASE UNCHANGED sessionVars
    BY <1>38, <1>a
    DEF Parts, sessionVars, clientVars, asyncVars, ThreadInv, DriverInv, SetupInv,
        QuietInv, ReplyInv, ReportInv, StopNotLost
<1>. QED
    BY <1>1, <1>2, <1>3, <1>4, <1>5, <1>6, <1>7, <1>8, <1>9, <1>10, <1>11, <1>12, <1>13,
       <1>14, <1>15, <1>16, <1>17, <1>18, <1>19, <1>20, <1>21, <1>22, <1>23, <1>24,
       <1>25, <1>26, <1>27, <1>28, <1>29, <1>30, <1>31, <1>32, <1>33, <1>34, <1>35,
       <1>36, <1>37, <1>38, <1>39
    DEF Parts, SessionNext, ClosureStep, WorkerStep, DriverStep, TaskStep, TaskCall

(* The Tokio client's invariant holds at the start.                        *)
LEMMA SessionInitInv == SessionInit => SessionInv
<1>. SUFFICES ASSUME SessionInit PROVE SessionInv
    OBVIOUS
<1>. USE SessionAssumption, ThreadsAssumption
<1>1. session_active \in BOOLEAN /\ commands_open \in BOOLEAN /\ token \in BOOLEAN
    BY DEF SessionInit
<1>2. SessionTypeOK
    BY <1>1 DEF SessionInit, SessionTypeOK, TaskStates, DriverStates, Kinds
<1>3. ThreadInv /\ DriverInv /\ SetupInv /\ QuietInv
    BY DEF SessionInit, ClientInit, ThreadInv, DriverInv, SetupInv, QuietInv,
           DriverActive, DriverStates
<1>4. ReplyInv /\ ReportInv /\ StopNotLost
    BY DEF SessionInit, ClientInit, ReplyInv, ReportInv, StopNotLost, NoCommand
<1>. QED  BY <1>2, <1>3, <1>4 DEF SessionInv

(* The state of tokio.rs between any two steps of tasks, driver, worker    *)
(* and blocking pool, for any number of tasks and any channel capacity.    *)
THEOREM SessionInvariant == SessionSpec => []SessionInv
<1>1. ClientInv /\ SessionInv /\ [SessionNext]_sessionVars => SessionInv'
    BY SessionTypeStep, SessionPartsStep DEF SessionInv
<1>. QED
    BY <1>1, SessionInitInv, SessionKeepsClientInv, PTL DEF SessionSpec

(* "stop() cannot be lost": under the Tokio layer no stop request is       *)
(* recorded that Core never sees, the race the synchronous connect() has.  *)
THEOREM SessionStopNotLost == SessionSpec => []StopNotLost
<1>1. SessionInv => StopNotLost
    BY DEF SessionInv
<1>. QED  BY <1>1, SessionInvariant, PTL

(* Whoever is given a Session by connect() can stop it.                    *)
THEOREM SessionIsStoppable == SessionSpec => []SessionStoppable
<1>1. SessionInv => SessionStoppable
    BY DEF SessionInv, ReportInv, SessionStoppable
<1>. QED  BY <1>1, SessionInvariant, PTL

(* session_active is set exactly while a driver owns the session, and in   *)
(* every state in which Core may be connecting.                            *)
THEOREM SessionActiveWhileDriven == SessionSpec => []ActiveWhileDriven
<1>1. ClientInv /\ SessionInv => ActiveWhileDriven
    <2>. SUFFICES ASSUME ClientInv, SessionInv PROVE ActiveWhileDriven
        OBVIOUS
    <2>. USE SessionAssumption DEF SessionInv, ThreadInv, DriverInv
    <2>1. ASSUME lifecycle = "Connecting" PROVE pc[Worker] # "idle"
        BY <2>1 DEF ClientInv, FrameInv, ConnectFrame
    <2>2. driver \in DriverStates
        BY DEF SessionTypeOK
    <2>. QED
        BY <2>1, <2>2 DEF ActiveWhileDriven, DriverActive, DriverStates
<1>. QED  BY <1>1, SessionInvariant, SessionKeepsClientInv, PTL

(* A configuration closure on the blocking pool excludes a session.        *)
THEOREM SessionClosureExcluded == SessionSpec => []ClosureExcludesSession
<1>1. SessionInv => ClosureExcludesSession
    BY DEF SessionInv, SetupInv, ClosureExcludesSession
<1>. QED  BY <1>1, SessionInvariant, PTL

(* A result is observable only after the worker, the lifecycle and the     *)
(* active flag have been cleaned up.                                       *)
THEOREM SessionResultAfterCleanup == SessionSpec => []ResultAfterCleanup
<1>1. SessionInv => ResultAfterCleanup
    BY DEF SessionInv, DriverInv, ResultAfterCleanup, DriverActive, DriverStates
<1>. QED  BY <1>1, SessionInvariant, PTL
=============================================================================
