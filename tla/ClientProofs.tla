---------------------------- MODULE ClientProofs ----------------------------
(* Proofs about the synchronous client, for any number of threads.         *)
EXTENDS Client, TLAPS

USE ThreadsAssumption

(* A new client satisfies the invariant.                                   *)
LEMMA ClientInitInv == ClientInit => ClientInv
  <1> SUFFICES ASSUME ClientInit PROVE ClientInv
    OBVIOUS
  <1> USE DEF ClientInit
  <1>1. \A t \in Threads : pc[t] = "idle"
    OBVIOUS
  <1>2. ClientTypeOK
    BY DEF ClientTypeOK, Lifecycle, CorePhases, Positions
  <1>3. GuardInv
    BY <1>1 DEF GuardInv, HoldsGuard
  <1>4. FrameInv
    BY <1>1 DEF FrameInv, ConnectFrame
  <1>5. PhaseInv /\ HandleInv /\ StartedInv
    BY <1>1 DEF PhaseInv, HandleInv, StartedInv
  <1>6. QED
    BY <1>2, <1>3, <1>4, <1>5 DEF ClientInv

(* Every step of every thread keeps the invariant: one case per action of  *)
(* client.rs and of the bridge.                                            *)
LEMMA ClientNextInv == ClientInv /\ [ClientNext]_clientVars => ClientInv'
  <1> SUFFICES ASSUME ClientInv, [ClientNext]_clientVars
               PROVE  ClientInv'
    OBVIOUS
  <1> USE DEF ClientInv, ClientTypeOK, GuardInv, FrameInv, PhaseInv, HandleInv,
              StartedInv, Lifecycle, CorePhases, Positions, HoldsGuard, ConnectFrame
  <1>1. ASSUME NEW t \in Threads, NEW u \in Threads, Clone(t, u)
        PROVE  ClientInv'
    BY <1>1 DEF Clone, Idle
  <1>2. ASSUME NEW t \in Threads, EvaluateBegin(t)
        PROVE  ClientInv'
    BY <1>2 DEF EvaluateBegin, Idle, Goto
  <1>3. ASSUME NEW t \in Threads, ProvideCredentialsBegin(t)
        PROVE  ClientInv'
    BY <1>3 DEF ProvideCredentialsBegin, Idle, Goto
  <1>4. ASSUME NEW t \in Threads, PrepareConnect(t)
        PROVE  ClientInv'
    BY <1>4 DEF PrepareConnect, Idle, Goto
  <1>5. ASSUME NEW t \in Threads, StopSwap(t)
        PROVE  ClientInv'
    BY <1>5 DEF StopSwap, Idle, Goto
  <1>6. ASSUME NEW t \in Threads, CallbackStopSwap(t)
        PROVE  ClientInv'
    BY <1>6 DEF CallbackStopSwap, Goto
  <1>7. ASSUME NEW t \in Threads, DropHandle(t)
        PROVE  ClientInv'
    <2>1. CASE handles # {t}
      BY <1>7, <2>1 DEF DropHandle, Idle
    <2>2. CASE handles = {t}
      <3>1. PICK position \in {"freeing", "drop_stopping"} : Goto(t, position)
        BY <1>7, <2>2 DEF DropHandle
      <3>2. /\ handles' = {} /\ stop_requested' = TRUE /\ pc[t] = "idle"
            /\ UNCHANGED <<lifecycle, guard, core, stop_signal, connect_started, started_calls>>
        BY <1>7, <2>2 DEF DropHandle, Idle
      <3>3. \A u \in Threads : u # t => pc[u] \in {"idle", "drop_stopping", "freeing"}
        BY <2>2
      <3>4. \A u \in Threads : pc[u] = "idle"
        BY <2>2, <3>2, <3>3
      <3>5. ClientTypeOK' /\ GuardInv' /\ FrameInv' /\ PhaseInv' /\ StartedInv'
        BY <3>1, <3>2, <3>4 DEF Goto
      <3>6. HandleInv'
        BY <2>2, <3>1, <3>2, <3>4 DEF Goto
      <3>7. QED
        BY <3>5, <3>6
    <2>3. QED
      BY <2>1, <2>2
  <1>8. ASSUME NEW t \in Threads, EvaluateEnd(t)
        PROVE  ClientInv'
    BY <1>8 DEF EvaluateEnd, Goto
  <1>9. ASSUME NEW t \in Threads, ProvideCredentialsEnd(t)
        PROVE  ClientInv'
    BY <1>9 DEF ProvideCredentialsEnd, Goto
  <1>10. ASSUME NEW t \in Threads, ClearStopRequested(t)
        PROVE  ClientInv'
    BY <1>10 DEF ClearStopRequested, Goto
  <1>11. ASSUME NEW t \in Threads, NEW callback \in BOOLEAN, ConnectEnter(t, callback)
        PROVE  ClientInv'
    BY <1>11 DEF ConnectEnter, Goto
  <1>12. ASSUME NEW t \in Threads, CoreSetup(t)
        PROVE  ClientInv'
    BY <1>12 DEF CoreSetup
  <1>13. ASSUME NEW t \in Threads, ConnectRun(t)
        PROVE  ClientInv'
    <2>1. started_calls' \in Nat /\ started_calls' <= 1 /\ connect_started' = FALSE
      <3>1. CASE connect_started
        BY <1>13, <3>1 DEF ConnectRun, NotifyConnectStarted
      <3>2. CASE ~connect_started
        BY <1>13, <3>2 DEF ConnectRun, NotifyConnectStarted
      <3>3. QED
        BY <3>1, <3>2
    <2>2. ClientTypeOK' /\ GuardInv' /\ FrameInv' /\ PhaseInv' /\ HandleInv'
      BY <1>13, <2>1 DEF ConnectRun
    <2>3. StartedInv'
      BY <1>13, <2>1 DEF ConnectRun
    <2>4. QED
      BY <2>2, <2>3
  <1>14. ASSUME NEW t \in Threads, CoreRunEnds(t)
        PROVE  ClientInv'
    BY <1>14 DEF CoreRunEnds
  <1>15. ASSUME NEW t \in Threads, ConnectReturn(t)
        PROVE  ClientInv'
    <2>1. started_calls' \in Nat /\ started_calls' <= 1 /\ connect_started' = FALSE
      <3>1. CASE connect_started
        BY <1>15, <3>1 DEF ConnectReturn, NotifyConnectStarted
      <3>2. CASE ~connect_started
        BY <1>15, <3>2 DEF ConnectReturn, NotifyConnectStarted
      <3>3. QED
        BY <3>1, <3>2
    <2>2. ClientTypeOK' /\ GuardInv' /\ FrameInv' /\ PhaseInv' /\ HandleInv'
      BY <1>15, <2>1 DEF ConnectReturn, Goto
    <2>3. StartedInv'
      BY <1>15, <2>1 DEF ConnectReturn
    <2>4. QED
      BY <2>2, <2>3
  <1>16. ASSUME NEW t \in Threads, LifecycleReset(t)
        PROVE  ClientInv'
    BY <1>16 DEF LifecycleReset, Goto
  <1>17. ASSUME NEW t \in Threads, StopNative(t)
        PROVE  ClientInv'
    BY <1>17 DEF StopNative, NativeStop, Goto
  <1>18. ASSUME NEW t \in Threads, CallbackStopNative(t)
        PROVE  ClientInv'
    BY <1>18 DEF CallbackStopNative, NativeStop, Goto
  <1>19. ASSUME NEW t \in Threads, DropStopNative(t)
        PROVE  ClientInv'
    BY <1>19 DEF DropStopNative, NativeStop, Goto
  <1>20. ASSUME NEW t \in Threads, FreeClient(t)
        PROVE  ClientInv'
    BY <1>20 DEF FreeClient, Goto
  <1>21. ASSUME UNCHANGED clientVars
        PROVE  ClientInv'
    BY <1>21 DEF clientVars
  <1>22. QED
    BY <1>1, <1>2, <1>3, <1>4, <1>5, <1>6, <1>7, <1>8, <1>9, <1>10, <1>11, <1>12, <1>13, <1>14, <1>15, <1>16, <1>17, <1>18, <1>19, <1>20, <1>21 DEF ClientNext, ThreadStep, ThreadCall

(* The client keeps its invariant for ever, hence its types.               *)
THEOREM ClientInvariant == ClientSpec => []ClientInv
  BY ClientInitInv, ClientNextInv, PTL DEF ClientSpec

(* evaluate and provide_credentials never run beside each other or beside  *)
(* a connect(), as the `Sync` claim of client.rs needs: whoever mutates    *)
(* the configuration holds the mutex, and the lifecycle it saw excludes a  *)
(* connect frame.                                                          *)
THEOREM ClientConfigurationSerialized == ClientSpec => []ConfigurationSerialized
  <1>1. ClientInv => ConfigurationSerialized
    <2> SUFFICES ASSUME ClientInv,
                        NEW t \in Threads, NEW u \in Threads,
                        pc[t] \in {"evaluating", "crediting"},
                        pc[u] \in {"evaluating", "crediting"} \cup ConnectFrame
                 PROVE  t = u
      BY DEF ConfigurationSerialized
    <2>1. guard = t
      BY DEF ClientInv, GuardInv, HoldsGuard
    <2>2. lifecycle # "Connecting"
      BY DEF ClientInv, FrameInv
    <2>3. pc[u] \notin ConnectFrame
      BY <2>2 DEF ClientInv, FrameInv
    <2>4. guard = u
      BY <2>3 DEF ClientInv, GuardInv, HoldsGuard
    <2>5. QED
      BY <2>1, <2>4
  <1>2. QED
    BY <1>1, ClientInvariant, PTL

(* Inner::drop deletes the native client only after every native call      *)
(* returned and every clone is gone.                                       *)
THEOREM ClientNoUseAfterFree == ClientSpec => []NoUseAfterFree
  <1>1. ClientInv => NoUseAfterFree
    BY DEF ClientInv, HandleInv, NoUseAfterFree, InNative
  <1>2. QED
    BY <1>1, ClientInvariant, PTL

(* The stack pointer the bridge stores for `started` dies with the frame   *)
(* of connect() and is used at most once.                                  *)
THEOREM ClientStartedPointerLive == ClientSpec => []StartedPointerLive
  <1>1. ClientInv => StartedPointerLive
    <2> SUFFICES ASSUME ClientInv, connect_started
                 PROVE  \E t \in Threads : pc[t] \in {"connecting", "callback_stopping"}
      BY DEF ClientInv, StartedInv, StartedPointerLive
    <2>1. core \in {"setup", "access", "returned"}
      BY DEF ClientInv, StartedInv
    <2>2. lifecycle = "Connecting"
      BY <2>1 DEF ClientInv, ClientTypeOK, Lifecycle, PhaseInv
    <2>3. PICK t \in Threads : pc[t] \in ConnectFrame
      BY <2>2 DEF ClientInv, FrameInv
    <2>4. pc[t] \in {"connecting", "callback_stopping"}
      BY <2>1, <2>3 DEF ClientInv, PhaseInv, ConnectFrame
    <2>5. QED
      BY <2>4
  <1>2. QED
    BY <1>1, ClientInvariant, PTL

(* Core's connect() is entered only on a native client that never ran.     *)
THEOREM ClientOneSession == ClientSpec => OneSession
  <1>1. ClientInv /\ [ClientNext]_clientVars
          => [core' = "setup" => core \in {"idle", "setup"}]_clientVars
    <2> SUFFICES ASSUME ClientInv, ClientNext, core' = "setup", core # "setup"
                 PROVE  core = "idle"
      BY DEF ClientTypeOK
    <2>1. PICK t \in Threads : ThreadStep(t) \/ ThreadCall(t)
      BY DEF ClientNext
    <2>2. PICK callback \in BOOLEAN : ConnectEnter(t, callback)
      BY <2>1 DEF ThreadStep, ThreadCall, Clone, EvaluateBegin, EvaluateEnd,
             ProvideCredentialsBegin, ProvideCredentialsEnd, PrepareConnect,
             ClearStopRequested, CoreSetup, ConnectRun, CoreRunEnds,
             ConnectReturn, LifecycleReset, StopSwap, CallbackStopSwap,
             StopNative, CallbackStopNative, DropHandle, DropStopNative, FreeClient
    <2>3. QED
      BY <2>2 DEF ConnectEnter, ClientInv, PhaseInv
  <1>2. QED
    BY <1>1, ClientInvariant, PTL DEF ClientSpec, OneSession

=============================================================================
