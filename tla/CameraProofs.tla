---------------------------- MODULE CameraProofs ----------------------------
(***************************************************************************)
(* Proofs about the camera's shims and its wrapper: the deaths and races   *)
(* of the client, the vendor's devices and texts behind the wrapper, and   *)
(* the buffers of metadata.                                                *)
(***************************************************************************)
EXTENDS CameraClient, CameraWrapper, CameraMetadata, WellFoundedInduction, TLAPS

-----------------------------------------------------------------------------
(* CameraClient. *)

ClientRecords == [by : {"app", "proxy"}, session : Nat]
ThreadStates ==
    [op : {"idle", "stopRecording", "app", "proxy"} \cup ServiceOps \cup MethodOps,
     at : {"", "got", "checked", "connected", "method", "unlink", "start", "stop"},
     p  : Nat]
FrameStates ==
    [by : {"app", "proxy"}, session : Nat,
     at : FrameDone \cup {"sent", "none", "forward", "post", "release"}]

(* Pointers are to services that have been; the cached one is linked.      *)
PointersInv ==
    /\ incarnation \in Nat /\ incarnation >= 1 /\ incarnation <= MaxDeaths + 1
    /\ published \in BOOLEAN /\ (~published => incarnation <= MaxDeaths)
    /\ gCameraService \in Nat /\ gCameraService <= incarnation
    /\ gNotices \subseteq gLinked
    /\ gCameraService # 0 => gCameraService \in gLinked
    /\ mCamera \in Nat /\ mCamera <= incarnation /\ mLinked = mCamera
    /\ mNotices \subseteq {mCamera} /\ mObituary \in {"none", "told", "dropped"}

(* Where a thread is tells what it does and what its copy may be; a proxy  *)
(* that is about to start a recording in the session i has set listener l. *)
ThreadFits(th, inc, i, l) ==
    /\ th.at = "" <=> th.op = "idle"
    /\ th.at \in {"got", "checked"} => th.op \in ServiceOps
    /\ th.at = "connected" => th.op = "connect" /\ th.p >= 1 /\ th.p <= inc
    /\ th.at = "checked" /\ th.op = "getNumberOfCameras" => th.p # 0
    /\ th.at = "method" => th.op \in MethodOps /\ (th.op = "startPreview" => th.p # 0)
    /\ th.at = "unlink" => th.op = "disconnect"
    /\ th.at = "stop" => th.op = "stopRecording"
    /\ th.at = "start" =>
          /\ th.op \in {"app", "proxy"} /\ th.p <= i
          /\ th.op = "proxy" /\ th.p = i => l = TRUE

ThreadOK(th) == ThreadFits(th, incarnation, kSession, mRecordingProxyListener)

ThreadsInv ==
    /\ kThread \in [ClientThreads -> ThreadStates]
    /\ \A t \in ClientThreads : ThreadOK(kThread[t])

(* One thread at a time connects, and while it does nobody uses a Camera.  *)
ConnectInv ==
    \A t \in ClientThreads : kThread[t].op = "connect" =>
       /\ mCamera = 0 /\ kRecording = <<>>
       /\ \A u \in ClientThreads \ {t} :
             kThread[u].op \in {"idle", "getCameraInfo", "getNumberOfCameras"}
       /\ \A n \in DOMAIN kFrames : kFrames[n].at \in FrameDone

(* The service records for a Camera that is connected to it; a recording   *)
(* that was not stopped and that a proxy started has its listener set.     *)
RecordInv ==
    /\ kRecording \in Seq(ClientRecords)
    /\ kRecording # <<>> =>
          /\ mCamera # 0 /\ Lives(mCamera)
          /\ \A u \in ClientThreads : kThread[u].at # "unlink"
          /\ kRecording[1].session <= kSession
          /\ kRecording[1].by = "proxy" /\ kRecording[1].session = kSession
                => mRecordingProxyListener = TRUE

FrameOK(f) ==
    /\ f.session <= kSession
    /\ f.by = "proxy" /\ f.at = "sent" /\ f.session = kSession => mRecordingProxyListener = TRUE
    /\ f.by = "proxy" /\ f.at \in {"none", "post", "app", "release", "released"}
          => f.session < kSession

FramesInv ==
    /\ kSession \in Nat /\ kSession <= MaxStops
    /\ kFrames \in Seq(FrameStates) /\ Len(kFrames) <= MaxFrames
    /\ \A n \in DOMAIN kFrames : FrameOK(kFrames[n])

ListenersInv ==
    /\ mListener \in BOOLEAN /\ mRecordingProxyListener \in BOOLEAN /\ mListening \in BOOLEAN
    /\ mListening = TRUE => mListener = TRUE

(* An obituary comes only for a remote that has died, so that a listener   *)
(* set after it has been dropped is a late one.                            *)
DeathsInv ==
    /\ DeadServiceIsForgotten /\ CameraLearnsOfDeath
    /\ mNotices # {} \/ mObituary # "none" => ~Lives(mCamera)

ClientIInv ==
    /\ PointersInv /\ ThreadsInv /\ ConnectInv /\ RecordInv /\ FramesInv /\ ListenersInv
    /\ DeathsInv /\ CopiesAreSafe

(* The bounds are numbers. *)
LEMMA ClientConstants == MaxDeaths \in Nat /\ MaxFrames \in Nat /\ MaxStops \in Nat
BY ClientAssumption DEF ClientAssumption

(* The invariant of the client holds at the start. *)
LEMMA ClientInit == CameraClientInit => ClientIInv
<1> SUFFICES ASSUME CameraClientInit PROVE ClientIInv
    OBVIOUS
<1> USE ClientConstants
<1>1. PointersInv
    BY DEF CameraClientInit, PointersInv
<1>2. ThreadsInv
  <2>1. IdleThread \in ThreadStates
      BY DEF IdleThread, ThreadStates
  <2>2. ThreadOK(IdleThread)
      BY DEF IdleThread, ThreadOK, ThreadFits
  <2> QED BY <2>1, <2>2 DEF CameraClientInit, ThreadsInv
<1>3. ConnectInv
    BY DEF CameraClientInit, ConnectInv, IdleThread
<1>4. RecordInv
    BY DEF CameraClientInit, RecordInv
<1>5. FramesInv
    BY DEF CameraClientInit, FramesInv
<1>6. ListenersInv
    BY DEF CameraClientInit, ListenersInv
<1>7. DeathsInv
    BY DEF CameraClientInit, DeathsInv, DeadServiceIsForgotten, CameraLearnsOfDeath
<1>8. CopiesAreSafe
    BY DEF CameraClientInit, CopiesAreSafe
<1> QED BY <1>1, <1>2, <1>3, <1>4, <1>5, <1>6, <1>7, <1>8 DEF ClientIInv

(* The service moves on, sessions are counted up, a listener is set: what  *)
(* the other threads are doing stays possible.                             *)
LEMMA FitsOn ==
    ASSUME NEW th \in ThreadStates, NEW i1 \in Nat, NEW i2 \in Nat, i1 <= i2,
           NEW s1 \in Nat, NEW s2 \in Nat, s1 <= s2, NEW l1, NEW l2,
           s1 = s2 /\ l1 = TRUE => l2 = TRUE, ThreadFits(th, i1, s1, l1)
    PROVE  ThreadFits(th, i2, s2, l2)
<1>1. th.p \in Nat
    BY DEF ThreadStates
<1>2. th.at = "connected" => th.op = "connect" /\ th.p >= 1 /\ th.p <= i2
    BY <1>1 DEF ThreadFits
<1>3. th.at = "start" => th.op \in {"app", "proxy"} /\ th.p <= s2
    BY <1>1 DEF ThreadFits
<1>4. th.at = "start" /\ th.op = "proxy" /\ th.p = s2 => l2 = TRUE
    BY <1>1 DEF ThreadFits
<1> QED BY <1>2, <1>3, <1>4 DEF ThreadFits

(* One thread goes on to a state that fits, and what the other threads     *)
(* have read stays as good as it was.                                      *)
LEMMA ThreadsGoOn ==
    ASSUME ClientIInv, NEW t \in ClientThreads, NEW th \in ThreadStates,
           kThread' = [kThread EXCEPT ![t] = th],
           incarnation' \in Nat, incarnation <= incarnation',
           kSession' \in Nat, kSession <= kSession',
           kSession = kSession' /\ mRecordingProxyListener = TRUE => mRecordingProxyListener' = TRUE,
           ThreadFits(th, incarnation', kSession', mRecordingProxyListener')
    PROVE  /\ ThreadsInv'
           /\ kThread'[t] = th
           /\ \A u \in ClientThreads \ {t} : kThread'[u] = kThread[u]
<1>1. kThread'[t] = th /\ \A u \in ClientThreads \ {t} : kThread'[u] = kThread[u]
    BY DEF ClientIInv, ThreadsInv
<1>2. kThread' \in [ClientThreads -> ThreadStates]
    BY DEF ClientIInv, ThreadsInv
<1>3. ASSUME NEW u \in ClientThreads \ {t}
      PROVE  ThreadFits(kThread'[u], incarnation', kSession', mRecordingProxyListener')
  <2>1. kThread[u] \in ThreadStates /\ ThreadFits(kThread[u], incarnation, kSession, mRecordingProxyListener)
      BY DEF ClientIInv, ThreadsInv, ThreadOK
  <2>2. incarnation \in Nat /\ kSession \in Nat
      BY DEF ClientIInv, PointersInv, FramesInv
  <2> QED BY <1>1, <2>1, <2>2, FitsOn
<1> QED BY <1>1, <1>2, <1>3 DEF ThreadsInv, ThreadOK

(* A thread that has returned fits everything. *)
LEMMA IdleFits ==
    ASSUME NEW inc, NEW i, NEW l
    PROVE  IdleThread \in ThreadStates /\ ThreadFits(IdleThread, inc, i, l)
BY DEF ThreadFits, IdleThread, ThreadStates

(* What a thread that has returned is not doing. *)
LEMMA IdleFields == IdleThread.op = "idle" /\ IdleThread.at \notin {"unlink", "start"}
BY DEF IdleThread

(* A thread returns from its call. *)
LEMMA ThreadReturns ==
    ASSUME ClientIInv, NEW t \in ClientThreads, Returns(t),
           UNCHANGED <<incarnation, kSession, mRecordingProxyListener>>
    PROVE  /\ ThreadsInv'
           /\ kThread'[t] = IdleThread
           /\ \A u \in ClientThreads \ {t} : kThread'[u] = kThread[u]
<1>1. IdleThread \in ThreadStates /\ ThreadFits(IdleThread, incarnation', kSession', mRecordingProxyListener')
    BY IdleFits
<1>2. incarnation \in Nat /\ kSession \in Nat
    BY DEF ClientIInv, PointersInv, FramesInv
<1>3. kThread' = [kThread EXCEPT ![t] = IdleThread]
    BY DEF Returns
<1>4. /\ incarnation' \in Nat /\ incarnation <= incarnation'
      /\ kSession' \in Nat /\ kSession <= kSession'
    BY <1>2
<1>5. kSession = kSession' /\ mRecordingProxyListener = TRUE => mRecordingProxyListener' = TRUE
    OBVIOUS
<1> QED BY <1>1, <1>3, <1>4, <1>5, ThreadsGoOn

(* A recording goes on, or there is none. *)
LEMMA RecordingKept ==
    ASSUME ClientIInv, UNCHANGED <<kRecording, mCamera, published, incarnation, kSession>>,
           mRecordingProxyListener = TRUE => mRecordingProxyListener' = TRUE,
           \A u \in ClientThreads : kThread'[u].at = "unlink" => kThread[u].at = "unlink"
    PROVE  RecordInv'
BY DEF ClientIInv, RecordInv, Lives

(* Nothing is asked of the listeners while the service records nothing. *)
LEMMA NoRecording ==
    ASSUME kRecording' = <<>>
    PROVE  RecordInv'
BY DEF RecordInv

(* A thread that stays out of connect does not disturb one that connects.  *)
LEMMA ConnectKept ==
    ASSUME ClientIInv, NEW t \in ClientThreads, UNCHANGED <<mCamera, kRecording, kFrames>>,
           \A u \in ClientThreads \ {t} : kThread'[u] = kThread[u],
           \/ kThread'[t].op \in {"idle", "getCameraInfo", "getNumberOfCameras"}
           \/ kThread'[t].op = kThread[t].op
           \/ mCamera # 0 /\ kThread'[t].op # "connect"
    PROVE  ConnectInv'
BY DEF ClientIInv, ConnectInv

(* The service dies: whoever was linked to it has an obituary to come. *)
LEMMA ServiceDownKeeps ==
    ASSUME ClientIInv, ServiceDown
    PROVE  ClientIInv'
<1> USE ClientConstants DEF ClientIInv
<1>1. PointersInv'
    BY DEF PointersInv, ServiceDown
<1>2. ThreadsInv'
    BY DEF ThreadsInv, ThreadOK, ServiceDown, listenerVars
<1>3. ConnectInv'
    BY DEF ConnectInv, ThreadsInv, ThreadStates, ThreadOK, IdleThread, ServiceDown
<1>4. RecordInv'
    BY NoRecording DEF ServiceDown
<1>5. FramesInv'
    BY DEF FramesInv, FrameOK, ServiceDown, listenerVars
<1>6. ListenersInv'
    BY DEF ListenersInv, ServiceDown, listenerVars
<1>7. DeathsInv'
    BY DEF DeathsInv, DeadServiceIsForgotten, CameraLearnsOfDeath, Lives, PointersInv, ServiceDown, listenerVars
<1>8. CopiesAreSafe'
    BY DEF CopiesAreSafe, ServiceDown
<1> QED BY <1>1, <1>2, <1>3, <1>4, <1>5, <1>6, <1>7, <1>8

(* A new service has a number nobody holds. *)
LEMMA ServiceUpKeeps ==
    ASSUME ClientIInv, ServiceUp
    PROVE  ClientIInv'
<1> USE ClientConstants DEF ClientIInv
<1>1. PointersInv'
    BY DEF PointersInv, ServiceUp, cacheVars, cameraVars
<1>2. ThreadsInv'
  <2>1. ASSUME NEW u \in ClientThreads
        PROVE  ThreadFits(kThread[u], incarnation', kSession, mRecordingProxyListener)
    <3>1. incarnation \in Nat /\ incarnation' \in Nat /\ incarnation <= incarnation' /\ kSession \in Nat
        BY DEF PointersInv, FramesInv, ServiceUp
    <3>2. kThread[u] \in ThreadStates /\ ThreadFits(kThread[u], incarnation, kSession, mRecordingProxyListener)
        BY DEF ThreadsInv, ThreadOK
    <3>3. kSession <= kSession
        BY <3>1
    <3> QED BY <3>1, <3>2, <3>3, FitsOn
  <2> QED BY <2>1 DEF ThreadsInv, ThreadOK, ServiceUp, recordVars, listenerVars
<1>3. ConnectInv'
    BY DEF ConnectInv, ThreadsInv, ThreadStates, ThreadOK, IdleThread, ServiceUp, cameraVars, recordVars
<1>4. RecordInv'
    BY DEF RecordInv, Lives, IdleThread, ThreadsInv, ThreadStates, ServiceUp, cameraVars, listenerVars, recordVars
<1>5. FramesInv'
    BY DEF FramesInv, FrameOK, ServiceUp, listenerVars, recordVars
<1>6. ListenersInv'
    BY DEF ListenersInv, ServiceUp, listenerVars
<1>7. DeathsInv'
    BY DEF DeathsInv, DeadServiceIsForgotten, CameraLearnsOfDeath, Lives, PointersInv, ServiceUp, cacheVars, cameraVars, listenerVars
<1>8. CopiesAreSafe'
    BY DEF CopiesAreSafe, ServiceUp
<1> QED BY <1>1, <1>2, <1>3, <1>4, <1>5, <1>6, <1>7, <1>8

(* The obituary of the service clears the cache. *)
LEMMA ServiceDiedKeeps ==
    ASSUME ClientIInv, NEW i, ServiceDied(i)
    PROVE  ClientIInv'
<1> USE ClientConstants DEF ClientIInv
<1>1. PointersInv'
    BY DEF PointersInv, ServiceDied, serviceVars, cameraVars
<1>2. ThreadsInv'
    BY DEF ThreadsInv, ThreadOK, ServiceDied, serviceVars, listenerVars, recordVars
<1>3. ConnectInv'
    BY DEF ConnectInv, ThreadsInv, ThreadStates, ThreadOK, IdleThread, ServiceDied, cameraVars, recordVars
<1>4. RecordInv'
    BY DEF RecordInv, Lives, IdleThread, ThreadsInv, ThreadStates, ServiceDied, serviceVars, cameraVars, listenerVars, recordVars
<1>5. FramesInv'
    BY DEF FramesInv, FrameOK, ServiceDied, listenerVars, recordVars
<1>6. ListenersInv'
    BY DEF ListenersInv, ServiceDied, listenerVars
<1>7. DeathsInv'
    BY DEF DeathsInv, DeadServiceIsForgotten, CameraLearnsOfDeath, Lives, PointersInv, ServiceDied, serviceVars, cameraVars, listenerVars
<1>8. CopiesAreSafe'
    BY DEF CopiesAreSafe, ServiceDied
<1> QED BY <1>1, <1>2, <1>3, <1>4, <1>5, <1>6, <1>7, <1>8

(* The obituary of the camera is passed on. *)
LEMMA CameraDiedKeeps ==
    ASSUME ClientIInv, NEW i, CameraDied(i)
    PROVE  ClientIInv'
<1> USE ClientConstants DEF ClientIInv
<1>1. PointersInv'
    BY DEF PointersInv, CameraDied, serviceVars, cacheVars
<1>2. ThreadsInv'
    BY DEF ThreadsInv, ThreadOK, CameraDied, serviceVars, listenerVars, recordVars
<1>3. ConnectInv'
    BY DEF ConnectInv, ThreadsInv, ThreadStates, ThreadOK, IdleThread, CameraDied, recordVars
<1>4. RecordInv'
    BY DEF RecordInv, Lives, IdleThread, ThreadsInv, ThreadStates, CameraDied, serviceVars, listenerVars, recordVars
<1>5. FramesInv'
    BY DEF FramesInv, FrameOK, CameraDied, listenerVars, recordVars
<1>6. ListenersInv'
    BY DEF ListenersInv, CameraDied, listenerVars
<1>7. DeathsInv'
  <2>1. ~Lives(mCamera) /\ mNotices' = {} /\ UNCHANGED <<mCamera, mListening, published, incarnation>>
      BY DEF DeathsInv, PointersInv, CameraDied, serviceVars, listenerVars
  <2>2. mObituary' = "told" \/ (mObituary' = "dropped" /\ mListener # TRUE)
      BY DEF CameraDied
  <2>3. mObituary' = "told" \/ (mObituary' = "dropped" /\ ~mListening')
      BY <2>1, <2>2 DEF ListenersInv
  <2>4. DeadServiceIsForgotten'
      BY DEF DeathsInv, DeadServiceIsForgotten, Lives, CameraDied, serviceVars, cacheVars
  <2> QED BY <2>1, <2>3, <2>4 DEF DeathsInv, CameraLearnsOfDeath, Lives
<1>8. CopiesAreSafe'
    BY DEF CopiesAreSafe, CameraDied
<1> QED BY <1>1, <1>2, <1>3, <1>4, <1>5, <1>6, <1>7, <1>8

(* The service sends a frame. *)
LEMMA MakeFrameKeeps ==
    ASSUME ClientIInv, MakeFrame
    PROVE  ClientIInv'
<1> USE ClientConstants DEF ClientIInv
<1>1. PointersInv'
    BY DEF PointersInv, MakeFrame, serviceVars, cacheVars, cameraVars
<1>2. ThreadsInv'
    BY DEF ThreadsInv, ThreadOK, MakeFrame, serviceVars, listenerVars
<1>3. ConnectInv'
    BY DEF ConnectInv, ThreadsInv, ThreadStates, ThreadOK, IdleThread, MakeFrame, cameraVars
<1>4. RecordInv'
    BY DEF RecordInv, Lives, IdleThread, ThreadsInv, ThreadStates, MakeFrame, serviceVars, cameraVars, listenerVars
<1>5. FramesInv'
  <2> DEFINE f == [by |-> kRecording[1].by, session |-> kRecording[1].session, at |-> "sent"]
  <2>1. kRecording[1] \in ClientRecords
      BY DEF MakeFrame, RecordInv
  <2>2. f \in FrameStates
      BY <2>1 DEF FrameStates, ClientRecords
  <2>3. FrameOK(f)
      BY DEF FrameOK, RecordInv, MakeFrame
  <2>4. kFrames' = Append(kFrames, f) /\ UNCHANGED <<kSession, mRecordingProxyListener>>
      BY DEF MakeFrame, listenerVars
  <2>5. /\ kFrames' \in Seq(FrameStates) /\ Len(kFrames') <= MaxFrames
        /\ \A n \in DOMAIN kFrames' : kFrames'[n] = f \/ (n \in DOMAIN kFrames /\ kFrames'[n] = kFrames[n])
      BY <2>2, <2>4 DEF FramesInv, MakeFrame
  <2> QED BY <2>3, <2>4, <2>5 DEF FramesInv, FrameOK
<1>6. ListenersInv'
    BY DEF ListenersInv, MakeFrame, listenerVars
<1>7. DeathsInv'
    BY DEF DeathsInv, DeadServiceIsForgotten, CameraLearnsOfDeath, Lives, PointersInv, MakeFrame, serviceVars, cacheVars, cameraVars, listenerVars
<1>8. CopiesAreSafe'
    BY DEF CopiesAreSafe, MakeFrame
<1> QED BY <1>1, <1>2, <1>3, <1>4, <1>5, <1>6, <1>7, <1>8

(* A frame passes the two listeners, each read under its lock. *)
LEMMA dataCallbackTimestampKeeps ==
    ASSUME ClientIInv, dataCallbackTimestamp
    PROVE  ClientIInv'
<1> USE ClientConstants DEF ClientIInv
<1>u. UNCHANGED <<serviceVars, cacheVars, cameraVars, listenerVars, kRecording, kSession, kThread, kFaults>>
    BY DEF dataCallbackTimestamp, FrameStep
<1>1. PointersInv'
    BY <1>u DEF PointersInv, serviceVars, cacheVars, cameraVars
<1>2. ThreadsInv'
    BY <1>u DEF ThreadsInv, ThreadOK, serviceVars, listenerVars
<1>3. ConnectInv'
  <2>1. PICK n \in DOMAIN kFrames : kFrames[n].at \notin FrameDone
      BY DEF dataCallbackTimestamp
  <2>2. \A t \in ClientThreads : kThread[t].op # "connect"
      BY <2>1 DEF ConnectInv
  <2> QED BY <2>2, <1>u DEF ConnectInv
<1>4. RecordInv'
  <2>1. UNCHANGED <<kRecording, mCamera, published, incarnation, kSession, mRecordingProxyListener, kThread>>
      BY <1>u DEF serviceVars, cameraVars, listenerVars
  <2> QED BY <2>1, RecordingKept
<1>5. FramesInv'
  <2>1. PICK n \in DOMAIN kFrames : kFrames[n].at \notin FrameDone /\ FrameStep(n)
      BY DEF dataCallbackTimestamp
  <2> DEFINE x == CASE kFrames[n].at = "sent" -> IF mRecordingProxyListener THEN "forward" ELSE "none"
                    [] kFrames[n].at = "none" -> IF mListener THEN "post" ELSE "release"
                    [] kFrames[n].at = "forward" -> "proxy"
                    [] kFrames[n].at = "post" -> "app"
                    [] kFrames[n].at = "release" -> IF mCamera = 0 THEN "dropped" ELSE "released"
             f == [kFrames[n] EXCEPT !.at = x]
  <2>2. kFrames[n] \in FrameStates /\ FrameOK(kFrames[n])
      BY DEF FramesInv
  <2>3. kFrames[n].at \in {"sent", "none", "forward", "post", "release"}
      BY <2>1, <2>2 DEF FrameStates
  <2>4. /\ x \in FrameDone \cup {"none", "forward", "post", "release"}
        /\ x = "none" => kFrames[n].at = "sent" /\ mRecordingProxyListener # TRUE
        /\ x \in {"post", "app", "release", "released"} => kFrames[n].at \in {"none", "post", "release"}
      BY <2>3 DEF FrameDone
  <2> HIDE DEF x
  <2>5. f \in FrameStates /\ f.by = kFrames[n].by /\ f.session = kFrames[n].session /\ f.at = x
      BY <2>2, <2>4 DEF FrameStates
  <2>6. FrameOK(f)
    <3>1. f.session <= kSession /\ f.at # "sent"
        BY <2>2, <2>4, <2>5 DEF FrameOK, FrameDone
    <3>2. f.by = "proxy" /\ f.at = "none" => f.session < kSession
      <4>1. kFrames[n].session \in Nat /\ kSession \in Nat /\ kFrames[n].session <= kSession
          BY <2>2 DEF FrameStates, FramesInv, FrameOK
      <4>2. x = "none" /\ kFrames[n].by = "proxy" => kFrames[n].session # kSession
          BY <2>2, <2>4 DEF FrameOK
      <4> QED BY <2>5, <4>1, <4>2
    <3>3. f.by = "proxy" /\ f.at \in {"post", "app", "release", "released"} => f.session < kSession
        BY <2>2, <2>4, <2>5 DEF FrameOK
    <3> QED BY <3>1, <3>2, <3>3 DEF FrameOK
  <2>7. kFrames' = [kFrames EXCEPT ![n] = f]
      BY <2>1 DEF FrameStep, FrameIs, x
  <2>8. /\ kFrames' \in Seq(FrameStates) /\ Len(kFrames') = Len(kFrames)
        /\ \A k \in DOMAIN kFrames' : k \in DOMAIN kFrames /\ (kFrames'[k] = f \/ kFrames'[k] = kFrames[k])
      BY <2>5, <2>7 DEF FramesInv
  <2>9. UNCHANGED <<kSession, mRecordingProxyListener>>
      BY <1>u DEF listenerVars
  <2> QED BY <2>6, <2>8, <2>9 DEF FramesInv, FrameOK
<1>6. ListenersInv'
    BY <1>u DEF ListenersInv, listenerVars
<1>7. DeathsInv'
    BY <1>u DEF DeathsInv, DeadServiceIsForgotten, CameraLearnsOfDeath, Lives, serviceVars, cacheVars, cameraVars, listenerVars
<1>8. CopiesAreSafe'
    BY <1>u DEF CopiesAreSafe
<1> QED BY <1>1, <1>2, <1>3, <1>4, <1>5, <1>6, <1>7, <1>8

(* A thread takes the cached service, or looks it up and links to its      *)
(* death.                                                                  *)
LEMMA getCameraServiceKeeps ==
    ASSUME ClientIInv, NEW t \in ClientThreads, NEW op \in ServiceOps, getCameraService(t, op)
    PROVE  ClientIInv'
<1> USE ClientConstants DEF ClientIInv
<1>t. /\ ThreadsInv'
      /\ kThread'[t] = [op |-> op, at |-> "got", p |-> 0]
      /\ \A u \in ClientThreads \ {t} : kThread'[u] = kThread[u]
  <2>1. [op |-> op, at |-> "got", p |-> 0] \in ThreadStates
      BY DEF ThreadStates, ServiceOps, MethodOps, PointersInv, FramesInv, ThreadsInv
  <2>2. ThreadFits([op |-> op, at |-> "got", p |-> 0], incarnation', kSession', mRecordingProxyListener')
      BY DEF ThreadFits, ServiceOps, MethodOps, PointersInv, FramesInv, getCameraService, IsIdle, serviceVars, listenerVars, recordVars
  <2>3. /\ incarnation' \in Nat /\ incarnation <= incarnation' /\ kSession' \in Nat /\ kSession <= kSession'
        /\ kSession = kSession' /\ mRecordingProxyListener = TRUE => mRecordingProxyListener' = TRUE
      BY DEF PointersInv, FramesInv, getCameraService, serviceVars, listenerVars, recordVars
  <2>4. kThread' = [kThread EXCEPT ![t] = [op |-> op, at |-> "got", p |-> 0]]
      BY DEF getCameraService, GoOn
  <2> QED BY <2>1, <2>2, <2>3, <2>4, ThreadsGoOn
<1>s. kThread'[t].op \in {op} /\ kThread'[t].at \in {"got"}
    BY <1>t, IdleFields
<1>1. PointersInv'
  <2>1. CASE gCameraService = 0
      BY <2>1 DEF PointersInv, linkToDeath, getCameraService, cacheVars, serviceVars, cameraVars
  <2>2. CASE gCameraService # 0
      BY <2>2 DEF PointersInv, getCameraService, cacheVars, serviceVars, cameraVars
  <2> QED BY <2>1, <2>2
<1>2. ThreadsInv'
    BY <1>t
<1>3. ConnectInv'
  <2>1. CASE op = "connect"
    <3>1. mCamera' = 0 /\ UNCHANGED <<kRecording, kFrames>> /\ NoCamera
        BY <2>1 DEF getCameraService, NoCamera, cameraVars, recordVars
    <3>2. kRecording = <<>>
        BY <3>1 DEF NoCamera, RecordInv
    <3> QED BY <2>1, <1>t, <3>1, <3>2 DEF ConnectInv, NoCamera
  <2>2. CASE op # "connect"
      BY <2>2, <1>t, ConnectKept DEF ServiceOps, cameraVars, recordVars, getCameraService
  <2> QED BY <2>1, <2>2
<1>4. RecordInv'
  <2>1. /\ UNCHANGED <<kRecording, mCamera, published, incarnation, kSession>>
        /\ mRecordingProxyListener = TRUE => mRecordingProxyListener' = TRUE
      BY DEF getCameraService, serviceVars, cameraVars, listenerVars, recordVars
  <2>2. \A u \in ClientThreads : kThread'[u].at = "unlink" => kThread[u].at = "unlink"
      BY <1>t, <1>s, IdleFields
  <2> QED BY <2>1, <2>2, RecordingKept
<1>5. FramesInv'
    BY DEF FramesInv, FrameOK, getCameraService, listenerVars, recordVars
<1>6. ListenersInv'
    BY DEF ListenersInv, getCameraService, listenerVars
<1>7. DeathsInv'
    BY DEF DeathsInv, DeadServiceIsForgotten, CameraLearnsOfDeath, Lives, PointersInv, getCameraService, serviceVars, cacheVars, cameraVars, listenerVars
<1>8. CopiesAreSafe'
    BY DEF CopiesAreSafe, getCameraService
<1> QED BY <1>1, <1>2, <1>3, <1>4, <1>5, <1>6, <1>7, <1>8

(* A thread looks at the service it was given. *)
LEMMA CheckServiceKeeps ==
    ASSUME ClientIInv, NEW t \in ClientThreads, CheckService(t)
    PROVE  ClientIInv'
<1> USE ClientConstants DEF ClientIInv
<1>t. /\ ThreadsInv'
      /\ kThread'[t] = IdleThread \/ kThread'[t] = [op |-> kThread[t].op, at |-> "checked", p |-> IF kThread[t].op = "getNumberOfCameras" THEN gCameraService ELSE 0]
      /\ \A u \in ClientThreads \ {t} : kThread'[u] = kThread[u]
  <2>1. CASE gCameraService # 0
    <3>1. [op |-> kThread[t].op, at |-> "checked", p |-> IF kThread[t].op = "getNumberOfCameras" THEN gCameraService ELSE 0] \in ThreadStates
        BY <2>1 DEF ThreadStates, ServiceOps, MethodOps, PointersInv, ThreadsInv
    <3>2. ThreadFits([op |-> kThread[t].op, at |-> "checked", p |-> IF kThread[t].op = "getNumberOfCameras" THEN gCameraService ELSE 0], incarnation', kSession', mRecordingProxyListener')
        BY <2>1 DEF ThreadFits, ThreadsInv, ThreadOK, ServiceOps, MethodOps, PointersInv, Lives, CheckService, Doing, serviceVars, listenerVars, recordVars
    <3>3. /\ incarnation' \in Nat /\ incarnation <= incarnation' /\ kSession' \in Nat /\ kSession <= kSession'
          /\ kSession = kSession' /\ mRecordingProxyListener = TRUE => mRecordingProxyListener' = TRUE
        BY DEF PointersInv, FramesInv, CheckService, serviceVars, listenerVars, recordVars
    <3>4. kThread' = [kThread EXCEPT ![t] = [op |-> kThread[t].op, at |-> "checked", p |-> IF kThread[t].op = "getNumberOfCameras" THEN gCameraService ELSE 0]]
        BY <2>1 DEF CheckService, GoOn, Returns
    <3> QED BY <3>1, <3>2, <3>3, <3>4, ThreadsGoOn
  <2>2. CASE ~(gCameraService # 0)
      BY <2>2, ThreadReturns DEF CheckService, serviceVars, listenerVars, recordVars
  <2> QED BY <2>1, <2>2
<1>s. kThread'[t].op \in {"idle", kThread[t].op} /\ kThread'[t].at \in {IdleThread.at, "checked"}
    BY <1>t, IdleFields
<1>1. PointersInv'
    BY DEF PointersInv, CheckService, serviceVars, cacheVars, cameraVars
<1>2. ThreadsInv'
    BY <1>t
<1>3. ConnectInv'
  <2>1. UNCHANGED <<mCamera, kRecording, kFrames>>
      BY DEF CheckService, cameraVars, recordVars
  <2>2. kThread'[t].op \in {"idle", "getCameraInfo", "getNumberOfCameras"} \/ kThread'[t].op = kThread[t].op
      BY <1>s DEF CheckService
  <2> QED BY <1>t, <2>1, <2>2, ConnectKept
<1>4. RecordInv'
  <2>1. /\ UNCHANGED <<kRecording, mCamera, published, incarnation, kSession>>
        /\ mRecordingProxyListener = TRUE => mRecordingProxyListener' = TRUE
      BY DEF CheckService, serviceVars, cameraVars, listenerVars, recordVars
  <2>2. \A u \in ClientThreads : kThread'[u].at = "unlink" => kThread[u].at = "unlink"
      BY <1>t, <1>s, IdleFields
  <2> QED BY <2>1, <2>2, RecordingKept
<1>5. FramesInv'
    BY DEF FramesInv, FrameOK, CheckService, listenerVars, recordVars
<1>6. ListenersInv'
    BY DEF ListenersInv, CheckService, listenerVars
<1>7. DeathsInv'
    BY DEF DeathsInv, DeadServiceIsForgotten, CameraLearnsOfDeath, Lives, PointersInv, CheckService, serviceVars, cacheVars, cameraVars, listenerVars
<1>8. CopiesAreSafe'
    BY DEF CopiesAreSafe, CheckService
<1> QED BY <1>1, <1>2, <1>3, <1>4, <1>5, <1>6, <1>7, <1>8

(* A thread calls the service, which accepts, refuses or is dead. *)
LEMMA CallServiceKeeps ==
    ASSUME ClientIInv, NEW t \in ClientThreads, NEW accepted \in BOOLEAN, CallService(t, accepted)
    PROVE  ClientIInv'
<1> USE ClientConstants DEF ClientIInv
<1>t. /\ ThreadsInv'
      /\ kThread'[t] = IdleThread \/ kThread'[t] = [op |-> "connect", at |-> "connected", p |-> ServicePointer(t)]
      /\ \A u \in ClientThreads \ {t} : kThread'[u] = kThread[u]
  <2>1. CASE ServicePointer(t) # 0 /\ kThread[t].op = "connect" /\ Lives(ServicePointer(t)) /\ accepted
    <3>1. [op |-> "connect", at |-> "connected", p |-> ServicePointer(t)] \in ThreadStates
        BY <2>1 DEF ThreadStates, ServiceOps, MethodOps, PointersInv, ThreadsInv, ServicePointer
    <3>2. ThreadFits([op |-> "connect", at |-> "connected", p |-> ServicePointer(t)], incarnation', kSession', mRecordingProxyListener')
        BY <2>1 DEF ThreadFits, ThreadsInv, ThreadOK, ServiceOps, MethodOps, PointersInv, Lives, CallService, ServicePointer, Doing, serviceVars, listenerVars, recordVars
    <3>3. /\ incarnation' \in Nat /\ incarnation <= incarnation' /\ kSession' \in Nat /\ kSession <= kSession'
          /\ kSession = kSession' /\ mRecordingProxyListener = TRUE => mRecordingProxyListener' = TRUE
        BY DEF PointersInv, FramesInv, CallService, serviceVars, listenerVars, recordVars
    <3>4. kThread' = [kThread EXCEPT ![t] = [op |-> "connect", at |-> "connected", p |-> ServicePointer(t)]]
        BY <2>1 DEF CallService, ServicePointer, GoOn, Returns
    <3> QED BY <3>1, <3>2, <3>3, <3>4, ThreadsGoOn
  <2>2. CASE ~(ServicePointer(t) # 0 /\ kThread[t].op = "connect" /\ Lives(ServicePointer(t)) /\ accepted)
      BY <2>2, ThreadReturns DEF CallService, ServicePointer, serviceVars, listenerVars, recordVars
  <2> QED BY <2>1, <2>2
<1>s. kThread'[t].op \in {"idle", "connect"} /\ kThread'[t].at \in {IdleThread.at, "connected"}
    BY <1>t, IdleFields
<1>1. PointersInv'
    BY DEF PointersInv, CallService, serviceVars, cacheVars, cameraVars
<1>2. ThreadsInv'
    BY <1>t
<1>3. ConnectInv'
  <2>1. UNCHANGED <<mCamera, kRecording, kFrames>>
      BY DEF CallService, cameraVars, recordVars
  <2>2. kThread'[t].op = "idle" \/ kThread'[t].op = kThread[t].op
    <3>1. CASE kThread[t].op = "connect"
        BY <1>s, <3>1
    <3>2. CASE kThread[t].op # "connect"
        BY <3>2, IdleFields DEF CallService, Returns, ThreadsInv
    <3> QED BY <3>1, <3>2
  <2> QED BY <1>t, <2>1, <2>2, ConnectKept
<1>4. RecordInv'
  <2>1. /\ UNCHANGED <<kRecording, mCamera, published, incarnation, kSession>>
        /\ mRecordingProxyListener = TRUE => mRecordingProxyListener' = TRUE
      BY DEF CallService, serviceVars, cameraVars, listenerVars, recordVars
  <2>2. \A u \in ClientThreads : kThread'[u].at = "unlink" => kThread[u].at = "unlink"
      BY <1>t, <1>s, IdleFields
  <2> QED BY <2>1, <2>2, RecordingKept
<1>5. FramesInv'
    BY DEF FramesInv, FrameOK, CallService, listenerVars, recordVars
<1>6. ListenersInv'
    BY DEF ListenersInv, CallService, listenerVars
<1>7. DeathsInv'
    BY DEF DeathsInv, DeadServiceIsForgotten, CameraLearnsOfDeath, Lives, PointersInv, CallService, serviceVars, cacheVars, cameraVars, listenerVars
<1>8. CopiesAreSafe'
  <2>1. kThread[t].op \in {"startPreview", "getNumberOfCameras"} => ServicePointer(t) # 0
      BY DEF CallService, ThreadsInv, ThreadOK, ThreadFits, ThreadStates, ServicePointer, Doing, ServiceOps, MethodOps
  <2> QED BY <2>1 DEF CopiesAreSafe, CallService
<1> QED BY <1>1, <1>2, <1>3, <1>4, <1>5, <1>6, <1>7, <1>8

(* The connected camera is linked and kept. *)
LEMMA ConnectedKeeps ==
    ASSUME ClientIInv, NEW t \in ClientThreads, Connected(t)
    PROVE  ClientIInv'
<1> USE ClientConstants DEF ClientIInv
<1>c. /\ kThread[t] \in ThreadStates /\ kThread[t].op = "connect"
      /\ kThread[t].p >= 1 /\ kThread[t].p <= incarnation
      /\ kRecording = <<>> /\ \A n \in DOMAIN kFrames : kFrames[n].at \in FrameDone
      /\ \A u \in ClientThreads \ {t} : kThread[u].op \in {"idle", "getCameraInfo", "getNumberOfCameras"}
    BY DEF Connected, Doing, ThreadsInv, ThreadOK, ThreadFits, ConnectInv
<1>t. /\ kThread' \in [ClientThreads -> ThreadStates]
      /\ kThread'[t] = IdleThread
      /\ \A u \in ClientThreads \ {t} : kThread'[u] = kThread[u]
    BY IdleFits DEF Connected, Returns, ThreadsInv
<1>1. PointersInv'
  <2>1. kThread[t].p \in Nat
      BY <1>c DEF ThreadStates
  <2> QED BY <1>c, <2>1 DEF PointersInv, Connected, LinkCamera, serviceVars, cacheVars
<1>2. ThreadsInv'
  <2>1. ASSUME NEW u \in ClientThreads \ {t}
        PROVE  ThreadFits(kThread[u], incarnation, kSession, mRecordingProxyListener')
      BY <1>c DEF ThreadsInv, ThreadOK, ThreadFits
  <2>2. ThreadFits(IdleThread, incarnation, kSession, mRecordingProxyListener')
      BY IdleFits
  <2> QED BY <1>t, <2>1, <2>2 DEF ThreadsInv, ThreadOK, Connected, serviceVars, recordVars
<1>3. ConnectInv'
  <2>1. ASSUME NEW u \in ClientThreads
        PROVE  kThread'[u].op # "connect"
    <3>1. CASE u = t
        BY <3>1, <1>t, IdleFields
    <3>2. CASE u # t
      <4>1. kThread'[u] = kThread[u] /\ kThread[u].op \in {"idle", "getCameraInfo", "getNumberOfCameras"}
          BY <3>2, <1>t, <1>c
      <4> QED BY <4>1
    <3> QED BY <3>1, <3>2
  <2> QED BY <2>1 DEF ConnectInv
<1>4. RecordInv'
    BY <1>c, NoRecording DEF Connected, recordVars
<1>5. FramesInv'
  <2>1. \A n \in DOMAIN kFrames : kFrames[n].at # "sent"
      BY <1>c DEF FrameDone
  <2> QED BY <2>1 DEF FramesInv, FrameOK, Connected, recordVars
<1>6. ListenersInv'
    BY DEF ListenersInv, Connected
<1>7. DeathsInv'
    BY DEF DeathsInv, DeadServiceIsForgotten, CameraLearnsOfDeath, Lives, PointersInv, Connected, LinkCamera, serviceVars, cacheVars
<1>8. CopiesAreSafe'
    BY DEF CopiesAreSafe, Connected
<1> QED BY <1>1, <1>2, <1>3, <1>4, <1>5, <1>6, <1>7, <1>8

(* The application sets or clears its listener. *)
LEMMA setListenerKeeps ==
    ASSUME ClientIInv, NEW t \in ClientThreads, NEW set \in BOOLEAN, setListener(t, set)
    PROVE  ClientIInv'
<1> USE ClientConstants DEF ClientIInv
<1>1. PointersInv'
    BY DEF PointersInv, setListener, serviceVars, cacheVars, cameraVars
<1>2. ThreadsInv'
    BY DEF ThreadsInv, ThreadOK, setListener, serviceVars, recordVars
<1>3. ConnectInv'
    BY DEF ConnectInv, ThreadsInv, ThreadStates, ThreadOK, IdleThread, setListener, cameraVars, recordVars
<1>4. RecordInv'
    BY DEF RecordInv, Lives, IdleThread, ThreadsInv, ThreadStates, setListener, serviceVars, cameraVars, recordVars
<1>5. FramesInv'
    BY DEF FramesInv, FrameOK, setListener, recordVars
<1>6. ListenersInv'
    BY DEF ListenersInv, setListener
<1>7. DeathsInv'
    BY DEF DeathsInv, DeadServiceIsForgotten, CameraLearnsOfDeath, Lives, PointersInv, setListener, serviceVars, cacheVars, cameraVars
<1>8. CopiesAreSafe'
    BY DEF CopiesAreSafe, setListener
<1> QED BY <1>1, <1>2, <1>3, <1>4, <1>5, <1>6, <1>7, <1>8

(* A method copies what it needs of the camera. *)
LEMMA MethodStartKeeps ==
    ASSUME ClientIInv, NEW t \in ClientThreads, NEW op \in MethodOps, MethodStart(t, op)
    PROVE  ClientIInv'
<1> USE ClientConstants DEF ClientIInv
<1>t. /\ ThreadsInv'
      /\ kThread'[t] = [op |-> op, at |-> "method", p |-> IF op = "startPreview" THEN mCamera ELSE 0]
      /\ \A u \in ClientThreads \ {t} : kThread'[u] = kThread[u]
  <2>1. [op |-> op, at |-> "method", p |-> IF op = "startPreview" THEN mCamera ELSE 0] \in ThreadStates
      BY DEF ThreadStates, ServiceOps, MethodOps, PointersInv, FramesInv, ThreadsInv
  <2>2. ThreadFits([op |-> op, at |-> "method", p |-> IF op = "startPreview" THEN mCamera ELSE 0], incarnation', kSession', mRecordingProxyListener')
      BY DEF ThreadFits, ServiceOps, MethodOps, PointersInv, FramesInv, MethodStart, IsIdle, serviceVars, listenerVars, recordVars
  <2>3. /\ incarnation' \in Nat /\ incarnation <= incarnation' /\ kSession' \in Nat /\ kSession <= kSession'
        /\ kSession = kSession' /\ mRecordingProxyListener = TRUE => mRecordingProxyListener' = TRUE
      BY DEF PointersInv, FramesInv, MethodStart, serviceVars, listenerVars, recordVars
  <2>4. kThread' = [kThread EXCEPT ![t] = [op |-> op, at |-> "method", p |-> IF op = "startPreview" THEN mCamera ELSE 0]]
      BY DEF MethodStart, GoOn
  <2> QED BY <2>1, <2>2, <2>3, <2>4, ThreadsGoOn
<1>s. kThread'[t].op \in MethodOps /\ kThread'[t].at \in {"method"}
    BY <1>t, IdleFields
<1>1. PointersInv'
    BY DEF PointersInv, MethodStart, serviceVars, cacheVars, cameraVars
<1>2. ThreadsInv'
    BY <1>t
<1>3. ConnectInv'
  <2>1. UNCHANGED <<mCamera, kRecording, kFrames>>
      BY DEF MethodStart, IsIdle, cameraVars, recordVars
  <2>2. mCamera # 0 /\ kThread'[t].op # "connect"
      BY <1>s DEF MethodOps, MethodStart, GoOn, IsIdle, serviceVars, cacheVars, cameraVars, listenerVars, recordVars
  <2> QED BY <1>t, <2>1, <2>2, ConnectKept
<1>4. RecordInv'
  <2>1. /\ UNCHANGED <<kRecording, mCamera, published, incarnation, kSession>>
        /\ mRecordingProxyListener = TRUE => mRecordingProxyListener' = TRUE
      BY DEF MethodStart, serviceVars, cameraVars, listenerVars, recordVars
  <2>2. \A u \in ClientThreads : kThread'[u].at = "unlink" => kThread[u].at = "unlink"
      BY <1>t, <1>s, IdleFields
  <2> QED BY <2>1, <2>2, RecordingKept
<1>5. FramesInv'
    BY DEF FramesInv, FrameOK, MethodStart, listenerVars, recordVars
<1>6. ListenersInv'
    BY DEF ListenersInv, MethodStart, listenerVars
<1>7. DeathsInv'
    BY DEF DeathsInv, DeadServiceIsForgotten, CameraLearnsOfDeath, Lives, PointersInv, MethodStart, serviceVars, cacheVars, cameraVars, listenerVars
<1>8. CopiesAreSafe'
    BY DEF CopiesAreSafe, MethodStart
<1> QED BY <1>1, <1>2, <1>3, <1>4, <1>5, <1>6, <1>7, <1>8

(* A method calls through its copy. *)
LEMMA MethodCallKeeps ==
    ASSUME ClientIInv, NEW t \in ClientThreads, MethodCall(t)
    PROVE  ClientIInv'
<1> USE ClientConstants DEF ClientIInv
<1>t. /\ ThreadsInv'
      /\ kThread'[t] = IdleThread \/ kThread'[t] = [op |-> "disconnect", at |-> "unlink", p |-> 0]
      /\ \A u \in ClientThreads \ {t} : kThread'[u] = kThread[u]
  <2>1. CASE kThread[t].op = "disconnect" /\ RemotePointer(t) # 0
    <3>1. [op |-> "disconnect", at |-> "unlink", p |-> 0] \in ThreadStates
        BY <2>1 DEF ThreadStates, ServiceOps, MethodOps, PointersInv, ThreadsInv
    <3>2. ThreadFits([op |-> "disconnect", at |-> "unlink", p |-> 0], incarnation', kSession', mRecordingProxyListener')
        BY <2>1 DEF ThreadFits, ThreadsInv, ThreadOK, ServiceOps, MethodOps, PointersInv, Lives, MethodCall, RemotePointer, Doing, serviceVars, listenerVars
    <3>3. /\ incarnation' \in Nat /\ incarnation <= incarnation' /\ kSession' \in Nat /\ kSession <= kSession'
          /\ kSession = kSession' /\ mRecordingProxyListener = TRUE => mRecordingProxyListener' = TRUE
        BY DEF PointersInv, FramesInv, MethodCall, serviceVars, listenerVars
    <3>4. kThread' = [kThread EXCEPT ![t] = [op |-> "disconnect", at |-> "unlink", p |-> 0]]
        BY <2>1 DEF MethodCall, RemotePointer, GoOn, Returns
    <3> QED BY <3>1, <3>2, <3>3, <3>4, ThreadsGoOn
  <2>2. CASE ~(kThread[t].op = "disconnect" /\ RemotePointer(t) # 0)
      BY <2>2, ThreadReturns DEF MethodCall, RemotePointer, serviceVars, listenerVars
  <2> QED BY <2>1, <2>2
<1>s. kThread'[t].op \in {"idle", "disconnect"} /\ kThread'[t].at \in {IdleThread.at, "unlink"}
    BY <1>t, IdleFields
<1>1. PointersInv'
    BY DEF PointersInv, MethodCall, serviceVars, cacheVars, cameraVars
<1>2. ThreadsInv'
    BY <1>t
<1>3. ConnectInv'
  <2>1. CASE UNCHANGED kRecording
    <3>1. UNCHANGED <<mCamera, kRecording, kFrames>>
        BY <2>1 DEF MethodCall, cameraVars
    <3>2. kThread'[t].op = "idle" \/ kThread'[t].op = kThread[t].op
      <4>1. CASE kThread[t].op = "disconnect"
          BY <1>s, <4>1
      <4>2. CASE kThread[t].op # "disconnect"
          BY <4>2, IdleFields DEF MethodCall, Returns, ThreadsInv
      <4> QED BY <4>1, <4>2
    <3> QED BY <1>t, <3>1, <3>2, ConnectKept
  <2>2. CASE ~UNCHANGED kRecording
    <3>1. \A u \in ClientThreads : kThread[u].op # "connect"
        BY <2>2 DEF MethodCall, RemotePointer, ConnectInv
    <3> QED BY <1>t, <1>s, <3>1 DEF ConnectInv
  <2> QED BY <2>1, <2>2
<1>4. RecordInv'
  <2>1. CASE kThread[t].op = "disconnect" /\ RemotePointer(t) # 0
    <3>1. CASE Lives(mCamera)
        BY <2>1, <3>1, NoRecording DEF MethodCall
    <3>2. CASE ~Lives(mCamera)
      <4>1. kRecording' = kRecording /\ kRecording = <<>>
          BY <2>1, <3>2 DEF MethodCall, RecordInv
      <4> QED BY <4>1, NoRecording
    <3> QED BY <3>1, <3>2
  <2>2. CASE ~(kThread[t].op = "disconnect" /\ RemotePointer(t) # 0)
    <3>1. /\ UNCHANGED <<kRecording, mCamera, published, incarnation, kSession>>
          /\ mRecordingProxyListener = TRUE => mRecordingProxyListener' = TRUE
        BY <2>2 DEF MethodCall, cameraVars, serviceVars, listenerVars
    <3>2. kThread'[t] = IdleThread
        BY <2>2 DEF MethodCall, Returns, ThreadsInv
    <3>3. \A u \in ClientThreads : kThread'[u].at = "unlink" => kThread[u].at = "unlink"
        BY <1>t, <3>2, IdleFields
    <3> QED BY <3>1, <3>3, RecordingKept
  <2> QED BY <2>1, <2>2
<1>5. FramesInv'
    BY DEF FramesInv, FrameOK, MethodCall, listenerVars
<1>6. ListenersInv'
    BY DEF ListenersInv, MethodCall, listenerVars
<1>7. DeathsInv'
    BY DEF DeathsInv, DeadServiceIsForgotten, CameraLearnsOfDeath, Lives, PointersInv, MethodCall, serviceVars, cacheVars, cameraVars, listenerVars
<1>8. CopiesAreSafe'
  <2>1. kThread[t].op \in {"startPreview", "getNumberOfCameras"} => RemotePointer(t) # 0
      BY DEF MethodCall, ThreadsInv, ThreadOK, ThreadFits, ThreadStates, RemotePointer, Doing, ServiceOps, MethodOps
  <2> QED BY <2>1 DEF CopiesAreSafe, MethodCall
<1> QED BY <1>1, <1>2, <1>3, <1>4, <1>5, <1>6, <1>7, <1>8

(* The camera is let go of. *)
LEMMA DisconnectedKeeps ==
    ASSUME ClientIInv, NEW t \in ClientThreads, Disconnected(t)
    PROVE  ClientIInv'
<1> USE ClientConstants DEF ClientIInv
<1>t. /\ ThreadsInv'
      /\ kThread'[t] = IdleThread
      /\ \A u \in ClientThreads \ {t} : kThread'[u] = kThread[u]
    BY ThreadReturns DEF Disconnected, serviceVars, listenerVars, recordVars
<1>1. PointersInv'
    BY DEF PointersInv, Disconnected, DropRemote, serviceVars, cacheVars
<1>2. ThreadsInv'
    BY <1>t
<1>3. ConnectInv'
    BY DEF ConnectInv, ThreadsInv, ThreadStates, ThreadOK, IdleThread, Disconnected, DropRemote, Returns, Doing, recordVars
<1>4. RecordInv'
    BY DEF RecordInv, Lives, IdleThread, ThreadsInv, ThreadStates, Disconnected, DropRemote, Returns, Doing, serviceVars, listenerVars, recordVars
<1>5. FramesInv'
    BY DEF FramesInv, FrameOK, Disconnected, listenerVars, recordVars
<1>6. ListenersInv'
    BY DEF ListenersInv, Disconnected, listenerVars
<1>7. DeathsInv'
    BY DEF DeathsInv, DeadServiceIsForgotten, CameraLearnsOfDeath, Lives, PointersInv, Disconnected, DropRemote, serviceVars, cacheVars
<1>8. CopiesAreSafe'
    BY DEF CopiesAreSafe, Disconnected
<1> QED BY <1>1, <1>2, <1>3, <1>4, <1>5, <1>6, <1>7, <1>8

(* Recording starts with the listener set first. *)
LEMMA startRecordingKeeps ==
    ASSUME ClientIInv, NEW t \in ClientThreads, NEW by \in {"app", "proxy"}, startRecording(t, by)
    PROVE  ClientIInv'
<1> USE ClientConstants DEF ClientIInv
<1>t. /\ ThreadsInv'
      /\ kThread'[t] = [op |-> by, at |-> "start", p |-> kSession]
      /\ \A u \in ClientThreads \ {t} : kThread'[u] = kThread[u]
  <2>1. [op |-> by, at |-> "start", p |-> kSession] \in ThreadStates
      BY DEF ThreadStates, ServiceOps, MethodOps, PointersInv, FramesInv, ThreadsInv
  <2>0. /\ mRecordingProxyListener = TRUE => mRecordingProxyListener' = TRUE
        /\ by = "proxy" => mRecordingProxyListener' = TRUE
      BY Zenon DEF startRecording, ListenersInv
  <2>2. ThreadFits([op |-> by, at |-> "start", p |-> kSession], incarnation', kSession', mRecordingProxyListener')
      BY <2>0 DEF ThreadFits, ServiceOps, MethodOps, PointersInv, FramesInv, startRecording, IsIdle, serviceVars, recordVars
  <2>3. /\ incarnation' \in Nat /\ incarnation <= incarnation' /\ kSession' \in Nat /\ kSession <= kSession'
        /\ kSession = kSession' /\ mRecordingProxyListener = TRUE => mRecordingProxyListener' = TRUE
      BY <2>0 DEF PointersInv, FramesInv, startRecording, serviceVars, recordVars
  <2>4. kThread' = [kThread EXCEPT ![t] = [op |-> by, at |-> "start", p |-> kSession]]
      BY DEF startRecording, GoOn
  <2> QED BY <2>1, <2>2, <2>3, <2>4, ThreadsGoOn
<1>s. kThread'[t].op \in {"app", "proxy"} /\ kThread'[t].at \in {"start"}
    BY <1>t, IdleFields
<1>1. PointersInv'
    BY DEF PointersInv, startRecording, serviceVars, cacheVars, cameraVars
<1>2. ThreadsInv'
    BY <1>t
<1>3. ConnectInv'
  <2>1. UNCHANGED <<mCamera, kRecording, kFrames>>
      BY DEF startRecording, IsIdle, cameraVars, recordVars
  <2>2. mCamera # 0 /\ kThread'[t].op # "connect"
      BY <1>s DEF startRecording
  <2> QED BY <1>t, <2>1, <2>2, ConnectKept
<1>4. RecordInv'
  <2>1. /\ UNCHANGED <<kRecording, mCamera, published, incarnation, kSession>>
        /\ mRecordingProxyListener = TRUE => mRecordingProxyListener' = TRUE
      BY DEF startRecording, serviceVars, cameraVars, recordVars
  <2>2. \A u \in ClientThreads : kThread'[u].at = "unlink" => kThread[u].at = "unlink"
      BY <1>t, <1>s, IdleFields
  <2> QED BY <2>1, <2>2, RecordingKept
<1>5. FramesInv'
    BY DEF FramesInv, FrameOK, startRecording, recordVars
<1>6. ListenersInv'
    BY DEF ListenersInv, startRecording
<1>7. DeathsInv'
    BY DEF DeathsInv, DeadServiceIsForgotten, CameraLearnsOfDeath, Lives, PointersInv, startRecording, serviceVars, cacheVars, cameraVars
<1>8. CopiesAreSafe'
    BY DEF CopiesAreSafe, startRecording
<1> QED BY <1>1, <1>2, <1>3, <1>4, <1>5, <1>6, <1>7, <1>8

(* The service starts to record. *)
LEMMA ServiceRecordsKeeps ==
    ASSUME ClientIInv, NEW t \in ClientThreads, ServiceRecords(t)
    PROVE  ClientIInv'
<1> USE ClientConstants DEF ClientIInv
<1>t. /\ ThreadsInv'
      /\ kThread'[t] = IdleThread
      /\ \A u \in ClientThreads \ {t} : kThread'[u] = kThread[u]
    BY ThreadReturns DEF ServiceRecords, serviceVars, listenerVars
<1>s. kThread'[t].op \in {"idle"} /\ kThread'[t].at \in {IdleThread.at}
    BY <1>t, IdleFields
<1>1. PointersInv'
    BY DEF PointersInv, ServiceRecords, serviceVars, cacheVars, cameraVars
<1>2. ThreadsInv'
    BY <1>t
<1>3. ConnectInv'
  <2>1. \A u \in ClientThreads : kThread[u].op = "connect" => kRecording' = <<>> /\ mCamera' = 0 /\ kFrames' = kFrames
      BY DEF ConnectInv, ServiceRecords, cameraVars
  <2> QED BY <1>t, <1>s, <2>1 DEF ConnectInv
<1>4. RecordInv'
  <2>1. CASE kRecording' = kRecording
    <3>1. UNCHANGED <<kRecording, mCamera, published, incarnation, kSession, mRecordingProxyListener>>
        BY <2>1 DEF ServiceRecords, serviceVars, cameraVars, listenerVars
    <3>2. \A u \in ClientThreads : kThread'[u].at = "unlink" => kThread[u].at = "unlink"
        BY <1>t, <1>s, IdleFields
    <3> QED BY <3>1, <3>2, RecordingKept
  <2>2. CASE kRecording' # kRecording
    <3> DEFINE r == [by |-> kThread[t].op, session |-> kThread[t].p]
    <3>1. /\ mCamera # 0 /\ Lives(mCamera) /\ kRecording' = <<r>>
          /\ \A u \in ClientThreads : kThread[u].at # "unlink"
        BY <2>2 DEF ServiceRecords, Doing
    <3>2. /\ kThread[t].op \in {"app", "proxy"} /\ kThread[t].p \in Nat /\ kThread[t].p <= kSession
          /\ kThread[t].op = "proxy" /\ kThread[t].p = kSession => mRecordingProxyListener = TRUE
        BY DEF ServiceRecords, Doing, ThreadsInv, ThreadOK, ThreadFits, ThreadStates
    <3>3. r \in ClientRecords /\ <<r>> \in Seq(ClientRecords) /\ <<r>>[1] = r
        BY <3>2 DEF ClientRecords
    <3>4. mCamera' # 0 /\ Lives(mCamera)' /\ UNCHANGED <<kSession, mRecordingProxyListener>>
        BY <3>1 DEF ServiceRecords, Lives, serviceVars, cameraVars, listenerVars
    <3>5. \A u \in ClientThreads : kThread'[u].at # "unlink"
        BY <1>t, <1>s, <3>1, IdleFields
    <3> QED BY <3>1, <3>2, <3>3, <3>4, <3>5 DEF RecordInv
  <2> QED BY <2>1, <2>2
<1>5. FramesInv'
    BY DEF FramesInv, FrameOK, ServiceRecords, listenerVars
<1>6. ListenersInv'
    BY DEF ListenersInv, ServiceRecords, listenerVars
<1>7. DeathsInv'
    BY DEF DeathsInv, DeadServiceIsForgotten, CameraLearnsOfDeath, Lives, PointersInv, ServiceRecords, serviceVars, cacheVars, cameraVars, listenerVars
<1>8. CopiesAreSafe'
    BY DEF CopiesAreSafe, ServiceRecords
<1> QED BY <1>1, <1>2, <1>3, <1>4, <1>5, <1>6, <1>7, <1>8

(* The listener is cleared before the service is told to stop. *)
LEMMA stopRecordingKeeps ==
    ASSUME ClientIInv, NEW t \in ClientThreads, stopRecording(t)
    PROVE  ClientIInv'
<1> USE ClientConstants DEF ClientIInv
<1>t. /\ ThreadsInv'
      /\ kThread'[t] = [op |-> "stopRecording", at |-> "stop", p |-> 0]
      /\ \A u \in ClientThreads \ {t} : kThread'[u] = kThread[u]
  <2>1. [op |-> "stopRecording", at |-> "stop", p |-> 0] \in ThreadStates
      BY DEF ThreadStates, ServiceOps, MethodOps, PointersInv, FramesInv, ThreadsInv
  <2>2. ThreadFits([op |-> "stopRecording", at |-> "stop", p |-> 0], incarnation', kSession', mRecordingProxyListener')
      BY DEF ThreadFits, ServiceOps, MethodOps, PointersInv, FramesInv, stopRecording, IsIdle, serviceVars
  <2>3. /\ incarnation' \in Nat /\ incarnation <= incarnation' /\ kSession' \in Nat /\ kSession <= kSession'
        /\ kSession = kSession' /\ mRecordingProxyListener = TRUE => mRecordingProxyListener' = TRUE
      BY DEF PointersInv, FramesInv, stopRecording, serviceVars
  <2>4. kThread' = [kThread EXCEPT ![t] = [op |-> "stopRecording", at |-> "stop", p |-> 0]]
      BY DEF stopRecording, GoOn
  <2> QED BY <2>1, <2>2, <2>3, <2>4, ThreadsGoOn
<1>s. kThread'[t].op \in {"stopRecording"} /\ kThread'[t].at \in {"stop"}
    BY <1>t, IdleFields
<1>1. PointersInv'
    BY DEF PointersInv, stopRecording, serviceVars, cacheVars, cameraVars
<1>2. ThreadsInv'
    BY <1>t
<1>3. ConnectInv'
  <2>1. UNCHANGED <<mCamera, kRecording, kFrames>>
      BY DEF stopRecording, IsIdle, cameraVars
  <2>2. mCamera # 0 /\ kThread'[t].op # "connect"
      BY <1>s DEF stopRecording
  <2> QED BY <1>t, <2>1, <2>2, ConnectKept
<1>4. RecordInv'
  <2>1. /\ UNCHANGED <<kRecording, mCamera, published, incarnation>>
        /\ kSession \in Nat /\ kSession' = kSession + 1
      BY DEF stopRecording, FramesInv, serviceVars, cameraVars
  <2>2. \A u \in ClientThreads : kThread'[u].at = "unlink" => kThread[u].at = "unlink"
      BY <1>t, <1>s, IdleFields
  <2>3. kRecording # <<>> => kRecording[1].session \in Nat
    <3>1. kRecording # <<>> => kRecording[1] \in ClientRecords
        BY DEF RecordInv
    <3> QED BY <3>1 DEF ClientRecords
  <2>4. kRecording # <<>> => kRecording[1].session <= kSession' /\ kRecording[1].session # kSession'
      BY <2>1, <2>3 DEF RecordInv
  <2> QED BY <2>1, <2>2, <2>4 DEF RecordInv, Lives
<1>5. FramesInv'
  <2>1. /\ kFrames' = kFrames /\ kSession \in Nat /\ kSession' = kSession + 1 /\ kSession' <= MaxStops
      BY DEF stopRecording, FramesInv
  <2>2. ASSUME NEW n \in DOMAIN kFrames
        PROVE  kFrames[n].session < kSession'
    <3>1. kFrames[n] \in FrameStates /\ kFrames[n].session <= kSession
        BY DEF FramesInv, FrameOK
    <3> QED BY <2>1, <3>1 DEF FrameStates
  <2>3. \A n \in DOMAIN kFrames : kFrames[n].session \in Nat
    <3>1. \A n \in DOMAIN kFrames : kFrames[n] \in FrameStates
        BY DEF FramesInv
    <3> QED BY <3>1 DEF FrameStates
  <2> QED BY <2>1, <2>2, <2>3 DEF FramesInv, FrameOK
<1>6. ListenersInv'
    BY DEF ListenersInv, stopRecording
<1>7. DeathsInv'
    BY DEF DeathsInv, DeadServiceIsForgotten, CameraLearnsOfDeath, Lives, PointersInv, stopRecording, serviceVars, cacheVars, cameraVars
<1>8. CopiesAreSafe'
    BY DEF CopiesAreSafe, stopRecording
<1> QED BY <1>1, <1>2, <1>3, <1>4, <1>5, <1>6, <1>7, <1>8

(* The service stops recording. *)
LEMMA ServiceStopsKeeps ==
    ASSUME ClientIInv, NEW t \in ClientThreads, ServiceStops(t)
    PROVE  ClientIInv'
<1> USE ClientConstants DEF ClientIInv
<1>t. /\ ThreadsInv'
      /\ kThread'[t] = IdleThread
      /\ \A u \in ClientThreads \ {t} : kThread'[u] = kThread[u]
    BY ThreadReturns DEF ServiceStops, serviceVars, listenerVars
<1>s. kThread'[t].op \in {"idle"} /\ kThread'[t].at \in {IdleThread.at}
    BY <1>t, IdleFields
<1>1. PointersInv'
    BY DEF PointersInv, ServiceStops, serviceVars, cacheVars, cameraVars
<1>2. ThreadsInv'
    BY <1>t
<1>3. ConnectInv'
  <2>1. \A u \in ClientThreads : kThread[u].op = "connect" => kRecording' = <<>> /\ mCamera' = 0 /\ kFrames' = kFrames
      BY DEF ConnectInv, ServiceStops, cameraVars
  <2> QED BY <1>t, <1>s, <2>1 DEF ConnectInv
<1>4. RecordInv'
  <2>1. CASE kRecording' = kRecording
    <3>1. UNCHANGED <<kRecording, mCamera, published, incarnation, kSession, mRecordingProxyListener>>
        BY <2>1 DEF ServiceStops, serviceVars, cameraVars, listenerVars
    <3>2. \A u \in ClientThreads : kThread'[u].at = "unlink" => kThread[u].at = "unlink"
        BY <1>t, <1>s, IdleFields
    <3> QED BY <3>1, <3>2, RecordingKept
  <2>2. CASE kRecording' # kRecording
      BY <2>2, NoRecording DEF ServiceStops
  <2> QED BY <2>1, <2>2
<1>5. FramesInv'
    BY DEF FramesInv, FrameOK, ServiceStops, listenerVars
<1>6. ListenersInv'
    BY DEF ListenersInv, ServiceStops, listenerVars
<1>7. DeathsInv'
    BY DEF DeathsInv, DeadServiceIsForgotten, CameraLearnsOfDeath, Lives, PointersInv, ServiceStops, serviceVars, cacheVars, cameraVars, listenerVars
<1>8. CopiesAreSafe'
    BY DEF CopiesAreSafe, ServiceStops
<1> QED BY <1>1, <1>2, <1>3, <1>4, <1>5, <1>6, <1>7, <1>8

-----------------------------------------------------------------------------
(* No step of the client breaks the invariant. *)
LEMMA ClientStep == ClientIInv /\ [CameraClientNext]_kVars => ClientIInv'
<1> SUFFICES ASSUME ClientIInv, [CameraClientNext]_kVars PROVE ClientIInv'
    OBVIOUS
<1>1. CASE UNCHANGED kVars
    BY <1>1 DEF kVars, ClientIInv, PointersInv, ThreadsInv, ThreadOK, ConnectInv, RecordInv, FramesInv,
                FrameOK, ListenersInv, DeathsInv, DeadServiceIsForgotten, CameraLearnsOfDeath, CopiesAreSafe, Lives
<1>2. CASE ServiceDown \/ ServiceUp
    BY <1>2, ServiceDownKeeps, ServiceUpKeeps
<1>3. CASE (\E i \in gNotices : ServiceDied(i)) \/ (\E i \in mNotices : CameraDied(i))
    BY <1>3, ServiceDiedKeeps, CameraDiedKeeps
<1>4. CASE MakeFrame \/ dataCallbackTimestamp
    BY <1>4, MakeFrameKeeps, dataCallbackTimestampKeeps
<1>5. ASSUME NEW t \in ClientThreads,
             \/ \E op \in ServiceOps : getCameraService(t, op)
             \/ CheckService(t)
             \/ \E accepted \in BOOLEAN : CallService(t, accepted)
             \/ Connected(t)
      PROVE  ClientIInv'
    BY <1>5, getCameraServiceKeeps, CheckServiceKeeps, CallServiceKeeps, ConnectedKeeps
<1>6. ASSUME NEW t \in ClientThreads,
             \/ \E set \in BOOLEAN : setListener(t, set)
             \/ \E op \in MethodOps : MethodStart(t, op)
             \/ MethodCall(t) \/ Disconnected(t)
      PROVE  ClientIInv'
    BY <1>6, setListenerKeeps, MethodStartKeeps, MethodCallKeeps, DisconnectedKeeps
<1>7. ASSUME NEW t \in ClientThreads,
             \/ \E by \in {"app", "proxy"} : startRecording(t, by)
             \/ ServiceRecords(t) \/ stopRecording(t) \/ ServiceStops(t)
      PROVE  ClientIInv'
    BY <1>7, startRecordingKeeps, ServiceRecordsKeeps, stopRecordingKeeps, ServiceStopsKeeps
<1> QED BY <1>1, <1>2, <1>3, <1>4, <1>5, <1>6, <1>7 DEF CameraClientNext

(* The invariant of the client holds always. *)
LEMMA ClientInvariant == CameraClientSpec => []ClientIInv
BY ClientInit, ClientStep, PTL DEF CameraClientSpec

(* However often the service dies and comes back, CameraBase never keeps a *)
(* dead service whose obituary is not on its way, no Camera misses the     *)
(* death of its remote, and no application whose listener was set before   *)
(* the death and is still set misses the error: for any number of threads, *)
(* deaths and frames.                                                      *)
THEOREM NoDeathGoesUnnoticed == CameraClientSpec => []DeathsAreNoticed
<1>1. ClientIInv => DeathsAreNoticed
    BY ClientConstants DEF ClientIInv, PointersInv, FramesInv, ListenersInv, DeathsInv, DeathsAreNoticed,
                           CameraClientTypeOK
<1> QED BY <1>1, ClientInvariant, PTL

(* Whatever disconnects, obituaries and stops come between the steps of a  *)
(* method or of a frame, a copied pointer is never null where it is called *)
(* through, and a proxy's frame never reaches the application's listener   *)
(* before its recording was stopped.                                       *)
THEOREM CopiesMakeRacesSafe == CameraClientSpec => []RacesAreSafe
<1>1. ClientIInv => RacesAreSafe
    BY DEF ClientIInv, FramesInv, FrameOK, RacesAreSafe, ProxyFramesGoToProxy
<1> QED BY <1>1, ClientInvariant, PTL

-----------------------------------------------------------------------------
(* CameraWrapper. *)

(* Texts are numbered as they are made, null is never freed, and nobody    *)
(* but an open device has a text with the vendor.                          *)
WrapperTypes ==
    /\ wTexts \in Nat /\ wFreed \subseteq 1 .. wTexts
    /\ wVendorText \in [CameraIds -> Nat]
    /\ wDevices \subseteq CameraIds /\ wSetting \subseteq wDevices
    /\ wClosing \subseteq wDevices /\ wClosing \cap wSetting = {}
    /\ \A c \in CameraIds \ wDevices : wVendorText[c] = 0
    /\ fixed_set_params = <<>> \/ fixed_set_params \in [CameraIds -> 0 .. wTexts]

(* What one open device at a time guarantees: the array is there, the      *)
(* others' places in it are empty, no text in it is freed until the close, *)
(* and the vendor has the one that is kept.                                *)
AloneOK(id) ==
    /\ wDevices = {id}
    /\ fixed_set_params # <<>>
    /\ id \notin wClosing => \A c \in CameraIds : fixed_set_params[c] \notin wFreed
    /\ \A c \in CameraIds \ {id} : fixed_set_params[c] = 0
    /\ id \notin wSetting => wVendorText[id] \in {0, fixed_set_params[id]}

AloneInv == ~wShared => wDevices = {} \/ \E id \in CameraIds : AloneOK(id)

WrapperIInv == WrapperTypes /\ AloneInv /\ TextsAreFreedOnce /\ VendorFollowsWrapper /\ wShared \in BOOLEAN

(* An array of texts is not the null that stands for none. *)
LEMMA ArrayIsNotNull ==
    ASSUME NEW S, NEW f \in [CameraIds -> S]
    PROVE  f # <<>>
<1>1. 0 \in DOMAIN f
    BY WrapperAssumption DEF CameraIds, WrapperAssumption
<1>2. DOMAIN <<>> = {}
    OBVIOUS
<1> QED BY <1>1, <1>2

(* The invariant of the wrapper holds at the start. *)
LEMMA WrapperInit == CameraWrapperInit => WrapperIInv
<1> SUFFICES ASSUME CameraWrapperInit PROVE WrapperIInv
    OBVIOUS
<1>1. WrapperTypes
    BY DEF CameraWrapperInit, WrapperTypes
<1>2. AloneInv /\ TextsAreFreedOnce /\ VendorFollowsWrapper /\ wShared \in BOOLEAN
    BY DEF CameraWrapperInit, AloneInv, TextsAreFreedOnce, VendorFollowsWrapper
<1> QED BY <1>1, <1>2 DEF WrapperIInv

(* A camera is opened, or is not for one of the reasons it may fail. *)
LEMMA OpenKeeps ==
    ASSUME WrapperIInv, NEW id \in 0 .. NumCameras + 1, NEW outcome \in OpenOutcomes,
           camera_device_open(id, outcome)
    PROVE  WrapperIInv'
<1> USE WrapperAssumption DEF WrapperAssumption
<1>1. WrapperTypes'
  <2>1. wDevices' = wDevices \/ (id \in CameraIds /\ wDevices' = wDevices \cup {id})
      BY DEF camera_device_open
  <2>2. fixed_set_params' \in {fixed_set_params, <<>>, [c \in CameraIds |-> 0]}
      BY DEF camera_device_open, ParamsArray
  <2>3. fixed_set_params' = <<>> \/ fixed_set_params' \in [CameraIds -> 0 .. wTexts]
      BY <2>2 DEF WrapperIInv, WrapperTypes
  <2> QED BY <2>1, <2>3 DEF WrapperIInv, WrapperTypes, camera_device_open, wTextVars
<1>2. wShared' \in BOOLEAN /\ (~wShared' => ~wShared /\ wDevices = {})
    BY Zenon DEF camera_device_open, WrapperIInv
<1>3. AloneInv'
  <2> SUFFICES ASSUME ~wShared', wDevices' # {} PROVE AloneOK(id)' /\ id \in CameraIds
      BY DEF AloneInv
  <2>1. wDevices = {} /\ wSetting = {} /\ outcome = "open" /\ id \in CameraIds /\ wDevices' = {id}
      BY <1>2 DEF camera_device_open, WrapperIInv, WrapperTypes
  <2>2. fixed_set_params' = [c \in CameraIds |-> 0]
      BY <2>1 DEF camera_device_open, ParamsArray
  <2>3. UNCHANGED <<wTexts, wFreed, wVendorText, wSetting, wClosing>>
      BY DEF camera_device_open, wTextVars
  <2>4. wVendorText[id] = 0 /\ 0 \notin wFreed /\ 0 <= wTexts
      BY <2>1 DEF WrapperIInv, WrapperTypes
  <2>5. fixed_set_params' # <<>>
    <3>1. fixed_set_params' \in [CameraIds -> Nat]
        BY <2>2
    <3> QED BY <3>1, ArrayIsNotNull
  <2> QED BY <2>1, <2>2, <2>3, <2>4, <2>5 DEF AloneOK
<1>4. TextsAreFreedOnce'
    BY <1>2 DEF WrapperIInv, TextsAreFreedOnce, camera_device_open, wTextVars
<1>5. VendorFollowsWrapper'
    BY DEF WrapperIInv, VendorFollowsWrapper, camera_device_open, OpenOutcomes
<1> QED BY <1>1, <1>2, <1>3, <1>4, <1>5 DEF WrapperIInv

(* With one device open nothing that the wrapper frees is freed already.   *)
LEMMA AloneFreesOnce ==
    ASSUME WrapperIInv, ~wShared, NEW id \in wDevices, id \notin wClosing
    PROVE  AloneOK(id) /\ fixed_set_params # <<>> /\ wFaults = {}
           /\ \A ids \in SUBSET CameraIds : Kept(ids) \cap wFreed = {}
<1>1. AloneOK(id)
    BY DEF WrapperIInv, AloneInv, AloneOK
<1>2. fixed_set_params # <<>>
    BY <1>1 DEF AloneOK
<1>3. \A ids \in SUBSET CameraIds : Kept(ids) \cap wFreed = {}
    BY <1>1 DEF AloneOK, Kept
<1>4. wFaults = {}
    BY DEF WrapperIInv, TextsAreFreedOnce
<1> QED BY <1>1, <1>2, <1>3, <1>4

(* What is freed was made. *)
LEMMA FreedWereMade ==
    ASSUME WrapperIInv, fixed_set_params # <<>>, NEW ids \in SUBSET CameraIds
    PROVE  wFreed \cup (Kept(ids) \ {0}) \subseteq 1 .. wTexts
<1>1. \A c \in ids : fixed_set_params[c] \in 0 .. wTexts
    BY DEF WrapperIInv, WrapperTypes
<1>2. wTexts \in Nat /\ wFreed \subseteq 1 .. wTexts
    BY DEF WrapperIInv, WrapperTypes
<1>3. Kept(ids) \ {0} \subseteq 1 .. wTexts
    BY <1>1, <1>2 DEF Kept
<1> QED BY <1>2, <1>3

(* The texts are freed and the camera is closing. *)
LEMMA CloseKeeps ==
    ASSUME WrapperIInv, NEW id \in CameraIds, camera_device_close(id)
    PROVE  WrapperIInv'
<1>1. wFreed' \subseteq 1 .. wTexts
  <2>1. CASE fixed_set_params = <<>>
      BY <2>1 DEF camera_device_close, WrapperIInv, WrapperTypes
  <2>2. CASE fixed_set_params # <<>>
      BY <2>2, FreedWereMade DEF camera_device_close, FreeTexts
  <2> QED BY <2>1, <2>2
<1>2. WrapperTypes'
    BY <1>1 DEF camera_device_close, WrapperIInv, WrapperTypes
<1>3. ASSUME ~wShared PROVE AloneOK(id)' /\ wFaults' = {}
  <2>1. /\ AloneOK(id) /\ fixed_set_params # <<>> /\ wFaults = {}
        /\ \A ids \in SUBSET CameraIds : Kept(ids) \cap wFreed = {}
      BY <1>3, AloneFreesOnce DEF camera_device_close
  <2>2. wFaults' = {}
      BY <2>1 DEF camera_device_close, FreeTexts
  <2>3. id \in wClosing' /\ UNCHANGED <<fixed_set_params, wVendorText, wSetting, wDevices>>
      BY DEF camera_device_close
  <2> QED BY <2>1, <2>2, <2>3 DEF AloneOK
<1>4. wShared' = wShared
    BY DEF camera_device_close
<1>5. AloneInv' /\ TextsAreFreedOnce' /\ wShared' \in BOOLEAN
    BY <1>3, <1>4 DEF AloneInv, TextsAreFreedOnce, WrapperIInv
<1>6. VendorFollowsWrapper'
    BY DEF WrapperIInv, VendorFollowsWrapper, camera_device_close
<1> QED BY <1>2, <1>5, <1>6 DEF WrapperIInv

(* The vendor's device is closed, and no device is open. *)
LEMMA VendorCloseKeeps ==
    ASSUME WrapperIInv, NEW id \in CameraIds, camera_vendor_close(id)
    PROVE  WrapperIInv'
<1>1. /\ UNCHANGED <<fixed_set_params, wTexts, wFreed, wFaults, wSetting, wShared>>
      /\ id \in wClosing /\ wClosing' = {} /\ wDevices' = wDevices \ {id}
      /\ wVendorText' = [wVendorText EXCEPT ![id] = 0]
    BY DEF camera_vendor_close
<1>2. WrapperTypes'
    BY <1>1 DEF WrapperIInv, WrapperTypes
<1>3. AloneInv'
  <2> SUFFICES ASSUME ~wShared PROVE wDevices' = {}
      BY <1>1 DEF AloneInv
  <2>1. id \in wDevices
      BY <1>1 DEF WrapperIInv, WrapperTypes
  <2>2. wDevices = {id}
      BY <2>1 DEF WrapperIInv, AloneInv, AloneOK
  <2> QED BY <1>1, <2>2
<1>4. TextsAreFreedOnce' /\ wShared' \in BOOLEAN
    BY <1>1 DEF WrapperIInv, TextsAreFreedOnce
<1>5. VendorFollowsWrapper'
    BY DEF WrapperIInv, VendorFollowsWrapper, camera_vendor_close, VendorClosed
<1> QED BY <1>2, <1>3, <1>4, <1>5 DEF WrapperIInv

(* The new text replaces the old one in the array. *)
LEMMA FixupKeeps ==
    ASSUME WrapperIInv, NEW id \in CameraIds, camera_fixup_setparams(id)
    PROVE  WrapperIInv'
<1>1. wTexts \in Nat /\ wTexts' = wTexts + 1
    BY DEF camera_fixup_setparams, WrapperIInv, WrapperTypes
<1>2. wFreed' \subseteq 1 .. wTexts
  <2>1. CASE fixed_set_params = <<>>
      BY <2>1 DEF camera_fixup_setparams, WrapperIInv, WrapperTypes
  <2>2. CASE fixed_set_params # <<>>
      BY <2>2, FreedWereMade DEF camera_fixup_setparams, FreeTexts
  <2> QED BY <2>1, <2>2
<1>3. fixed_set_params' = <<>> \/ fixed_set_params' \in [CameraIds -> 0 .. wTexts']
  <2>1. CASE fixed_set_params = <<>>
      BY <2>1 DEF camera_fixup_setparams
  <2>2. CASE fixed_set_params # <<>>
    <3>1. fixed_set_params \in [CameraIds -> 0 .. wTexts]
        BY <2>2 DEF WrapperIInv, WrapperTypes
    <3>2. fixed_set_params' = [fixed_set_params EXCEPT ![id] = wTexts + 1]
        BY <2>2 DEF camera_fixup_setparams
    <3> QED BY <1>1, <3>1, <3>2
  <2> QED BY <2>1, <2>2
<1>4. WrapperTypes'
    BY <1>1, <1>2, <1>3 DEF camera_fixup_setparams, WrapperIInv, WrapperTypes
<1>5. ASSUME ~wShared
      PROVE  wFaults' = {} /\ AloneOK(id)'
  <2>1. AloneOK(id) /\ fixed_set_params # <<>> /\ wFaults = {} /\ Kept({id}) \cap wFreed = {}
      BY <1>5, AloneFreesOnce DEF camera_fixup_setparams
  <2>2. /\ wFaults' = {} /\ wFreed' = wFreed \cup ({fixed_set_params[id]} \ {0})
        /\ fixed_set_params' = [fixed_set_params EXCEPT ![id] = wTexts + 1]
      BY <2>1 DEF camera_fixup_setparams, FreeTexts, Kept
  <2>3. fixed_set_params \in [CameraIds -> 0 .. wTexts] /\ wTexts + 1 \notin wFreed' /\ 0 \notin wFreed'
      BY <1>1, <1>2, <2>1 DEF WrapperIInv, WrapperTypes
  <2>4. \A c \in CameraIds : fixed_set_params'[c] = IF c = id THEN wTexts + 1 ELSE 0
      BY <2>1, <2>2, <2>3 DEF AloneOK
  <2>5. fixed_set_params' # <<>>
    <3>1. fixed_set_params' \in [CameraIds -> Nat]
        BY <1>1, <2>2, <2>3
    <3> QED BY <3>1, ArrayIsNotNull
  <2>6. wDevices' = {id} /\ id \in wSetting'
      BY <2>1 DEF camera_fixup_setparams, AloneOK
  <2> QED BY <2>2, <2>3, <2>4, <2>5, <2>6 DEF AloneOK
<1>6. wShared' = wShared
    BY DEF camera_fixup_setparams
<1>7. AloneInv' /\ TextsAreFreedOnce' /\ wShared' \in BOOLEAN
    BY <1>5, <1>6 DEF AloneInv, TextsAreFreedOnce, WrapperIInv
<1>8. VendorFollowsWrapper'
    BY DEF WrapperIInv, VendorFollowsWrapper, camera_fixup_setparams
<1> QED BY <1>4, <1>7, <1>8 DEF WrapperIInv

(* The vendor is given the text of the array. *)
LEMMA SetParametersKeeps ==
    ASSUME WrapperIInv, NEW id \in CameraIds, camera_set_parameters(id)
    PROVE  WrapperIInv'
<1>1. UNCHANGED <<fixed_set_params, wTexts, wFreed, wFaults, wDevices, wVendor, wLeft, wShared>>
    BY DEF camera_set_parameters, KeepAfterCall
<1>2. id \in wSetting /\ id \in wDevices /\ id \notin wClosing /\ wSetting' = wSetting \ {id} /\ wClosing' = wClosing
    BY DEF camera_set_parameters, WrapperIInv, WrapperTypes
<1>3. /\ wVendorText' \in [CameraIds -> Nat]
      /\ \A c \in CameraIds \ {id} : wVendorText'[c] = wVendorText[c]
      /\ fixed_set_params # <<>> => wVendorText'[id] = fixed_set_params[id]
  <2> DEFINE text == IF fixed_set_params = <<>> THEN 0 ELSE fixed_set_params[id]
  <2>1. text \in Nat
      BY DEF WrapperIInv, WrapperTypes
  <2>2. wVendorText' = [wVendorText EXCEPT ![id] = text] /\ wVendorText \in [CameraIds -> Nat]
      BY DEF camera_set_parameters, WrapperIInv, WrapperTypes
  <2> QED BY <2>1, <2>2
<1>4. WrapperTypes'
    BY <1>1, <1>2, <1>3 DEF WrapperIInv, WrapperTypes
<1>5. AloneInv'
  <2> SUFFICES ASSUME ~wShared PROVE AloneOK(id)'
      BY <1>1 DEF AloneInv
  <2>1. AloneOK(id)
      BY <1>2, AloneFreesOnce
  <2> QED BY <1>1, <1>2, <1>3, <2>1 DEF AloneOK
<1>6. TextsAreFreedOnce' /\ VendorFollowsWrapper' /\ wShared' \in BOOLEAN
    BY <1>1 DEF WrapperIInv, TextsAreFreedOnce, VendorFollowsWrapper
<1> QED BY <1>4, <1>5, <1>6 DEF WrapperIInv

(* No step of the wrapper breaks the invariant. *)
LEMMA WrapperStep == WrapperIInv /\ [CameraWrapperNext]_wVars => WrapperIInv'
<1> SUFFICES ASSUME WrapperIInv, [CameraWrapperNext]_wVars PROVE WrapperIInv'
    OBVIOUS
<1>1. CASE UNCHANGED wVars
    BY <1>1 DEF wVars, WrapperIInv, WrapperTypes, AloneInv, AloneOK, TextsAreFreedOnce, VendorFollowsWrapper
<1>2. CASE CameraWrapperNext
    BY <1>2, OpenKeeps, CloseKeeps, VendorCloseKeeps, FixupKeeps, SetParametersKeeps DEF CameraWrapperNext
<1> QED BY <1>1, <1>2

(* The vendor's devices are open exactly as long as the wrapper's, but for *)
(* the one an open out of memory leaves, and while one camera is open at a *)
(* time no text is freed twice, nor under the vendor except while it gets  *)
(* the next one and in a close before its device is closed: for any number *)
(* of cameras, opens that fail in any way, settings and closes.            *)
THEOREM VendorIsAlwaysServed == CameraWrapperSpec => []VendorIsServed
<1>1. WrapperIInv => VendorIsServed
  <2> SUFFICES ASSUME WrapperIInv PROVE VendorTextIsAlive
      BY DEF WrapperIInv, VendorIsServed
  <2> SUFFICES ASSUME ~wShared, NEW id \in wDevices \ (wSetting \cup wClosing)
               PROVE  wVendorText[id] \notin wFreed
      BY DEF VendorTextIsAlive
  <2>1. AloneOK(id) /\ 0 \notin wFreed /\ id \in CameraIds
      BY AloneFreesOnce DEF WrapperIInv, WrapperTypes
  <2> QED BY <2>1 DEF AloneOK
<1> QED BY <1>1, WrapperInit, WrapperStep, PTL DEF CameraWrapperSpec

-----------------------------------------------------------------------------
(* CameraMetadata. *)

(* A set of numbers has a least one. *)
LEMMA MinIsThere ==
    ASSUME NEW S \in SUBSET Nat, S # {}
    PROVE  Min(S) \in S
<1> DEFINE R == OpToRel(<, Nat)
<1>1. PICK x \in S : \A y \in S : ~(<<y, x>> \in R)
    BY NatLessThanWellFounded, WFMin
<1>2. ASSUME NEW y \in S, y < x
      PROVE  <<y, x>> \in R
  <2>1. <<y, x>> \in Nat \X Nat /\ <<y, x>>[1] = y /\ <<y, x>>[2] = x
      OBVIOUS
  <2> QED BY <1>2, <2>1 DEF OpToRel
<1> HIDE DEF R
<1>3. ASSUME NEW y \in S
      PROVE  x <= y
  <2>1. ~(y < x)
      BY <1>1, <1>2
  <2>2. x \in Nat /\ y \in Nat
      OBVIOUS
  <2> QED BY <2>1, <2>2
<1> QED BY <1>3 DEF Min

(* Who owns a buffer: an object, the client, or nobody any more.           *)
Owned(buf, raw, lost, alive) ==
    /\ \A o1, o2 \in Metas : o1 # o2 /\ buf[o1] # 0 => buf[o1] # buf[o2]
    /\ \A o \in Metas : buf[o] # 0 => buf[o] \in alive /\ buf[o] \notin raw /\ buf[o] \notin lost
    /\ raw \cap lost = {} /\ raw \subseteq alive /\ lost \subseteq alive /\ 0 \notin alive
    /\ \A x \in alive : x \in raw \/ x \in lost \/ \E o \in Metas : buf[o] = x

(* The ways in which buffers change hands. *)
LEMMA OwnReplace ==
    ASSUME NEW S, NEW buf \in [Metas -> S], NEW raw, NEW lost, NEW alive, Owned(buf, raw, lost, alive),
           NEW o \in Metas, NEW new, new \notin alive
    PROVE  Owned([buf EXCEPT ![o] = new], raw, lost, (alive \ {buf[o]}) \cup ({new} \ {0}))
BY DEF Owned

(* An object gives its buffer to the caller, or loses it. *)
LEMMA OwnGiveAway ==
    ASSUME NEW S, NEW buf \in [Metas -> S], NEW raw, NEW lost, NEW alive, Owned(buf, raw, lost, alive),
           NEW o \in Metas
    PROVE  /\ Owned([buf EXCEPT ![o] = 0], raw \cup ({buf[o]} \ {0}), lost, alive)
           /\ Owned([buf EXCEPT ![o] = 0], raw, lost \cup ({buf[o]} \ {0}), alive)
BY DEF Owned

(* An object takes a buffer from the caller in place of its own. *)
LEMMA OwnTakeRaw ==
    ASSUME NEW S, NEW buf \in [Metas -> S], NEW raw, NEW lost, NEW alive, Owned(buf, raw, lost, alive),
           NEW o \in Metas, NEW p \in raw
    PROVE  /\ Owned([buf EXCEPT ![o] = p], raw \ {p}, lost, alive \ {buf[o]})
           /\ Owned(buf, raw \ {p}, lost \cup {p}, alive)
BY DEF Owned

(* An object takes the buffer of another one in place of its own. *)
LEMMA OwnTake ==
    ASSUME NEW S, NEW buf \in [Metas -> S], NEW raw, NEW lost, NEW alive, Owned(buf, raw, lost, alive),
           NEW o \in Metas, NEW other \in Metas, o # other
    PROVE  Owned([[buf EXCEPT ![other] = 0] EXCEPT ![o] = buf[other]], raw, lost, alive \ {buf[o]})
BY DEF Owned

(* Two objects exchange their buffers. *)
LEMMA OwnSwap ==
    ASSUME NEW S, NEW buf \in [Metas -> S], NEW raw, NEW lost, NEW alive, Owned(buf, raw, lost, alive),
           NEW o \in Metas, NEW other \in Metas
    PROVE  Owned([buf EXCEPT ![o] = buf[other], ![other] = buf[o]], raw, lost, alive)
BY DEF Owned

(* What lies in memory is known without the types of what is in a buffer.  *)
BufferOK(b) ==
    /\ b = [alive |-> b.alive, ents |-> b.ents, ecap |-> b.ecap, dcap |-> b.dcap]
    /\ b.alive \in BOOLEAN
Memory(mem) ==
    /\ mem = [b \in 1 .. NumBuffers |-> mem[b]]
    /\ \A b \in 1 .. NumBuffers : BufferOK(mem[b])
AliveIn(mem) == {b \in 1 .. NumBuffers : mem[b].alive}
Bufs == [o \in Metas |-> mObj[o].buf]

MetaIInv ==
    /\ mObj \in [Metas -> [buf : 0 .. NumBuffers, locked : BOOLEAN]]
    /\ mLent = [o \in Metas |-> mLent[o]]
    /\ Memory(mMem)
    /\ Owned(Bufs, mRaw, mLost, AliveIn(mMem))
    /\ LentIsFrozen

(* The memory after a buffer is freed. *)
LEMMA MemoryFree ==
    ASSUME NEW mem, Memory(mem), NEW x \in 1 .. NumBuffers
    PROVE  /\ Memory([mem EXCEPT ![x] = Dead])
           /\ AliveIn([mem EXCEPT ![x] = Dead]) = AliveIn(mem) \ {x}
           /\ \A y \in 1 .. NumBuffers \ {x} : [mem EXCEPT ![x] = Dead][y] = mem[y]
<1>1. BufferOK(Dead) /\ ~Dead.alive
    BY DEF BufferOK, Dead
<1>2. \A y \in 1 .. NumBuffers : [mem EXCEPT ![x] = Dead][y] = IF y = x THEN Dead ELSE mem[y]
    BY DEF Memory
<1>3. Memory([mem EXCEPT ![x] = Dead])
    BY <1>1, <1>2 DEF Memory
<1>4. AliveIn([mem EXCEPT ![x] = Dead]) = AliveIn(mem) \ {x}
    BY <1>1, <1>2 DEF AliveIn
<1> QED BY <1>2, <1>3, <1>4

(* The memory after a buffer is made. *)
LEMMA MemoryMake ==
    ASSUME NEW mem, Memory(mem), NEW x \in 1 .. NumBuffers, NEW new, BufferOK(new), new.alive = TRUE
    PROVE  /\ Memory([mem EXCEPT ![x] = new])
           /\ AliveIn([mem EXCEPT ![x] = new]) = AliveIn(mem) \cup {x}
           /\ \A y \in 1 .. NumBuffers \ {x} : [mem EXCEPT ![x] = new][y] = mem[y]
<1>1. \A y \in 1 .. NumBuffers : [mem EXCEPT ![x] = new][y] = IF y = x THEN new ELSE mem[y]
    BY DEF Memory
<1>2. Memory([mem EXCEPT ![x] = new])
    BY <1>1 DEF Memory
<1>3. AliveIn([mem EXCEPT ![x] = new]) = AliveIn(mem) \cup {x}
    BY <1>1 DEF AliveIn
<1> QED BY <1>1, <1>2, <1>3

(* The memory after the entries of a buffer are replaced. *)
LEMMA MemoryWrite ==
    ASSUME NEW mem, Memory(mem), NEW x \in 1 .. NumBuffers, NEW ents
    PROVE  /\ Memory(Replaced(mem, x, ents))
           /\ AliveIn(Replaced(mem, x, ents)) = AliveIn(mem)
           /\ \A y \in 1 .. NumBuffers \ {x} : Replaced(mem, x, ents)[y] = mem[y]
<1> DEFINE new == [mem[x] EXCEPT !.ents = ents]
<1>1. BufferOK(mem[x])
    BY DEF Memory
<1>2. new = [alive |-> mem[x].alive, ents |-> ents, ecap |-> mem[x].ecap, dcap |-> mem[x].dcap]
    BY <1>1 DEF BufferOK
<1>3. BufferOK(new) /\ new.alive = mem[x].alive
    BY <1>1, <1>2 DEF BufferOK
<1>4. Replaced(mem, x, ents) = [mem EXCEPT ![x] = new]
    BY DEF Replaced
<1> HIDE DEF new
<1>5. \A y \in 1 .. NumBuffers : [mem EXCEPT ![x] = new][y] = IF y = x THEN new ELSE mem[y]
    BY DEF Memory
<1>6. Memory([mem EXCEPT ![x] = new])
    BY <1>3, <1>5 DEF Memory
<1>7. AliveIn([mem EXCEPT ![x] = new]) = AliveIn(mem)
    BY <1>3, <1>5 DEF AliveIn
<1> QED BY <1>4, <1>5, <1>6, <1>7

(* A new buffer is one, and alive. *)
LEMMA BuffersMade ==
    ASSUME NEW ents, NEW ecap, NEW dcap
    PROVE  BufferOK(Buffer(ents, ecap, dcap)) /\ Buffer(ents, ecap, dcap).alive = TRUE
BY DEF BufferOK, Buffer

(* The buffer of an object is null or alive. *)
LEMMA BufsAre ==
    ASSUME MetaIInv, NEW o \in Metas
    PROVE  /\ Buf(o) \in 0 .. NumBuffers /\ Bufs[o] = Buf(o) /\ Bufs \in [Metas -> 0 .. NumBuffers]
           /\ Locked(o) \in BOOLEAN
           /\ Buf(o) # 0 => Buf(o) \in AliveIn(mMem) /\ Buf(o) \in 1 .. NumBuffers
<1>1. mObj[o] \in [buf : 0 .. NumBuffers, locked : BOOLEAN]
    BY DEF MetaIInv
<1>2. Buf(o) \in 0 .. NumBuffers /\ Bufs[o] = Buf(o) /\ Locked(o) \in BOOLEAN
    BY <1>1 DEF Bufs, Buf, Locked
<1>3. Bufs \in [Metas -> 0 .. NumBuffers]
    BY DEF Bufs, MetaIInv
<1>4. Buf(o) # 0 => Buf(o) \in AliveIn(mMem)
    BY <1>2 DEF MetaIInv, Owned
<1> QED BY <1>2, <1>3, <1>4 DEF AliveIn

(* The memory after clear of an object. *)
LEMMA MemoryCleared ==
    ASSUME MetaIInv, NEW o \in Metas, NEW mem, Memory(mem)
    PROVE  /\ Memory(Cleared(o, mem))
           /\ AliveIn(Cleared(o, mem)) = AliveIn(mem) \ {Buf(o)}
           /\ \A y \in 1 .. NumBuffers \ {Buf(o)} : Cleared(o, mem)[y] = mem[y]
<1>1. CASE Buf(o) = 0
    BY <1>1 DEF Cleared, AliveIn
<1>2. CASE Buf(o) # 0
    BY <1>2, BufsAre, MemoryFree DEF Cleared
<1> QED BY <1>1, <1>2

(* A buffer that is allocated is one nobody holds. *)
LEMMA FreshIsDead ==
    ASSUME MetaIInv, FreeBuffers # {}
    PROVE  Fresh \in 1 .. NumBuffers /\ Fresh \notin AliveIn(mMem) /\ Fresh # 0
<1>1. DOMAIN mMem = 1 .. NumBuffers
    BY DEF MetaIInv, Memory
<1>2. FreeBuffers \in SUBSET Nat
    BY <1>1 DEF FreeBuffers
<1>3. Fresh \in FreeBuffers
    BY <1>2, MinIsThere DEF Fresh
<1> QED BY <1>1, <1>3 DEF FreeBuffers, AliveIn

(* A step that changes one object, which is not locked, and no buffer of   *)
(* another.                                                                *)
LEMMA UnlockedStep ==
    ASSUME MetaIInv, NEW o \in Metas, ~Locked(o), NEW b \in 0 .. NumBuffers, Holds(o, b),
           UNCHANGED mLent, Memory(mMem'),
           Owned([Bufs EXCEPT ![o] = b], mRaw', mLost', AliveIn(mMem')),
           \A x \in AliveIn(mMem) \ {Buf(o)} : mMem'[x] = mMem[x]
    PROVE  MetaIInv'
<1>1. mObj' \in [Metas -> [buf : 0 .. NumBuffers, locked : BOOLEAN]]
    BY DEF MetaIInv, Holds
<1>2. \A u \in Metas \ {o} : mObj'[u] = mObj[u]
    BY DEF MetaIInv, Holds
<1>3. Bufs' = [Bufs EXCEPT ![o] = b]
  <2>1. mObj'[o].buf = b
      BY DEF MetaIInv, Holds
  <2> QED BY <1>2, <2>1 DEF Bufs
<1>4. LentIsFrozen'
  <2> SUFFICES ASSUME NEW u \in Metas, mLent[u] # NotLent
               PROVE  mObj'[u].locked /\ mObj'[u].buf = mLent[u].buf
                      /\ (mObj'[u].buf # 0 => mMem'[mObj'[u].buf] = mLent[u].was)
      BY DEF LentIsFrozen, Buf, Locked
  <2>1. /\ Locked(u) /\ Buf(u) = mLent[u].buf
        /\ Buf(u) # 0 => mMem[Buf(u)] = mLent[u].was
      BY DEF MetaIInv, LentIsFrozen
  <2>2. u # o /\ mObj'[u] = mObj[u]
      BY <1>2, <2>1
  <2>3. Buf(u) # 0 => Buf(u) \in AliveIn(mMem) \ {Buf(o)}
      BY <2>2, BufsAre DEF MetaIInv, Owned
  <2> QED BY <2>1, <2>2, <2>3 DEF Buf, Locked
<1> QED BY <1>1, <1>3, <1>4 DEF MetaIInv

(* A call that is refused changes nothing. *)
LEMMA UnchangedStep ==
    ASSUME MetaIInv, UNCHANGED <<mObj, mMem, mRaw, mLent, mLost>>
    PROVE  MetaIInv'
BY DEF MetaIInv, Bufs, LentIsFrozen, Buf, Locked

(* clear, and what a null or a failed copy, or a locked other, makes of it.*)
LEMMA ClearedStep ==
    ASSUME MetaIInv, NEW o \in Metas, ~Locked(o), mMem' = Cleared(o, mMem), Holds(o, 0),
           UNCHANGED <<mRaw, mLent, mLost>>
    PROVE  MetaIInv'
<1>1. /\ Memory(mMem') /\ AliveIn(mMem') = AliveIn(mMem) \ {Buf(o)}
      /\ \A x \in AliveIn(mMem) \ {Buf(o)} : mMem'[x] = mMem[x]
    BY MemoryCleared DEF MetaIInv, AliveIn
<1>2. 0 \in 0 .. NumBuffers /\ 0 \notin AliveIn(mMem)
    BY MetaAssumption DEF AliveIn, MetaAssumption
<1>3. Owned([Bufs EXCEPT ![o] = 0], mRaw, mLost, (AliveIn(mMem) \ {Bufs[o]}) \cup ({0} \ {0}))
    BY <1>2, BufsAre, OwnReplace DEF MetaIInv
<1>4. (AliveIn(mMem) \ {Bufs[o]}) \cup ({0} \ {0}) = AliveIn(mMem')
    BY <1>1, BufsAre
<1>5. Owned([Bufs EXCEPT ![o] = 0], mRaw', mLost', AliveIn(mMem'))
    BY <1>3, <1>4
<1> QED BY <1>1, <1>2, <1>5, UnlockedStep

(* A copy takes the place of o's buffer: operator=, readFromParcel and     *)
(* resizeIfNeeded.                                                         *)
LEMMA MadeStep ==
    ASSUME MetaIInv, NEW o \in Metas, ~Locked(o), FreeBuffers # {}, Holds(o, Fresh),
           Memory(mMem'), AliveIn(mMem') = (AliveIn(mMem) \ {Buf(o)}) \cup {Fresh},
           \A x \in AliveIn(mMem) \ {Buf(o)} : mMem'[x] = mMem[x],
           UNCHANGED <<mRaw, mLent, mLost>>
    PROVE  MetaIInv'
<1>1. Fresh \in 0 .. NumBuffers /\ Fresh # 0 /\ Fresh \notin AliveIn(mMem)
    BY FreshIsDead, MetaAssumption DEF MetaAssumption
<1>2. Owned([Bufs EXCEPT ![o] = Fresh], mRaw, mLost, (AliveIn(mMem) \ {Bufs[o]}) \cup ({Fresh} \ {0}))
    BY <1>1, BufsAre, OwnReplace DEF MetaIInv
<1>3. (AliveIn(mMem) \ {Bufs[o]}) \cup ({Fresh} \ {0}) = AliveIn(mMem')
    BY <1>1, BufsAre
<1>4. Owned([Bufs EXCEPT ![o] = Fresh], mRaw', mLost', AliveIn(mMem'))
    BY <1>2, <1>3
<1> QED BY <1>1, <1>4, UnlockedStep

(* An object frees its buffer and keeps a new one. *)
LEMMA CopyStep ==
    ASSUME MetaIInv, NEW o \in Metas, ~Locked(o), FreeBuffers # {}, Holds(o, Fresh),
           NEW new, BufferOK(new), new.alive = TRUE, mMem' = Cleared(o, [mMem EXCEPT ![Fresh] = new]),
           UNCHANGED <<mRaw, mLent, mLost>>
    PROVE  MetaIInv'
<1> DEFINE mem == [mMem EXCEPT ![Fresh] = new]
<1>1. Fresh \in 1 .. NumBuffers /\ Fresh # 0 /\ Fresh \notin AliveIn(mMem)
    BY FreshIsDead
<1>2. /\ Memory(mem) /\ AliveIn(mem) = AliveIn(mMem) \cup {Fresh}
      /\ \A y \in 1 .. NumBuffers \ {Fresh} : mem[y] = mMem[y]
  <2>1. Memory(mMem)
      BY DEF MetaIInv
  <2> QED BY <1>1, <2>1, MemoryMake
<1> HIDE DEF mem
<1>3. /\ Memory(mMem') /\ AliveIn(mMem') = AliveIn(mem) \ {Buf(o)}
      /\ \A y \in 1 .. NumBuffers \ {Buf(o)} : mMem'[y] = mem[y]
    BY <1>2, MemoryCleared DEF mem
<1>4. Buf(o) # Fresh
    BY <1>1, BufsAre
<1>5. AliveIn(mMem') = (AliveIn(mMem) \ {Buf(o)}) \cup {Fresh}
    BY <1>2, <1>3, <1>4
<1>6. \A x \in AliveIn(mMem) \ {Buf(o)} : mMem'[x] = mMem[x]
    BY <1>1, <1>2, <1>3 DEF AliveIn
<1> QED BY <1>3, <1>5, <1>6, MadeStep

(* clear keeps the invariant. *)
LEMMA ClearKeeps ==
    ASSUME MetaIInv, NEW o \in Metas, clear(o)
    PROVE  MetaIInv'
<1>1. CASE Locked(o)
    BY <1>1, UnchangedStep DEF clear, OnlyBuffers
<1>2. CASE ~Locked(o)
    BY <1>2, ClearedStep DEF clear, OnlyBuffers
<1> QED BY <1>1, <1>2

(* The assignment keeps the invariant, with memory and without. *)
LEMMA AssignKeeps ==
    ASSUME MetaIInv, NEW o \in Metas, NEW p, NEW ok \in BOOLEAN, assign(o, p, ok)
    PROVE  MetaIInv'
<1> DEFINE new == Buffer(mMem[p].ents, Len(mMem[p].ents), Bytes(mMem[p].ents))
<1>1. CASE Locked(o) \/ p = Buf(o)
    BY <1>1, UnchangedStep DEF assign, OnlyBuffers
<1>2. CASE ~(Locked(o) \/ p = Buf(o)) /\ (p = 0 \/ ~ok)
    BY <1>2, ClearedStep DEF assign, OnlyBuffers
<1>3. CASE ~(Locked(o) \/ p = Buf(o)) /\ ~(p = 0 \/ ~ok)
  <2>1. BufferOK(new) /\ new.alive = TRUE
      BY BuffersMade
  <2>2. /\ FreeBuffers # {} /\ mMem' = Cleared(o, [mMem EXCEPT ![Fresh] = new])
        /\ Holds(o, Fresh) /\ UNCHANGED <<mRaw, mLent, mLost>>
      BY <1>3 DEF assign, OnlyBuffers
  <2> HIDE DEF new
  <2> QED BY <1>3, <2>1, <2>2, CopyStep
<1> QED BY <1>1, <1>2, <1>3

(* So does readFromParcel, of a good parcel and a bad one. *)
LEMMA ReadFromParcelKeeps ==
    ASSUME MetaIInv, NEW o \in Metas, NEW ents, NEW readable \in BOOLEAN, readFromParcel(o, ents, readable)
    PROVE  MetaIInv'
<1> DEFINE new == Buffer(ents, Len(ents), Bytes(ents))
<1>1. CASE Locked(o) \/ ~readable
    BY <1>1, UnchangedStep DEF readFromParcel, OnlyBuffers
<1>2. CASE ~(Locked(o) \/ ~readable) /\ ents = <<>>
    BY <1>2, ClearedStep DEF readFromParcel, OnlyBuffers
<1>3. CASE ~(Locked(o) \/ ~readable) /\ ents # <<>>
  <2>1. BufferOK(new) /\ new.alive = TRUE
      BY BuffersMade
  <2>2. /\ FreeBuffers # {} /\ mMem' = Cleared(o, [mMem EXCEPT ![Fresh] = new])
        /\ Holds(o, Fresh) /\ UNCHANGED <<mRaw, mLent, mLost>>
      BY <1>3 DEF readFromParcel, OnlyBuffers
  <2> HIDE DEF new
  <2> QED BY <1>3, <2>1, <2>2, CopyStep
<1> QED BY <1>1, <1>2, <1>3

(* release hands the buffer to the caller. *)
LEMMA ReleaseKeeps ==
    ASSUME MetaIInv, NEW o \in Metas, release(o)
    PROVE  MetaIInv'
<1>1. CASE Locked(o)
    BY <1>1, UnchangedStep DEF release
<1>2. CASE ~Locked(o)
  <2>1. Owned([Bufs EXCEPT ![o] = 0], mRaw \cup ({Bufs[o]} \ {0}), mLost, AliveIn(mMem))
      BY BufsAre, OwnGiveAway DEF MetaIInv
  <2>2. Holds(o, 0) /\ mRaw' = mRaw \cup ({Bufs[o]} \ {0}) /\ UNCHANGED <<mMem, mLent, mLost>>
      BY <1>2, BufsAre DEF release, GiveAway
  <2>3. 0 \in 0 .. NumBuffers /\ Memory(mMem')
      BY <2>2, MetaAssumption DEF MetaAssumption, MetaIInv
  <2> QED BY <1>2, <2>1, <2>2, <2>3, UnlockedStep
<1> QED BY <1>1, <1>2

(* acquire takes a buffer from the caller, which a locked object loses. *)
LEMMA AcquireBufferKeeps ==
    ASSUME MetaIInv, NEW o \in Metas, NEW p, acquireBuffer(o, p)
    PROVE  MetaIInv'
<1>1. p \in mRaw /\ mRaw' = mRaw \ {p} /\ UNCHANGED mLent
    BY DEF acquireBuffer
<1>2. /\ Owned([Bufs EXCEPT ![o] = p], mRaw \ {p}, mLost, AliveIn(mMem) \ {Bufs[o]})
      /\ Owned(Bufs, mRaw \ {p}, mLost \cup {p}, AliveIn(mMem))
    BY <1>1, BufsAre, OwnTakeRaw DEF MetaIInv
<1>3. CASE Locked(o)
  <2>1. mLost' = mLost \cup {p} /\ UNCHANGED <<mObj, mMem>>
      BY <1>3 DEF acquireBuffer
  <2> QED BY <1>1, <1>2, <2>1 DEF MetaIInv, Bufs, LentIsFrozen, Buf, Locked
<1>4. CASE ~Locked(o)
  <2>1. mMem' = Cleared(o, mMem) /\ Holds(o, p) /\ UNCHANGED mLost
      BY <1>4 DEF acquireBuffer
  <2>2. /\ Memory(mMem') /\ AliveIn(mMem') = AliveIn(mMem) \ {Bufs[o]}
        /\ \A x \in AliveIn(mMem) \ {Buf(o)} : mMem'[x] = mMem[x]
      BY <2>1, BufsAre, MemoryCleared DEF MetaIInv, AliveIn
  <2>3. p \in 0 .. NumBuffers
      BY <1>1, MetaAssumption DEF MetaIInv, Owned, AliveIn, MetaAssumption
  <2> QED BY <1>1, <1>2, <1>4, <2>1, <2>2, <2>3, UnlockedStep
<1> QED BY <1>3, <1>4

(* The destructor unlocks the object and clears it. *)
LEMMA DestroyKeeps ==
    ASSUME MetaIInv, NEW o \in Metas, destroy(o)
    PROVE  MetaIInv'
<1>1. /\ mMem' = Cleared(o, mMem) /\ UNCHANGED <<mRaw, mLost>>
      /\ mObj' = [mObj EXCEPT ![o] = [buf |-> 0, locked |-> FALSE]]
      /\ mLent' = [mLent EXCEPT ![o] = NotLent]
    BY DEF destroy
<1>2. /\ Memory(mMem') /\ AliveIn(mMem') = AliveIn(mMem) \ {Bufs[o]}
      /\ \A x \in AliveIn(mMem) \ {Buf(o)} : mMem'[x] = mMem[x]
    BY <1>1, BufsAre, MemoryCleared DEF MetaIInv, AliveIn
<1>3. 0 \in 0 .. NumBuffers /\ 0 \notin AliveIn(mMem)
    BY MetaAssumption DEF AliveIn, MetaAssumption
<1>4. /\ mObj' \in [Metas -> [buf : 0 .. NumBuffers, locked : BOOLEAN]]
      /\ \A u \in Metas \ {o} : mObj'[u] = mObj[u]
    BY <1>1, <1>3 DEF MetaIInv
<1>5. Bufs' = [Bufs EXCEPT ![o] = 0]
  <2>1. mObj'[o].buf = 0
      BY <1>1 DEF MetaIInv
  <2> QED BY <1>4, <2>1 DEF Bufs
<1>6. Owned(Bufs', mRaw', mLost', AliveIn(mMem'))
  <2>1. Owned([Bufs EXCEPT ![o] = 0], mRaw, mLost, (AliveIn(mMem) \ {Bufs[o]}) \cup ({0} \ {0}))
      BY <1>3, BufsAre, OwnReplace DEF MetaIInv
  <2>2. (AliveIn(mMem) \ {Bufs[o]}) \cup ({0} \ {0}) = AliveIn(mMem')
      BY <1>2
  <2> QED BY <1>1, <1>5, <2>1, <2>2
<1>7. mLent' = [u \in Metas |-> mLent'[u]] /\ mLent'[o] = NotLent /\ \A u \in Metas \ {o} : mLent'[u] = mLent[u]
    BY <1>1 DEF MetaIInv
<1>8. LentIsFrozen'
  <2> SUFFICES ASSUME NEW u \in Metas, mLent'[u] # NotLent
               PROVE  mObj'[u].locked /\ mObj'[u].buf = mLent'[u].buf
                      /\ (mObj'[u].buf # 0 => mMem'[mObj'[u].buf] = mLent'[u].was)
      BY DEF LentIsFrozen, Buf, Locked
  <2>1. u # o /\ mLent'[u] = mLent[u] /\ mObj'[u] = mObj[u]
      BY <1>4, <1>7
  <2>2. /\ Locked(u) /\ Buf(u) = mLent[u].buf
        /\ Buf(u) # 0 => mMem[Buf(u)] = mLent[u].was
      BY <2>1 DEF MetaIInv, LentIsFrozen
  <2>3. Buf(u) # 0 => Buf(u) \in AliveIn(mMem) \ {Buf(o)}
      BY <2>1, BufsAre DEF MetaIInv, Owned
  <2> QED BY <1>2, <2>1, <2>2, <2>3 DEF Buf, Locked
<1> QED BY <1>2, <1>4, <1>6, <1>7, <1>8 DEF MetaIInv

(* Steps that change locks alone. *)
LEMMA LockStep ==
    ASSUME MetaIInv, NEW o \in Metas, NEW b \in BOOLEAN, UNCHANGED <<mMem, mRaw, mLost>>,
           mObj' = [mObj EXCEPT ![o].locked = b],
           mLent' = [u \in Metas |-> mLent'[u]],
           \A u \in Metas \ {o} : mLent'[u] = mLent[u],
           mLent'[o] # NotLent => /\ b /\ Buf(o) = mLent'[o].buf
                                  /\ Buf(o) # 0 => mMem[Buf(o)] = mLent'[o].was
    PROVE  MetaIInv'
<1>1. /\ mObj' \in [Metas -> [buf : 0 .. NumBuffers, locked : BOOLEAN]]
      /\ \A u \in Metas \ {o} : mObj'[u] = mObj[u]
      /\ mObj'[o].buf = mObj[o].buf /\ mObj'[o].locked = b
    BY DEF MetaIInv
<1>2. Bufs' = Bufs
    BY <1>1 DEF Bufs
<1>3. ASSUME NEW u \in Metas, mLent'[u] # NotLent
      PROVE  mObj'[u].locked /\ mObj'[u].buf = mLent'[u].buf
             /\ (mObj'[u].buf # 0 => mMem'[mObj'[u].buf] = mLent'[u].was)
  <2>1. CASE u = o
      BY <1>1, <1>3, <2>1 DEF Buf
  <2>2. CASE u # o
      BY <1>1, <1>3, <2>2 DEF MetaIInv, LentIsFrozen, Buf, Locked
  <2> QED BY <2>1, <2>2
<1>4. LentIsFrozen'
    BY <1>3 DEF LentIsFrozen, Buf, Locked
<1> QED BY <1>1, <1>2, <1>4 DEF MetaIInv

(* getAndLock lends the buffer. *)
LEMMA GetAndLockKeeps ==
    ASSUME MetaIInv, NEW o \in Metas, getAndLock(o)
    PROVE  MetaIInv'
<1> DEFINE lent == [buf |-> Buf(o), was |-> IF Buf(o) = 0 THEN Dead ELSE mMem[Buf(o)]]
<1>1. /\ mObj' = [mObj EXCEPT ![o].locked = TRUE] /\ UNCHANGED <<mMem, mRaw, mLost>>
      /\ mLent' = [mLent EXCEPT ![o] = lent]
    BY DEF getAndLock
<1>2. /\ mLent' = [u \in Metas |-> mLent'[u]] /\ mLent'[o] = lent
      /\ \A u \in Metas \ {o} : mLent'[u] = mLent[u]
    BY <1>1 DEF MetaIInv
<1>3. Buf(o) = mLent'[o].buf /\ (Buf(o) # 0 => mMem[Buf(o)] = mLent'[o].was)
    BY <1>2
<1> HIDE DEF lent
<1> QED BY <1>1, <1>2, <1>3, LockStep

(* unlock takes back the buffer that was lent and no other. *)
LEMMA UnlockKeeps ==
    ASSUME MetaIInv, NEW o \in Metas, NEW p, unlock(o, p)
    PROVE  MetaIInv'
<1> DEFINE b == Locked(o) /\ ~Unlocks(o, p)
<1>1. /\ mObj' = [mObj EXCEPT ![o].locked = b] /\ UNCHANGED <<mMem, mRaw, mLost>>
      /\ mLent' = IF Locked(o) /\ p = mLent[o].buf THEN [mLent EXCEPT ![o] = NotLent] ELSE mLent
    BY DEF unlock
<1>2. b \in BOOLEAN
    BY DEF Unlocks
<1>3. mLent' = [u \in Metas |-> mLent'[u]] /\ \A u \in Metas \ {o} : mLent'[u] = mLent[u]
    BY <1>1 DEF MetaIInv
<1>4. ASSUME mLent'[o] # NotLent
      PROVE  b /\ Buf(o) = mLent'[o].buf /\ (Buf(o) # 0 => mMem[Buf(o)] = mLent'[o].was)
  <2>1. mLent' = mLent /\ ~(Locked(o) /\ p = mLent[o].buf)
      BY <1>1, <1>4 DEF MetaIInv
  <2>2. Locked(o) /\ Buf(o) = mLent[o].buf /\ (Buf(o) # 0 => mMem[Buf(o)] = mLent[o].was)
      BY <1>4, <2>1 DEF MetaIInv, LentIsFrozen
  <2> QED BY <2>1, <2>2 DEF Unlocks
<1> HIDE DEF b
<1> QED BY <1>1, <1>2, <1>3, <1>4, LockStep

(* A step that moves buffers between two objects, neither of them locked.  *)
LEMMA TwoUnlockedStep ==
    ASSUME MetaIInv, NEW o \in Metas, NEW other \in Metas, ~Locked(o), ~Locked(other),
           mObj' \in [Metas -> [buf : 0 .. NumBuffers, locked : BOOLEAN]],
           \A u \in Metas \ {o, other} : mObj'[u] = mObj[u],
           UNCHANGED mLent, Memory(mMem'),
           Owned(Bufs', mRaw', mLost', AliveIn(mMem')),
           \A x \in AliveIn(mMem) \ {Buf(o)} : mMem'[x] = mMem[x]
    PROVE  MetaIInv'
<1>1. ASSUME NEW u \in Metas, mLent[u] # NotLent
      PROVE  mObj'[u].locked /\ mObj'[u].buf = mLent[u].buf
             /\ (mObj'[u].buf # 0 => mMem'[mObj'[u].buf] = mLent[u].was)
  <2>1. /\ Locked(u) /\ Buf(u) = mLent[u].buf
        /\ Buf(u) # 0 => mMem[Buf(u)] = mLent[u].was
      BY <1>1 DEF MetaIInv, LentIsFrozen
  <2>2. u # o /\ u # other /\ mObj'[u] = mObj[u]
      BY <2>1
  <2>3. Buf(u) # 0 => Buf(u) \in AliveIn(mMem) \ {Buf(o)}
      BY <2>2, BufsAre DEF MetaIInv, Owned
  <2> QED BY <2>1, <2>2, <2>3 DEF Buf, Locked
<1>2. LentIsFrozen'
    BY <1>1 DEF LentIsFrozen, Buf, Locked
<1> QED BY <1>2 DEF MetaIInv

(* acquire takes the buffer of another object. *)
LEMMA AcquireKeeps ==
    ASSUME MetaIInv, NEW o \in Metas, NEW other \in Metas, acquire(o, other)
    PROVE  MetaIInv'
<1>1. CASE Locked(o)
    BY <1>1, UnchangedStep DEF acquire, OnlyBuffers
<1>2. CASE ~Locked(o) /\ Locked(other)
    BY <1>2, ClearedStep DEF acquire, OnlyBuffers
<1>3. CASE ~Locked(o) /\ ~Locked(other)
  <2>1. /\ mMem' = IF o = other THEN mMem ELSE Cleared(o, mMem)
        /\ mObj' = [[mObj EXCEPT ![other].buf = 0] EXCEPT ![o].buf = Buf(other)]
        /\ UNCHANGED <<mRaw, mLent, mLost>>
      BY <1>3 DEF acquire, OnlyBuffers
  <2>2. CASE o = other
    <3>1. mObj' = mObj
      <4>1. mObj[o] = [buf |-> Buf(o), locked |-> Locked(o)] /\ DOMAIN mObj = Metas
          BY DEF MetaIInv, Buf, Locked
      <4>2. /\ \A u \in Metas \ {o} : mObj'[u] = mObj[u]
            /\ mObj'[o] = [[mObj[o] EXCEPT !.buf = 0] EXCEPT !.buf = Buf(o)]
          BY <2>1, <2>2 DEF MetaIInv
      <4>3. mObj' \in [Metas -> [buf : 0 .. NumBuffers, locked : BOOLEAN]]
          BY <2>1, <2>2, BufsAre, MetaAssumption DEF MetaIInv, MetaAssumption
      <4>4. mObj'[o].buf = Buf(o) /\ mObj'[o].locked = Locked(o)
          BY <4>1, <4>2
      <4>5. mObj'[o] = [buf |-> mObj'[o].buf, locked |-> mObj'[o].locked]
          BY <4>3
      <4>6. mObj'[o] = mObj[o]
          BY <4>1, <4>4, <4>5
      <4> QED BY <4>2, <4>3, <4>6 DEF MetaIInv
    <3> QED BY <2>1, <2>2, <3>1, UnchangedStep
  <2>3. CASE o # other
    <3>1. /\ mObj' \in [Metas -> [buf : 0 .. NumBuffers, locked : BOOLEAN]]
          /\ \A u \in Metas \ {o, other} : mObj'[u] = mObj[u]
        BY <2>1, BufsAre, MetaAssumption DEF MetaIInv, MetaAssumption
    <3>2. mObj'[o].buf = Buf(other) /\ mObj'[other].buf = 0
        BY <2>1, <2>3 DEF MetaIInv
    <3>3. Bufs' = [[Bufs EXCEPT ![other] = 0] EXCEPT ![o] = Bufs[other]]
        BY <2>3, <3>1, <3>2, BufsAre DEF Bufs
    <3>4. /\ Memory(mMem') /\ AliveIn(mMem') = AliveIn(mMem) \ {Bufs[o]}
          /\ \A x \in AliveIn(mMem) \ {Buf(o)} : mMem'[x] = mMem[x]
        BY <2>1, <2>3, BufsAre, MemoryCleared DEF MetaIInv, AliveIn
    <3>5. Owned(Bufs', mRaw', mLost', AliveIn(mMem'))
      <4>1. Owned(Bufs, mRaw, mLost, AliveIn(mMem)) /\ Bufs \in [Metas -> 0 .. NumBuffers]
          BY BufsAre DEF MetaIInv
      <4>2. Owned([[Bufs EXCEPT ![other] = 0] EXCEPT ![o] = Bufs[other]], mRaw, mLost, AliveIn(mMem) \ {Bufs[o]})
          BY <2>3, <4>1, OwnTake
      <4> QED BY <2>1, <3>3, <3>4, <4>2
    <3> QED BY <1>3, <2>1, <3>1, <3>4, <3>5, TwoUnlockedStep
  <2> QED BY <2>2, <2>3
<1> QED BY <1>1, <1>2, <1>3

(* swap exchanges buffers of objects that are not locked. *)
LEMMA SwapKeeps ==
    ASSUME MetaIInv, NEW o \in Metas, NEW other \in Metas, swap(o, other)
    PROVE  MetaIInv'
<1>1. UNCHANGED <<mRaw, mLent, mLost, mMem>>
    BY DEF swap, OnlyBuffers
<1>2. CASE ~BothUnlocked(o, other)
    BY <1>1, <1>2, UnchangedStep DEF swap
<1>3. CASE BothUnlocked(o, other)
  <2>1. mObj' = [mObj EXCEPT ![o].buf = Buf(other), ![other].buf = Buf(o)]
      BY <1>3 DEF swap
  <2>2. /\ mObj' \in [Metas -> [buf : 0 .. NumBuffers, locked : BOOLEAN]]
        /\ \A u \in Metas \ {o, other} : mObj'[u] = mObj[u]
        /\ mObj'[o].buf = Buf(other) /\ mObj'[other].buf = Buf(o)
      BY <2>1, BufsAre DEF MetaIInv
  <2>3. Bufs' = [Bufs EXCEPT ![o] = Bufs[other], ![other] = Bufs[o]]
      BY <2>2, BufsAre DEF Bufs
  <2>4. Owned(Bufs', mRaw', mLost', AliveIn(mMem'))
      BY <1>1, <2>3, BufsAre, OwnSwap DEF MetaIInv
  <2>5. Memory(mMem') /\ ~Locked(o) /\ ~Locked(other)
      BY <1>1, <1>3 DEF MetaIInv, BothUnlocked
  <2> QED BY <1>1, <2>2, <2>4, <2>5, TwoUnlockedStep
<1> QED BY <1>2, <1>3

(* A larger copy is made and the old buffer is freed. *)
LargerMade(o, mem) ==
    /\ Memory(mem) /\ AliveIn(mem) = (AliveIn(mMem) \ {Buf(o)}) \cup {Fresh}
    /\ \A x \in AliveIn(mMem) \ {Buf(o)} : mem[x] = mMem[x]

(* A larger copy takes the place of the buffer that is freed. *)
LEMMA CopyMakes ==
    ASSUME MetaIInv, NEW o \in Metas, FreeBuffers # {}, NEW new, BufferOK(new), new.alive = TRUE
    PROVE  LargerMade(o, [Cleared(o, mMem) EXCEPT ![Fresh] = new])
<1> DEFINE mem == Cleared(o, mMem)
           made == [mem EXCEPT ![Fresh] = new]
<1>1. Fresh \in 1 .. NumBuffers /\ Fresh \notin AliveIn(mMem)
    BY FreshIsDead
<1>2. /\ Memory(mem) /\ AliveIn(mem) = AliveIn(mMem) \ {Buf(o)}
      /\ \A y \in 1 .. NumBuffers \ {Buf(o)} : mem[y] = mMem[y]
    BY MemoryCleared DEF MetaIInv
<1> HIDE DEF mem
<1>3. /\ Memory(made) /\ AliveIn(made) = AliveIn(mem) \cup {Fresh}
      /\ \A y \in 1 .. NumBuffers \ {Fresh} : made[y] = mem[y]
  <2>1. Memory(mem)
      BY <1>2
  <2> QED BY <1>1, <2>1, MemoryMake
<1> HIDE DEF made
<1>4. ASSUME NEW x \in AliveIn(mMem) \ {Buf(o)}
      PROVE  made[x] = mMem[x]
  <2>1. x \in 1 .. NumBuffers /\ x # Fresh /\ x # Buf(o)
      BY <1>1 DEF AliveIn
  <2> QED BY <1>2, <1>3, <2>1
<1>5. LargerMade(o, made)
    BY <1>2, <1>3, <1>4 DEF LargerMade
<1> QED BY <1>5 DEF made, mem

(* resizeIfNeeded keeps the buffer, makes another one, or loses it. *)
LEMMA ResizeOutcomes ==
    ASSUME MetaIInv, NEW o \in Metas, NEW extraEntries, NEW extraData, NEW ok \in BOOLEAN,
           ok => FreeBuffers # {},
           NEW r, r = resizeIfNeeded(o, extraEntries, extraData, ok)
    PROVE  \/ Buf(o) # 0 /\ r.buf = Buf(o) /\ r.mem = mMem /\ r.lost = {}
           \/ r.buf = 0 /\ r.mem = mMem /\ r.lost = {Buf(o)} \ {0}
           \/ ok /\ r.buf = Fresh /\ r.lost = {} /\ LargerMade(o, r.mem)
<1> DEFINE b == mMem[Buf(o)]
           ecap == Grown(Len(b.ents), extraEntries, b.ecap)
           dcap == Grown(Bytes(b.ents), extraData, b.dcap)
           made(mem, new) == [buf |-> Fresh, mem |-> [mem EXCEPT ![Fresh] = new], lost |-> {}]
<1>1. CASE Buf(o) = 0 /\ ok
  <2> DEFINE new == Buffer(<<>>, extraEntries * 2, extraData * 2)
  <2>1. r = made(mMem, new)
      BY <1>1 DEF resizeIfNeeded
  <2>2. Cleared(o, mMem) = mMem
      BY <1>1 DEF Cleared
  <2>3. LargerMade(o, [Cleared(o, mMem) EXCEPT ![Fresh] = new])
      BY <1>1, BuffersMade, CopyMakes
  <2> HIDE DEF new
  <2>4. r.buf = Fresh /\ r.lost = {} /\ r.mem = [Cleared(o, mMem) EXCEPT ![Fresh] = new]
      BY <2>1, <2>2
  <2> QED BY <1>1, <2>3, <2>4
<1>2. CASE Buf(o) = 0 /\ ~ok
    BY <1>2 DEF resizeIfNeeded
<1>3. CASE Buf(o) # 0 /\ ecap <= b.ecap /\ dcap <= b.dcap
    BY <1>3 DEF resizeIfNeeded
<1>4. CASE Buf(o) # 0 /\ ~(ecap <= b.ecap /\ dcap <= b.dcap) /\ ok
  <2> DEFINE new == Buffer(b.ents, ecap, dcap)
  <2>1. r = made(Cleared(o, mMem), new)
      BY <1>4 DEF resizeIfNeeded
  <2>2. LargerMade(o, [Cleared(o, mMem) EXCEPT ![Fresh] = new])
      BY <1>4, BuffersMade, CopyMakes
  <2> HIDE DEF new
  <2>3. r.buf = Fresh /\ r.lost = {} /\ r.mem = [Cleared(o, mMem) EXCEPT ![Fresh] = new]
      BY <2>1
  <2> QED BY <1>4, <2>2, <2>3
<1>5. CASE Buf(o) # 0 /\ ~(ecap <= b.ecap /\ dcap <= b.dcap) /\ ~ok
    BY <1>5 DEF resizeIfNeeded
<1> QED BY <1>1, <1>2, <1>3, <1>4, <1>5

(* What append and updateImpl do after resizeIfNeeded: the entries are     *)
(* written to the buffer that o has then, or nothing is.                   *)
LEMMA ResizedStep ==
    ASSUME MetaIInv, NEW o \in Metas, ~Locked(o), NEW extraEntries, NEW extraData, NEW ok \in BOOLEAN,
           ok => FreeBuffers # {},
           NEW r, r = resizeIfNeeded(o, extraEntries, extraData, ok),
           Holds(o, r.buf), mLost' = mLost \cup r.lost, UNCHANGED <<mRaw, mLent>>,
           NEW ents, mMem' = r.mem \/ (r.buf # 0 /\ mMem' = Replaced(r.mem, r.buf, ents))
    PROVE  MetaIInv'
<1>0. Memory(mMem)
    BY DEF MetaIInv
<1>1. CASE Buf(o) # 0 /\ r.buf = Buf(o) /\ r.mem = mMem /\ r.lost = {}
  <2>1. /\ Memory(mMem') /\ AliveIn(mMem') = AliveIn(mMem)
        /\ \A x \in AliveIn(mMem) \ {Buf(o)} : mMem'[x] = mMem[x]
    <3>1. CASE mMem' = mMem
        BY <1>0, <3>1
    <3>2. CASE mMem' = Replaced(mMem, Buf(o), ents)
        BY <1>0, <1>1, <3>2, BufsAre, MemoryWrite DEF AliveIn
    <3> QED BY <1>1, <3>1, <3>2
  <2>2. [Bufs EXCEPT ![o] = Buf(o)] = Bufs /\ Buf(o) \in 0 .. NumBuffers
      BY BufsAre
  <2>3. Owned([Bufs EXCEPT ![o] = Buf(o)], mRaw', mLost', AliveIn(mMem'))
      BY <1>1, <2>1, <2>2 DEF MetaIInv
  <2> QED BY <1>1, <2>1, <2>2, <2>3, UnlockedStep
<1>2. CASE r.buf = 0 /\ r.mem = mMem /\ r.lost = {Buf(o)} \ {0}
  <2>1. mMem' = mMem /\ Holds(o, 0) /\ mLost' = mLost \cup ({Bufs[o]} \ {0})
      BY <1>2, BufsAre
  <2>2. Owned([Bufs EXCEPT ![o] = 0], mRaw, mLost \cup ({Bufs[o]} \ {0}), AliveIn(mMem))
      BY BufsAre, OwnGiveAway DEF MetaIInv
  <2>3. 0 \in 0 .. NumBuffers
      BY MetaAssumption DEF MetaAssumption
  <2> QED BY <1>0, <2>1, <2>2, <2>3, UnlockedStep
<1>3. CASE ok /\ r.buf = Fresh /\ r.lost = {} /\ LargerMade(o, r.mem)
  <2>1. Fresh \in 1 .. NumBuffers /\ Fresh \notin AliveIn(mMem)
      BY <1>3, FreshIsDead
  <2>2. /\ Memory(r.mem) /\ AliveIn(r.mem) = (AliveIn(mMem) \ {Buf(o)}) \cup {Fresh}
        /\ \A x \in AliveIn(mMem) \ {Buf(o)} : r.mem[x] = mMem[x]
      BY <1>3 DEF LargerMade
  <2>3. /\ Memory(mMem') /\ AliveIn(mMem') = AliveIn(r.mem)
        /\ \A y \in 1 .. NumBuffers \ {Fresh} : mMem'[y] = r.mem[y]
    <3>1. CASE mMem' = r.mem
        BY <2>2, <3>1
    <3>2. CASE mMem' = Replaced(r.mem, Fresh, ents)
        BY <2>1, <2>2, <3>2, MemoryWrite
    <3> QED BY <1>3, <3>1, <3>2
  <2>4. \A x \in AliveIn(mMem) \ {Buf(o)} : mMem'[x] = mMem[x]
    <3> SUFFICES ASSUME NEW x \in AliveIn(mMem) \ {Buf(o)} PROVE mMem'[x] = mMem[x]
        OBVIOUS
    <3>1. x \in 1 .. NumBuffers /\ x # Fresh
        BY <2>1 DEF AliveIn
    <3> QED BY <2>2, <2>3, <3>1
  <2>5. Holds(o, Fresh) /\ UNCHANGED mLost /\ FreeBuffers # {}
      BY <1>3
  <2> QED BY <2>2, <2>3, <2>4, <2>5, MadeStep
<1> QED BY <1>1, <1>2, <1>3, ResizeOutcomes

(* append grows the buffer if it must. *)
LEMMA AppendKeeps ==
    ASSUME MetaIInv, NEW o \in Metas, NEW p, NEW ok \in BOOLEAN, append(o, p, ok)
    PROVE  MetaIInv'
<1> DEFINE r == resizeIfNeeded(o, Len(mMem[p].ents), Bytes(mMem[p].ents), ok)
           ents == r.mem[r.buf].ents \o mMem[p].ents
<1>1. UNCHANGED <<mRaw, mLent>> /\ (ok => FreeBuffers # {})
    BY DEF append
<1>2. CASE Locked(o)
    BY <1>1, <1>2, UnchangedStep DEF append
<1>3. CASE ~Locked(o)
  <2>1. /\ Holds(o, r.buf) /\ mLost' = mLost \cup r.lost
        /\ mMem' = r.mem \/ (r.buf # 0 /\ mMem' = Replaced(r.mem, r.buf, ents))
      BY <1>3 DEF append
  <2> HIDE DEF ents
  <2> QED BY <1>1, <1>3, <2>1, ResizedStep
<1> QED BY <1>2, <1>3

(* So does update. *)
LEMMA UpdateKeeps ==
    ASSUME MetaIInv, NEW o \in Metas, NEW tag, NEW val, NEW typed \in BOOLEAN, NEW own \in BOOLEAN,
           NEW ok \in BOOLEAN, update(o, tag, val, typed, own, ok)
    PROVE  MetaIInv'
<1> DEFINE r == resizeIfNeeded(o, 1, Outside(tag, val), ok)
           b == r.mem[r.buf]
           at == Find(b.ents, tag)
           ents == IF at = 0 THEN Append(b.ents, MetaEntry(tag, val)) ELSE [b.ents EXCEPT ![at] = MetaEntry(tag, val)]
<1>1. UNCHANGED <<mRaw, mLent>> /\ (ok => FreeBuffers # {})
    BY DEF update
<1>2. CASE ~MayUpdate(o, typed) \/ own
    BY <1>1, <1>2, UnchangedStep DEF update
<1>3. CASE MayUpdate(o, typed) /\ ~own
  <2>1. /\ Holds(o, r.buf) /\ mLost' = mLost \cup r.lost
        /\ mMem' = r.mem \/ (r.buf # 0 /\ mMem' = Replaced(r.mem, r.buf, ents))
      BY <1>3 DEF update
  <2>2. ~Locked(o)
      BY <1>3 DEF MayUpdate
  <2> HIDE DEF ents
  <2> QED BY <1>1, <2>1, <2>2, ResizedStep
<1> QED BY <1>2, <1>3

(* The entries of a buffer that is not lent are replaced. *)
LEMMA WrittenStep ==
    ASSUME MetaIInv, NEW o \in Metas, UNCHANGED <<mObj, mRaw, mLent, mLost>>, NEW ents,
           mMem' = mMem \/ (~Locked(o) /\ Buf(o) # 0 /\ mMem' = Replaced(mMem, Buf(o), ents))
    PROVE  MetaIInv'
<1>1. CASE mMem' = mMem
    BY <1>1, UnchangedStep
<1>2. CASE ~Locked(o) /\ Buf(o) # 0 /\ mMem' = Replaced(mMem, Buf(o), ents)
  <2>1. /\ Memory(mMem') /\ AliveIn(mMem') = AliveIn(mMem)
        /\ \A x \in AliveIn(mMem) \ {Buf(o)} : mMem'[x] = mMem[x]
    <3>1. Memory(mMem)
        BY DEF MetaIInv
    <3> QED BY <1>2, <3>1, BufsAre, MemoryWrite DEF AliveIn
  <2>2. Owned(Bufs', mRaw', mLost', AliveIn(mMem')) /\ \A u \in Metas : mObj'[u] = mObj[u]
      BY <2>1 DEF MetaIInv, Bufs
  <2>3. mObj' \in [Metas -> [buf : 0 .. NumBuffers, locked : BOOLEAN]]
      BY DEF MetaIInv
  <2> QED BY <1>2, <2>1, <2>2, <2>3, TwoUnlockedStep
<1> QED BY <1>1, <1>2

(* erase keeps the invariant. *)
LEMMA EraseKeeps ==
    ASSUME MetaIInv, NEW o \in Metas, NEW tag, erase(o, tag)
    PROVE  MetaIInv'
<1> DEFINE at == Find(mMem[Buf(o)].ents, tag)
           ents == RemoveAt(mMem[Buf(o)].ents, at)
<1>1. UNCHANGED <<mObj, mRaw, mLent, mLost>>
    BY DEF erase, OnlyBuffers
<1>2. mMem' = mMem \/ (~Locked(o) /\ Buf(o) # 0 /\ mMem' = Replaced(mMem, Buf(o), ents))
    BY DEF erase
<1> HIDE DEF ents
<1> QED BY <1>1, <1>2, WrittenStep

(* sort keeps the invariant. *)
LEMMA SortKeeps ==
    ASSUME MetaIInv, NEW o \in Metas, sort(o)
    PROVE  MetaIInv'
<1> DEFINE ents == SortSeq(mMem[Buf(o)].ents, LAMBDA e, f : e.tag < f.tag)
<1>1. UNCHANGED <<mObj, mRaw, mLent, mLost>>
    BY DEF sort, OnlyBuffers
<1>2. mMem' = mMem \/ (~Locked(o) /\ Buf(o) # 0 /\ mMem' = Replaced(mMem, Buf(o), ents))
    BY DEF sort
<1> HIDE DEF ents
<1> QED BY <1>1, <1>2, WrittenStep

(* The invariant of the metadata holds at the start. *)
LEMMA MetaInit == CameraMetadataInit => MetaIInv
<1> SUFFICES ASSUME CameraMetadataInit PROVE MetaIInv
    OBVIOUS
<1>1. mObj = [o \in Metas |-> [buf |-> 0, locked |-> FALSE]] /\ mMem = [b \in 1 .. NumBuffers |-> Dead]
    BY DEF CameraMetadataInit
<1>2. BufferOK(Dead) /\ ~Dead.alive
    BY DEF BufferOK, Dead
<1>3. Memory(mMem) /\ AliveIn(mMem) = {}
    BY <1>1, <1>2 DEF Memory, AliveIn
<1>4. Bufs = [o \in Metas |-> 0]
    BY <1>1 DEF Bufs
<1>5. Owned(Bufs, mRaw, mLost, AliveIn(mMem))
    BY <1>3, <1>4 DEF CameraMetadataInit, Owned
<1>6. mObj \in [Metas -> [buf : 0 .. NumBuffers, locked : BOOLEAN]]
    BY <1>1, MetaAssumption DEF MetaAssumption
<1>7. mLent = [o \in Metas |-> mLent[o]] /\ LentIsFrozen
    BY DEF CameraMetadataInit, LentIsFrozen
<1> QED BY <1>3, <1>5, <1>6, <1>7 DEF MetaIInv

(* No call of the metadata breaks the invariant. *)
LEMMA MetaStep == MetaIInv /\ [CameraMetadataNext]_mVars => MetaIInv'
<1> SUFFICES ASSUME MetaIInv, [CameraMetadataNext]_mVars PROVE MetaIInv'
    OBVIOUS
<1>1. CASE UNCHANGED mVars
    BY <1>1, UnchangedStep DEF mVars
<1>2. ASSUME NEW o \in Metas,
             \/ clear(o) \/ destroy(o) \/ getAndLock(o) \/ release(o) \/ sort(o)
             \/ \E p \in Pointers : unlock(o, p) \/ acquireBuffer(o, p)
             \/ \E other \in Metas : acquire(o, other) \/ swap(o, other)
      PROVE  MetaIInv'
    BY <1>2, ClearKeeps, DestroyKeeps, GetAndLockKeeps, ReleaseKeeps, SortKeeps, UnlockKeeps,
       AcquireBufferKeeps, AcquireKeeps, SwapKeeps
<1>3. ASSUME NEW o \in Metas,
             \/ \E p \in Pointers, ok \in BOOLEAN : assign(o, p, ok) \/ append(o, p, ok)
             \/ \E tag \in MetaTags : erase(o, tag)
             \/ \E tag \in MetaTags, val \in MetaVals, typed, own, ok \in BOOLEAN :
                   update(o, tag, val, typed, own, ok)
             \/ \E ents \in {<<>>, <<MetaEntry(2, 1)>>}, readable \in BOOLEAN :
                   readFromParcel(o, ents, readable)
      PROVE  MetaIInv'
    BY <1>3, AssignKeeps, AppendKeeps, EraseKeeps, UpdateKeeps, ReadFromParcelKeeps
<1> QED BY <1>1, <1>2, <1>3 DEF CameraMetadataNext

(* However objects are copied, locked, swapped, grown out of memory and    *)
(* destroyed, every buffer that is alive has one owner, none is freed      *)
(* twice or used after it was freed, and what was lent under a lock stays  *)
(* as it was: for any number of objects, buffers and calls.                *)
THEOREM BuffersAreOwnedAndFrozen == CameraMetadataSpec => [](BuffersHaveOneOwner /\ LentIsFrozen)
<1>1. MetaIInv => BuffersHaveOneOwner /\ LentIsFrozen
  <2> SUFFICES ASSUME MetaIInv PROVE BuffersHaveOneOwner
      BY DEF MetaIInv
  <2>1. \A o \in Metas : Bufs[o] = Buf(o)
      BY DEF Bufs, Buf
  <2>2. AliveIn(mMem) = {b \in DOMAIN mMem : mMem[b].alive}
      BY DEF MetaIInv, Memory, AliveIn
  <2> QED BY <2>1, <2>2 DEF MetaIInv, Owned, BuffersHaveOneOwner
<1> QED BY <1>1, MetaInit, MetaStep, PTL DEF CameraMetadataSpec
=============================================================================
