----------------------------- MODULE CameraClient -----------------------------
(***************************************************************************)
(* The client's side of the camera shims: CameraBase, with the camera      *)
(* service it caches for the process and the deaths it is told of, and     *)
(* Camera, whose methods any thread of an application calls while the      *)
(* binder's thread brings frames and obituaries.                           *)
(*                                                                         *)
(* A service, and a camera that it has connected, are known by the         *)
(* incarnation of the service, 0 is a null pointer.  Two kinds of pointers *)
(* are told apart: one that was copied to a local variable, and one that   *)
(* is read again where it is used.                                         *)
(***************************************************************************)
EXTENDS Naturals, Sequences, FiniteSets

CONSTANTS
    ClientThreads, \* threads of the application
    MaxDeaths,     \* how often the service may die
    MaxFrames,     \* frames recorded
    MaxStops       \* recordings stopped

ASSUME ClientAssumption ==
    {MaxDeaths, MaxFrames, MaxStops} \subseteq Nat /\ IsFiniteSet(ClientThreads)

VARIABLES
    incarnation, published,    \* the service, and whether it lives
    gCameraService, gLinked,   \* the cached service, and those linked to gDeathNotifier
    gNotices,                  \* obituaries on their way to gDeathNotifier
    mCamera, mLinked,          \* the Camera's remote, and the one it is linked to
    mNotices,                  \* obituaries on their way to the Camera
    mObituary,                 \* what became of the one it got: "told" or "dropped"
    mListener, mRecordingProxyListener,
    mListening,                \* history: mListener was set while the remote lived, and since
    kThread,                   \* what each thread is doing: [op, at, p]
    kRecording,                \* the service's recording: [by, session], <<>> for none
    kSession,                  \* stopRecording calls so far
    kFrames,                   \* the frames made: [by, session, at]
    kFaults                    \* the operations that have called through a null pointer

kVars == <<incarnation, published, gCameraService, gLinked, gNotices, mCamera, mLinked, mNotices,
           mObituary, mListener, mRecordingProxyListener, mListening, kThread, kRecording, kSession, kFrames, kFaults>>
serviceVars == <<incarnation, published>>
cacheVars == <<gCameraService, gLinked, gNotices>>
cameraVars == <<mCamera, mLinked, mNotices, mObituary>>
listenerVars == <<mListener, mRecordingProxyListener, mListening>>
recordVars == <<kRecording, kSession, kFrames>>

IdleThread == [op |-> "idle", at |-> "", p |-> 0]

CameraClientInit ==
    /\ incarnation = 1 /\ published = TRUE
    /\ gCameraService = 0 /\ gLinked = {} /\ gNotices = {}
    /\ mCamera = 0 /\ mLinked = 0 /\ mNotices = {} /\ mObituary = "none"
    /\ mListener = FALSE /\ mRecordingProxyListener = FALSE /\ mListening = FALSE
    /\ kThread = [t \in ClientThreads |-> IdleThread]
    /\ kRecording = <<>> /\ kSession = 0 /\ kFrames = <<>> /\ kFaults = {}

FrameDone == {"proxy", "app", "released", "dropped"}
Lives(i) == published /\ i = incarnation
GoOn(t, op, at, p) == kThread' = [kThread EXCEPT ![t] = [op |-> op, at |-> at, p |-> p]]
Returns(t) == kThread' = [kThread EXCEPT ![t] = IdleThread]
IsIdle(t) == kThread[t] = IdleThread
Doing(t, at) == kThread[t].at = at

-----------------------------------------------------------------------------
(* The service, outside the repository. *)

ServiceDown ==
    /\ published /\ incarnation <= MaxDeaths
    /\ published' = FALSE
    /\ gNotices' = gNotices \cup (gLinked \cap {incarnation})
    /\ mNotices' = mNotices \cup ({mLinked} \cap {incarnation})
    /\ kRecording' = <<>>
    /\ UNCHANGED <<incarnation, gCameraService, gLinked, mCamera, mLinked, mObituary, listenerVars,
                   kThread, kSession, kFrames, kFaults>>

(* The last death within the bound is for good. *)
ServiceUp ==
    /\ ~published /\ incarnation < MaxDeaths
    /\ published' = TRUE /\ incarnation' = incarnation + 1
    /\ UNCHANGED <<cacheVars, cameraVars, listenerVars, recordVars, kThread, kFaults>>

-----------------------------------------------------------------------------
(* CameraBase: the cached service. *)

(* DeathNotifier::binderDied. *)
ServiceDied(i) ==
    /\ i \in gNotices
    /\ gCameraService' = 0 /\ gNotices' = gNotices \ {i}
    /\ UNCHANGED <<serviceVars, gLinked, cameraVars, listenerVars, recordVars, kThread, kFaults>>

ServiceOps == {"connect", "getCameraInfo", "getNumberOfCameras"}

(* Mutant: the service is linked only when the notifier is made. *)
linkOnce == IF gLinked = {} THEN {incarnation} ELSE gLinked

linkToDeath == gLinked \cup {incarnation}

(* The Camera is a new one after a disconnect; what is still under way in  *)
(* the old one, whose remote is null, cannot change anything.              *)
NoCamera ==
    /\ mCamera = 0 /\ \A u \in ClientThreads : kThread[u].op \in {"idle", "getCameraInfo", "getNumberOfCameras"}
    /\ \A n \in DOMAIN kFrames : kFrames[n].at \in FrameDone

(* getCameraService polls until the service is there; the lock is held    *)
(* until it returns a reference to the cached pointer.                     *)
getCameraService(t, op) ==
    /\ IsIdle(t)
    /\ op = "connect" => NoCamera
    /\ \/ gCameraService # 0 /\ UNCHANGED cacheVars
       \/ gCameraService = 0 /\ published
          /\ gCameraService' = incarnation /\ gLinked' = linkToDeath /\ UNCHANGED gNotices
    /\ GoOn(t, op, "got", 0)
    /\ UNCHANGED <<serviceVars, cameraVars, listenerVars, recordVars, kFaults>>

(* The caller looks at what was returned; getNumberOfCameras copies it.    *)
CheckService(t) ==
    /\ Doing(t, "got")
    /\ IF gCameraService = 0 THEN Returns(t)
       ELSE GoOn(t, kThread[t].op, "checked",
                 IF kThread[t].op = "getNumberOfCameras" THEN gCameraService ELSE 0)
    /\ UNCHANGED <<serviceVars, cacheVars, cameraVars, listenerVars, recordVars, kFaults>>

(* The pointer a service's method is called through. *)
ServicePointer(t) == IF kThread[t].op = "getNumberOfCameras" THEN kThread[t].p ELSE gCameraService

CallService(t, accepted) ==
    LET cs == ServicePointer(t) IN
    /\ Doing(t, "checked")
    /\ IF cs # 0 /\ kThread[t].op = "connect" /\ Lives(cs) /\ accepted
       THEN GoOn(t, "connect", "connected", cs) ELSE Returns(t)
    /\ kFaults' = kFaults \cup (IF cs = 0 THEN {kThread[t].op} ELSE {})
    /\ UNCHANGED <<serviceVars, cacheVars, cameraVars, listenerVars, recordVars>>

(* Mutant: a remote that is dead already is linked without a word. *)
LinkUnnoticed(i) == mLinked' = i /\ mNotices' = {}

(* linkToDeath: the obituary of a dead remote comes at once. *)
LinkCamera(i) == mLinked' = i /\ mNotices' = IF Lives(i) THEN {} ELSE {i}

(* The end of connect and connectLegacy: a new Camera is returned. *)
Connected(t) ==
    /\ Doing(t, "connected")
    /\ mCamera' = kThread[t].p /\ LinkCamera(kThread[t].p) /\ mObituary' = "none"
    /\ mListener' = FALSE /\ mRecordingProxyListener' = FALSE /\ mListening' = FALSE
    /\ Returns(t)
    /\ UNCHANGED <<serviceVars, cacheVars, recordVars, kFaults>>

-----------------------------------------------------------------------------
(* Camera. *)

setListener(t, set) ==
    /\ IsIdle(t) /\ mCamera # 0
    /\ mListener' = set
    /\ mListening' = (set /\ (mListening \/ Lives(mCamera)))
    /\ UNCHANGED <<serviceVars, cacheVars, cameraVars, mRecordingProxyListener, recordVars,
                   kThread, kFaults>>

(* Mutant: the listener of the recordings is looked at. *)
ToldByProxy(i) ==
    /\ i \in mNotices
    /\ mNotices' = mNotices \ {i}
    /\ mObituary' = IF mRecordingProxyListener THEN "told" ELSE "dropped"
    /\ UNCHANGED <<serviceVars, cacheVars, mCamera, mLinked, listenerVars, recordVars, kThread, kFaults>>

(* binderDied and notifyCallback: the error is passed on to the listener   *)
(* that is set, and to nobody when there is none.                          *)
CameraDied(i) ==
    /\ i \in mNotices
    /\ mNotices' = mNotices \ {i}
    /\ mObituary' = IF mListener THEN "told" ELSE "dropped"
    /\ UNCHANGED <<serviceVars, cacheVars, mCamera, mLinked, listenerVars, recordVars, kThread, kFaults>>

(* A method starts with a copy of mCamera and returns if it is null, and   *)
(* calls through the copy: startPreview stands for all of these.           *)
(* getParameters, setPreviewCallbackFlags and disconnect use mCamera again.*)
MethodOps == {"startPreview", "getParameters", "disconnect"}
MethodStart(t, op) ==
    /\ IsIdle(t) /\ mCamera # 0
    /\ GoOn(t, op, "method", IF op = "startPreview" THEN mCamera ELSE 0)
    /\ UNCHANGED <<serviceVars, cacheVars, cameraVars, listenerVars, recordVars, kFaults>>

(* Mutant: the copy is only looked at. *)
RemoteReread(t) == mCamera

(* The pointer a method calls through. *)
RemotePointer(t) == IF kThread[t].op = "startPreview" THEN kThread[t].p ELSE mCamera

MethodCall(t) ==
    /\ Doing(t, "method")
    /\ IF kThread[t].op = "disconnect" /\ RemotePointer(t) # 0
       THEN /\ GoOn(t, "disconnect", "unlink", 0)
            /\ kRecording' = IF Lives(mCamera) THEN <<>> ELSE kRecording
       ELSE Returns(t) /\ UNCHANGED kRecording
    /\ kFaults' = kFaults \cup (IF RemotePointer(t) = 0 THEN {kThread[t].op} ELSE {})
    /\ UNCHANGED <<serviceVars, cacheVars, cameraVars, listenerVars, kSession, kFrames>>

(* Mutant: the remote is dropped without unlinkToDeath. *)
DropLinked == mCamera' = 0 /\ UNCHANGED <<mLinked, mNotices>>

(* The end of disconnect: unlinkToDeath, and the remote is dropped. *)
DropRemote == mCamera' = 0 /\ mLinked' = 0 /\ mNotices' = {}

Disconnected(t) ==
    /\ Doing(t, "unlink")
    /\ Returns(t) /\ mObituary' = "none" /\ mListening' = FALSE
    /\ kFaults' = kFaults \cup (IF mCamera = 0 THEN {"disconnect"} ELSE {})
    /\ DropRemote
    /\ UNCHANGED <<serviceVars, cacheVars, mListener, mRecordingProxyListener, recordVars>>

-----------------------------------------------------------------------------
(* Recording, by the application itself or through a RecordingProxy. *)

(* Mutant: the listener is set once the recording has started. *)
startThenListen(t, by) ==
    /\ IsIdle(t) /\ mCamera # 0
    /\ GoOn(t, by, "start", kSession)
    /\ UNCHANGED <<serviceVars, cacheVars, cameraVars, listenerVars, recordVars, kFaults>>

startRecording(t, by) ==
    /\ IsIdle(t) /\ mCamera # 0
    /\ mRecordingProxyListener' = (mRecordingProxyListener \/ by = "proxy")
    /\ GoOn(t, by, "start", kSession)
    /\ UNCHANGED <<serviceVars, cacheVars, cameraVars, mListener, mListening, recordVars, kFaults>>

(* The service records for a client that it has not disconnected. *)
ServiceRecords(t) ==
    /\ Doing(t, "start")
    /\ kRecording' = IF mCamera # 0 /\ Lives(mCamera) /\ kRecording = <<>>
                        /\ \A u \in ClientThreads : ~Doing(u, "unlink")
                     THEN <<[by |-> kThread[t].op, session |-> kThread[t].p]>> ELSE kRecording
    /\ Returns(t)
    /\ UNCHANGED <<serviceVars, cacheVars, cameraVars, listenerVars, kSession, kFrames, kFaults>>

stopRecording(t) ==
    /\ IsIdle(t) /\ mCamera # 0 /\ kSession < MaxStops
    /\ mRecordingProxyListener' = FALSE /\ kSession' = kSession + 1
    /\ GoOn(t, "stopRecording", "stop", 0)
    /\ UNCHANGED <<serviceVars, cacheVars, cameraVars, mListener, mListening, kRecording, kFrames, kFaults>>

ServiceStops(t) ==
    /\ Doing(t, "stop")
    /\ kRecording' = IF mCamera # 0 /\ Lives(mCamera) THEN <<>> ELSE kRecording
    /\ Returns(t)
    /\ UNCHANGED <<serviceVars, cacheVars, cameraVars, listenerVars, kSession, kFrames, kFaults>>

(* The service sends a frame; the binder's thread takes one at a time.     *)
FrameIs(n, at) == kFrames' = [kFrames EXCEPT ![n].at = at]

MakeFrame ==
    /\ kRecording # <<>> /\ Len(kFrames) < MaxFrames
    /\ kFrames' = Append(kFrames, [by |-> kRecording[1].by, session |-> kRecording[1].session,
                                   at |-> "sent"])
    /\ UNCHANGED <<serviceVars, cacheVars, cameraVars, listenerVars, kRecording, kSession, kThread, kFaults>>

(* dataCallbackTimestamp: mRecordingProxyListener is copied under the      *)
(* lock, and if there is none mListener, under the lock again; the frame   *)
(* is passed on after that, or released.                                   *)
FrameStep(n) ==
    /\ \A k \in 1 .. n - 1 : kFrames[k].at \in FrameDone
    /\ FrameIs(n, CASE kFrames[n].at = "sent" -> IF mRecordingProxyListener THEN "forward" ELSE "none"
                    [] kFrames[n].at = "none" -> IF mListener THEN "post" ELSE "release"
                    [] kFrames[n].at = "forward" -> "proxy"
                    [] kFrames[n].at = "post" -> "app"
                    [] kFrames[n].at = "release" -> IF mCamera = 0 THEN "dropped" ELSE "released")
    /\ UNCHANGED <<serviceVars, cacheVars, cameraVars, listenerVars, kRecording, kSession, kThread, kFaults>>

dataCallbackTimestamp ==
    \E n \in DOMAIN kFrames :
        kFrames[n].at \notin FrameDone /\ FrameStep(n)

(* A call through a null pointer ends the process. *)
CameraClientNext ==
    /\ kFaults = {}
    /\ \/ ServiceDown \/ ServiceUp
       \/ \E i \in gNotices : ServiceDied(i)
       \/ \E i \in mNotices : CameraDied(i)
       \/ MakeFrame \/ dataCallbackTimestamp
       \/ \E t \in ClientThreads :
             \/ \E op \in ServiceOps : getCameraService(t, op)
             \/ CheckService(t)
             \/ \E accepted \in BOOLEAN : CallService(t, accepted)
             \/ Connected(t)
             \/ \E set \in BOOLEAN : setListener(t, set)
             \/ \E op \in MethodOps : MethodStart(t, op)
             \/ MethodCall(t) \/ Disconnected(t)
             \/ \E by \in {"app", "proxy"} : startRecording(t, by)
             \/ ServiceRecords(t) \/ stopRecording(t) \/ ServiceStops(t)

CameraClientSpec == CameraClientInit /\ [][CameraClientNext]_kVars

-----------------------------------------------------------------------------
(* Pointers are incarnations that have been, the Camera is linked to its   *)
(* remote alone, and only obituaries of what is linked are on their way.   *)
CameraClientTypeOK ==
    /\ incarnation \in 1 .. MaxDeaths + 1 /\ published \in BOOLEAN
    /\ gCameraService \in 0 .. incarnation /\ gNotices \subseteq gLinked
    /\ mLinked = mCamera /\ mCamera \in 0 .. incarnation
    /\ mNotices \subseteq {mLinked} /\ mObituary \in {"none", "told", "dropped"}
    /\ mListening \in BOOLEAN /\ (mListening => mListener)
    /\ Len(kFrames) <= MaxFrames /\ kSession <= MaxStops

(* getCameraService never keeps a dead service for good: while one is      *)
(* cached its obituary is on its way to gDeathNotifier, however often the  *)
(* service has come and gone.                                              *)
DeadServiceIsForgotten ==
    gCameraService # 0 /\ ~Lives(gCameraService) => gCameraService \in gNotices

(* A Camera whose service has died, at any time since connect, has its     *)
(* obituary on the way or has had it, and an application whose listener    *)
(* was set before the death and stayed set has been or will be told with   *)
(* CAMERA_ERROR_SERVER_DIED.  Others may miss it: the error is dropped     *)
(* when no listener is set (notifyCallback), as after a death between      *)
(* connect and linkToDeath, and is not repeated for a later listener.      *)
CameraLearnsOfDeath ==
    mCamera # 0 /\ ~Lives(mCamera) =>
        \/ mCamera \in mNotices
        \/ mObituary = "told"
        \/ mObituary = "dropped" /\ ~mListening

(* "The other listener (mListener) is ignored": a frame recorded through a *)
(* RecordingProxy goes to the application's own listener only after that   *)
(* recording was stopped, or with another Camera.                          *)
ProxyFramesGoToProxy ==
    \A n \in DOMAIN kFrames :
        kFrames[n].by = "proxy" /\ kFrames[n].at \in {"post", "app", "release", "released"}
            => kFrames[n].session < kSession

(* A method that calls through its copy of the pointer never calls through *)
(* null, whatever disconnects and obituaries come between its steps.       *)
CopiesAreSafe == kFaults \cap {"startPreview", "getNumberOfCameras"} = {}

(* No death of the service goes unnoticed: by the cache, by the Camera, or *)
(* by an application that was listening when it came.                      *)
DeathsAreNoticed == CameraClientTypeOK /\ DeadServiceIsForgotten /\ CameraLearnsOfDeath

(* Races of methods, frames and obituaries do no harm where the code takes *)
(* copies under its locks.                                                 *)
RacesAreSafe == ProxyFramesGoToProxy /\ CopiesAreSafe
=============================================================================
