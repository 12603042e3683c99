----------------------------- MODULE CameraBinder -----------------------------
(***************************************************************************)
(* The binder interfaces of the camera shims.  The proxy (Bp...) and the   *)
(* stub (Bn...) of an interface are two hand-written copies of the same    *)
(* layout; each is a table from the methods to the fields it writes and    *)
(* reads.  A call writes the data parcel, the service reads it, does what  *)
(* it is asked for and writes the reply, and the caller reads that; the    *)
(* service may die before or after it was called, which leaves the caller  *)
(* an empty reply.                                                         *)
(***************************************************************************)
EXTENDS Parcels, TLC

(* A proxy's method: what it writes and reads, and how it makes a result   *)
(* of what it has read.                                                    *)
Bp(w, r, ret) == [w |-> w, r |-> r, ret |-> ret]
(* A stub's: what it reads and writes, and the value it cannot do without. *)
Bn(r, w) == [r |-> r, w |-> w, need |-> ""]

Plain(w) == Bp(w, <<Int32("result")>>, "plain")
Void(w) == Bp(w, <<>>, "void")
Answer(r) == Bn(r, <<Int32("result")>>)
Silent(r) == Bn(r, <<>>)
XPlain(w) == Bp(w, <<Exc, Int32("result")>>, "plain")
XAnswer(r) == Bn(r, <<Exc, Int32("result")>>)

-----------------------------------------------------------------------------
(* ICamera. *)

BpCamera ==
    [disconnect |-> Bp(<<>>, <<Exc>>, "void"),
     setPreviewTarget |-> Plain(<<Binder("bufferProducer")>>),
     setPreviewCallbackFlag |-> Void(<<Int32("flag")>>),
     setPreviewCallbackTarget |-> Plain(<<Binder("callbackProducer")>>),
     startPreview |-> Plain(<<>>), startRecording |-> Plain(<<>>),
     stopPreview |-> Void(<<>>), stopRecording |-> Void(<<>>),
     releaseRecordingFrame |-> Void(<<Binder("mem")>>),
     storeMetaDataInBuffers |-> Plain(<<Int32("enabled")>>),
     previewEnabled |-> Plain(<<>>), recordingEnabled |-> Plain(<<>>),
     autoFocus |-> Plain(<<>>), cancelAutoFocus |-> Plain(<<>>)]

BpCameraControl ==
    [takePicture |-> Plain(<<Int32("msgType")>>),
     setParameters |-> Plain(<<Str8("params")>>),
     getParameters |-> Bp(<<>>, <<Str8("params")>>, "void"),
     sendCommand |-> Plain(<<Int32("cmd"), Int32("arg1"), Int32("arg2")>>),
     connect |-> Plain(<<Binder("cameraClient")>>),
     lock |-> Plain(<<>>), unlock |-> Plain(<<>>)]

BnCamera ==
    [disconnect |-> Bn(<<>>, <<Exc>>),
     setPreviewTarget |-> Answer(<<Binder("bufferProducer")>>),
     setPreviewCallbackFlag |-> Silent(<<Int32("flag")>>),
     setPreviewCallbackTarget |-> Answer(<<Binder("callbackProducer")>>),
     startPreview |-> Answer(<<>>), startRecording |-> Answer(<<>>),
     stopPreview |-> Silent(<<>>), stopRecording |-> Silent(<<>>),
     releaseRecordingFrame |-> Silent(<<Binder("mem")>>),
     storeMetaDataInBuffers |-> Answer(<<Int32("enabled")>>),
     previewEnabled |-> Answer(<<>>), recordingEnabled |-> Answer(<<>>),
     autoFocus |-> Answer(<<>>), cancelAutoFocus |-> Answer(<<>>)]

BnCameraControl ==
    [takePicture |-> Answer(<<Int32("msgType")>>),
     setParameters |-> Answer(<<Str8("params")>>),
     getParameters |-> Bn(<<>>, <<Str8("params")>>),
     sendCommand |-> Answer(<<Int32("cmd"), Int32("arg1"), Int32("arg2")>>),
     connect |-> Answer(<<Binder("cameraClient")>>),
     lock |-> Answer(<<>>), unlock |-> Answer(<<>>)]

-----------------------------------------------------------------------------
(* ICameraService.  getLegacyParameters and supportsCameraApi read their   *)
(* result from the data parcel they have written and not from the reply.   *)

Device == <<Exc, Int32("result"), Given("device"), Opt(Binder("device"), "device")>>

BpService ==
    [getNumberOfCameras |-> XPlain(<<Int32("type")>>),
     getCameraInfo |-> Bp(<<Int32("cameraId")>>,
                          <<Exc, Int32("result"), Given("facing"), Opt(Int32("facing"), "facing"),
                            Opt(Int32("orientation"), "facing")>>, "plain"),
     getCameraCharacteristics |-> Bp(<<Int32("cameraId")>>,
                          <<Exc, Int32("result"), Given("info"), Opt(Metadata("info"), "info")>>, "plain"),
     getCameraVendorTagDescriptor |-> Bp(<<>>,
                          <<Exc, Int32("result"), Given("desc"), Opt(Field("tags", "desc"), "desc")>>, "plain"),
     connect |-> Bp(<<Binder("cameraClient"), Int32("cameraId"), Str16("clientPackageName"),
                      Int32("clientUid")>>, Device, "checked"),
     connectLegacy |-> Bp(<<Binder("cameraClient"), Int32("cameraId"), Int32("halVersion"),
                            Str16("clientPackageName"), Int32("clientUid")>>, Device, "checked")]

BpServiceControl ==
    [setTorchMode |-> XPlain(<<Str16("cameraId"), Int32("enabled"), Binder("clientBinder")>>),
     connectDevice |-> Bp(<<Binder("cameraCb"), Int32("cameraId"), Str16("clientPackageName"),
                            Int32("clientUid")>>, Device, "checked"),
     addListener |-> XPlain(<<Binder("listener")>>),
     removeListener |-> XPlain(<<Binder("listener")>>),
     getLegacyParameters |-> Bp(<<Int32("cameraId")>>, <<Exc>>, "data"),
     supportsCameraApi |-> Bp(<<Int32("cameraId"), Int32("apiVersion")>>, <<Exc>>, "data"),
     notifySystemEvent |-> Void(<<Int32("eventId"), Field("array", "args")>>)]

BnService ==
    [getNumberOfCameras |-> XAnswer(<<Int32("type")>>),
     getCameraInfo |-> Bn(<<Int32("cameraId")>>,
                          <<Exc, Int32("result"), One, Int32("facing"), Int32("orientation")>>),
     getCameraCharacteristics |-> Bn(<<Int32("cameraId")>>,
                          <<Exc, Int32("result"), One, Metadata("info")>>),
     getCameraVendorTagDescriptor |-> Bn(<<>>,
                          <<Exc, Int32("result"), Given("desc"), Opt(Field("tags", "desc"), "desc")>>),
     connect |-> Bn(<<Binder("cameraClient"), Int32("cameraId"), Str16("clientPackageName"),
                      Int32("clientUid")>>, Device),
     connectDevice |-> Bn(<<Binder("cameraCb"), Int32("cameraId"), Str16("clientPackageName"),
                            Int32("clientUid")>>, Device),
     addListener |-> XAnswer(<<Binder("listener")>>)]

BnServiceControl ==
    [removeListener |-> XAnswer(<<Binder("listener")>>),
     getLegacyParameters |-> Bn(<<Int32("cameraId")>>,
                                <<Exc, Int32("result"), One, Str16("parameters")>>),
     supportsCameraApi |-> XAnswer(<<Int32("cameraId"), Int32("apiVersion")>>),
     connectLegacy |-> Bn(<<Binder("cameraClient"), Int32("cameraId"), Int32("halVersion"),
                            Str16("clientPackageName"), Int32("clientUid")>>, Device),
     setTorchMode |-> XAnswer(<<Str16("cameraId"), Int32("enabled"), Binder("clientBinder")>>),
     notifySystemEvent |-> Silent(<<Int32("eventId"), Field("array", "args")>>)]

-----------------------------------------------------------------------------
(* ICameraDeviceUser. *)

FrameIn == <<Exc, Int32("result"), Given("frame"), Opt(Int64("frame"), "frame")>>

BpDevice ==
    [disconnect |-> Bp(<<>>, <<Exc>>, "void"),
     submitRequest |-> Bp(<<Given("request"), Opt(Field("request", "request"), "request"),
                            Int32("repeating")>>, FrameIn, "frame"),
     submitRequestList |-> Bp(<<Field("requests", "requests"), Int32("repeating")>>, FrameIn, "frame"),
     cancelRequest |-> Bp(<<Int32("requestId")>>, FrameIn, "frame"),
     beginConfigure |-> XPlain(<<>>),
     endConfigure |-> XPlain(<<Int32("isConstrainedHighSpeed")>>)]

BpDeviceStreams ==
    [deleteStream |-> XPlain(<<Int32("streamId")>>),
     createStream |-> XPlain(<<Given("gbp")>> \o Opts(WriteOutput, "gbp")),
     createInputStream |-> XPlain(<<Int32("width"), Int32("height"), Int32("format")>>),
     getInputBufferProducer |-> Bp(<<>>,
         <<Exc, Int32("result"), Given("producer"), Opt(Str16("name"), "producer"),
           Opt(Binder("producer"), "producer")>>, "surface"),
     createDefaultRequest |-> Bp(<<Int32("templateId")>>,
         <<Exc, Int32("result"), Given("settings"), Opt(Metadata("settings"), "settings")>>, "plain"),
     getCameraInfo |-> Bp(<<>>,
         <<Exc, Int32("result"), Given("info"), Opt(Metadata("info"), "info")>>, "plain")]

BpDeviceControl ==
    [waitUntilIdle |-> XPlain(<<>>),
     flush |-> Bp(<<>>, FrameIn, "frame"),
     prepare |-> XPlain(<<Int32("streamId")>>),
     prepare2 |-> XPlain(<<Int32("maxCount"), Int32("streamId")>>),
     tearDown |-> XPlain(<<Int32("streamId")>>)]

(* Mutant of FrameOut: the marker is forgotten. *)
FrameOutBare == <<Exc, Int32("result"), Int64("frame")>>
FrameOut == <<Exc, Int32("result"), One, Int64("frame")>>

BnDevice ==
    [disconnect |-> Bn(<<>>, <<Exc>>),
     submitRequest |-> Bn(<<Given("request"), Opt(Field("request", "request"), "request"),
                            Int32("repeating")>>, FrameOut),
     submitRequestList |-> Bn(<<Field("requests", "requests"), Int32("repeating")>>, FrameOut),
     cancelRequest |-> Bn(<<Int32("requestId")>>, FrameOut),
     deleteStream |-> XAnswer(<<Int32("streamId")>>),
     createStream |-> [XAnswer(<<Given("gbp")>> \o Opts(ReadOutput, "gbp")) EXCEPT !.need = "gbp"],
     createInputStream |-> XAnswer(<<Int32("width"), Int32("height"), Int32("format")>>)]

BnDeviceControl ==
    [getInputBufferProducer |-> Bn(<<>>,
         <<Exc, Int32("result"), One, Str16("name"), Binder("producer")>>),
     createDefaultRequest |-> Bn(<<Int32("templateId")>>,
         <<Exc, Int32("result"), One, Metadata("settings")>>),
     getCameraInfo |-> Bn(<<>>, <<Exc, Int32("result"), One, Metadata("info")>>),
     waitUntilIdle |-> XAnswer(<<>>),
     flush |-> Bn(<<>>, FrameOut),
     beginConfigure |-> XAnswer(<<>>),
     endConfigure |-> XAnswer(<<Int32("isConstrainedHighSpeed")>>),
     prepare |-> XAnswer(<<Int32("streamId")>>),
     tearDown |-> XAnswer(<<Int32("streamId")>>),
     prepare2 |-> XAnswer(<<Int32("maxCount"), Int32("streamId")>>)]

-----------------------------------------------------------------------------
(* ICameraDeviceCallbacks; the stub looks for an exception code that is    *)
(* written after the transaction.                                          *)

BpCallbacks ==
    [onDeviceError |-> Void(<<Int32("errorCode"), One>> \o WriteExtras),
     onDeviceIdle |-> Void(<<>>),
     onCaptureStarted |-> Void(<<One>> \o WriteExtras \o <<Int64("timestamp")>>),
     onResultReceived |-> Void(<<One, Metadata("info"), One>> \o WriteExtras),
     onPrepared |-> Void(<<Int32("streamId")>>)]

BnCallbacks ==
    [onDeviceError |-> Silent(<<Int32("errorCode"), Given("extras")>>
                                 \o Opts(ReadExtras, "extras") \o <<Exc>>),
     onDeviceIdle |-> Silent(<<Exc>>),
     onCaptureStarted |-> Silent(<<Given("extras")>> \o Opts(ReadExtras, "extras")
                                    \o <<Int64("timestamp"), Exc>>),
     onResultReceived |-> Silent(<<Given("info"), Opt(Metadata("info"), "info"), Given("extras")>>
                                    \o Opts(ReadExtras, "extras") \o <<Exc>>),
     onPrepared |-> Silent(<<Int32("streamId"), Exc>>)]

(* ICameraClient.  ext1 is null unless it says that ext2 is the descriptor *)
(* of a preview frame.                                                     *)
BpClient ==
    [notifyCallback |-> Void(<<Int32("msgType"), Int32("ext1"), If(Field("fd", "ext2"), "ext1"),
                               IfNot(Int32("ext2"), "ext1")>>),
     dataCallback |-> Void(<<Int32("msgType"), Binder("imageData"), Opt(Int32("faces"), "faces"),
                             Opt(Field("faces", "faces"), "faces")>>),
     dataCallbackTimestamp |-> Void(<<Int64("timestamp"), Int32("msgType"), Binder("imageData")>>)]

BnClient ==
    [notifyCallback |-> Silent(<<Int32("msgType"), Int32("ext1"), If(Field("fd", "ext2"), "ext1"),
                                 IfNot(Int32("ext2"), "ext1")>>),
     dataCallback |-> Silent(<<Int32("msgType"), Binder("imageData"), Avail(Int32("faces")),
                               Avail(Field("faces", "faces"))>>),
     dataCallbackTimestamp |-> Silent(<<Int64("timestamp"), Int32("msgType"), Binder("imageData")>>)]

(* ICameraRecordingProxy and its listener. *)
BpRecording ==
    [startRecording |-> Plain(<<Binder("listener")>>), stopRecording |-> Void(<<>>),
     releaseRecordingFrame |-> Void(<<Binder("mem")>>)]
BnRecording ==
    [startRecording |-> Answer(<<Binder("listener")>>), stopRecording |-> Silent(<<>>),
     releaseRecordingFrame |-> Silent(<<Binder("mem")>>)]
BpRecordingListener ==
    [dataCallbackTimestamp |-> Void(<<Int64("timestamp"), Int32("msgType"), Binder("imageData")>>)]
BnRecordingListener ==
    [dataCallbackTimestamp |-> Silent(<<Int64("timestamp"), Int32("msgType"), Binder("imageData")>>)]

(* ICameraServiceListener and ICameraServiceProxy. *)
BpListener ==
    [onStatusChanged |-> Void(<<Int32("status"), Int32("cameraId")>>),
     onTorchStatusChanged |-> Void(<<Int32("status"), Str16("cameraId")>>)]
BnListener ==
    [onStatusChanged |-> Silent(<<Int32("status"), Int32("cameraId")>>),
     onTorchStatusChanged |-> Silent(<<Int32("status"), Str16("cameraId")>>)]
BpServiceProxy ==
    [pingForUserUpdate |-> Void(<<>>),
     notifyCameraState |-> Void(<<Str16("cameraId"), Int32("newCameraState")>>)]
BnServiceProxy ==
    [pingForUserUpdate |-> Silent(<<>>),
     notifyCameraState |-> Silent(<<Str16("cameraId"), Int32("newCameraState")>>)]

Proxies ==
    [ICamera |-> BpCamera @@ BpCameraControl,
     ICameraService |-> BpService @@ BpServiceControl,
     ICameraDeviceUser |-> BpDevice @@ BpDeviceStreams @@ BpDeviceControl,
     ICameraDeviceCallbacks |-> BpCallbacks, ICameraClient |-> BpClient,
     ICameraRecordingProxy |-> BpRecording, ICameraRecordingProxyListener |-> BpRecordingListener,
     ICameraServiceListener |-> BpListener, ICameraServiceProxy |-> BpServiceProxy]
Stubs ==
    [ICamera |-> BnCamera @@ BnCameraControl,
     ICameraService |-> BnService @@ BnServiceControl,
     ICameraDeviceUser |-> BnDevice @@ BnDeviceControl,
     ICameraDeviceCallbacks |-> BnCallbacks, ICameraClient |-> BnClient,
     ICameraRecordingProxy |-> BnRecording, ICameraRecordingProxyListener |-> BnRecordingListener,
     ICameraServiceListener |-> BnListener, ICameraServiceProxy |-> BnServiceProxy]

-----------------------------------------------------------------------------
VARIABLES
    bPhase,   \* idle, sent, served, dead, returned
    bCall,    \* the interface and the method
    bArgs,    \* what the caller passes
    bPointer, \* the caller has room for the frame number
    bData, bReply,
    bGot,     \* what the service was called with, <<>> before
    bDone,    \* the service's results
    bRet      \* what the caller has in the end: [status, outs, dead]

bVars == <<bPhase, bCall, bArgs, bPointer, bData, bReply, bGot, bDone, bRet>>

BinderInit ==
    /\ bPhase = "idle" /\ bCall = <<>> /\ bArgs = <<>> /\ bPointer = TRUE
    /\ bData = <<>> /\ bReply = <<>> /\ bGot = <<>> /\ bDone = <<>> /\ bRet = <<>>

Proxy == Proxies[bCall[1]][bCall[2]]
Stub == Stubs[bCall[1]][bCall[2]]

NamesOf(fields) == {fields[i].a : i \in {j \in DOMAIN fields : fields[j].o \notin {"given", "one"}}}
NullableKinds == {"binder", "request", "metadata", "tags", "array"}
Nullable(fields) ==
    {f.a : f \in {g \in Range(fields) : g.k \in NullableKinds}}
       \cup (NamesOf(fields) \cap {"faces", "ext1"})

(* Every value has a name of its own, so that no two can be mistaken.      *)
ValueOf(a) ==
    CASE a = "request"  -> <<"metadata", "reprocess", "surface", "null">>
      [] a = "requests" -> <<<<"metadata", "0">>, Null, <<"null", "1", "surface">>>>
      [] OTHER          -> <<a>>

(* The token of the interface comes first.                                 *)
Token(i) == <<Item("token", <<i>>)>>

(* A method of a proxy writes its data and starts the transaction.         *)
BinderCall(i, m, nulls, pointer, long) ==
    LET names == NamesOf(Proxies[i][m].w)
        args == [a \in names |-> IF a \in nulls THEN Null
                                 ELSE IF a = "args" /\ long THEN <<"long">> ELSE ValueOf(a)]
    IN  /\ bPhase \in {"idle", "returned"}
        /\ nulls \subseteq Nullable(Proxies[i][m].w)
        /\ pointer \/ Proxies[i][m].ret = "frame"
        /\ long => "args" \in names
        /\ bPhase' = "sent" /\ bCall' = <<i, m>>
        /\ bArgs' = args /\ bPointer' = pointer
        /\ bData' = Token(i) \o Write(Proxies[i][m].w, args)
        /\ bReply' = <<>> /\ bGot' = <<>> /\ bDone' = <<>> /\ bRet' = <<>>

(* onTransact: CHECK_INTERFACE, the arguments, the call and the reply.  A  *)
(* stub that misses what it needs answers with an error of its own.        *)
onTransact(ok, nulls) ==
    LET in == Read(Stub.r, bData, 2)
        refused == \/ bData[1] # Item("token", <<bCall[1]>>)
                   \/ \E a \in DOMAIN in.env : in.env[a] = <<"refused">>
        missing == Stub.need # "" /\ in.env[Stub.need] = Null
        good == ok /\ ~missing
        outs == [a \in NamesOf(Stub.w) |->
                   IF a = "result" THEN <<IF good THEN "0" ELSE "error">>
                   ELSE IF a = "exception" THEN <<"0">>
                   ELSE IF a \in nulls \/ (a = "producer" /\ ~good) THEN Null ELSE ValueOf(a)]
    IN  /\ bPhase = "sent"
        /\ nulls \subseteq Nullable(Stub.w)
        /\ bPhase' = IF refused THEN "dead" ELSE "served"
        /\ bGot' = IF refused \/ missing THEN <<>>
                  ELSE <<[env |-> in.env, rest |-> Len(bData) >= in.pos]>>
        /\ bDone' = IF refused THEN <<>> ELSE <<outs>>
        /\ bReply' = IF refused THEN <<>> ELSE Write(Stub.w, outs)
        /\ UNCHANGED <<bCall, bArgs, bPointer, bData, bRet>>

(* The service dies: transact fails and the reply is empty.                *)
ServiceDies ==
    /\ bPhase \in {"sent", "served"}
    /\ bPhase' = "dead" /\ bReply' = <<>>
    /\ UNCHANGED <<bCall, bArgs, bPointer, bData, bGot, bDone, bRet>>

(* Mutant of StatusOf: the status of the transaction is not looked at.     *)
StatusUnchecked(ret, env, dead) ==
    CASE ret = "void" -> "void"
      [] ret = "data" -> At(bData, Len(bData) + 1, "int32").v[1]
      [] OTHER -> env["result"][1]

(* The result a proxy makes of the reply. *)
StatusOf(ret, env, dead) ==
    CASE ret = "void" -> "void"
      [] ret = "data" -> At(bData, Len(bData) + 1, "int32").v[1]
      [] ret = "checked" /\ dead -> "DEAD_OBJECT"
      [] ret = "frame" /\ (env["result"] = <<"error">> \/ ~bPointer \/ env["frame"] = Null)
            -> "FAILED_TRANSACTION"
      [] ret = "surface" /\ env["result"] = <<"0">> /\ env["producer"] = Null -> "INVALID_OPERATION"
      [] OTHER -> env["result"][1]

(* The proxy reads the reply and returns. *)
BinderReturn ==
    LET out == Read(Proxy.r, bReply, 1).env IN
    /\ bPhase \in {"served", "dead"}
    /\ bPhase' = "returned"
    /\ bRet' = <<[status |-> StatusOf(Proxy.ret, out, bPhase = "dead"), outs |-> out,
                  dead |-> bPhase = "dead"]>>
    /\ UNCHANGED <<bCall, bArgs, bPointer, bData, bReply, bGot, bDone>>

BinderNext ==
    \/ \E i \in DOMAIN Proxies : \E m \in DOMAIN Proxies[i] :
          \E nulls \in SUBSET Nullable(Proxies[i][m].w), pointer, long \in BOOLEAN :
             BinderCall(i, m, nulls, pointer, long)
    \/ bPhase = "sent" /\ \E ok \in BOOLEAN, nulls \in SUBSET Nullable(Stub.w) : onTransact(ok, nulls)
    \/ ServiceDies
    \/ BinderReturn

BinderSpec == BinderInit /\ [][BinderNext]_bVars

-----------------------------------------------------------------------------
(* Whatever the caller passes, nulls, lists and descriptors included, is   *)
(* what the service is called with, and nothing of the parcel is left      *)
(* over: the writes of every proxy and the reads of its stub agree.        *)
ArgumentsArrive ==
    bGot # <<>> =>
        /\ \A a \in DOMAIN bArgs : bGot[1].env[a] = bArgs[a]
        /\ ~bGot[1].rest

(* A caller whose call was served learns whether it was successful, and    *)
(* has the service's results if it was: the writes of every stub and the   *)
(* reads of its proxy agree.  Left out are the proxies that read the wrong *)
(* parcel, and callers that pass no room for the frame number.             *)
ResultsReturn ==
    bPhase = "returned" /\ ~bRet[1].dead /\ bPointer /\ Proxy.ret \notin {"void", "data"} =>
        /\ bRet[1].status = "0" <=>
              bDone[1]["result"] = <<"0">> /\ (Proxy.ret = "surface" => bDone[1]["producer"] # Null)
        /\ bRet[1].status = "0" =>
              \A a \in DOMAIN bRet[1].outs \ {"marker"} : bRet[1].outs[a] = bDone[1][a]

(* Where a proxy does look, the death of the service is never taken for    *)
(* success: connect, connectLegacy, connectDevice, the requests and the    *)
(* input surface.                                                          *)
DeathIsSeen ==
    bPhase = "returned" /\ bRet[1].dead /\ Proxy.ret \in {"checked", "frame", "surface"} =>
        bRet[1].status # "0"

(* A binder call is what a local call would be: arguments and results      *)
(* arrive, and a service that died is not taken for one that succeeded.    *)
CallsAreFaithful == ArgumentsArrive /\ ResultsReturn /\ DeathIsSeen
=============================================================================
