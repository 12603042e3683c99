------------------------------- MODULE DmnConn -------------------------------
(***************************************************************************)
(* The daemon connection: the thread that reads interface requests from a  *)
(* named pipe and hands them to the location engine, the answers that the  *)
(* engine writes to the pipes of the clients, and the thread helper that   *)
(* starts and stops the thread (loc_eng_dmn_conn*.c, .cpp).                *)
(*                                                                         *)
(* Two threads and an environment.  The owner calls launch, unblock and    *)
(* join; nothing in the repository launches the server (the calls in       *)
(* loc_eng_cleanup are under "#if 0"), so the owner is any client of       *)
(* loc_eng_dmn_conn.h.  Clients write requests and read answers.  The      *)
(* message thread of the engine answers what was forwarded to it.          *)
(*                                                                         *)
(* A write to a pipe is one step: it is shorter than PIPE_BUF.  Pipes are  *)
(* opened O_RDWR and blocking: a write to a full pipe and a read of an     *)
(* empty one wait.  A write that waits has the pipe itself, not its        *)
(* descriptor: close() in another thread does not end it, and as it can    *)
(* read what it writes the pipe never counts as broken.  It goes on only   *)
(* when somebody reads from that same pipe.                                *)
(***************************************************************************)
EXTENDS Naturals, Sequences, SequencesExt, FiniteSets

CONSTANTS
    DSenders,      \* the sender_id values that occur in requests
    DTypes,        \* the interface types that occur in requests
    DHandles,      \* the agps_handle values launch is called with
    DOpenResults,  \* the sets of pipes that open() may succeed for
    PipeSize,      \* messages that fit in a pipe
    MaxWritten,    \* bound: messages that clients write
    MaxLaunches    \* bound: calls of launch

NoHandle == "NULL"
NoClient == "none"
Removed == "removed"

(* The pipes, by the variable that holds their descriptor. *)
Queues == {"server", "resp", "quipc", "msapm", "msapu"}

ASSUME DmnAssumption ==
    /\ PipeSize \in Nat \ {0} /\ MaxWritten \in Nat /\ MaxLaunches \in Nat
    /\ DOpenResults \subseteq SUBSET Queues

VARIABLES
    dOwner,      \* where the owner is in launch, unblock and join
    dThread,     \* where thelper_main is
    dLaunches,   \* the calls of launch so far
    dExit,       \* thelper.thread_exit
    dReady,      \* thelper.thread_ready
    dHandle,     \* loc_api_handle
    dOpen,       \* the pipes whose descriptor is open
    dPipe,       \* pipe -> the messages written to it and not yet read
    dWritten,    \* history: what clients wrote to the pipe that is open
    dForwarded,  \* history: what the server sent to the engine since launch
    dAsked,      \* the forwarded messages the engine has not answered
    dAnswering   \* the client whose full pipe the engine waits to write to,
                 \* Removed when the server has closed that pipe, or NoClient

dVars == <<dOwner, dThread, dLaunches, dExit, dReady, dHandle, dOpen, dPipe, dWritten, dForwarded, dAsked,
           dAnswering>>
dThelper == <<dExit, dReady>>
dTraffic == <<dOpen, dPipe, dWritten, dForwarded, dAsked, dAnswering>>

-----------------------------------------------------------------------------
(* Messages. *)

IfTypes == {"SUPL", "WIFI", "ANY"}
WifiSenders == {"QUIPC", "MSAPM", "MSAPU"}
IfSenders == WifiSenders \cup {"GPSONE_DAEMON"}

(* What a client may write: a request or release, from a known sender or   *)
(* not, for a known type or not; a control type the server does not know;  *)
(* a message longer than the buffer of the server.                         *)
Writes ==
    [ctrl : {"IF_REQUEST", "IF_RELEASE"}, type : DTypes, sender : DSenders]
        \cup {[ctrl |-> "UNSUPPORTED"], [ctrl |-> "TOO_BIG"]}

UnblockMsg == [ctrl |-> "UNBLOCK"]

(* The class of the engine message the handlers make. *)
EngineMsg(sender) == IF sender \in WifiSenders THEN "LocEngReqRelWifi" ELSE "LocEngReqRelBIT"

Forward(m, isReq, handle) ==
    IF m.type \in IfTypes /\ m.sender \in IfSenders
    THEN <<[class |-> EngineMsg(m.sender), type |-> m.type, sender |-> m.sender,
            isReq |-> isReq, handle |-> handle]>>
    ELSE <<>>

(* The messages the two handlers send to the engine.  Only the request     *)
(* handler checks the handle.                                              *)
if_request_handler(m, handle) ==
    IF handle = NoHandle THEN <<>> ELSE Forward(m, TRUE, handle)

(* The copied release handler with the flag of the request. *)
ReleaseAsRequest(m, handle) == Forward(m, TRUE, handle)

if_release_handler(m, handle) == Forward(m, FALSE, handle)

-----------------------------------------------------------------------------
DmnInit ==
    /\ dOwner = "idle" /\ dThread = "none" /\ dLaunches = 0
    /\ dExit = FALSE /\ dReady = FALSE
    /\ dHandle = NoHandle
    /\ dOpen = {}
    /\ dPipe = [q \in Queues |-> <<>>]
    /\ dWritten = <<>> /\ dForwarded = <<>> /\ dAsked = {} /\ dAnswering = NoClient

(* The owner: loc_api_server_launch up to pthread_create, which may fail.  *)
(* The owner does not launch a second thread while one runs.  The history  *)
(* starts anew with the pipes that the new thread opens.                   *)
launch_thelper ==
    /\ dOwner = "idle" /\ dThread \in {"none", "ended"} /\ dLaunches < MaxLaunches
    /\ \E handle \in DHandles : dHandle' = handle
    /\ dExit' = FALSE /\ dReady' = FALSE
    /\ dLaunches' = dLaunches + 1
    /\ dForwarded' = <<>> /\ dAsked' = {} /\ dWritten' = <<>>
    /\ \/ dOwner' = "created" /\ dThread' = "init"
       \/ UNCHANGED <<dOwner, dThread>>
    /\ UNCHANGED <<dOpen, dPipe, dAnswering>>

(* launch returns thread_exit, and the owner gives up when it is not 0. *)
Launched == dOwner' = IF dExit THEN "idle" ELSE "launched"

(* thelper_signal_wait tests the flags and waits once, holding the mutex. *)
signal_wait ==
    /\ dOwner = "created"
    /\ IF ~dReady /\ ~dExit THEN dOwner' = "waiting" ELSE Launched
    /\ UNCHANGED <<dThread, dLaunches, dHandle, dThelper, dTraffic>>

(* pthread_cond_wait returns after the signal, or without one.  The flags  *)
(* are not tested again before launch goes on.                             *)
cond_wait_returns ==
    /\ dOwner \in {"waiting", "signalled"}
    /\ Launched
    /\ UNCHANGED <<dThread, dLaunches, dHandle, dThelper, dTraffic>>

(* loc_api_server_unblock sets the flag without the mutex ... *)
unblock_thelper ==
    /\ dOwner = "launched"
    /\ dOwner' = "unblocking"
    /\ dExit' = TRUE
    /\ UNCHANGED <<dThread, dLaunches, dHandle, dReady, dTraffic>>

(* The write that overtakes the reader. *)
WriteRegardless(q, m) ==
    \/ q \notin dOpen /\ UNCHANGED dPipe
    \/ q \in dOpen /\ dPipe' = [dPipe EXCEPT ![q] = Append(@, m)]

(* An open pipe with room takes a message. *)
pipetakes(q, m) ==
    q \in dOpen /\ Len(dPipe[q]) < PipeSize /\ dPipe' = [dPipe EXCEPT ![q] = Append(@, m)]

(* A write that returns at once: it fails when the descriptor is not open, *)
(* and succeeds when there is room ...                                     *)
pipewrite(q, m) ==
    \/ q \notin dOpen /\ UNCHANGED dPipe
    \/ pipetakes(q, m)

(* ... and one to a full pipe, which waits. *)
pipeblocks(q) == q \in dOpen /\ Len(dPipe[q]) >= PipeSize /\ UNCHANGED dPipe

(* The unblock that forgets the message. *)
UnblockByFlag ==
    /\ dOwner = "unblocking"
    /\ dOwner' = "joining"
    /\ UNCHANGED <<dThread, dLaunches, dHandle, dThelper, dTraffic>>

(* ... and then writes a message for a server that waits for one.  The     *)
(* result of the write is ignored.                                         *)
unblock_proc ==
    /\ dOwner = "unblocking"
    /\ \/ pipewrite("server", UnblockMsg) /\ dOwner' = "joining"
       \/ pipeblocks("server") /\ dOwner' = "writing"
    /\ UNCHANGED <<dThread, dLaunches, dHandle, dThelper, dOpen, dWritten, dForwarded, dAsked, dAnswering>>

(* The write that waited goes on while the server still has the pipe. *)
unblock_written ==
    /\ dOwner = "writing"
    /\ pipetakes("server", UnblockMsg)
    /\ dOwner' = "joining"
    /\ UNCHANGED <<dThread, dLaunches, dHandle, dThelper, dOpen, dWritten, dForwarded, dAsked, dAnswering>>

join_thelper ==
    /\ dOwner = "joining" /\ dThread = "ended"
    /\ dOwner' = "idle"
    /\ UNCHANGED <<dThread, dLaunches, dHandle, dThelper, dTraffic>>

-----------------------------------------------------------------------------
(* mkfifo and open: a pipe that does not open leaves a descriptor of -1.   *)
pipeget == \E opened \in DOpenResults : dOpen' = opened

(* Close and unlink: what is in the pipes is lost.  A write that waits     *)
(* keeps the removed pipe.  Nobody reads the server's any more: unblock    *)
(* returns if there is room in it and never if there is none.  The answer  *)
(* waits for a client that still reads the removed pipe.                   *)
piperemove ==
    /\ dOpen' = {} /\ dPipe' = [q \in Queues |-> <<>>]
    /\ dOwner' = IF dOwner = "writing" /\ Len(dPipe["server"]) < PipeSize THEN "joining" ELSE dOwner
    /\ dAnswering' = IF dAnswering = NoClient THEN NoClient ELSE Removed

(* The server's thread, thelper_main with the four procedures of the       *)
(* server.  loc_api_server_proc_init opens the pipes and reports success   *)
(* whether they opened or not, so the error path of thelper_main after it  *)
(* is never taken.                                                         *)
proc_init ==
    /\ dThread = "init"
    /\ pipeget
    /\ dThread' = "opened"
    /\ UNCHANGED <<dOwner, dLaunches, dThelper, dHandle, dPipe, dWritten, dForwarded, dAsked, dAnswering>>

(* The flag without the signal. *)
ReadyWithoutSignal ==
    /\ dThread = "opened"
    /\ dReady' = TRUE
    /\ dThread' = "loop"
    /\ UNCHANGED <<dOwner, dLaunches, dExit, dHandle, dTraffic>>

signal_ready ==
    /\ dThread = "opened"
    /\ dReady' = TRUE
    /\ dOwner' = IF dOwner = "waiting" THEN "signalled" ELSE dOwner
    /\ dThread' = "loop"
    /\ UNCHANGED <<dLaunches, dExit, dHandle, dTraffic>>

(* loc_api_server_proc returned -1: thelper_main leaves the loop. *)
ProcFails ==
    /\ dExit' = TRUE
    /\ dThread' = "post"
    /\ UNCHANGED <<dForwarded, dAsked>>

(* What the switch of loc_api_server_proc sends to the engine for m; the   *)
(* results of the handlers are dropped.                                    *)
Handled(m) ==
    CASE m.ctrl = "IF_REQUEST" -> if_request_handler(m, dHandle)
      [] m.ctrl = "IF_RELEASE" -> if_release_handler(m, dHandle)
      [] OTHER -> <<>>

(* The loop that is left only by an error. *)
HandlesForEver(m) ==
    /\ dForwarded' = dForwarded \o Handled(m)
    /\ dAsked' = dAsked \cup (Len(dForwarded) + 1 .. Len(dForwarded'))
    /\ UNCHANGED <<dThread, dExit>>

(* It returned 0: thelper_main tests thread_exit and calls it again. *)
ProcHandles(m) ==
    /\ dForwarded' = dForwarded \o Handled(m)
    /\ dAsked' = dAsked \cup (Len(dForwarded) + 1 .. Len(dForwarded'))
    /\ dThread' = IF dExit THEN "post" ELSE "loop"
    /\ UNCHANGED dExit

(* One call of loc_api_server_proc.  It fails when the pipe did not open   *)
(* and on a message that its buffer cannot hold, whose body stays in the   *)
(* pipe and takes the room it took.  It waits while the pipe is empty.     *)
loc_api_server_proc ==
    /\ dThread = "loop"
    /\ \/ "server" \notin dOpen /\ ProcFails /\ UNCHANGED dPipe
       \/ /\ dPipe["server"] # <<>>
          /\ LET m == Head(dPipe["server"]) IN
                IF m.ctrl = "TOO_BIG"
                THEN ProcFails /\ UNCHANGED dPipe
                ELSE ProcHandles(m) /\ dPipe' = [dPipe EXCEPT !["server"] = Tail(@)]
    /\ UNCHANGED <<dOwner, dLaunches, dReady, dHandle, dOpen, dWritten, dAnswering>>

(* It may also fail for want of memory or by an error of read(). *)
proc_error ==
    /\ dThread = "loop"
    /\ ProcFails
    /\ UNCHANGED <<dOwner, dLaunches, dReady, dHandle, dOpen, dPipe, dWritten, dAnswering>>

proc_post ==
    /\ dThread = "post"
    /\ piperemove
    /\ dThread' = "ended"
    /\ UNCHANGED <<dLaunches, dThelper, dHandle, dWritten, dForwarded, dAsked>>

-----------------------------------------------------------------------------
(* A client writes to the pipe of the server. *)
ClientWrites ==
    /\ "server" \in dOpen /\ Len(dWritten) < MaxWritten /\ Len(dPipe["server"]) < PipeSize
    /\ \E m \in Writes :
          /\ dPipe' = [dPipe EXCEPT !["server"] = Append(@, m)]
          /\ dWritten' = Append(dWritten, m)
    /\ UNCHANGED <<dOwner, dThread, dLaunches, dThelper, dHandle, dOpen, dForwarded, dAsked, dAnswering>>

(* The copied case with the descriptor of its neighbour. *)
QueueOfNeighbour(sender) ==
    CASE sender \in {"QUIPC", "MSAPM"} -> "quipc"
      [] sender = "MSAPU" -> "msapu"
      [] sender = "GPSONE_DAEMON" -> "resp"

(* The pipe of an answer. *)
QueueOf(sender) ==
    CASE sender = "QUIPC" -> "quipc"
      [] sender = "MSAPM" -> "msapm"
      [] sender = "MSAPU" -> "msapu"
      [] sender = "GPSONE_DAEMON" -> "resp"

Answer(sender) == [ctrl |-> "RESPONSE", to |-> sender]

(* loc_api_server_data_conn: a subscriber of the AGPS machines answers the *)
(* request i, once.  An answer that cannot be written is lost; the message *)
(* thread of the engine, which writes all of them, waits for a full pipe.  *)
data_conn ==
    /\ dAnswering = NoClient
    /\ \E i \in dAsked :
          LET sender == dForwarded[i].sender IN
          /\ dAsked' = dAsked \ {i}
          /\ \/ pipewrite(QueueOf(sender), Answer(sender)) /\ UNCHANGED dAnswering
             \/ pipeblocks(QueueOf(sender)) /\ dAnswering' = sender
    /\ UNCHANGED <<dOwner, dThread, dLaunches, dThelper, dHandle, dOpen, dWritten, dForwarded>>

(* The answer that waited: a client has read from the pipe, or from the    *)
(* removed one if it still has that open.                                  *)
data_conn_written ==
    /\ \/ dAnswering = Removed /\ UNCHANGED dPipe
       \/ dAnswering \in IfSenders /\ pipetakes(QueueOf(dAnswering), Answer(dAnswering))
    /\ dAnswering' = NoClient
    /\ UNCHANGED <<dOwner, dThread, dLaunches, dThelper, dHandle, dOpen, dWritten, dForwarded, dAsked>>

(* A client takes an answer from its pipe. *)
ClientReads ==
    /\ \E q \in Queues \ {"server"} :
          dPipe[q] # <<>> /\ dPipe' = [dPipe EXCEPT ![q] = Tail(@)]
    /\ UNCHANGED <<dOwner, dThread, dLaunches, dThelper, dHandle, dOpen, dWritten, dForwarded, dAsked, dAnswering>>

DmnNext ==
    \/ launch_thelper \/ signal_wait \/ cond_wait_returns
    \/ unblock_thelper \/ unblock_proc \/ unblock_written \/ join_thelper
    \/ proc_init \/ signal_ready \/ loc_api_server_proc \/ proc_error \/ proc_post
    \/ ClientWrites \/ data_conn \/ data_conn_written \/ ClientReads

(* The scheduler runs a thread that can run, and a signal ends a wait.     *)
(* Nothing is assumed of clients, of the engine's answers, or of the       *)
(* owner's decision to launch or to unblock.                               *)
DmnFairness ==
    /\ WF_dVars(signal_wait)
    /\ WF_dVars(dOwner = "signalled" /\ cond_wait_returns)
    /\ WF_dVars(unblock_proc \/ unblock_written)
    /\ WF_dVars(join_thelper)
    /\ WF_dVars(proc_init \/ signal_ready \/ loc_api_server_proc \/ proc_post)

DmnSpec == DmnInit /\ [][DmnNext]_dVars /\ DmnFairness

-----------------------------------------------------------------------------
(* Type correctness of the thread helper, the server and its pipes. *)
DmnTypeOK ==
    /\ dOwner \in {"idle", "created", "waiting", "signalled", "launched", "unblocking", "writing", "joining"}
    /\ dThread \in {"none", "init", "opened", "loop", "post", "ended"}
    /\ dExit \in BOOLEAN /\ dReady \in BOOLEAN
    /\ dLaunches \in 0 .. MaxLaunches
    /\ dHandle \in DHandles \cup {NoHandle}
    /\ dOpen \subseteq Queues
    /\ \A q \in Queues : Len(dPipe[q]) <= PipeSize
    /\ dAsked \subseteq 1 .. Len(dForwarded)
    /\ dAnswering \in IfSenders \cup {NoClient, Removed}

(* A message that is passed on to the engine, and how many of the first p  *)
(* messages of s are.                                                      *)
IsPassedOn(m, handle) ==
    /\ m.ctrl \in {"IF_REQUEST", "IF_RELEASE"}
    /\ m.type \in IfTypes /\ m.sender \in IfSenders
    /\ m.ctrl = "IF_REQUEST" => handle # NoHandle

PassedOn(s, p, handle) == Cardinality({i \in 1 .. p : IsPassedOn(s[i], handle)})

(* The request or release that the engine message f was made of. *)
AsWritten(f) ==
    [ctrl |-> IF f.isReq THEN "IF_REQUEST" ELSE "IF_RELEASE", type |-> f.type, sender |-> f.sender]

(* Every request and release that a client wrote and that is well formed   *)
(* reaches the engine once, in the order written, with its own type and    *)
(* sender and as what it was, until the server stops; a request needs a    *)
(* handle.  What the server does not understand is skipped without effect  *)
(* on what follows (loc_api_server_proc and the two handlers).  The k-th   *)
(* message to the engine is the k-th of those written, and while the       *)
(* server runs those in its pipe are the ones that come next.              *)
RequestsArriveInOrder ==
    LET told == Len(dForwarded)
        pipe == dPipe["server"]
        Nth(s, p) == PassedOn(s, p, dHandle)
    IN  /\ told <= Nth(dWritten, Len(dWritten))
        /\ \A w \in DOMAIN dWritten : IsPassedOn(dWritten[w], dHandle) =>
              \/ Nth(dWritten, w) > told
              \/ AsWritten(dForwarded[Nth(dWritten, w)]) = dWritten[w]
        /\ dThread = "loop" =>
              /\ Nth(dWritten, Len(dWritten)) = told + Nth(pipe, Len(pipe))
              /\ \A w \in DOMAIN dWritten, p \in DOMAIN pipe :
                    IsPassedOn(dWritten[w], dHandle) /\ IsPassedOn(pipe[p], dHandle)
                       /\ Nth(dWritten, w) = told + Nth(pipe, p)
                    => dWritten[w] = pipe[p]

(* The pipe of a client holds only answers to requests of that client,     *)
(* whatever the order in which the engine answers (data_conn).             *)
AnswersReachTheirSender ==
    LET client == [resp |-> "GPSONE_DAEMON", quipc |-> "QUIPC", msapm |-> "MSAPM", msapu |-> "MSAPU"]
    IN  \A q \in DOMAIN client : \A i \in DOMAIN dPipe[q] : dPipe[q][i].to = client[q]

(* launch returns: the wait for the thread cannot miss its signal.         *)
LaunchReturns ==
    dOwner \in {"created", "waiting", "signalled"} ~> dOwner \in {"launched", "idle"}

(* Unblock hangs: its write found the pipe of the server full, and the     *)
(* pipe was full again, or still, when the server removed it.  The server  *)
(* leaves so by an error, which takes nothing from the pipe, or when a     *)
(* client takes the room of the last message that the server read.         *)
UnblockHangs == dOwner = "writing" /\ dThread = "ended"

(* After unblock, join returns: the flag and the message end the server    *)
(* wherever it is, provided that the server was ready when unblock was     *)
(* called and that unblock is not left waiting at a pipe that is full and  *)
(* removed.  launch may return before the server is ready when its wait    *)
(* ends without a signal, and then the message is written to no pipe.      *)
JoinReturns == dOwner = "unblocking" /\ dReady ~> dOwner = "idle" \/ UnblockHangs

(* Of what clients wrote to a pipe that was open nothing is lost,          *)
(* reordered or misdelivered on its way to the engine while the server     *)
(* runs, and no answer reaches the wrong client.  A message for a pipe     *)
(* that is not open is not counted: its write fails.                       *)
MessagesArrive == DmnTypeOK /\ RequestsArriveInOrder /\ AnswersReachTheirSender

(* The owner of the server waits for ever neither in launch nor, when the  *)
(* server was ready and unblock does not hang at a full pipe that the      *)
(* server removed, in unblock and join.                                    *)
OwnerReturns == LaunchReturns /\ JoinReturns
=============================================================================
