---------------------------- MODULE ServiceProofs -----------------------------
(***************************************************************************)
(* Proofs about the timer service, TimersAreSound and EndsOnce for every   *)
(* set of clients and delays; about the daemon connection, MessagesArrive; *)
(* and about the data-services NIF, its types for every set of clients and *)
(* DsAgrees for one client (with two it is false).                         *)
(***************************************************************************)
EXTENDS LocTimer, DmnConn, AgpsDs, FiniteSetTheorems, WellFoundedInduction, TLAPS

(* Where numbers of delegates, due times and clients are used, they are    *)
(* ones that a start has made.                                             *)
TimerMore ==
    /\ heap \subseteq 1 .. starts /\ freed \subseteq 1 .. starts
    /\ \A d \in 1 .. starts : due[d] >= 1
    /\ \A d \in Delegates : d > starts => outcome[d] = "none"
    /\ msgThread.at = "expire" => msgThread.d \in Delegates
    /\ msgThread.at = "stop" => msgThread.c \in Clients

(* LocTimer and delegate point at each other until the timer stops, and a  *)
(* delegate is deleted after that.                                         *)
LinksInv ==
    /\ heap \cap freed = {}
    /\ \A c \in Clients : mTimer[c] # NULL =>
          /\ mTimer[c] \in 1 .. starts
          /\ mClient[mTimer[c]] = c
          /\ outcome[mTimer[c]] = "ticking"
    /\ \A d \in freed : mClient[d] = NULL
    /\ msgThread.at = "expire" => msgThread.d \notin freed

(* The message at i names a delegate that is there; a Remove, one whose    *)
(* client has let go of it and of which nothing is queued behind.          *)
MsgIsSound(q, i, made, gone, owner) ==
    /\ q[i].type # "Expire" => q[i].d \in 1 .. made /\ q[i].d \notin gone
    /\ q[i].type = "Remove" =>
          /\ owner[q[i].d] = NULL
          /\ \A j \in DOMAIN q : q[j].type # "Expire" /\ q[j].d = q[i].d => j <= i

QueueInv == \A i \in DOMAIN queue : MsgIsSound(queue, i, starts, freed, mClient)

(* The inductive invariant. *)
TimerIInv == TimerTypeOK /\ TimerMore /\ SoonestIsArmed /\ LinksInv /\ QueueInv

-----------------------------------------------------------------------------
(* What is in a message. *)
LEMMA MessagesAre ==
    ASSUME NEW m \in Messages
    PROVE  /\ m.type \in {"Push", "Remove", "Expire"}
           /\ m.type = "Expire" => m = [type |-> "Expire"]
           /\ m.type # "Expire" => m.d \in Delegates
BY DEF Messages

(* The messages that can be sent are messages. *)
LEMMA MessagesSent ==
    /\ [type |-> "Expire"] \in Messages
    /\ \A d \in Delegates : [type |-> "Push", d |-> d] \in Messages /\ [type |-> "Remove", d |-> d] \in Messages
BY DEF Messages

(* A message put at the end of a queue. *)
LEMMA Appended ==
    ASSUME NEW S, NEW q \in Seq(S), NEW m \in S, NEW r, r = Append(q, m)
    PROVE  /\ r \in Seq(S) /\ Len(q) \in Nat
           /\ DOMAIN q = 1 .. Len(q) /\ DOMAIN r = 1 .. Len(q) + 1
           /\ r[Len(q) + 1] = m /\ \A i \in DOMAIN q : r[i] = q[i]
OBVIOUS

(* The queue without its first message. *)
LEMMA Taken1 ==
    ASSUME NEW S, NEW q \in Seq(S), q # << >>, NEW r, r = Tail(q)
    PROVE  /\ r \in Seq(S) /\ Len(q) \in Nat \ {0}
           /\ DOMAIN q = 1 .. Len(q) /\ DOMAIN r = 1 .. Len(q) - 1
           /\ \A i \in DOMAIN r : r[i] = q[i + 1] /\ i + 1 \in DOMAIN q
           /\ 1 \in DOMAIN q /\ Head(q) = q[1] /\ q[1] \in S
OBVIOUS

(* An Expire that is queued remains so when another message is taken. *)
LEMMA ExpireStays ==
    ASSUME queue \in Seq(Messages), queue # << >>, queue' = Tail(queue),
           Head(queue).type # "Expire", InQueue([type |-> "Expire"])
    PROVE  InQueue([type |-> "Expire"])'
<1>1. PICK i \in DOMAIN queue : queue[i] = [type |-> "Expire"]
    BY DEF InQueue
<1>2. /\ DOMAIN queue = 1 .. Len(queue) /\ DOMAIN queue' = 1 .. Len(queue) - 1
      /\ \A k \in DOMAIN queue' : queue'[k] = queue[k + 1]
      /\ Head(queue) = queue[1] /\ Len(queue) \in Nat
    BY Taken1
<1>3. i # 1
    BY <1>1, <1>2
<1>4. i - 1 \in DOMAIN queue' /\ (i - 1) + 1 = i
    BY <1>2, <1>3
<1>5. queue'[i - 1] = [type |-> "Expire"]
    BY <1>1, <1>2, <1>4
<1> QED BY <1>4, <1>5 DEF InQueue

(* And when one is sent. *)
LEMMA ExpireStaysBefore ==
    ASSUME queue \in Seq(Messages), NEW m \in Messages, queue' = Append(queue, m),
           InQueue([type |-> "Expire"])
    PROVE  InQueue([type |-> "Expire"])'
<1>1. PICK i \in DOMAIN queue : queue[i] = [type |-> "Expire"]
    BY DEF InQueue
<1>2. /\ DOMAIN queue = 1 .. Len(queue) /\ DOMAIN queue' = 1 .. Len(queue) + 1 /\ Len(queue) \in Nat
      /\ \A k \in DOMAIN queue : queue'[k] = queue[k]
    BY Appended
<1>3. i \in DOMAIN queue' /\ queue'[i] = [type |-> "Expire"]
    BY <1>1, <1>2
<1> QED BY <1>3 DEF InQueue

(* The messages that remain are as sound as before; a delegate is deleted  *)
(* with its Remove.                                                        *)
LEMMA QueuePop ==
    ASSUME queue \in Seq(Messages), QueueInv, queue # << >>, queue' = Tail(queue),
           mClient' = mClient, starts' = starts,
           \/ freed' = freed
           \/ Head(queue).type = "Remove" /\ freed' = freed \cup {Head(queue).d}
    PROVE  QueueInv'
<1>1. /\ DOMAIN queue = 1 .. Len(queue) /\ DOMAIN queue' = 1 .. Len(queue) - 1
      /\ \A k \in DOMAIN queue' : queue'[k] = queue[k + 1] /\ k + 1 \in DOMAIN queue
      /\ Head(queue) = queue[1] /\ Len(queue) \in Nat /\ 1 \in DOMAIN queue
    BY Taken1
<1> SUFFICES ASSUME NEW i \in DOMAIN queue' PROVE MsgIsSound(queue', i, starts, freed', mClient)
    BY DEF QueueInv
<1>2. queue'[i] = queue[i + 1] /\ i + 1 \in DOMAIN queue /\ i \in Nat /\ i >= 1
    BY <1>1
<1>3. MsgIsSound(queue, i + 1, starts, freed, mClient) /\ MsgIsSound(queue, 1, starts, freed, mClient)
    BY <1>1, <1>2 DEF QueueInv
<1>4. queue'[i].type # "Expire" => queue'[i].d \in 1 .. starts /\ queue'[i].d \notin freed'
  <2> SUFFICES ASSUME queue'[i].type # "Expire" PROVE queue'[i].d \in 1 .. starts /\ queue'[i].d \notin freed'
      OBVIOUS
  <2>1. queue[i + 1].d \in 1 .. starts /\ queue[i + 1].d \notin freed
      BY <1>2, <1>3 DEF MsgIsSound
  <2>2. CASE freed' = freed
      BY <1>2, <2>1, <2>2
  <2>3. CASE Head(queue).type = "Remove" /\ freed' = freed \cup {Head(queue).d}
    <3>1. queue[i + 1].d = queue[1].d => i + 1 <= 1
        BY <1>1, <1>2, <1>3, <2>3 DEF MsgIsSound
    <3>2. queue[i + 1].d # queue[1].d
        BY <3>1, <1>2
    <3> QED BY <2>1, <2>3, <3>2, <1>1, <1>2
  <2> QED BY <2>2, <2>3
<1>5. queue'[i].type = "Remove" => mClient[queue'[i].d] = NULL
    BY <1>2, <1>3 DEF MsgIsSound
<1>6. ASSUME queue'[i].type = "Remove", NEW j \in DOMAIN queue',
             queue'[j].type # "Expire", queue'[j].d = queue'[i].d
      PROVE  j <= i
  <2>1. queue'[j] = queue[j + 1] /\ j + 1 \in DOMAIN queue /\ j \in Nat
      BY <1>1
  <2>2. j + 1 <= i + 1
      BY <1>2, <1>3, <1>6, <2>1 DEF MsgIsSound
  <2> QED BY <2>1, <2>2, <1>2
<1> QED BY <1>4, <1>5, <1>6 DEF MsgIsSound

(* A message is sent: a Remove only after its client has let go of the     *)
(* delegate, and of a delegate no Remove was sent for.                     *)
LEMMA QueuePush ==
    ASSUME queue \in Seq(Messages), QueueInv, NEW m \in Messages, queue' = Append(queue, m),
           starts' \in Nat, starts \in Nat, starts <= starts', freed' = freed,
           m.type # "Expire" =>
              /\ m.d \in 1 .. starts' /\ m.d \notin freed
              /\ \A i \in DOMAIN queue : queue[i].type = "Remove" => queue[i].d # m.d,
           m.type = "Remove" => mClient'[m.d] = NULL,
           \A d \in 1 .. starts : mClient[d] = NULL => mClient'[d] = NULL
    PROVE  QueueInv'
<1>1. /\ DOMAIN queue = 1 .. Len(queue) /\ DOMAIN queue' = 1 .. Len(queue) + 1 /\ Len(queue) \in Nat
      /\ \A k \in DOMAIN queue : queue'[k] = queue[k]
      /\ queue'[Len(queue) + 1] = m
    BY Appended
<1> SUFFICES ASSUME NEW i \in DOMAIN queue' PROVE MsgIsSound(queue', i, starts', freed', mClient')
    BY DEF QueueInv
<1>2. CASE i \in DOMAIN queue
  <2>1. MsgIsSound(queue, i, starts, freed, mClient) /\ queue'[i] = queue[i] /\ i \in Nat
      BY <1>1, <1>2 DEF QueueInv
  <2>2. queue'[i].type # "Expire" => queue'[i].d \in 1 .. starts' /\ queue'[i].d \notin freed'
      BY <2>1 DEF MsgIsSound
  <2>3. queue'[i].type = "Remove" => mClient'[queue'[i].d] = NULL
      BY <2>1 DEF MsgIsSound
  <2>4. ASSUME queue'[i].type = "Remove", NEW j \in DOMAIN queue',
               queue'[j].type # "Expire", queue'[j].d = queue'[i].d
        PROVE  j <= i
    <3>1. CASE j \in DOMAIN queue
        BY <3>1, <2>1, <2>4, <1>1 DEF MsgIsSound
    <3>2. CASE j = Len(queue) + 1
        BY <3>2, <2>1, <2>4, <1>1, <1>2
    <3> QED BY <3>1, <3>2, <1>1
  <2> QED BY <2>2, <2>3, <2>4 DEF MsgIsSound
<1>3. CASE i = Len(queue) + 1
  <2>1. queue'[i] = m /\ \A j \in DOMAIN queue' : j <= i
      BY <1>1, <1>3
  <2> QED BY <2>1 DEF MsgIsSound
<1> QED BY <1>1, <1>2, <1>3

-----------------------------------------------------------------------------
(* A set of numbers has a least one. *)
LEMMA LeastIsThere ==
    ASSUME NEW S \in SUBSET Nat, S # {}
    PROVE  \E x \in S : \A y \in S : x <= y
<1> DEFINE R == OpToRel(<, Nat)
<1>1. PICK x \in S : \A y \in S : ~(<<y, x>> \in R)
    BY NatLessThanWellFounded, WFMin
<1>2. ASSUME NEW y \in S, y < x PROVE <<y, x>> \in R
  <2>1. <<y, x>> \in Nat \X Nat /\ <<y, x>>[1] = y /\ <<y, x>>[2] = x
      OBVIOUS
  <2> QED BY <1>2, <2>1 DEF OpToRel
<1> HIDE DEF R
<1>3. ASSUME NEW y \in S PROVE x <= y
  <2>1. ~(y < x) /\ x \in Nat /\ y \in Nat
      BY <1>1, <1>2
  <2> QED BY <2>1
<1> QED BY <1>3

(* The heap that is not empty has a soonest delegate. *)
LEMMA TopIsSoonest ==
    ASSUME LocTimerAssumption, due \in [Delegates -> 0 .. MaxTime], NEW h \in SUBSET Delegates, h # {}
    PROVE  Top(h) \in h /\ Top(h) # NULL /\ \A e \in h : due[Top(h)] <= due[e]
<1>1. \A e \in h : due[e] \in Nat /\ e \in Nat /\ e # 0
    BY DEF Delegates
<1> DEFINE T == {due[e] : e \in h}
<1>2. PICK t \in T : \A u \in T : t <= u
  <2>1. T \in SUBSET Nat /\ T # {}
      BY <1>1
  <2> HIDE DEF T
  <2> QED BY <2>1, LeastIsThere
<1> DEFINE D == {e \in h : due[e] = t}
<1>3. PICK d \in D : \A e \in D : d <= e
  <2>1. D \in SUBSET Nat /\ D # {}
      BY <1>1, <1>2
  <2> HIDE DEF D
  <2> QED BY <2>1, LeastIsThere
<1>4. ASSUME NEW e \in h PROVE due[d] < due[e] \/ (due[d] = due[e] /\ d <= e)
  <2>1. due[d] <= due[e] /\ due[d] \in Nat /\ due[e] \in Nat
      BY <1>1, <1>2, <1>3
  <2>2. due[e] = due[d] => d <= e
      BY <1>3
  <2> QED BY <2>1, <2>2
<1>5. Top(h) \in h /\ \A e \in h : due[Top(h)] < due[e] \/ (due[Top(h)] = due[e] /\ Top(h) <= e)
    BY <1>3, <1>4 DEF Top, Sooner
<1> HIDE DEF NULL
<1>6. Top(h) # NULL
    BY <1>1, <1>5 DEF NULL
<1>7. ASSUME NEW e \in h PROVE due[Top(h)] <= due[e]
    BY <1>1, <1>5
<1> QED BY <1>5, <1>6, <1>7

(* updateSoonestTime that is forced: the timerfd is set for every delegate *)
(* that waits.                                                             *)
LEMMA ForcedArms ==
    ASSUME LocTimerAssumption, TimerTypeOK, TimerMore, NEW h \in SUBSET (1 .. starts),
           updateSoonestTime(NULL, h)
    PROVE  /\ \A d \in h : polled' = TRUE /\ armed' # 0 /\ armed' <= due[d]
           /\ polled' \in BOOLEAN /\ armed' \in 0 .. MaxTime
<1>1. CASE h = {}
  <2>1. Top(h) = NULL
      BY <1>1 DEF Top
  <2>2. polled' = polled /\ armed' = armed
      BY <2>1 DEF updateSoonestTime, kernel
  <2> QED BY <1>1, <2>2 DEF TimerTypeOK
<1>2. CASE h # {}
  <2>1. h \in SUBSET Delegates
      BY DEF TimerTypeOK, Delegates
  <2>2. Top(h) \in h /\ Top(h) # NULL /\ \A e \in h : due[Top(h)] <= due[e]
      BY <1>2, <2>1, TopIsSoonest DEF TimerTypeOK
  <2>3. polled' = TRUE /\ armed' = due[Top(h)]
      BY <2>2 DEF updateSoonestTime
  <2>4. due[Top(h)] >= 1 /\ due[Top(h)] \in 0 .. MaxTime
      BY <2>1, <2>2 DEF TimerMore, TimerTypeOK
  <2> QED BY <2>2, <2>3, <2>4
<1> QED BY <1>1, <1>2

-----------------------------------------------------------------------------
(* Types of what is read most. *)
LEMMA TimerNumbers ==
    ASSUME LocTimerAssumption, TimerTypeOK
    PROVE  /\ starts \in Nat /\ now \in Nat /\ MaxTime \in Nat /\ MaxStarts \in Nat
           /\ 1 .. starts \subseteq Delegates
           /\ NULL \notin Clients /\ NULL \notin Delegates
BY DEF LocTimerAssumption, TimerTypeOK, Delegates, NULL

(* The inductive invariant implies the one the runs check. *)
LEMMA SoundFollows ==
    ASSUME TimerIInv
    PROVE  TimersAreSound
<1> SUFFICES DelegateIsAlive
    BY DEF TimersAreSound, TimerIInv
<1>1. heap \cap freed = {} /\ (msgThread.at = "expire" => msgThread.d \notin freed)
    BY DEF TimerIInv, LinksInv
<1>2. ASSUME LocTimerAssumption, NEW c \in Clients PROVE mTimer[c] \notin freed
  <2>1. c # NULL /\ NULL \notin Delegates
      BY <1>2, TimerNumbers DEF TimerIInv
  <2>2. CASE mTimer[c] = NULL
      BY <2>1, <2>2 DEF TimerIInv, TimerTypeOK
  <2>3. CASE mTimer[c] # NULL
      BY <2>1, <2>3 DEF TimerIInv, LinksInv
  <2> QED BY <2>2, <2>3
<1>3. ASSUME NEW i \in DOMAIN queue, NEW j \in DOMAIN queue, queue[i].type = "Remove"
      PROVE  /\ queue[i].d \notin freed
             /\ queue[j].type # "Expire" /\ queue[j].d = queue[i].d => j <= i
             /\ queue[j] = queue[i] => j = i
  <2>1. MsgIsSound(queue, i, starts, freed, mClient) /\ MsgIsSound(queue, j, starts, freed, mClient)
      BY DEF TimerIInv, QueueInv
  <2>2. i \in Nat /\ j \in Nat
      BY DEF TimerIInv, TimerTypeOK
  <2>3. queue[j] = queue[i] => j <= i /\ i <= j
      BY <1>3, <2>1 DEF MsgIsSound
  <2> QED BY <1>3, <2>1, <2>2, <2>3 DEF MsgIsSound
<1> QED BY <1>1, <1>2, <1>3, LocTimerAssumption DEF DelegateIsAlive

(* A client starts a timer: the delegate is a new one. *)
LEMMA StartStep ==
    ASSUME LocTimerAssumption, TimerIInv, NEW c \in Clients, NEW t \in Delays, start(c, t)
    PROVE  TimerIInv'
<1>n. /\ starts \in Nat /\ now \in Nat /\ MaxTime \in Nat /\ MaxStarts \in Nat
      /\ 1 .. starts \subseteq Delegates /\ NULL \notin Clients /\ NULL \notin Delegates
    BY TimerNumbers DEF TimerIInv
<1> PICK d : d = starts + 1
    OBVIOUS
<1>1. /\ starts' = d /\ d \in Delegates /\ d \notin 1 .. starts /\ now + t \in 1 .. MaxTime
      /\ due' = [due EXCEPT ![d] = now + t] /\ mTimer' = [mTimer EXCEPT ![c] = d]
      /\ mClient' = [mClient EXCEPT ![d] = c] /\ outcome' = [outcome EXCEPT ![d] = "ticking"]
      /\ queue' = Append(queue, [type |-> "Push", d |-> d])
  <2>1. now >= 1 /\ t \in Nat
      BY DEF TimerIInv, TimerTypeOK, LocTimerAssumption
  <2> QED BY <1>n, <2>1 DEF start, Delegates
<1>2. /\ now' = now /\ freed' = freed /\ dead' = dead /\ heap' = heap /\ msgThread' = msgThread
      /\ poll' = poll /\ armed' = armed /\ polled' = polled
    BY DEF start, kernel
<1>3. queue \in Seq(Messages) /\ [type |-> "Push", d |-> d] \in Messages
    BY <1>1, MessagesSent DEF TimerIInv, TimerTypeOK
<1>4. TimerTypeOK'
  <2>1. queue' \in Seq(Messages)
      BY <1>1, <1>3
  <2>2. starts' \in 0 .. MaxStarts
      BY <1>1 DEF Delegates
  <2>3. /\ due' \in [Delegates -> 0 .. MaxTime] /\ mTimer' \in [Clients -> Delegates \cup {NULL}]
        /\ mClient' \in [Delegates -> Clients \cup {NULL}]
        /\ outcome' \in [Delegates -> {"none", "ticking", "stopped", "fired"}]
      BY <1>1, <1>n DEF TimerIInv, TimerTypeOK
  <2> QED BY <1>2, <2>1, <2>2, <2>3 DEF TimerIInv, TimerTypeOK
<1>5. TimerMore'
  <2>1. 1 .. starts \subseteq 1 .. starts'
      BY <1>1, <1>n
  <2>2. heap' \subseteq 1 .. starts' /\ freed' \subseteq 1 .. starts'
      BY <1>2, <2>1 DEF TimerIInv, TimerMore
  <2>3. \A e \in 1 .. starts' : due'[e] >= 1
    <3> TAKE e \in 1 .. starts'
    <3>1. CASE e = d
        BY <3>1, <1>1, <1>n DEF TimerIInv, TimerTypeOK
    <3>2. CASE e # d
      <4>1. e \in 1 .. starts
          BY <3>2, <1>1, <1>n
      <4> QED BY <4>1, <3>2, <1>1, <1>n DEF TimerIInv, TimerMore, TimerTypeOK
    <3> QED BY <3>1, <3>2
  <2>4. \A e \in Delegates : e > starts' => outcome'[e] = "none"
    <3> SUFFICES ASSUME NEW e \in Delegates, e > starts' PROVE outcome'[e] = "none"
        OBVIOUS
    <3>1. e # d /\ e > starts
        BY <1>1, <1>n DEF Delegates
    <3> QED BY <3>1, <1>1 DEF TimerIInv, TimerMore, TimerTypeOK
  <2> QED BY <1>2, <2>2, <2>3, <2>4 DEF TimerIInv, TimerMore
<1>6. SoonestIsArmed'
  <2> SUFFICES ASSUME NEW e \in heap PROVE \/ polled /\ armed # 0 /\ armed <= due'[e]
                                           \/ poll # "wait" \/ msgThread # Idle \/ InQueue([type |-> "Expire"])'
      BY <1>2 DEF SoonestIsArmed, Idle, NULL
  <2>1. due'[e] = due[e]
      BY <1>1, <1>n DEF TimerIInv, TimerMore, TimerTypeOK
  <2>2. InQueue([type |-> "Expire"]) => InQueue([type |-> "Expire"])'
      BY <1>1, <1>3, ExpireStaysBefore
  <2> QED BY <2>1, <2>2 DEF TimerIInv, SoonestIsArmed
<1>7. LinksInv'
  <2>1. \A e \in 1 .. starts : mClient'[e] = mClient[e] /\ outcome'[e] = outcome[e]
      BY <1>1, <1>n DEF TimerIInv, TimerTypeOK
  <2>2. \A e \in freed' : mClient'[e] = NULL
      BY <1>2, <2>1 DEF TimerIInv, LinksInv, TimerMore
  <2>3. ASSUME NEW k \in Clients, mTimer'[k] # NULL
        PROVE  /\ mTimer'[k] \in 1 .. starts' /\ mClient'[mTimer'[k]] = k
               /\ outcome'[mTimer'[k]] = "ticking"
    <3>1. CASE k = c
      <4>1. mTimer'[k] = d
          BY <3>1, <1>1 DEF TimerIInv, TimerTypeOK
      <4>2. mClient'[d] = c /\ outcome'[d] = "ticking" /\ d \in 1 .. starts'
          BY <1>1, <1>n DEF TimerIInv, TimerTypeOK
      <4> QED BY <4>1, <4>2, <3>1
    <3>2. CASE k # c
      <4>1. mTimer'[k] = mTimer[k]
          BY <3>2, <1>1 DEF TimerIInv, TimerTypeOK
      <4>2. mTimer[k] \in 1 .. starts /\ mClient[mTimer[k]] = k /\ outcome[mTimer[k]] = "ticking"
          BY <4>1, <2>3 DEF TimerIInv, LinksInv
      <4>3. mTimer[k] \in 1 .. starts'
          BY <4>2, <1>1, <1>n
      <4> QED BY <4>1, <4>2, <4>3, <2>1
    <3> QED BY <3>1, <3>2
  <2> QED BY <1>2, <2>2, <2>3 DEF TimerIInv, LinksInv
<1>8. QueueInv'
  <2> PICK m : m = [type |-> "Push", d |-> d]
      OBVIOUS
  <2>1. m.type = "Push" /\ m.d = d /\ m \in Messages /\ queue' = Append(queue, m)
      BY <1>1, <1>3
  <2>2. d \in 1 .. starts' /\ d \notin freed /\ starts' \in Nat /\ starts <= starts'
      BY <1>1, <1>n DEF TimerIInv, TimerMore
  <2>3. \A i \in DOMAIN queue : queue[i].type = "Remove" => queue[i].d # d
      BY <1>1 DEF TimerIInv, QueueInv, MsgIsSound
  <2>4. \A e \in 1 .. starts : mClient[e] = NULL => mClient'[e] = NULL
      BY <1>1, <1>n DEF TimerIInv, TimerTypeOK
  <2> QED BY <1>2, <1>3, <1>n, <2>1, <2>2, <2>3, <2>4, QueuePush DEF TimerIInv
<1> QED BY <1>4, <1>5, <1>6, <1>7, <1>8 DEF TimerIInv

(* A running timer is stopped, by its client or by the message thread that *)
(* found it expired.                                                       *)
LEMMA StopStep ==
    ASSUME LocTimerAssumption, TimerIInv, NEW c \in Clients, mTimer[c] # NULL,
           NEW how \in {"stopped", "fired"}, StopTimer(c, how),
           UNCHANGED <<now, due, starts, freed, heap, kernel, poll>>, dead' \subseteq Clients,
           \/ msgThread' = msgThread
           \/ /\ msgThread' \in [at : {"idle", "expire", "stop", "callback"},
                                d : Delegates \cup {NULL}, c : Clients \cup {NULL}, now : 0 .. MaxTime]
              /\ msgThread'.at = "callback"
    PROVE  TimerIInv'
<1>n. /\ starts \in Nat /\ now \in Nat /\ MaxTime \in Nat /\ MaxStarts \in Nat
      /\ 1 .. starts \subseteq Delegates /\ NULL \notin Clients /\ NULL \notin Delegates
    BY TimerNumbers DEF TimerIInv
<1> PICK d : d = mTimer[c]
    OBVIOUS
<1>1. /\ mTimer' = [mTimer EXCEPT ![c] = NULL] /\ mClient' = [mClient EXCEPT ![d] = NULL]
      /\ outcome' = [outcome EXCEPT ![d] = how]
      /\ queue' = Append(queue, [type |-> "Remove", d |-> d])
    BY DEF StopTimer
<1>2. /\ now' = now /\ due' = due /\ starts' = starts /\ freed' = freed /\ heap' = heap
      /\ armed' = armed /\ polled' = polled /\ poll' = poll
    BY DEF kernel
<1>3. d \in 1 .. starts /\ d \in Delegates /\ mClient[d] = c /\ c # NULL /\ outcome[d] = "ticking"
    BY <1>n DEF TimerIInv, LinksInv
<1>4. queue \in Seq(Messages) /\ [type |-> "Remove", d |-> d] \in Messages
    BY <1>3, MessagesSent DEF TimerIInv, TimerTypeOK
<1>5. TimerTypeOK'
  <2>1. queue' \in Seq(Messages)
      BY <1>1, <1>4
  <2>2. /\ mTimer' \in [Clients -> Delegates \cup {NULL}]
        /\ mClient' \in [Delegates -> Clients \cup {NULL}]
        /\ outcome' \in [Delegates -> {"none", "ticking", "stopped", "fired"}]
      BY <1>1, <1>3 DEF TimerIInv, TimerTypeOK
  <2> QED BY <1>2, <2>1, <2>2 DEF TimerIInv, TimerTypeOK
<1>6. TimerMore'
  <2>1. \A e \in Delegates : e > starts => outcome'[e] = "none"
    <3> SUFFICES ASSUME NEW e \in Delegates, e > starts PROVE outcome'[e] = "none"
        OBVIOUS
    <3>1. e # d
        BY <1>3, <1>n DEF Delegates
    <3> QED BY <3>1, <1>1 DEF TimerIInv, TimerMore, TimerTypeOK
  <2> QED BY <1>2, <2>1 DEF TimerIInv, TimerMore
<1>7. SoonestIsArmed'
  <2> SUFFICES ASSUME NEW e \in heap PROVE \/ polled /\ armed # 0 /\ armed <= due[e]
                                           \/ poll # "wait" \/ msgThread' # Idle \/ InQueue([type |-> "Expire"])'
      BY <1>2 DEF SoonestIsArmed, Idle, NULL
  <2>1. InQueue([type |-> "Expire"]) => InQueue([type |-> "Expire"])'
      BY <1>1, <1>4, ExpireStaysBefore
  <2>2. msgThread' = msgThread \/ msgThread' # Idle
      BY DEF Idle
  <2> QED BY <2>1, <2>2 DEF TimerIInv, SoonestIsArmed
<1>8. LinksInv'
  <2>1. \A e \in freed' : mClient'[e] = NULL
      BY <1>1, <1>2, <1>n DEF TimerIInv, LinksInv, TimerTypeOK
  <2>2. ASSUME NEW k \in Clients, mTimer'[k] # NULL
        PROVE  /\ mTimer'[k] \in 1 .. starts' /\ mClient'[mTimer'[k]] = k
               /\ outcome'[mTimer'[k]] = "ticking"
    <3>1. k # c
        BY <1>1, <2>2 DEF TimerIInv, TimerTypeOK
    <3>2. mTimer'[k] = mTimer[k]
        BY <3>1, <1>1 DEF TimerIInv, TimerTypeOK
    <3>3. mTimer[k] \in 1 .. starts /\ mClient[mTimer[k]] = k /\ outcome[mTimer[k]] = "ticking"
        BY <3>2, <2>2 DEF TimerIInv, LinksInv
    <3>4. mTimer[k] # d /\ mTimer[k] \in Delegates
        BY <3>1, <3>3, <1>3, <1>n
    <3>5. mClient'[mTimer[k]] = k /\ outcome'[mTimer[k]] = "ticking"
        BY <3>3, <3>4, <1>1 DEF TimerIInv, TimerTypeOK
    <3> QED BY <3>2, <3>3, <3>5, <1>2
  <2> QED BY <1>2, <2>1, <2>2 DEF TimerIInv, LinksInv
<1>9. QueueInv'
  <2> PICK m : m = [type |-> "Remove", d |-> d]
      OBVIOUS
  <2>1. m.type = "Remove" /\ m.d = d /\ m \in Messages /\ queue' = Append(queue, m)
      BY <1>1, <1>4
  <2>2. d \in 1 .. starts' /\ d \notin freed /\ starts' \in Nat /\ starts <= starts'
      BY <1>2, <1>3, <1>n DEF TimerIInv, LinksInv
  <2>3. \A i \in DOMAIN queue : queue[i].type = "Remove" => queue[i].d # d
      BY <1>3 DEF TimerIInv, QueueInv, MsgIsSound
  <2>4. mClient'[d] = NULL /\ \A e \in 1 .. starts : mClient[e] = NULL => mClient'[e] = NULL
      BY <1>1, <1>3, <1>n DEF TimerIInv, TimerTypeOK
  <2> QED BY <1>2, <1>4, <1>n, <2>1, <2>2, <2>3, <2>4, QueuePush DEF TimerIInv
<1> QED BY <1>5, <1>6, <1>7, <1>8, <1>9 DEF TimerIInv

(* A delegate is put in the heap. *)
LEMMA PushStep ==
    ASSUME LocTimerAssumption, TimerIInv, MsgTimerPush
    PROVE  TimerIInv'
<1>n. /\ starts \in Nat /\ MaxTime \in Nat /\ 1 .. starts \subseteq Delegates
      /\ NULL \notin Clients /\ NULL \notin Delegates
    BY TimerNumbers DEF TimerIInv
<1> PICK d : d = Head(queue).d
    OBVIOUS
<1>1. /\ queue # << >> /\ Head(queue).type = "Push" /\ heap' = heap \cup {d}
      /\ updateSoonestTime(Top(heap), heap') /\ queue' = Tail(queue) /\ msgThread = Idle
    BY DEF MsgTimerPush, Taken
<1>2. /\ now' = now /\ mTimer' = mTimer /\ mClient' = mClient /\ due' = due /\ starts' = starts
      /\ dead' = dead /\ freed' = freed /\ msgThread' = msgThread /\ poll' = poll /\ outcome' = outcome
    BY DEF MsgTimerPush, client
<1>3. d \in 1 .. starts /\ d \notin freed
  <2>1. 1 \in DOMAIN queue /\ Head(queue) = queue[1]
      BY <1>1 DEF TimerIInv, TimerTypeOK
  <2> QED BY <1>1, <2>1 DEF TimerIInv, QueueInv, MsgIsSound
<1>4. heap' \subseteq 1 .. starts /\ heap' \subseteq Delegates /\ heap' # {} /\ heap \subseteq Delegates
    BY <1>1, <1>3, <1>n DEF TimerIInv, TimerMore
<1> PICK top : top = Top(heap')
    OBVIOUS
<1>5. top \in heap' /\ top # NULL /\ \A e \in heap' : due[top] <= due[e]
    BY <1>4, TopIsSoonest DEF TimerIInv, TimerTypeOK
<1> PICK prior : prior = Top(heap)
    OBVIOUS
<1>6. /\ heap = {} => prior = NULL
      /\ heap # {} => prior \in heap /\ prior # NULL
  <2>1. heap = {} => prior = NULL
      BY DEF Top
  <2>2. heap # {} => prior \in heap /\ prior # NULL
      BY <1>4, TopIsSoonest DEF TimerIInv, TimerTypeOK
  <2> QED BY <2>1, <2>2
<1>7. /\ \A e \in heap' : due[e] \in 0 .. MaxTime /\ due[e] >= 1
      /\ armed \in 0 .. MaxTime /\ polled \in BOOLEAN
    BY <1>4 DEF TimerIInv, TimerMore, TimerTypeOK
<1>8. \/ prior # NULL /\ due[top] >= due[prior] /\ armed' = armed /\ polled' = polled
      \/ armed' = due[top] /\ polled' = TRUE
  <2>1. CASE top = prior
    <3>1. armed' = armed /\ polled' = polled
        BY <1>1, <2>1 DEF updateSoonestTime, kernel
    <3> QED BY <3>1, <2>1, <1>5, <1>7
  <2>2. CASE top # prior /\ (prior = NULL \/ due[top] < due[prior])
    <3>1. armed' = due[top] /\ polled' = TRUE
        BY <1>1, <1>5, <2>2 DEF updateSoonestTime
    <3> QED BY <3>1
  <2>3. CASE top # prior /\ prior # NULL /\ ~(due[top] < due[prior])
    <3>1. armed' = armed /\ polled' = polled
        BY <1>1, <1>5, <2>3 DEF updateSoonestTime, kernel
    <3>2. prior \in heap'
        BY <2>3, <1>1, <1>6
    <3> QED BY <3>1, <3>2, <2>3, <1>5, <1>7
  <2> QED BY <2>1, <2>2, <2>3
<1>9. TimerTypeOK'
  <2>1. armed' \in 0 .. MaxTime /\ polled' \in BOOLEAN
      BY <1>5, <1>7, <1>8
  <2>2. queue' \in Seq(Messages)
      BY <1>1 DEF TimerIInv, TimerTypeOK
  <2> QED BY <1>2, <1>4, <2>1, <2>2 DEF TimerIInv, TimerTypeOK
<1>10. TimerMore'
    BY <1>2, <1>4 DEF TimerIInv, TimerMore
<1>11. SoonestIsArmed'
  <2> SUFFICES ASSUME NEW e \in heap' PROVE \/ polled' = TRUE /\ armed' # 0 /\ armed' <= due[e]
                                            \/ poll # "wait" \/ InQueue([type |-> "Expire"])'
      BY <1>2 DEF SoonestIsArmed, Idle, NULL
  <2>1. CASE armed' = due[top] /\ polled' = TRUE
      BY <2>1, <1>5, <1>7
  <2>2. CASE prior # NULL /\ due[top] >= due[prior] /\ armed' = armed /\ polled' = polled
    <3>1. prior \in heap
        BY <2>2, <1>6
    <3>2. CASE polled /\ armed # 0 /\ armed <= due[prior]
      <4>1. polled' = TRUE
          BY <2>2, <3>2, <1>7
      <4>2. due[top] <= due[e] /\ prior \in heap'
          BY <1>1, <1>5, <3>1
      <4> QED BY <4>1, <4>2, <2>2, <3>2, <1>5, <1>7
    <3>3. CASE poll # "wait"
        BY <3>3
    <3>4. CASE InQueue([type |-> "Expire"])
        BY <3>4, <1>1, ExpireStays DEF TimerIInv, TimerTypeOK
    <3> QED BY <3>1, <3>2, <3>3, <3>4, <1>1 DEF TimerIInv, SoonestIsArmed
  <2> QED BY <2>1, <2>2, <1>8
<1>12. LinksInv'
    BY <1>1, <1>2, <1>3 DEF TimerIInv, LinksInv
<1>13. QueueInv'
    BY <1>1, <1>2, QueuePop DEF TimerIInv, TimerTypeOK
<1> QED BY <1>9, <1>10, <1>11, <1>12, <1>13 DEF TimerIInv

(* A delegate is removed and deleted. *)
LEMMA RemoveStep ==
    ASSUME LocTimerAssumption, TimerIInv, MsgTimerRemove
    PROVE  TimerIInv'
<1>n. /\ starts \in Nat /\ MaxTime \in Nat /\ 1 .. starts \subseteq Delegates
      /\ NULL \notin Clients /\ NULL \notin Delegates
    BY TimerNumbers DEF TimerIInv
<1> PICK d : d = Head(queue).d
    OBVIOUS
<1>1. /\ queue # << >> /\ Head(queue).type = "Remove" /\ heap' = heap \ {d}
      /\ IF d = Top(heap) THEN updateSoonestTime(NULL, heap') ELSE UNCHANGED kernel
      /\ freed' = freed \cup {d} /\ queue' = Tail(queue) /\ msgThread = Idle
    BY DEF MsgTimerRemove, Taken, TimersRemove
<1>2. /\ now' = now /\ mTimer' = mTimer /\ mClient' = mClient /\ due' = due /\ starts' = starts
      /\ dead' = dead /\ msgThread' = msgThread /\ poll' = poll /\ outcome' = outcome
    BY DEF MsgTimerRemove, client
<1>3. d \in 1 .. starts /\ mClient[d] = NULL
  <2>1. 1 \in DOMAIN queue /\ Head(queue) = queue[1]
      BY <1>1 DEF TimerIInv, TimerTypeOK
  <2> QED BY <1>1, <2>1 DEF TimerIInv, QueueInv, MsgIsSound
<1>4. heap' \subseteq 1 .. starts /\ heap' \subseteq heap
    BY <1>1 DEF TimerIInv, TimerMore
<1>5. /\ armed' \in 0 .. MaxTime /\ polled' \in BOOLEAN
      /\ \/ \A e \in heap' : polled' = TRUE /\ armed' # 0 /\ armed' <= due[e]
         \/ armed' = armed /\ polled' = polled
  <2>1. CASE d = Top(heap)
      BY <2>1, <1>1, <1>4, ForcedArms DEF TimerIInv
  <2>2. CASE d # Top(heap)
      BY <2>2, <1>1 DEF kernel, TimerIInv, TimerTypeOK
  <2> QED BY <2>1, <2>2
<1>6. TimerTypeOK'
  <2>1. queue' \in Seq(Messages)
      BY <1>1 DEF TimerIInv, TimerTypeOK
  <2>2. heap' \subseteq Delegates /\ freed' \subseteq Delegates
      BY <1>1, <1>3, <1>4, <1>n DEF TimerIInv, TimerTypeOK
  <2> QED BY <1>2, <1>5, <2>1, <2>2 DEF TimerIInv, TimerTypeOK
<1>7. TimerMore'
    BY <1>1, <1>2, <1>3, <1>4 DEF TimerIInv, TimerMore
<1>8. SoonestIsArmed'
  <2> SUFFICES ASSUME NEW e \in heap' PROVE \/ polled' = TRUE /\ armed' # 0 /\ armed' <= due[e]
                                            \/ poll # "wait" \/ InQueue([type |-> "Expire"])'
      BY <1>2 DEF SoonestIsArmed, Idle, NULL
  <2>1. InQueue([type |-> "Expire"]) => InQueue([type |-> "Expire"])'
      BY <1>1, ExpireStays DEF TimerIInv, TimerTypeOK
  <2>2. \/ polled = TRUE /\ armed # 0 /\ armed <= due[e]
        \/ poll # "wait" \/ InQueue([type |-> "Expire"])
      BY <1>1, <1>4 DEF TimerIInv, SoonestIsArmed, TimerTypeOK
  <2> QED BY <1>5, <2>1, <2>2
<1>9. LinksInv'
  <2>1. heap' \cap freed' = {} /\ \A e \in freed' : mClient'[e] = NULL
      BY <1>1, <1>2, <1>3 DEF TimerIInv, LinksInv
  <2>2. msgThread'.at # "expire"
      BY <1>1, <1>2 DEF Idle
  <2> QED BY <1>2, <2>1, <2>2 DEF TimerIInv, LinksInv
<1>10. QueueInv'
    BY <1>1, <1>2, QueuePop DEF TimerIInv, TimerTypeOK
<1> QED BY <1>6, <1>7, <1>8, <1>9, <1>10 DEF TimerIInv

(* The message thread takes the next timer off the heap, or arms the fd    *)
(* for those that remain and goes back to its queue.                       *)
LEMMA PopStep ==
    ASSUME LocTimerAssumption, TimerIInv, NEW more \in BOOLEAN, NEW t \in 0 .. MaxTime,
           more = TRUE => heap # {}, Pop(more, t),
           UNCHANGED <<now, client, freed, poll, outcome>>,
           \/ queue' = queue /\ msgThread # Idle
           \/ queue # << >> /\ queue' = Tail(queue) /\ (more = FALSE => heap = {})
    PROVE  TimerIInv'
<1>n. /\ starts \in Nat /\ MaxTime \in Nat /\ 1 .. starts \subseteq Delegates
      /\ NULL \notin Clients /\ NULL \notin Delegates
    BY TimerNumbers DEF TimerIInv
<1>1. /\ now' = now /\ mTimer' = mTimer /\ mClient' = mClient /\ due' = due /\ starts' = starts
      /\ dead' = dead /\ freed' = freed /\ poll' = poll /\ outcome' = outcome
    BY DEF client
<1>2. queue' \in Seq(Messages)
  <2>1. queue \in Seq(Messages)
      BY DEF TimerIInv, TimerTypeOK
  <2> QED BY <2>1, Taken1
<1>3. QueueInv'
  <2>1. CASE queue' = queue
      BY <2>1, <1>1 DEF TimerIInv, QueueInv
  <2>2. CASE queue # << >> /\ queue' = Tail(queue)
      BY <2>2, <1>1, QueuePop DEF TimerIInv, TimerTypeOK
  <2> QED BY <2>1, <2>2
<1>4. CASE more = TRUE
  <2> PICK top : top = Top(heap)
      OBVIOUS
  <2>1. /\ heap' = heap \ {top} /\ armed' = armed /\ polled' = polled
        /\ msgThread' = [at |-> "expire", d |-> top, c |-> NULL, now |-> t]
      BY <1>4 DEF Pop, kernel
  <2>2. top \in heap /\ top \in Delegates
      BY <1>4, TopIsSoonest DEF TimerIInv, TimerTypeOK
  <2>3. TimerTypeOK'
      BY <1>1, <1>2, <2>1, <2>2 DEF TimerIInv, TimerTypeOK
  <2>4. TimerMore'
      BY <1>1, <2>1, <2>2 DEF TimerIInv, TimerMore
  <2>5. msgThread' # Idle
      BY <2>1 DEF Idle
  <2>6. SoonestIsArmed'
      BY <2>5 DEF SoonestIsArmed, Idle, NULL
  <2>7. LinksInv'
      BY <1>1, <2>1, <2>2 DEF TimerIInv, LinksInv
  <2> QED BY <1>3, <2>3, <2>4, <2>6, <2>7 DEF TimerIInv
<1>5. CASE more = FALSE
  <2>1. updateSoonestTime(NULL, heap) /\ msgThread' = Idle /\ heap' = heap
      BY <1>5 DEF Pop
  <2>2. /\ \A d \in heap : polled' = TRUE /\ armed' # 0 /\ armed' <= due[d]
        /\ polled' \in BOOLEAN /\ armed' \in 0 .. MaxTime
      BY <2>1, ForcedArms DEF TimerIInv, TimerMore
  <2>3. TimerTypeOK'
    <3>1. Idle \in [at : {"idle", "expire", "stop", "callback"}, d : Delegates \cup {NULL},
                    c : Clients \cup {NULL}, now : 0 .. MaxTime]
        BY <1>n DEF Idle
    <3> QED BY <1>1, <1>2, <2>1, <2>2, <3>1 DEF TimerIInv, TimerTypeOK
  <2>4. TimerMore' /\ LinksInv'
      BY <1>1, <2>1 DEF TimerIInv, TimerMore, LinksInv, Idle
  <2>5. SoonestIsArmed'
      BY <1>1, <2>1, <2>2 DEF SoonestIsArmed
  <2> QED BY <1>3, <2>3, <2>4, <2>5 DEF TimerIInv
<1> QED BY <1>4, <1>5

(* The message thread within MsgTimerExpire::proc. *)
LEMMA ExpireStep ==
    ASSUME LocTimerAssumption, TimerIInv, MsgTimerExpire \/ ExpireRead \/ ExpireStop \/ Callback
    PROVE  TimerIInv'
<1>n. /\ starts \in Nat /\ now \in 0 .. MaxTime /\ 1 .. starts \subseteq Delegates
      /\ NULL \notin Clients /\ NULL \notin Delegates /\ msgThread.now \in 0 .. MaxTime
    BY TimerNumbers DEF TimerIInv, TimerTypeOK
<1>1. CASE MsgTimerExpire
  <2>1. /\ Pop(heap # {}, now) /\ queue # << >> /\ queue' = Tail(queue)
        /\ UNCHANGED <<now, client, freed, poll, outcome>>
      BY <1>1 DEF MsgTimerExpire, Taken
  <2> QED BY <2>1, <1>n, PopStep
<1>2. ASSUME NextPop, queue' = queue, msgThread.at # "idle",
             UNCHANGED <<now, client, freed, poll, outcome>>
      PROVE  TimerIInv'
  <2>1. msgThread # Idle
      BY <1>2 DEF Idle
  <2> QED BY <1>2, <1>n, <2>1, PopStep DEF NextPop
<1>3. CASE ExpireRead
  <2>1. CASE mClient[msgThread.d] = NULL
      BY <1>2, <1>3, <2>1 DEF ExpireRead
  <2>2. CASE mClient[msgThread.d] # NULL
    <3> PICK c : c = mClient[msgThread.d]
        OBVIOUS
    <3>1. /\ msgThread' = [at |-> "stop", d |-> msgThread.d, c |-> c, now |-> msgThread.now]
          /\ now' = now /\ mTimer' = mTimer /\ mClient' = mClient /\ due' = due /\ starts' = starts
          /\ dead' = dead /\ freed' = freed /\ queue' = queue /\ poll' = poll /\ outcome' = outcome
          /\ heap' = heap /\ armed' = armed /\ polled' = polled
        BY <1>3, <2>2 DEF ExpireRead, client, kernel
    <3>2. c \in Clients /\ msgThread.d \in Delegates
        BY <1>3, <2>2 DEF ExpireRead, TimerIInv, TimerMore, TimerTypeOK
    <3>3. TimerTypeOK'
        BY <3>1, <3>2, <1>n DEF TimerIInv, TimerTypeOK
    <3>4. TimerMore' /\ LinksInv'
        BY <3>1, <3>2 DEF TimerIInv, TimerMore, LinksInv
    <3>5. SoonestIsArmed'
      <4>1. msgThread' # Idle
          BY <3>1 DEF Idle
      <4> QED BY <4>1 DEF SoonestIsArmed, Idle, NULL
    <3> QED BY <3>1, <3>3, <3>4, <3>5 DEF TimerIInv, QueueInv
  <2> QED BY <2>1, <2>2
<1>4. CASE ExpireStop
  <2> PICK c : c = msgThread.c
      OBVIOUS
  <2>1. c \in Clients /\ UNCHANGED <<now, due, starts, dead, freed, poll>> /\ msgThread.at = "stop"
      BY <1>4 DEF ExpireStop, TimerIInv, TimerMore
  <2>2. CASE mTimer[c] # NULL
    <3>1. /\ StopTimer(c, "fired") /\ UNCHANGED <<heap, kernel>>
          /\ msgThread' = [at |-> "callback", d |-> msgThread.d, c |-> c, now |-> msgThread.now]
        BY <1>4, <2>2 DEF ExpireStop
    <3>2. /\ msgThread' \in [at : {"idle", "expire", "stop", "callback"},
                             d : Delegates \cup {NULL}, c : Clients \cup {NULL}, now : 0 .. MaxTime]
          /\ msgThread'.at = "callback"
        BY <3>1, <2>1, <1>n DEF TimerIInv, TimerTypeOK
    <3>3. UNCHANGED <<now, due, starts, freed, heap, kernel, poll>> /\ dead' \subseteq Clients
        BY <2>1, <3>1 DEF TimerIInv, TimerTypeOK
    <3> QED BY <2>1, <2>2, <3>1, <3>2, <3>3, StopStep
  <2>3. CASE mTimer[c] = NULL
    <3>1. /\ NextPop /\ queue' = queue /\ msgThread.at # "idle"
          /\ UNCHANGED <<now, client, freed, poll, outcome>>
        BY <1>4, <2>1, <2>3 DEF ExpireStop, client
    <3> QED BY <3>1, <1>2
  <2> QED BY <2>2, <2>3
<1>5. CASE Callback
    BY <1>2, <1>5 DEF Callback
<1> QED BY <1>1, <1>3, <1>4, <1>5

(* The poll thread and the clock. *)
LEMMA PollStep ==
    ASSUME LocTimerAssumption, TimerIInv, PollThread \/ Tick
    PROVE  TimerIInv'
<1>n. starts \in Nat /\ MaxTime \in Nat /\ now \in Nat
    BY TimerNumbers DEF TimerIInv
<1>1. /\ mTimer' = mTimer /\ mClient' = mClient /\ due' = due /\ starts' = starts
      /\ dead' = dead /\ freed' = freed /\ heap' = heap /\ outcome' = outcome /\ msgThread' = msgThread
    BY DEF PollThread, PollWake, PollDisarm, PollSend, Tick, client
<1>2. TimerMore' /\ LinksInv'
    BY <1>1 DEF TimerIInv, TimerMore, LinksInv
<1>3. CASE PollWake
  <2>1. now' = now /\ armed' = armed /\ polled' = polled /\ queue' = queue /\ poll' = "disarm"
      BY <1>3 DEF PollWake, kernel
  <2>2. TimerTypeOK' /\ QueueInv'
      BY <1>1, <2>1 DEF TimerIInv, TimerTypeOK, QueueInv
  <2>3. SoonestIsArmed'
      BY <2>1 DEF SoonestIsArmed
  <2> QED BY <1>2, <2>2, <2>3 DEF TimerIInv
<1>4. CASE PollDisarm
  <2>1. now' = now /\ armed' = 0 /\ polled' = polled /\ queue' = queue /\ poll' = "send"
      BY <1>4 DEF PollDisarm
  <2>2. TimerTypeOK' /\ QueueInv'
      BY <1>1, <2>1, <1>n DEF TimerIInv, TimerTypeOK, QueueInv
  <2>3. SoonestIsArmed'
      BY <2>1 DEF SoonestIsArmed
  <2> QED BY <1>2, <2>2, <2>3 DEF TimerIInv
<1>5. CASE PollSend
  <2> PICK m : m = [type |-> "Expire"]
      OBVIOUS
  <2>1. /\ now' = now /\ armed' = armed /\ polled' = FALSE /\ queue' = Append(queue, m) /\ poll' = "wait"
        /\ queue \in Seq(Messages) /\ m \in Messages /\ m.type = "Expire"
      BY <1>5, MessagesSent DEF PollSend, TimerIInv, TimerTypeOK
  <2>2. TimerTypeOK'
    <3>1. queue' \in Seq(Messages)
        BY <2>1, Appended
    <3>2. polled' \in BOOLEAN /\ poll' \in {"wait", "disarm", "send"}
        BY <2>1
    <3> QED BY <1>1, <2>1, <3>1, <3>2 DEF TimerIInv, TimerTypeOK
  <2>3. QueueInv'
      BY <1>1, <2>1, <1>n, QueuePush DEF TimerIInv
  <2>4. InQueue([type |-> "Expire"])'
    <3>1. Len(queue) + 1 \in DOMAIN queue' /\ queue'[Len(queue) + 1] = m
        BY <2>1, Appended
    <3> QED BY <3>1 DEF InQueue
  <2>5. SoonestIsArmed'
      BY <2>4 DEF SoonestIsArmed
  <2> QED BY <1>2, <2>2, <2>3, <2>5 DEF TimerIInv
<1>6. CASE Tick
  <2>1. /\ now' = now + 1 /\ now < MaxTime /\ armed' = armed /\ polled' = polled /\ queue' = queue
        /\ poll' = poll
      BY <1>6 DEF Tick, kernel
  <2>2. now' \in 1 .. MaxTime
      BY <2>1, <1>n
  <2>3. TimerTypeOK' /\ QueueInv'
      BY <1>1, <2>1, <2>2 DEF TimerIInv, TimerTypeOK, QueueInv
  <2>4. SoonestIsArmed'
      BY <1>1, <2>1 DEF TimerIInv, SoonestIsArmed, InQueue
  <2> QED BY <1>2, <2>3, <2>4 DEF TimerIInv
<1> QED BY <1>3, <1>4, <1>5, <1>6 DEF PollThread

(* No step breaks the inductive invariant. *)
LEMMA TimerIInvStep == LocTimerAssumption /\ TimerIInv /\ [TimerNext]_timerVars => TimerIInv'
<1> SUFFICES ASSUME LocTimerAssumption, TimerIInv, [TimerNext]_timerVars PROVE TimerIInv'
    OBVIOUS
<1>1. ASSUME NEW c \in Clients, stop(c) PROVE TimerIInv'
  <2>1. /\ mTimer[c] # NULL /\ StopTimer(c, "stopped") /\ msgThread' = msgThread /\ dead' \subseteq Clients
        /\ UNCHANGED <<now, due, starts, freed, heap, kernel, poll>>
      BY <1>1 DEF stop, TimerIInv, TimerTypeOK
  <2> QED BY <2>1, StopStep
<1>2. ASSUME NEW c \in Clients, Delete(c) PROVE TimerIInv'
  <2>1. msgThread' = msgThread /\ dead' \subseteq Clients /\ UNCHANGED <<now, due, starts, freed, heap, kernel, poll>>
      BY <1>2 DEF Delete, TimerIInv, TimerTypeOK
  <2>2. CASE mTimer[c] # NULL /\ StopTimer(c, "stopped")
      BY <2>1, <2>2, StopStep
  <2>3. CASE UNCHANGED <<mTimer, mClient, outcome, queue>>
    <3>1. TimerTypeOK'
        BY <2>1, <2>3 DEF TimerIInv, TimerTypeOK, kernel
    <3>2. TimerMore' /\ LinksInv' /\ QueueInv'
        BY <2>1, <2>3 DEF TimerIInv, TimerMore, LinksInv, QueueInv
    <3>3. SoonestIsArmed'
        BY <2>1, <2>3 DEF TimerIInv, SoonestIsArmed, InQueue, kernel
    <3> QED BY <3>1, <3>2, <3>3 DEF TimerIInv
  <2> QED BY <1>2, <2>2, <2>3 DEF Delete
<1>3. CASE UNCHANGED timerVars
  <2>1. /\ now' = now /\ mTimer' = mTimer /\ mClient' = mClient /\ due' = due /\ starts' = starts
        /\ dead' = dead /\ freed' = freed /\ heap' = heap /\ outcome' = outcome /\ msgThread' = msgThread
        /\ armed' = armed /\ polled' = polled /\ queue' = queue /\ poll' = poll
      BY <1>3 DEF timerVars, client, kernel
  <2>2. TimerTypeOK' /\ TimerMore' /\ LinksInv' /\ QueueInv'
      BY <2>1 DEF TimerIInv, TimerTypeOK, TimerMore, LinksInv, QueueInv
  <2>3. SoonestIsArmed'
      BY <2>1 DEF TimerIInv, SoonestIsArmed, InQueue
  <2> QED BY <2>2, <2>3 DEF TimerIInv
<1> QED BY <1>1, <1>2, <1>3, StartStep, PushStep, RemoveStep, ExpireStep, PollStep
        DEF TimerNext, MsgThread, Quiet

(* The invariant holds at the start. *)
LEMMA TimerIInvInit == LocTimerAssumption /\ TimerInit => TimerIInv
<1> SUFFICES ASSUME LocTimerAssumption, TimerInit PROVE TimerIInv
    OBVIOUS
<1>1. Idle \in [at : {"idle", "expire", "stop", "callback"}, d : Delegates \cup {NULL},
                c : Clients \cup {NULL}, now : 0 .. MaxTime] /\ Idle.at = "idle"
    BY DEF Idle, LocTimerAssumption
<1>2. TimerTypeOK
  <2>1. queue \in Seq(Messages)
      BY DEF TimerInit
  <2>2. /\ now \in 1 .. MaxTime /\ due \in [Delegates -> 0 .. MaxTime] /\ starts \in 0 .. MaxStarts
        /\ armed \in 0 .. MaxTime
      BY DEF TimerInit, LocTimerAssumption
  <2>3. /\ mTimer \in [Clients -> Delegates \cup {NULL}] /\ mClient \in [Delegates -> Clients \cup {NULL}]
        /\ outcome \in [Delegates -> {"none", "ticking", "stopped", "fired"}]
      BY DEF TimerInit
  <2> QED BY <1>1, <2>1, <2>2, <2>3 DEF TimerInit, TimerTypeOK
<1>3. TimerMore /\ LinksInv
    BY <1>1 DEF TimerInit, TimerMore, LinksInv, LocTimerAssumption, Delegates, NULL
<1>4. QueueInv /\ SoonestIsArmed
  <2>1. heap = {} /\ DOMAIN queue = {}
      BY DEF TimerInit
  <2> QED BY <2>1 DEF QueueInv, SoonestIsArmed
<1> QED BY <1>2, <1>3, <1>4 DEF TimerIInv

-----------------------------------------------------------------------------
(* The soonest timer is with the kernel or about to be looked at, and no   *)
(* delegate that the heap, a client, the queue or the message thread can   *)
(* still reach is deleted, however the clients' threads, the message       *)
(* thread and the poll thread interleave (LocTimer.cpp).                   *)
THEOREM TimersAreAlwaysSound == TimerSpec => []TimersAreSound
<1>1. TimerInit => TimerIInv
    BY TimerIInvInit, LocTimerAssumption
<1>2. TimerIInv /\ [TimerNext]_timerVars => TimerIInv'
    BY TimerIInvStep, LocTimerAssumption
<1>3. TimerIInv => TimersAreSound
    BY SoundFollows
<1> QED BY <1>1, <1>2, <1>3, PTL DEF TimerSpec

(* A start that was stopped or has called back stays so: stop and expiry   *)
(* of one timer never both take effect (LocTimer::stop and                 *)
(* LocTimerDelegate::expire).                                              *)
THEOREM EveryStartEndsOnce == TimerSpec => EndsOnce
<1>1. TimerInit => TimerIInv
    BY TimerIInvInit, LocTimerAssumption
<1>2. TimerIInv /\ [TimerNext]_timerVars => TimerIInv'
    BY TimerIInvStep, LocTimerAssumption
<1>3. TimerIInv /\ [TimerNext]_timerVars =>
         [\A d \in Delegates : outcome[d] \in {"stopped", "fired"} => outcome'[d] = outcome[d]]_timerVars
  <2> SUFFICES ASSUME TimerIInv, [TimerNext]_timerVars, NEW d \in Delegates,
                      outcome[d] \in {"stopped", "fired"}
               PROVE  outcome'[d] = outcome[d]
      BY DEF timerVars
  <2>1. ASSUME NEW c \in Clients, NEW how, mTimer[c] # NULL, StopTimer(c, how) PROVE outcome'[d] = outcome[d]
    <3>1. outcome[mTimer[c]] = "ticking"
        BY <2>1 DEF TimerIInv, LinksInv
    <3>2. d # mTimer[c]
        BY <3>1
    <3> QED BY <2>1, <3>2 DEF StopTimer, TimerIInv, TimerTypeOK
  <2>2. ASSUME NEW c \in Clients, NEW t \in Delays, start(c, t) PROVE outcome'[d] = outcome[d]
    <3>1. starts \in Nat
        BY TimerNumbers, LocTimerAssumption DEF TimerIInv
    <3>2. d # starts + 1
      <4>1. d > starts => outcome[d] = "none"
          BY DEF TimerIInv, TimerMore
      <4> QED BY <3>1, <4>1
    <3> QED BY <2>2, <3>2 DEF start, TimerIInv, TimerTypeOK
  <2>3. ASSUME NEW c \in Clients, stop(c) \/ Delete(c) PROVE outcome'[d] = outcome[d]
      BY <2>1, <2>3 DEF stop, Delete
  <2>4. CASE ExpireStop
    <3>1. msgThread.c \in Clients
        BY <2>4 DEF ExpireStop, TimerIInv, TimerMore
    <3> QED BY <2>1, <2>4, <3>1 DEF ExpireStop
  <2>5. CASE MsgTimerPush \/ MsgTimerRemove \/ MsgTimerExpire \/ ExpireRead \/ Callback
      BY <2>5 DEF MsgTimerPush, MsgTimerRemove, MsgTimerExpire, ExpireRead, Callback
  <2>6. CASE PollThread \/ Tick
      BY <2>6 DEF PollThread, PollWake, PollDisarm, PollSend, Tick
  <2>7. CASE UNCHANGED timerVars
      BY <2>7 DEF timerVars
  <2> QED BY <2>2, <2>3, <2>4, <2>5, <2>6, <2>7 DEF TimerNext, MsgThread, Quiet
<1> QED BY <1>1, <1>2, <1>3, PTL DEF TimerSpec, EndsOnce

-----------------------------------------------------------------------------
(* The daemon connection. *)

(* What the server sends to the engine, and what each pipe may hold. *)
EngineMsgs ==
    [class : {"LocEngReqRelWifi", "LocEngReqRelBIT"}, type : IfTypes, sender : IfSenders,
     isReq : BOOLEAN, handle : DHandles \cup {NoHandle}]

ClientOf == [resp |-> "GPSONE_DAEMON", quipc |-> "QUIPC", msapm |-> "MSAPM", msapu |-> "MSAPU"]

PipeMsgs(q) ==
    IF q = "server" THEN Writes \cup {UnblockMsg} ELSE {[ctrl |-> "RESPONSE", to |-> ClientOf[q]]}

(* The inductive invariant. *)
DmnInv ==
    /\ DmnTypeOK
    /\ DOMAIN dPipe = Queues /\ \A q \in Queues : dPipe[q] \in Seq(PipeMsgs(q))
    /\ dForwarded \in Seq(EngineMsgs)

(* A pipe after a write that it takes. *)
LEMMA WriteStep ==
    ASSUME DmnAssumption, DmnInv, NEW q \in Queues, NEW m \in PipeMsgs(q),
           \/ dPipe' = dPipe
           \/ Len(dPipe[q]) < PipeSize /\ dPipe' = [dPipe EXCEPT ![q] = Append(@, m)]
    PROVE  /\ DOMAIN dPipe' = Queues
           /\ \A k \in Queues : dPipe'[k] \in Seq(PipeMsgs(k)) /\ Len(dPipe'[k]) <= PipeSize
<1>1. CASE dPipe' = dPipe
    BY <1>1 DEF DmnInv, DmnTypeOK
<1>2. CASE Len(dPipe[q]) < PipeSize /\ dPipe' = [dPipe EXCEPT ![q] = Append(@, m)]
  <2>1. DOMAIN dPipe' = Queues /\ dPipe'[q] = Append(dPipe[q], m) /\ \A k \in Queues \ {q} : dPipe'[k] = dPipe[k]
      BY <1>2 DEF DmnInv
  <2>2. dPipe'[q] \in Seq(PipeMsgs(q)) /\ Len(dPipe'[q]) <= PipeSize
    <3> PICK s : s = dPipe[q]
        OBVIOUS
    <3> PICK M : M = PipeMsgs(q)
        OBVIOUS
    <3>1. s \in Seq(M) /\ m \in M /\ Len(s) < PipeSize /\ PipeSize \in Nat /\ dPipe'[q] = Append(s, m)
        BY <1>2, <2>1 DEF DmnInv, DmnAssumption
    <3>2. Append(s, m) \in Seq(M) /\ Len(Append(s, m)) = Len(s) + 1 /\ Len(s) \in Nat
        BY <3>1
    <3> QED BY <3>1, <3>2
  <2> QED BY <2>1, <2>2 DEF DmnInv, DmnTypeOK
<1> QED BY <1>1, <1>2

(* A pipe after a read. *)
LEMMA ReadStep ==
    ASSUME DmnAssumption, DmnInv, NEW q \in Queues, dPipe[q] # << >>, dPipe' = [dPipe EXCEPT ![q] = Tail(@)]
    PROVE  /\ DOMAIN dPipe' = Queues
           /\ \A k \in Queues : dPipe'[k] \in Seq(PipeMsgs(k)) /\ Len(dPipe'[k]) <= PipeSize
<1>1. DOMAIN dPipe' = Queues /\ dPipe'[q] = Tail(dPipe[q]) /\ \A k \in Queues \ {q} : dPipe'[k] = dPipe[k]
    BY DEF DmnInv
<1>2. dPipe'[q] \in Seq(PipeMsgs(q)) /\ Len(dPipe'[q]) <= PipeSize
  <2> PICK s : s = dPipe[q]
      OBVIOUS
  <2> PICK M : M = PipeMsgs(q)
      OBVIOUS
  <2>1. s \in Seq(M) /\ s # << >> /\ Len(s) <= PipeSize /\ PipeSize \in Nat /\ dPipe'[q] = Tail(s)
      BY <1>1 DEF DmnInv, DmnTypeOK, DmnAssumption
  <2>2. Tail(s) \in Seq(M) /\ Len(Tail(s)) = Len(s) - 1 /\ Len(s) \in Nat
      BY <2>1
  <2> QED BY <2>1, <2>2
<1> QED BY <1>1, <1>2 DEF DmnInv, DmnTypeOK

(* The handlers of the server send engine messages only. *)
LEMMA HandledIs ==
    ASSUME DmnInv, NEW m
    PROVE  Handled(m) \in Seq(EngineMsgs)
<1>1. ASSUME NEW isReq \in BOOLEAN PROVE Forward(m, isReq, dHandle) \in Seq(EngineMsgs)
  <2>1. CASE m.type \in IfTypes /\ m.sender \in IfSenders
    <3> PICK f : f = [class |-> EngineMsg(m.sender), type |-> m.type, sender |-> m.sender,
                      isReq |-> isReq, handle |-> dHandle]
        OBVIOUS
    <3>1. f \in EngineMsgs
        BY <2>1 DEF EngineMsgs, EngineMsg, DmnInv, DmnTypeOK
    <3>2. Forward(m, isReq, dHandle) = <<f>>
        BY <2>1 DEF Forward
    <3> QED BY <3>1, <3>2
  <2>2. CASE ~(m.type \in IfTypes /\ m.sender \in IfSenders)
      BY <2>2 DEF Forward
  <2> QED BY <2>1, <2>2
<1>2. if_request_handler(m, dHandle) \in Seq(EngineMsgs)
  <2>1. if_request_handler(m, dHandle) \in {<< >>, Forward(m, TRUE, dHandle)}
      BY DEF if_request_handler
  <2>2. << >> \in Seq(EngineMsgs)
      OBVIOUS
  <2> QED BY <1>1, <2>1, <2>2
<1>3. if_release_handler(m, dHandle) \in Seq(EngineMsgs)
    BY <1>1 DEF if_release_handler
<1>4. << >> \in Seq(EngineMsgs)
    OBVIOUS
<1>5. Handled(m) \in {if_request_handler(m, dHandle), if_release_handler(m, dHandle), << >>}
    BY DEF Handled
<1> QED BY <1>2, <1>3, <1>4, <1>5

(* An answer goes to the pipe of the client that asked. *)
LEMMA AnswerIs ==
    ASSUME NEW sender \in IfSenders
    PROVE  QueueOf(sender) \in Queues /\ Answer(sender) \in PipeMsgs(QueueOf(sender))
BY DEF Answer, IfSenders, WifiSenders, QueueOf, Queues, PipeMsgs, ClientOf

(* No step of the owner breaks the invariant. *)
LEMMA OwnerKeeps ==
    ASSUME DmnAssumption, DmnInv,
           \/ launch_thelper \/ signal_wait \/ cond_wait_returns
           \/ unblock_thelper \/ unblock_proc \/ unblock_written \/ join_thelper
    PROVE  DmnInv'
<1>1. CASE launch_thelper
  <2>1. /\ dForwarded' = << >> /\ dAsked' = {} /\ dOpen' = dOpen /\ dPipe' = dPipe /\ dAnswering' = dAnswering
        /\ dHandle' \in DHandles /\ dLaunches' \in 0 .. MaxLaunches /\ dExit' = FALSE /\ dReady' = FALSE
      BY <1>1 DEF launch_thelper, DmnInv, DmnTypeOK, DmnAssumption
  <2>2. /\ dOwner' \in {"idle", "created", "waiting", "signalled", "launched", "unblocking", "writing", "joining"}
        /\ dThread' \in {"none", "init", "opened", "loop", "post", "ended"}
      BY <1>1 DEF launch_thelper, DmnInv, DmnTypeOK
  <2>3. dForwarded' \in Seq(EngineMsgs) /\ dAsked' \subseteq 1 .. Len(dForwarded')
      BY <2>1
  <2> QED BY <2>1, <2>2, <2>3 DEF DmnInv, DmnTypeOK
<1>2. CASE signal_wait \/ cond_wait_returns \/ unblock_thelper \/ join_thelper
  <2>1. /\ dThread' = dThread /\ dLaunches' = dLaunches /\ dHandle' = dHandle /\ dOpen' = dOpen
        /\ dPipe' = dPipe /\ dForwarded' = dForwarded /\ dAsked' = dAsked /\ dAnswering' = dAnswering
      BY <1>2 DEF signal_wait, cond_wait_returns, unblock_thelper, join_thelper, dTraffic, dThelper
  <2>2. dExit' \in BOOLEAN /\ dReady' \in BOOLEAN
      BY <1>2 DEF signal_wait, cond_wait_returns, unblock_thelper, join_thelper, dThelper, DmnInv, DmnTypeOK
  <2>3. dOwner' \in {"idle", "created", "waiting", "signalled", "launched", "unblocking", "writing", "joining"}
      BY <1>2 DEF signal_wait, cond_wait_returns, unblock_thelper, join_thelper, Launched
  <2> QED BY <2>1, <2>2, <2>3 DEF DmnInv, DmnTypeOK
<1>3. CASE unblock_proc \/ unblock_written
  <2>1. "server" \in Queues /\ UnblockMsg \in PipeMsgs("server")
      BY DEF Queues, PipeMsgs
  <2>2. /\ dThread' = dThread /\ dLaunches' = dLaunches /\ dHandle' = dHandle /\ dOpen' = dOpen
        /\ dForwarded' = dForwarded /\ dAsked' = dAsked /\ dExit' = dExit /\ dReady' = dReady
        /\ dAnswering' = dAnswering /\ dOwner' \in {"joining", "writing"}
      BY <1>3 DEF unblock_proc, unblock_written, dThelper
  <2>3. /\ DOMAIN dPipe' = Queues
        /\ \A k \in Queues : dPipe'[k] \in Seq(PipeMsgs(k)) /\ Len(dPipe'[k]) <= PipeSize
      BY <1>3, <2>1, WriteStep DEF unblock_proc, unblock_written, pipewrite, pipetakes, pipeblocks
  <2> QED BY <2>2, <2>3 DEF DmnInv, DmnTypeOK
<1> QED BY <1>1, <1>2, <1>3

(* Nor one of the server's thread. *)
LEMMA ServerKeeps ==
    ASSUME DmnAssumption, DmnInv,
           proc_init \/ signal_ready \/ loc_api_server_proc \/ proc_error \/ proc_post
    PROVE  DmnInv'
<1>1. CASE proc_init
  <2>1. /\ dOwner' = dOwner /\ dLaunches' = dLaunches /\ dExit' = dExit /\ dReady' = dReady
        /\ dHandle' = dHandle /\ dPipe' = dPipe /\ dForwarded' = dForwarded /\ dAsked' = dAsked
        /\ dAnswering' = dAnswering /\ dThread' = "opened" /\ dOpen' \subseteq Queues
      BY <1>1 DEF proc_init, pipeget, dThelper, DmnAssumption
  <2> QED BY <2>1 DEF DmnInv, DmnTypeOK
<1>2. CASE signal_ready
  <2>1. /\ dLaunches' = dLaunches /\ dExit' = dExit /\ dReady' = TRUE /\ dThread' = "loop"
        /\ dHandle' = dHandle /\ dPipe' = dPipe /\ dForwarded' = dForwarded /\ dAsked' = dAsked
        /\ dOpen' = dOpen /\ dAnswering' = dAnswering
      BY <1>2 DEF signal_ready, dTraffic
  <2>2. dOwner' \in {"idle", "created", "waiting", "signalled", "launched", "unblocking", "writing", "joining"}
      BY <1>2 DEF signal_ready, DmnInv, DmnTypeOK
  <2> QED BY <2>1, <2>2 DEF DmnInv, DmnTypeOK
<1>3. CASE loc_api_server_proc \/ proc_error
  <2>1. /\ dOwner' = dOwner /\ dLaunches' = dLaunches /\ dReady' = dReady /\ dHandle' = dHandle /\ dOpen' = dOpen
        /\ dAnswering' = dAnswering
      BY <1>3 DEF loc_api_server_proc, proc_error
  <2>2. /\ DOMAIN dPipe' = Queues
        /\ \A k \in Queues : dPipe'[k] \in Seq(PipeMsgs(k)) /\ Len(dPipe'[k]) <= PipeSize
    <3>1. CASE dPipe' = dPipe
        BY <3>1 DEF DmnInv, DmnTypeOK
    <3>2. CASE dPipe["server"] # << >> /\ dPipe' = [dPipe EXCEPT !["server"] = Tail(@)]
        BY <3>2, ReadStep DEF Queues
    <3> QED BY <1>3, <3>1, <3>2 DEF loc_api_server_proc, proc_error
  <2>3. \/ ProcFails \/ \E m : ProcHandles(m)
      BY <1>3 DEF loc_api_server_proc, proc_error
  <2>4. CASE ProcFails
    <3>1. dExit' = TRUE /\ dThread' = "post" /\ dForwarded' = dForwarded /\ dAsked' = dAsked
        BY <2>4 DEF ProcFails
    <3> QED BY <2>1, <2>2, <3>1 DEF DmnInv, DmnTypeOK
  <2>5. ASSUME NEW m, ProcHandles(m) PROVE DmnInv'
    <3> PICK h : h = Handled(m)
        OBVIOUS
    <3>1. h \in Seq(EngineMsgs)
        BY HandledIs
    <3>2. /\ dForwarded' = dForwarded \o h /\ dExit' = dExit
          /\ dAsked' = dAsked \cup (Len(dForwarded) + 1 .. Len(dForwarded'))
          /\ dThread' \in {"none", "init", "opened", "loop", "post", "ended"}
        BY <2>5 DEF ProcHandles
    <3>3. dForwarded' \in Seq(EngineMsgs) /\ Len(dForwarded') = Len(dForwarded) + Len(h) /\ Len(h) \in Nat
          /\ Len(dForwarded) \in Nat
        BY <3>1, <3>2 DEF DmnInv
    <3>4. dAsked' \subseteq 1 .. Len(dForwarded')
      <4>1. dAsked \subseteq 1 .. Len(dForwarded)
          BY DEF DmnInv, DmnTypeOK
      <4>2. ASSUME NEW i \in dAsked' PROVE i \in 1 .. Len(dForwarded')
        <5>1. CASE i \in dAsked
            BY <5>1, <4>1, <3>3
        <5>2. CASE i \in Len(dForwarded) + 1 .. Len(dForwarded')
            BY <5>2, <3>3
        <5> QED BY <4>2, <5>1, <5>2, <3>2
      <4> QED BY <4>2
    <3> QED BY <2>1, <2>2, <3>2, <3>3, <3>4 DEF DmnInv, DmnTypeOK
  <2> QED BY <2>3, <2>4, <2>5
<1>4. CASE proc_post
  <2>1. /\ dLaunches' = dLaunches /\ dExit' = dExit /\ dReady' = dReady
        /\ dHandle' = dHandle /\ dForwarded' = dForwarded /\ dAsked' = dAsked
        /\ dThread' = "ended" /\ dOpen' = {} /\ dPipe' = [q \in Queues |-> << >>]
      BY <1>4 DEF proc_post, piperemove, dThelper
  <2>2. dOwner' \in {dOwner, "joining"} /\ dAnswering' \in {NoClient, Removed}
      BY <1>4 DEF proc_post, piperemove
  <2>3. /\ DOMAIN dPipe' = Queues
        /\ \A k \in Queues : dPipe'[k] \in Seq(PipeMsgs(k)) /\ Len(dPipe'[k]) <= PipeSize
      BY <2>1 DEF DmnAssumption
  <2> QED BY <2>1, <2>2, <2>3 DEF DmnInv, DmnTypeOK
<1> QED BY <1>1, <1>2, <1>3, <1>4

(* Nor one of the clients and the engine. *)
LEMMA TrafficKeeps ==
    ASSUME DmnAssumption, DmnInv, ClientWrites \/ data_conn \/ data_conn_written \/ ClientReads
    PROVE  DmnInv'
<1>1. /\ dOwner' = dOwner /\ dThread' = dThread /\ dLaunches' = dLaunches /\ dExit' = dExit
      /\ dReady' = dReady /\ dHandle' = dHandle /\ dOpen' = dOpen /\ dForwarded' = dForwarded
      /\ dAsked' \subseteq dAsked
    BY DEF ClientWrites, data_conn, data_conn_written, ClientReads, dThelper
<1>2. ASSUME NEW i \in dAsked PROVE dForwarded[i].sender \in IfSenders
  <2>1. dForwarded \in Seq(EngineMsgs) /\ i \in 1 .. Len(dForwarded)
      BY DEF DmnInv, DmnTypeOK
  <2>2. dForwarded[i] \in EngineMsgs
      BY <2>1
  <2> QED BY <2>2 DEF EngineMsgs
<1>3. dAnswering' \in IfSenders \cup {NoClient, Removed}
  <2>1. CASE data_conn
      BY <1>2, <2>1 DEF data_conn, DmnInv, DmnTypeOK
  <2>2. CASE data_conn_written
      BY <2>2 DEF data_conn_written
  <2>3. CASE ClientWrites \/ ClientReads
      BY <2>3 DEF ClientWrites, ClientReads, DmnInv, DmnTypeOK
  <2> QED BY <2>1, <2>2, <2>3
<1>4. /\ DOMAIN dPipe' = Queues
      /\ \A k \in Queues : dPipe'[k] \in Seq(PipeMsgs(k)) /\ Len(dPipe'[k]) <= PipeSize
  <2>1. CASE ClientWrites
    <3> PICK m \in Writes : Len(dPipe["server"]) < PipeSize /\ dPipe' = [dPipe EXCEPT !["server"] = Append(@, m)]
        BY <2>1 DEF ClientWrites
    <3>1. "server" \in Queues /\ m \in PipeMsgs("server")
        BY DEF Queues, PipeMsgs
    <3> QED BY <3>1, WriteStep
  <2>2. ASSUME NEW sender \in IfSenders,
               \/ pipewrite(QueueOf(sender), Answer(sender)) \/ pipeblocks(QueueOf(sender))
        PROVE  /\ DOMAIN dPipe' = Queues
               /\ \A k \in Queues : dPipe'[k] \in Seq(PipeMsgs(k)) /\ Len(dPipe'[k]) <= PipeSize
      BY <2>2, AnswerIs, WriteStep DEF pipewrite, pipetakes, pipeblocks
  <2>3. CASE data_conn
    <3> PICK i \in dAsked : \/ pipewrite(QueueOf(dForwarded[i].sender), Answer(dForwarded[i].sender))
                            \/ pipeblocks(QueueOf(dForwarded[i].sender))
        BY <2>3 DEF data_conn
    <3> PICK sender \in IfSenders : sender = dForwarded[i].sender
        BY <1>2
    <3> QED BY <2>2
  <2>4. CASE data_conn_written
    <3>1. CASE dPipe' = dPipe
        BY <3>1 DEF DmnInv, DmnTypeOK
    <3>2. CASE dAnswering \in IfSenders /\ pipetakes(QueueOf(dAnswering), Answer(dAnswering))
        BY <2>2, <3>2 DEF pipewrite
    <3> QED BY <2>4, <3>1, <3>2 DEF data_conn_written
  <2>5. CASE ClientReads
      BY <2>5, ReadStep DEF ClientReads
  <2> QED BY <2>1, <2>3, <2>4, <2>5
<1> QED BY <1>1, <1>3, <1>4 DEF DmnInv, DmnTypeOK

-----------------------------------------------------------------------------
(* The requests of the clients. *)

(* The positions of s up to p whose messages are passed on. *)
PassedSet(s, p, h) == {i \in 1 .. p : IsPassedOn(s[i], h)}

(* Counts are finite, and grow at every position that is passed on. *)
LEMMA CountsGrow ==
    ASSUME NEW s, NEW h, NEW p \in Nat, NEW r \in Nat, p <= r
    PROVE  /\ PassedOn(s, p, h) \in Nat
           /\ PassedOn(s, p, h) <= PassedOn(s, r, h)
           /\ p < r /\ IsPassedOn(s[r], h) => PassedOn(s, p, h) < PassedOn(s, r, h)
<1>1. ASSUME NEW n \in Nat PROVE IsFiniteSet(PassedSet(s, n, h)) /\ Cardinality(PassedSet(s, n, h)) \in Nat
  <2>1. IsFiniteSet(1 .. n)
      BY FS_Interval
  <2>2. PassedSet(s, n, h) \in SUBSET (1 .. n)
      BY DEF PassedSet
  <2> QED BY <2>1, <2>2, FS_Subset, FS_CardinalityType
<1>2. PassedSet(s, p, h) \in SUBSET PassedSet(s, r, h)
    BY DEF PassedSet
<1>3. /\ Cardinality(PassedSet(s, p, h)) <= Cardinality(PassedSet(s, r, h))
      /\ Cardinality(PassedSet(s, r, h)) = Cardinality(PassedSet(s, p, h)) => PassedSet(s, r, h) = PassedSet(s, p, h)
    BY <1>1, <1>2, FS_Subset
<1>4. p < r /\ IsPassedOn(s[r], h) => r \in PassedSet(s, r, h) /\ r \notin PassedSet(s, p, h)
    BY DEF PassedSet
<1>5. PassedOn(s, p, h) = Cardinality(PassedSet(s, p, h)) /\ PassedOn(s, r, h) = Cardinality(PassedSet(s, r, h))
    BY DEF PassedOn, PassedSet
<1>6. Cardinality(PassedSet(s, p, h)) \in Nat /\ Cardinality(PassedSet(s, r, h)) \in Nat
    BY <1>1
<1>7. p < r /\ IsPassedOn(s[r], h) => Cardinality(PassedSet(s, r, h)) # Cardinality(PassedSet(s, p, h))
    BY <1>3, <1>4
<1> QED BY <1>3, <1>5, <1>6, <1>7

(* No message is before the first one. *)
LEMMA CountsStart ==
    ASSUME NEW s, NEW h
    PROVE  PassedOn(s, 0, h) = 0
<1>1. {i \in 1 .. 0 : IsPassedOn(s[i], h)} = {}
    OBVIOUS
<1> QED BY <1>1, FS_EmptySet DEF PassedOn

(* The position after p adds one when it is passed on, and none when not. *)
LEMMA CountsOne ==
    ASSUME NEW s, NEW h, NEW p \in Nat
    PROVE  /\ IsPassedOn(s[p + 1], h) => PassedOn(s, p + 1, h) = PassedOn(s, p, h) + 1
           /\ ~IsPassedOn(s[p + 1], h) => PassedOn(s, p + 1, h) = PassedOn(s, p, h)
<1>1. IsFiniteSet(PassedSet(s, p, h)) /\ p + 1 \notin PassedSet(s, p, h)
  <2>1. IsFiniteSet(1 .. p) /\ PassedSet(s, p, h) \in SUBSET (1 .. p)
      BY FS_Interval DEF PassedSet
  <2> QED BY <2>1, FS_Subset
<1>2. IsPassedOn(s[p + 1], h) => PassedSet(s, p + 1, h) = PassedSet(s, p, h) \cup {p + 1}
    BY DEF PassedSet
<1>3. ~IsPassedOn(s[p + 1], h) => PassedSet(s, p + 1, h) = PassedSet(s, p, h)
    BY DEF PassedSet
<1>4. Cardinality(PassedSet(s, p, h) \cup {p + 1}) = Cardinality(PassedSet(s, p, h)) + 1
    BY <1>1, FS_AddElement
<1>5. PassedOn(s, p, h) = Cardinality(PassedSet(s, p, h)) /\ PassedOn(s, p + 1, h) = Cardinality(PassedSet(s, p + 1, h))
    BY DEF PassedOn, PassedSet
<1> QED BY <1>2, <1>3, <1>4, <1>5

(* What is appended does not change the counts before it. *)
LEMMA CountsAppend ==
    ASSUME NEW M, NEW s \in Seq(M), NEW m \in M, NEW h, NEW p \in 0 .. Len(s)
    PROVE  PassedOn(Append(s, m), p, h) = PassedOn(s, p, h)
<1>1. \A i \in 1 .. p : Append(s, m)[i] = s[i]
    OBVIOUS
<1>2. {i \in 1 .. p : IsPassedOn(Append(s, m)[i], h)} = {i \in 1 .. p : IsPassedOn(s[i], h)}
    BY <1>1
<1> QED BY <1>2 DEF PassedOn

(* Taking the first message off shifts the positions, and lowers the count *)
(* by one when that message is passed on.                                  *)
LEMMA CountsTail ==
    ASSUME NEW M, NEW s \in Seq(M), s # << >>, NEW h, NEW p \in 0 .. Len(s) - 1
    PROVE  /\ IsPassedOn(Head(s), h) => PassedOn(s, p + 1, h) = PassedOn(Tail(s), p, h) + 1
           /\ ~IsPassedOn(Head(s), h) => PassedOn(s, p + 1, h) = PassedOn(Tail(s), p, h)
<1> PICK t : t = Tail(s)
    OBVIOUS
<1> PICK S : S = PassedSet(t, p, h)
    OBVIOUS
<1> PICK T : T = {i \in 2 .. p + 1 : IsPassedOn(s[i], h)}
    OBVIOUS
<1>1. \A i \in 1 .. p : t[i] = s[i + 1]
    OBVIOUS
<1>2. IsFiniteSet(S) /\ S \subseteq 1 .. p
  <2>1. IsFiniteSet(1 .. p)
    <3>1. p \in Int /\ 1 \in Int
        OBVIOUS
    <3> QED BY <3>1, FS_Interval
  <2>2. S \in SUBSET (1 .. p)
      BY DEF PassedSet
  <2> QED BY <2>1, <2>2, FS_Subset
<1>3. IsFiniteSet(T) /\ Cardinality(T) = Cardinality(S)
  <2> PICK f : f = [i \in S |-> i + 1]
      OBVIOUS
  <2>1. f \in [S -> T]
    <3>1. ASSUME NEW i \in S PROVE i + 1 \in T
      <4>1. i \in 1 .. p /\ IsPassedOn(t[i], h)
          BY DEF PassedSet
      <4> QED BY <1>1, <4>1
    <3> QED BY <3>1
  <2>2. \A i, j \in S : f[i] = f[j] => i = j
      BY <1>2
  <2>3. \A k \in T : \E i \in S : f[i] = k
    <3> SUFFICES ASSUME NEW k \in T PROVE \E i \in S : f[i] = k
        OBVIOUS
    <3>1. k - 1 \in 1 .. p /\ (k - 1) + 1 = k
        OBVIOUS
    <3>2. IsPassedOn(t[k - 1], h)
        BY <1>1, <3>1
    <3>3. k - 1 \in S
        BY <3>1, <3>2 DEF PassedSet
    <3> QED BY <3>1, <3>3
  <2>4. f \in Bijection(S, T)
      BY <2>1, <2>2, <2>3 DEF Bijection, Injection, IsInjective, Surjection
  <2>5. ExistsBijection(S, T)
      BY <2>4 DEF ExistsBijection
  <2> QED BY <1>2, <2>5, FS_Bijection
<1>4. s[1] = Head(s) /\ 1 \notin T
    OBVIOUS
<1>5. IsPassedOn(Head(s), h) => PassedSet(s, p + 1, h) = T \cup {1}
    BY <1>4 DEF PassedSet
<1>6. ~IsPassedOn(Head(s), h) => PassedSet(s, p + 1, h) = T
  <2> SUFFICES ASSUME ~IsPassedOn(Head(s), h) PROVE PassedSet(s, p + 1, h) = T
      OBVIOUS
  <2>1. \A i \in 1 .. p + 1 : i = 1 \/ i \in 2 .. p + 1
      OBVIOUS
  <2>2. \A i \in 2 .. p + 1 : i \in 1 .. p + 1
      OBVIOUS
  <2> QED BY <1>4, <2>1, <2>2 DEF PassedSet
<1>7. Cardinality(T \cup {1}) = Cardinality(T) + 1
    BY <1>3, <1>4, FS_AddElement
<1>8. PassedOn(t, p, h) = Cardinality(S) /\ PassedOn(s, p + 1, h) = Cardinality(PassedSet(s, p + 1, h))
    BY DEF PassedOn, PassedSet
<1> QED BY <1>3, <1>5, <1>6, <1>7, <1>8

(* The messages to the engine are the first of those to be passed on ...   *)
ToldInv(W, F, h) ==
    /\ Len(F) <= PassedOn(W, Len(W), h)
    /\ \A w \in DOMAIN W : IsPassedOn(W[w], h) =>
          PassedOn(W, w, h) > Len(F) \/ AsWritten(F[PassedOn(W, w, h)]) = W[w]

(* ... and those in the pipe are the others. *)
NextInv(W, F, P, h) ==
    /\ PassedOn(W, Len(W), h) = Len(F) + PassedOn(P, Len(P), h)
    /\ \A w \in DOMAIN W, p \in DOMAIN P :
          IsPassedOn(W[w], h) /\ IsPassedOn(P[p], h) /\ PassedOn(W, w, h) = Len(F) + PassedOn(P, p, h)
          => W[w] = P[p]

(* A client's write keeps both. *)
LEMMA WrittenKeeps ==
    ASSUME NEW M, NEW W \in Seq(M), NEW L, NEW F \in Seq(L), NEW h, NEW m \in M, ToldInv(W, F, h)
    PROVE  /\ ToldInv(Append(W, m), F, h)
           /\ \A N : \A P \in Seq(N) : m \in N /\ NextInv(W, F, P, h) => NextInv(Append(W, m), F, Append(P, m), h)
<1> PICK W2 : W2 = Append(W, m)
    OBVIOUS
<1>1. /\ Len(W) \in Nat /\ Len(W2) = Len(W) + 1 /\ DOMAIN W = 1 .. Len(W) /\ DOMAIN W2 = 1 .. Len(W) + 1
      /\ W2[Len(W) + 1] = m /\ \A w \in 1 .. Len(W) : W2[w] = W[w]
    OBVIOUS
<1>2. \A p \in 0 .. Len(W) : PassedOn(W2, p, h) = PassedOn(W, p, h)
    BY CountsAppend
<1>3. Len(F) \in Nat
    OBVIOUS
<1>4. \A p \in 0 .. Len(W) + 1 : PassedOn(W2, p, h) \in Nat
    BY <1>1, CountsGrow
<1>5. PassedOn(W2, Len(W) + 1, h) = PassedOn(W, Len(W), h) + (IF IsPassedOn(m, h) THEN 1 ELSE 0)
  <2>1. PassedOn(W2, Len(W) + 1, h) = PassedOn(W2, Len(W), h) + (IF IsPassedOn(m, h) THEN 1 ELSE 0)
    <3>1. IsPassedOn(W2[Len(W) + 1], h) = IsPassedOn(m, h) /\ PassedOn(W2, Len(W), h) \in Nat
        BY <1>1, <1>4
    <3>2. /\ IsPassedOn(W2[Len(W) + 1], h) => PassedOn(W2, Len(W) + 1, h) = PassedOn(W2, Len(W), h) + 1
          /\ ~IsPassedOn(W2[Len(W) + 1], h) => PassedOn(W2, Len(W) + 1, h) = PassedOn(W2, Len(W), h)
        BY <1>1, CountsOne
    <3> QED BY <3>1, <3>2
  <2> QED BY <2>1, <1>2, <1>1
<1>6. PassedOn(W, Len(W), h) \in Nat
    BY <1>1, CountsGrow
<1>7. ToldInv(W2, F, h)
  <2>1. Len(F) <= PassedOn(W2, Len(W2), h)
      BY <1>1, <1>3, <1>5, <1>6 DEF ToldInv
  <2>2. ASSUME NEW w \in DOMAIN W2, IsPassedOn(W2[w], h)
        PROVE  PassedOn(W2, w, h) > Len(F) \/ AsWritten(F[PassedOn(W2, w, h)]) = W2[w]
    <3>1. CASE w \in 1 .. Len(W)
        BY <1>1, <1>2, <2>2, <3>1 DEF ToldInv
    <3>2. CASE w = Len(W) + 1
        BY <1>1, <1>3, <1>5, <1>6, <2>2, <3>2 DEF ToldInv
    <3> QED BY <1>1, <3>1, <3>2
  <2> QED BY <2>1, <2>2 DEF ToldInv
<1>8. ASSUME NEW N, NEW P \in Seq(N), m \in N, NextInv(W, F, P, h) PROVE NextInv(W2, F, Append(P, m), h)
  <2> PICK P2 : P2 = Append(P, m)
      OBVIOUS
  <2>1. /\ Len(P) \in Nat /\ Len(P2) = Len(P) + 1 /\ DOMAIN P = 1 .. Len(P) /\ DOMAIN P2 = 1 .. Len(P) + 1
        /\ P2[Len(P) + 1] = m /\ \A p \in 1 .. Len(P) : P2[p] = P[p]
      BY <1>8
  <2>2. \A p \in 0 .. Len(P) : PassedOn(P2, p, h) = PassedOn(P, p, h)
      BY <1>8, CountsAppend
  <2>3. \A p \in 0 .. Len(P) + 1 : PassedOn(P2, p, h) \in Nat
      BY <2>1, CountsGrow
  <2>4. PassedOn(P2, Len(P) + 1, h) = PassedOn(P, Len(P), h) + (IF IsPassedOn(m, h) THEN 1 ELSE 0)
    <3>1. PassedOn(P2, Len(P) + 1, h) = PassedOn(P2, Len(P), h) + (IF IsPassedOn(m, h) THEN 1 ELSE 0)
      <4>1. IsPassedOn(P2[Len(P) + 1], h) = IsPassedOn(m, h) /\ PassedOn(P2, Len(P), h) \in Nat
          BY <2>1, <2>3
      <4>2. /\ IsPassedOn(P2[Len(P) + 1], h) => PassedOn(P2, Len(P) + 1, h) = PassedOn(P2, Len(P), h) + 1
            /\ ~IsPassedOn(P2[Len(P) + 1], h) => PassedOn(P2, Len(P) + 1, h) = PassedOn(P2, Len(P), h)
          BY <2>1, CountsOne
      <4> QED BY <4>1, <4>2
    <3>2. Len(P) \in 0 .. Len(P)
        BY <2>1
    <3>3. PassedOn(P2, Len(P), h) = PassedOn(P, Len(P), h)
        BY <2>2, <3>2
    <3> QED BY <3>1, <3>3
  <2>5. PassedOn(P, Len(P), h) \in Nat
      BY <2>1, CountsGrow
  <2>6. PassedOn(W, Len(W), h) = Len(F) + PassedOn(P, Len(P), h)
      BY <1>8 DEF NextInv
  <2>7. PassedOn(W2, Len(W2), h) = Len(F) + PassedOn(P2, Len(P2), h)
      BY <1>1, <1>3, <1>5, <1>6, <2>1, <2>4, <2>5, <2>6
  <2>8. ASSUME NEW w \in DOMAIN W2, NEW p \in DOMAIN P2, IsPassedOn(W2[w], h), IsPassedOn(P2[p], h),
               PassedOn(W2, w, h) = Len(F) + PassedOn(P2, p, h)
        PROVE  W2[w] = P2[p]
    <3>1. CASE w \in 1 .. Len(W) /\ p \in 1 .. Len(P)
        BY <1>1, <1>2, <1>8, <2>1, <2>2, <2>8, <3>1 DEF NextInv
    <3>2. CASE w = Len(W) + 1 /\ p = Len(P) + 1
        BY <1>1, <2>1, <3>2
    <3>3. CASE w = Len(W) + 1 /\ p \in 1 .. Len(P)
      <4>1. PassedOn(P2, p, h) <= PassedOn(P, Len(P), h) /\ PassedOn(P2, p, h) \in Nat
          BY <2>1, <2>2, <2>3, <3>3, CountsGrow
      <4>2. IsPassedOn(m, h)
          BY <1>1, <2>8, <3>3
      <4>3. PassedOn(W2, w, h) = PassedOn(W, Len(W), h) + 1
          BY <1>5, <3>3, <4>2
      <4> QED BY <1>3, <1>6, <2>5, <2>6, <2>8, <4>1, <4>3
    <3>4. CASE w \in 1 .. Len(W) /\ p = Len(P) + 1
      <4>1. PassedOn(W2, w, h) <= PassedOn(W, Len(W), h) /\ PassedOn(W2, w, h) \in Nat
          BY <1>1, <1>2, <1>4, <3>4, CountsGrow
      <4>2. IsPassedOn(m, h)
          BY <2>1, <2>8, <3>4
      <4>3. PassedOn(P2, p, h) = PassedOn(P, Len(P), h) + 1
          BY <2>4, <3>4, <4>2
      <4> QED BY <1>3, <1>6, <2>5, <2>6, <2>8, <4>1, <4>3
    <3> QED BY <1>1, <2>1, <3>1, <3>2, <3>3, <3>4
  <2> QED BY <2>7, <2>8 DEF NextInv
<1> QED BY <1>7, <1>8

(* So does a message in the pipe that is not passed on. *)
LEMMA OtherKeeps ==
    ASSUME NEW W, NEW F, NEW h, NEW N, NEW P \in Seq(N), NEW m \in N, NextInv(W, F, P, h), ~IsPassedOn(m, h)
    PROVE  NextInv(W, F, Append(P, m), h)
<1> PICK P2 : P2 = Append(P, m)
    OBVIOUS
<1>1. /\ Len(P) \in Nat /\ Len(P2) = Len(P) + 1 /\ DOMAIN P = 1 .. Len(P) /\ DOMAIN P2 = 1 .. Len(P) + 1
      /\ P2[Len(P) + 1] = m /\ \A p \in 1 .. Len(P) : P2[p] = P[p]
    OBVIOUS
<1>2. \A p \in 0 .. Len(P) : PassedOn(P2, p, h) = PassedOn(P, p, h)
    BY CountsAppend
<1>3. PassedOn(P2, Len(P2), h) = PassedOn(P, Len(P), h)
  <2>1. PassedOn(P2, Len(P) + 1, h) = PassedOn(P2, Len(P), h)
      BY <1>1, CountsOne
  <2> QED BY <1>1, <1>2, <2>1
<1>4. \A p \in DOMAIN P2 : IsPassedOn(P2[p], h) => p \in DOMAIN P /\ P2[p] = P[p] /\ PassedOn(P2, p, h) = PassedOn(P, p, h)
    BY <1>1, <1>2
<1> QED BY <1>3, <1>4 DEF NextInv

(* And the server's read of a message, after which what is in the pipe     *)
(* comes one later if it was passed on.                                    *)
LEMMA TakenKeeps ==
    ASSUME NEW M, NEW W \in Seq(M), NEW L, NEW F \in Seq(L), NEW h, NEW N, NEW P \in Seq(N), P # << >>,
           ToldInv(W, F, h), NextInv(W, F, P, h)
    PROVE  /\ ~IsPassedOn(Head(P), h) => NextInv(W, F, Tail(P), h)
           /\ \A f \in L : IsPassedOn(Head(P), h) /\ AsWritten(f) = Head(P) =>
                 ToldInv(W, Append(F, f), h) /\ NextInv(W, Append(F, f), Tail(P), h)
<1> PICK T : T = Tail(P)
    OBVIOUS
<1>1. /\ Len(P) \in Nat \ {0} /\ Len(T) = Len(P) - 1 /\ DOMAIN P = 1 .. Len(P) /\ DOMAIN T = 1 .. Len(P) - 1
      /\ P[1] = Head(P) /\ \A p \in 1 .. Len(P) - 1 : T[p] = P[p + 1]
    OBVIOUS
<1>2. Len(F) \in Nat /\ Len(W) \in Nat /\ DOMAIN W = 1 .. Len(W)
    OBVIOUS
<1>3. /\ \A w \in 1 .. Len(W) : PassedOn(W, w, h) \in Nat
      /\ \A p \in 0 .. Len(P) : PassedOn(P, p, h) \in Nat
      /\ \A p \in 0 .. Len(P) - 1 : PassedOn(T, p, h) \in Nat
    BY <1>1, <1>2, CountsGrow
<1>4. PassedOn(W, Len(W), h) = Len(F) + PassedOn(P, Len(P), h)
    BY DEF NextInv
<1>5. ASSUME ~IsPassedOn(Head(P), h) PROVE NextInv(W, F, T, h)
  <2>1. \A p \in 0 .. Len(P) - 1 : PassedOn(P, p + 1, h) = PassedOn(T, p, h)
      BY <1>5, CountsTail
  <2>2. PassedOn(P, Len(P), h) = PassedOn(T, Len(T), h)
    <3>1. Len(P) - 1 \in 0 .. Len(P) - 1 /\ (Len(P) - 1) + 1 = Len(P)
        BY <1>1
    <3> QED BY <1>1, <2>1, <3>1
  <2>3. \A p \in DOMAIN T : p + 1 \in DOMAIN P /\ P[p + 1] = T[p] /\ PassedOn(P, p + 1, h) = PassedOn(T, p, h)
      BY <1>1, <2>1
  <2> QED BY <1>4, <2>2, <2>3 DEF NextInv
<1>6. ASSUME NEW f \in L, IsPassedOn(Head(P), h), AsWritten(f) = Head(P)
      PROVE  ToldInv(W, Append(F, f), h) /\ NextInv(W, Append(F, f), T, h)
  <2> PICK G : G = Append(F, f)
      OBVIOUS
  <2>1. Len(G) = Len(F) + 1 /\ G[Len(F) + 1] = f /\ \A k \in 1 .. Len(F) : G[k] = F[k]
      OBVIOUS
  <2>2. \A p \in 0 .. Len(P) - 1 : PassedOn(P, p + 1, h) = PassedOn(T, p, h) + 1
      BY <1>6, CountsTail
  <2>3. PassedOn(P, Len(P), h) = PassedOn(T, Len(T), h) + 1
    <3>1. Len(P) - 1 \in 0 .. Len(P) - 1 /\ (Len(P) - 1) + 1 = Len(P)
        BY <1>1
    <3> QED BY <1>1, <2>2, <3>1
  <2>4. PassedOn(T, Len(T), h) \in Nat
      BY <1>1, <1>3
  <2>5. PassedOn(P, 1, h) = 1
    <3>1. 0 \in 0 .. Len(P) - 1 /\ 0 + 1 = 1
        BY <1>1
    <3>2. PassedOn(P, 1, h) = PassedOn(T, 0, h) + 1
        BY <2>2, <3>1
    <3> QED BY <3>2, CountsStart
  <2>6. ToldInv(W, G, h)
    <3>1. Len(G) <= PassedOn(W, Len(W), h)
        BY <1>2, <1>4, <2>1, <2>3, <2>4
    <3>2. ASSUME NEW w \in DOMAIN W, IsPassedOn(W[w], h)
          PROVE  PassedOn(W, w, h) > Len(G) \/ AsWritten(G[PassedOn(W, w, h)]) = W[w]
      <4> PICK n : n = PassedOn(W, w, h)
          OBVIOUS
      <4>1. n \in Nat /\ n > 0
        <5>1. w \in Nat /\ 0 < w
            BY <1>2
        <5>2. PassedOn(W, 0, h) < PassedOn(W, w, h) /\ PassedOn(W, w, h) \in Nat
            BY <3>2, <5>1, CountsGrow
        <5> QED BY <5>2, CountsStart
      <4>2. CASE n <= Len(F)
        <5>1. AsWritten(F[n]) = W[w]
          <6>1. PassedOn(W, w, h) > Len(F) \/ AsWritten(F[PassedOn(W, w, h)]) = W[w]
              BY <3>2 DEF ToldInv
          <6>2. ~(n > Len(F))
              BY <1>2, <4>1, <4>2
          <6> QED BY <6>1, <6>2
        <5>2. G[n] = F[n]
            BY <1>2, <2>1, <4>1, <4>2
        <5> QED BY <5>1, <5>2
      <4>3. CASE n = Len(F) + 1
        <5>1. 1 \in DOMAIN P /\ IsPassedOn(P[1], h) /\ PassedOn(W, w, h) = Len(F) + PassedOn(P, 1, h)
            BY <1>1, <1>6, <2>5, <4>3
        <5>2. W[w] = P[1]
            BY <3>2, <5>1 DEF NextInv
        <5> QED BY <1>1, <1>6, <2>1, <4>3, <5>2
      <4>4. CASE n > Len(F) + 1
          BY <2>1, <4>4
      <4> QED BY <1>2, <4>1, <4>2, <4>3, <4>4
    <3> QED BY <3>1, <3>2 DEF ToldInv
  <2>7. NextInv(W, G, T, h)
    <3>1. PassedOn(W, Len(W), h) = Len(G) + PassedOn(T, Len(T), h)
        BY <1>2, <1>4, <2>1, <2>3, <2>4
    <3>2. ASSUME NEW w \in DOMAIN W, NEW p \in DOMAIN T, IsPassedOn(W[w], h), IsPassedOn(T[p], h),
                 PassedOn(W, w, h) = Len(G) + PassedOn(T, p, h)
          PROVE  W[w] = T[p]
      <4>1. p + 1 \in DOMAIN P /\ P[p + 1] = T[p] /\ PassedOn(P, p + 1, h) = PassedOn(T, p, h) + 1
            /\ PassedOn(T, p, h) \in Nat
          BY <1>1, <1>3, <2>2
      <4>2. PassedOn(W, w, h) = Len(F) + PassedOn(P, p + 1, h)
          BY <1>2, <2>1, <3>2, <4>1
      <4> QED BY <3>2, <4>1, <4>2 DEF NextInv
    <3> QED BY <3>1, <3>2 DEF NextInv
  <2> QED BY <2>6, <2>7
<1> QED BY <1>5, <1>6

(* The inductive invariant.  A server that is not running has an empty     *)
(* pipe, and one that is starting has neither been asked nor told.         *)
OrderInv ==
    /\ dWritten \in Seq(Writes)
    /\ ToldInv(dWritten, dForwarded, dHandle)
    /\ dThread \in {"opened", "loop"} => NextInv(dWritten, dForwarded, dPipe["server"], dHandle)
    /\ dThread \in {"none", "init", "ended"} => dPipe["server"] = << >> /\ "server" \notin dOpen
    /\ dThread \in {"none", "init"} => dWritten = << >> /\ dForwarded = << >>

(* With nothing written both hold. *)
LEMMA NothingIsInOrder ==
    ASSUME NEW h
    PROVE  ToldInv(<< >>, << >>, h) /\ NextInv(<< >>, << >>, << >>, h)
<1>1. Len(<< >>) = 0 /\ DOMAIN << >> = {}
    OBVIOUS
<1>2. PassedOn(<< >>, Len(<< >>), h) = 0
    BY <1>1, CountsStart
<1> QED BY <1>1, <1>2 DEF ToldInv, NextInv

(* What is passed on becomes one engine message, with the type and the     *)
(* sender that were written; anything else becomes none.                   *)
LEMMA HandledAs ==
    ASSUME DmnInv, NEW m \in PipeMsgs("server")
    PROVE  /\ IsPassedOn(m, dHandle) => \E f \in EngineMsgs : Handled(m) = <<f>> /\ AsWritten(f) = m
           /\ ~IsPassedOn(m, dHandle) => Handled(m) = << >>
<1>1. ASSUME IsPassedOn(m, dHandle) PROVE \E f \in EngineMsgs : Handled(m) = <<f>> /\ AsWritten(f) = m
  <2>1. m \in [ctrl : {"IF_REQUEST", "IF_RELEASE"}, type : DTypes, sender : DSenders]
      BY <1>1 DEF IsPassedOn, PipeMsgs, Writes, UnblockMsg
  <2> PICK isReq \in BOOLEAN : isReq = (m.ctrl = "IF_REQUEST")
      OBVIOUS
  <2> PICK f : f = [class |-> EngineMsg(m.sender), type |-> m.type, sender |-> m.sender,
                    isReq |-> isReq, handle |-> dHandle]
      OBVIOUS
  <2>2. f \in EngineMsgs
      BY <1>1 DEF IsPassedOn, EngineMsgs, EngineMsg, DmnInv, DmnTypeOK
  <2>3. Forward(m, isReq, dHandle) = <<f>>
      BY <1>1 DEF IsPassedOn, Forward
  <2>4. Handled(m) = <<f>>
    <3>1. CASE m.ctrl = "IF_REQUEST"
      <4>1. isReq = TRUE /\ dHandle # NoHandle
          BY <1>1, <3>1 DEF IsPassedOn
      <4> QED BY <2>3, <3>1, <4>1 DEF Handled, if_request_handler
    <3>2. CASE m.ctrl = "IF_RELEASE"
      <4>1. isReq = FALSE
          BY <3>2
      <4> QED BY <2>3, <3>2, <4>1 DEF Handled, if_release_handler
    <3> QED BY <2>1, <3>1, <3>2
  <2>5. AsWritten(f) = m
    <3>1. m = [ctrl |-> m.ctrl, type |-> m.type, sender |-> m.sender]
        BY <2>1
    <3>2. f.type = m.type /\ f.sender = m.sender /\ f.isReq = isReq
        OBVIOUS
    <3>3. (IF isReq THEN "IF_REQUEST" ELSE "IF_RELEASE") = m.ctrl
        BY <2>1
    <3> QED BY <3>1, <3>2, <3>3 DEF AsWritten
  <2> QED BY <2>2, <2>4, <2>5
<1>2. ASSUME ~IsPassedOn(m, dHandle) PROVE Handled(m) = << >>
  <2>1. CASE m.ctrl = "IF_REQUEST"
      BY <1>2, <2>1 DEF IsPassedOn, Handled, if_request_handler, Forward
  <2>2. CASE m.ctrl = "IF_RELEASE"
      BY <1>2, <2>2 DEF IsPassedOn, Handled, if_release_handler, Forward
  <2>3. CASE m.ctrl \notin {"IF_REQUEST", "IF_RELEASE"}
      BY <2>3 DEF Handled
  <2> QED BY <2>1, <2>2, <2>3
<1> QED BY <1>1, <1>2

(* The steps of the owner keep the order: launch starts it anew, and what  *)
(* unblock writes is not passed on.                                        *)
LEMMA OwnerKeepsOrder ==
    ASSUME DmnInv, OrderInv,
           \/ launch_thelper \/ signal_wait \/ cond_wait_returns
           \/ unblock_thelper \/ unblock_proc \/ unblock_written \/ join_thelper
    PROVE  OrderInv'
<1>1. CASE launch_thelper
  <2>1. /\ dWritten' = << >> /\ dForwarded' = << >> /\ dPipe' = dPipe /\ dOpen' = dOpen
        /\ dThread' \in {"none", "init", "ended"} /\ dThread \in {"none", "ended"}
      BY <1>1 DEF launch_thelper
  <2>2. << >> \in Seq(Writes)
      OBVIOUS
  <2> QED BY <2>1, <2>2, NothingIsInOrder DEF OrderInv
<1>2. CASE signal_wait \/ cond_wait_returns \/ unblock_thelper \/ join_thelper
  <2>1. UNCHANGED <<dThread, dHandle, dOpen, dPipe, dWritten, dForwarded>>
      BY <1>2 DEF signal_wait, cond_wait_returns, unblock_thelper, join_thelper, dTraffic, dThelper
  <2> QED BY <2>1 DEF OrderInv
<1>3. CASE unblock_proc \/ unblock_written
  <2>1. UNCHANGED <<dThread, dHandle, dOpen, dWritten, dForwarded>>
      BY <1>3 DEF unblock_proc, unblock_written
  <2>2. CASE dPipe' = dPipe
      BY <2>1, <2>2 DEF OrderInv
  <2>3. CASE "server" \in dOpen /\ dPipe' = [dPipe EXCEPT !["server"] = Append(@, UnblockMsg)]
    <3>1. dPipe'["server"] = Append(dPipe["server"], UnblockMsg)
        BY <2>3 DEF DmnInv, Queues
    <3>2. dPipe["server"] \in Seq(PipeMsgs("server")) /\ UnblockMsg \in PipeMsgs("server")
        BY DEF DmnInv, Queues, PipeMsgs
    <3>3. ~IsPassedOn(UnblockMsg, dHandle)
        BY DEF IsPassedOn, UnblockMsg
    <3>4. NextInv(dWritten, dForwarded, dPipe["server"], dHandle)
             => NextInv(dWritten, dForwarded, dPipe'["server"], dHandle)
        BY <3>1, <3>2, <3>3, OtherKeeps
    <3> QED BY <2>1, <2>3, <3>4 DEF OrderInv
  <2> QED BY <1>3, <2>2, <2>3 DEF unblock_proc, unblock_written, pipewrite, pipetakes, pipeblocks
<1> QED BY <1>1, <1>2, <1>3

(* Nor do those of the server's thread change it. *)
LEMMA ServerKeepsOrder ==
    ASSUME DmnInv, OrderInv,
           proc_init \/ signal_ready \/ loc_api_server_proc \/ proc_error \/ proc_post
    PROVE  OrderInv'
<1>1. CASE proc_init
  <2>1. UNCHANGED <<dHandle, dPipe, dWritten, dForwarded>> /\ dThread = "init" /\ dThread' = "opened"
      BY <1>1 DEF proc_init
  <2>2. dWritten = << >> /\ dForwarded = << >> /\ dPipe["server"] = << >>
      BY <2>1 DEF OrderInv
  <2>3. NextInv(dWritten, dForwarded, dPipe["server"], dHandle)
      BY <2>2, NothingIsInOrder
  <2> QED BY <2>1, <2>3 DEF OrderInv
<1>2. CASE signal_ready
  <2>1. UNCHANGED <<dHandle, dPipe, dWritten, dForwarded>> /\ dThread = "opened" /\ dThread' = "loop"
      BY <1>2 DEF signal_ready, dTraffic
  <2> QED BY <2>1 DEF OrderInv
<1>3. ASSUME ProcFails, dHandle' = dHandle, dWritten' = dWritten PROVE OrderInv'
  <2>1. dThread' = "post" /\ dForwarded' = dForwarded
      BY <1>3 DEF ProcFails
  <2> QED BY <1>3, <2>1 DEF OrderInv
<1>4. CASE loc_api_server_proc
  <2>1. dHandle' = dHandle /\ dWritten' = dWritten /\ dThread = "loop"
      BY <1>4 DEF loc_api_server_proc
  <2>2. CASE ProcFails
      BY <1>3, <2>1, <2>2
  <2>3. CASE ~ProcFails
    <3> PICK P : P = dPipe["server"]
        OBVIOUS
    <3>1. P # << >> /\ dPipe' = [dPipe EXCEPT !["server"] = Tail(@)] /\ ProcHandles(Head(P))
        BY <1>4, <2>3 DEF loc_api_server_proc
    <3>2. P \in Seq(PipeMsgs("server")) /\ dPipe'["server"] = Tail(P)
        BY <3>1 DEF DmnInv, Queues
    <3> PICK m \in PipeMsgs("server") : m = Head(P)
        BY <3>1, <3>2
    <3>3. dForwarded' = dForwarded \o Handled(m) /\ dThread' \in {"post", "loop"}
        BY <3>1 DEF ProcHandles
    <3>4. /\ dWritten \in Seq(Writes) /\ dForwarded \in Seq(EngineMsgs)
          /\ ToldInv(dWritten, dForwarded, dHandle) /\ NextInv(dWritten, dForwarded, P, dHandle)
        BY <2>1 DEF OrderInv, DmnInv
    <3>5. ToldInv(dWritten, dForwarded', dHandle) /\ NextInv(dWritten, dForwarded', Tail(P), dHandle)
      <4>1. CASE IsPassedOn(m, dHandle)
        <5> PICK f \in EngineMsgs : Handled(m) = <<f>> /\ AsWritten(f) = m
            BY <4>1, HandledAs
        <5>1. dForwarded' = Append(dForwarded, f)
            BY <3>3, <3>4
        <5> QED BY <3>1, <3>2, <3>4, <4>1, <5>1, TakenKeeps
      <4>2. CASE ~IsPassedOn(m, dHandle)
        <5>1. dForwarded' = dForwarded
            BY <3>3, <3>4, <4>2, HandledAs
        <5> QED BY <3>1, <3>2, <3>4, <4>2, <5>1, TakenKeeps
      <4> QED BY <4>1, <4>2
    <3> QED BY <2>1, <3>2, <3>3, <3>5 DEF OrderInv
  <2> QED BY <2>2, <2>3
<1>5. CASE proc_error
    BY <1>3, <1>5 DEF proc_error
<1>6. CASE proc_post
  <2>1. /\ UNCHANGED <<dHandle, dWritten, dForwarded>> /\ dThread' = "ended"
        /\ dOpen' = {} /\ dPipe' = [q \in Queues |-> << >>]
      BY <1>6 DEF proc_post, piperemove
  <2>2. dPipe'["server"] = << >> /\ "server" \notin dOpen'
      BY <2>1 DEF Queues
  <2> QED BY <2>1, <2>2 DEF OrderInv
<1> QED BY <1>1, <1>2, <1>4, <1>5, <1>6

(* Nor those of the clients and the engine: answers go to other pipes. *)
LEMMA TrafficKeepsOrder ==
    ASSUME DmnInv, OrderInv, ClientWrites \/ data_conn \/ data_conn_written \/ ClientReads
    PROVE  OrderInv'
<1>1. UNCHANGED <<dThread, dHandle, dOpen, dForwarded>>
    BY DEF ClientWrites, data_conn, data_conn_written, ClientReads
<1>2. CASE ClientWrites
  <2> PICK m \in Writes : /\ dPipe' = [dPipe EXCEPT !["server"] = Append(@, m)]
                          /\ dWritten' = Append(dWritten, m)
      BY <1>2 DEF ClientWrites
  <2>1. "server" \in dOpen /\ dThread \notin {"none", "init", "ended"}
      BY <1>2 DEF ClientWrites, OrderInv
  <2> PICK P : P = dPipe["server"]
      OBVIOUS
  <2>2. dPipe'["server"] = Append(P, m) /\ P \in Seq(PipeMsgs("server")) /\ m \in PipeMsgs("server")
      BY DEF DmnInv, Queues, PipeMsgs
  <2>3. dWritten \in Seq(Writes) /\ dForwarded \in Seq(EngineMsgs) /\ ToldInv(dWritten, dForwarded, dHandle)
      BY DEF OrderInv, DmnInv
  <2>4. ToldInv(Append(dWritten, m), dForwarded, dHandle)
      BY <2>3, WrittenKeeps
  <2>5. NextInv(dWritten, dForwarded, P, dHandle) => NextInv(Append(dWritten, m), dForwarded, Append(P, m), dHandle)
      BY <2>2, <2>3, WrittenKeeps
  <2>6. dWritten' \in Seq(Writes)
      BY <2>3
  <2> QED BY <1>1, <2>1, <2>2, <2>4, <2>5, <2>6 DEF OrderInv
<1>3. CASE data_conn \/ data_conn_written \/ ClientReads
  <2>1. dWritten' = dWritten
      BY <1>3 DEF data_conn, data_conn_written, ClientReads
  <2>2. ASSUME NEW sender \in IfSenders,
               \/ pipewrite(QueueOf(sender), Answer(sender)) \/ pipeblocks(QueueOf(sender))
        PROVE  dPipe'["server"] = dPipe["server"]
    <3>1. QueueOf(sender) # "server"
        BY DEF QueueOf, IfSenders, WifiSenders
    <3> QED BY <2>2, <3>1 DEF pipewrite, pipetakes, pipeblocks, DmnInv, Queues
  <2>3. dPipe'["server"] = dPipe["server"]
    <3>1. CASE data_conn
      <4> PICK i \in dAsked : \/ pipewrite(QueueOf(dForwarded[i].sender), Answer(dForwarded[i].sender))
                              \/ pipeblocks(QueueOf(dForwarded[i].sender))
          BY <3>1 DEF data_conn
      <4>1. dForwarded \in Seq(EngineMsgs) /\ i \in 1 .. Len(dForwarded)
          BY DEF DmnInv, DmnTypeOK
      <4>2. dForwarded[i] \in EngineMsgs
          BY <4>1
      <4> PICK sender \in IfSenders : sender = dForwarded[i].sender
          BY <4>2 DEF EngineMsgs
      <4> QED BY <2>2
    <3>2. CASE data_conn_written
        BY <2>2, <3>2 DEF data_conn_written, pipewrite
    <3>3. CASE ClientReads
        BY <3>3 DEF ClientReads, DmnInv, Queues
    <3> QED BY <1>3, <3>1, <3>2, <3>3
  <2> QED BY <1>1, <2>1, <2>3 DEF OrderInv
<1> QED BY <1>2, <1>3

(* Whatever the clients write, however long the server takes, and however  *)
(* often it is launched and stopped: what is well formed reaches the       *)
(* engine once, in order and unchanged until the server stops, and the     *)
(* pipe of a client holds answers to that client only, whatever the order  *)
(* in which the engine answers (loc_api_server_proc, the two handlers,     *)
(* loc_api_server_data_conn).                                              *)
THEOREM MessagesAlwaysArrive == DmnSpec => []MessagesArrive
<1>1. DmnInit => DmnInv /\ OrderInv
  <2> SUFFICES ASSUME DmnInit PROVE DmnInv /\ OrderInv
      OBVIOUS
  <2>1. dForwarded \in Seq(EngineMsgs) /\ dAsked \subseteq 1 .. Len(dForwarded) /\ dWritten \in Seq(Writes)
      BY DEF DmnInit
  <2>2. /\ DOMAIN dPipe = Queues
        /\ \A k \in Queues : dPipe[k] \in Seq(PipeMsgs(k)) /\ Len(dPipe[k]) <= PipeSize
      BY DmnAssumption DEF DmnInit
  <2>3. dLaunches \in 0 .. MaxLaunches
      BY DmnAssumption DEF DmnInit
  <2>4. DmnInv
      BY <2>1, <2>2, <2>3 DEF DmnInit, DmnInv, DmnTypeOK
  <2>5. dPipe["server"] = << >> /\ "server" \notin dOpen /\ dWritten = << >> /\ dForwarded = << >> /\ dThread = "none"
      BY DEF DmnInit, Queues
  <2>6. OrderInv
      BY <2>1, <2>5, NothingIsInOrder DEF OrderInv
  <2> QED BY <2>4, <2>6
<1>2. DmnInv /\ OrderInv /\ [DmnNext]_dVars => (DmnInv /\ OrderInv)'
  <2> SUFFICES ASSUME DmnInv, OrderInv, [DmnNext]_dVars PROVE DmnInv' /\ OrderInv'
      OBVIOUS
  <2>1. CASE UNCHANGED dVars
      BY <2>1 DEF dVars, DmnInv, DmnTypeOK, OrderInv
  <2>2. CASE DmnNext
    <3>1. DmnInv'
        BY <2>2, OwnerKeeps, ServerKeeps, TrafficKeeps, DmnAssumption DEF DmnNext
    <3>2. OrderInv'
        BY <2>2, OwnerKeepsOrder, ServerKeepsOrder, TrafficKeepsOrder DEF DmnNext
    <3> QED BY <3>1, <3>2
  <2> QED BY <2>1, <2>2
<1>3. DmnInv /\ OrderInv => MessagesArrive
  <2> SUFFICES ASSUME DmnInv, OrderInv PROVE MessagesArrive
      OBVIOUS
  <2>1. AnswersReachTheirSender
    <3> SUFFICES ASSUME NEW q \in {"resp", "quipc", "msapm", "msapu"}, NEW i \in DOMAIN dPipe[q]
                 PROVE  dPipe[q][i].to = ClientOf[q]
        BY DEF AnswersReachTheirSender, ClientOf
    <3>1. dPipe[q] \in Seq({[ctrl |-> "RESPONSE", to |-> ClientOf[q]]})
        BY DEF DmnInv, PipeMsgs, Queues
    <3>2. dPipe[q][i] = [ctrl |-> "RESPONSE", to |-> ClientOf[q]]
        BY <3>1
    <3> QED BY <3>2
  <2>2. RequestsArriveInOrder
      BY DEF OrderInv, ToldInv, NextInv, RequestsArriveInOrder
  <2> QED BY <2>1, <2>2 DEF MessagesArrive, DmnInv
<1> QED BY <1>1, <1>2, <1>3, PTL DEF DmnSpec

-----------------------------------------------------------------------------
(* The data-services NIF. *)

(* The range of a sequence, by its positions. *)
LEMMA RangeIs ==
    ASSUME NEW s
    PROVE  /\ \A x : x \in Range(s) <=> \E i \in DOMAIN s : s[i] = x
           /\ \A i \in DOMAIN s : s[i] \in Range(s)
BY DEF Range

(* A function on the first n numbers is a sequence. *)
LEMMA IsASequence ==
    ASSUME NEW D, NEW n \in Nat, NEW f \in [1 .. n -> D]
    PROVE  f \in Seq(D)
OBVIOUS

(* Kept lists the members of l that are in S, each once. *)
LEMMA KeptIs ==
    ASSUME NEW D, NEW l \in Seq(D), IsInjective(l), NEW S
    PROVE  /\ Kept(l, S) \in Seq(D) /\ IsInjective(Kept(l, S))
           /\ Range(Kept(l, S)) = Range(l) \cap S
<1> PICK at : at = {i \in DOMAIN l : l[i] \in S}
    OBVIOUS
<1> PICK n : n = Cardinality(at)
    OBVIOUS
<1> DEFINE Upto(i) == {j \in at : j <= i}
<1>1. Len(l) \in Nat /\ DOMAIN l = 1 .. Len(l) /\ at \subseteq 1 .. Len(l) /\ \A i \in 1 .. Len(l) : l[i] \in D
    OBVIOUS
<1>2. IsFiniteSet(at) /\ n \in Nat
  <2>1. IsFiniteSet(1 .. Len(l)) /\ at \in SUBSET (1 .. Len(l))
      BY <1>1, FS_Interval
  <2> QED BY <2>1, FS_Subset, FS_CardinalityType
<1>3. ASSUME NEW i \in at PROVE IsFiniteSet(Upto(i)) /\ Cardinality(Upto(i)) \in 1 .. n
  <2>1. Upto(i) \in SUBSET at /\ i \in Upto(i)
      BY <1>1
  <2>2. IsFiniteSet(Upto(i)) /\ Cardinality(Upto(i)) <= n
      BY <1>2, <2>1, FS_Subset
  <2>3. Cardinality(Upto(i)) \in Nat
      BY <2>2, FS_CardinalityType
  <2>4. Cardinality(Upto(i)) # 0
      BY <2>1, <2>2, FS_EmptySet
  <2> QED BY <1>2, <2>2, <2>3, <2>4
<1>4. ASSUME NEW i \in at, NEW j \in at, i < j PROVE Cardinality(Upto(i)) # Cardinality(Upto(j))
  <2>1. Upto(i) \in SUBSET Upto(j) /\ j \in Upto(j) /\ j \notin Upto(i)
      BY <1>1, <1>4
  <2>2. IsFiniteSet(Upto(j))
      BY <1>3
  <2> QED BY <2>1, <2>2, FS_Subset
<1> PICK rank : rank = [i \in at |-> Cardinality(Upto(i))]
    OBVIOUS
<1>5. rank \in Injection(at, 1 .. n)
  <2>1. rank \in [at -> 1 .. n]
      BY <1>3
  <2>2. \A i, j \in at : rank[i] = rank[j] => i = j
    <3> SUFFICES ASSUME NEW i \in at, NEW j \in at, rank[i] = rank[j] PROVE i = j
        OBVIOUS
    <3>1. i \in Nat /\ j \in Nat
        BY <1>1
    <3>2. ~(i < j) /\ ~(j < i)
        BY <1>4
    <3> QED BY <3>1, <3>2
  <2> QED BY <2>1, <2>2 DEF Injection, IsInjective
<1>6. rank \in Surjection(at, 1 .. n)
  <2>1. IsFiniteSet(1 .. n) /\ Cardinality(1 .. n) = n
    <3>1. 1 \in Int /\ n \in Int
        BY <1>2
    <3>2. IsFiniteSet(1 .. n) /\ Cardinality(1 .. n) = IF 1 > n THEN 0 ELSE n - 1 + 1
        BY <3>1, FS_Interval
    <3> QED BY <1>2, <3>2
  <2> QED BY <1>5, <2>1, FS_Injection
<1> PICK nth : nth = [k \in 1 .. n |-> CHOOSE i \in at : Cardinality(Upto(i)) = k]
    OBVIOUS
<1>7. \A k \in 1 .. n : nth[k] \in at /\ rank[nth[k]] = k
  <2> SUFFICES ASSUME NEW k \in 1 .. n PROVE nth[k] \in at /\ rank[nth[k]] = k
      OBVIOUS
  <2>1. \E i \in at : rank[i] = k
      BY <1>6 DEF Surjection
  <2>2. \E i \in at : Cardinality(Upto(i)) = k
      BY <2>1
  <2>3. nth[k] \in at /\ Cardinality(Upto(nth[k])) = k
      BY <2>2
  <2> QED BY <2>3
<1> PICK s : s = Kept(l, S)
    OBVIOUS
<1>8. s = [k \in 1 .. n |-> l[nth[k]]]
    BY DEF Kept
<1>9. s \in Seq(D) /\ DOMAIN s = 1 .. n /\ \A k \in 1 .. n : s[k] = l[nth[k]]
  <2>1. \A k \in 1 .. n : l[nth[k]] \in D
      BY <1>1, <1>7
  <2>2. DOMAIN s = 1 .. n /\ \A k \in 1 .. n : s[k] = l[nth[k]]
      BY <1>8
  <2>3. s \in [1 .. n -> D]
      BY <1>8, <2>1
  <2> QED BY <1>2, <2>2, <2>3, IsASequence
<1>10. IsInjective(s)
  <2> SUFFICES ASSUME NEW j \in 1 .. n, NEW k \in 1 .. n, s[j] = s[k] PROVE j = k
      BY <1>9 DEF IsInjective
  <2>1. nth[j] \in DOMAIN l /\ nth[k] \in DOMAIN l /\ l[nth[j]] = l[nth[k]]
    <3>1. nth[j] \in at /\ nth[k] \in at
        BY <1>7
    <3>2. s[j] = l[nth[j]] /\ s[k] = l[nth[k]]
        BY <1>9
    <3>3. nth[j] \in DOMAIN l /\ nth[k] \in DOMAIN l
        BY <3>1
    <3>4. l[nth[j]] = l[nth[k]]
        BY <3>2
    <3> QED BY <3>3, <3>4
  <2>2. nth[j] = nth[k]
      BY <2>1 DEF IsInjective
  <2> QED BY <1>7, <2>2
<1>11. Range(s) = Range(l) \cap S
  <2>1. ASSUME NEW x \in Range(s) PROVE x \in Range(l) \cap S
    <3>1. \E k \in DOMAIN s : s[k] = x
        BY <2>1, RangeIs
    <3> PICK k \in 1 .. n : s[k] = x
        BY <1>9, <3>1
    <3>2. nth[k] \in at /\ x = l[nth[k]]
        BY <1>7, <1>9
    <3>3. nth[k] \in DOMAIN l /\ l[nth[k]] \in S
        BY <3>2
    <3> QED BY <3>2, <3>3, RangeIs
  <2>2. ASSUME NEW x \in Range(l) \cap S PROVE x \in Range(s)
    <3> PICK i \in DOMAIN l : l[i] = x
        BY <2>2, RangeIs
    <3>1. i \in at
        BY <2>2
    <3>2. rank[i] \in 1 .. n
        BY <1>3, <3>1
    <3>3. nth[rank[i]] \in at /\ rank[nth[rank[i]]] = rank[i]
        BY <1>7, <3>2
    <3>4. nth[rank[i]] = i
        BY <1>5, <3>1, <3>3 DEF Injection, IsInjective
    <3>5. s[rank[i]] = x
        BY <1>9, <3>2, <3>4
    <3> QED BY <1>9, <3>2, <3>5, RangeIs
  <2> QED BY <2>1, <2>2
<1> QED BY <1>9, <1>10, <1>11

(* SetToSeq lists a finite set, each member once. *)
LEMMA SetIsListed ==
    ASSUME NEW D, NEW S \in SUBSET D, IsFiniteSet(S)
    PROVE  SetToSeq(S) \in Seq(D) /\ IsInjective(SetToSeq(S)) /\ Range(SetToSeq(S)) = S
<1> PICK n : n = Cardinality(S)
    OBVIOUS
<1> PICK f : f = SetToSeq(S)
    OBVIOUS
<1>1. n \in Nat /\ ExistsBijection(1 .. n, S)
    BY FS_CardinalityType
<1>2. \E g \in [1 .. n -> S] : IsInjective(g)
    BY <1>1 DEF ExistsBijection, Bijection, Injection
<1>3. f \in [1 .. n -> S] /\ IsInjective(f)
    BY <1>2 DEF SetToSeq
<1>4. f \in Seq(D)
  <2>1. f \in [1 .. n -> D]
      BY <1>3
  <2> QED BY <1>1, <2>1
<1>5. Range(f) = S
  <2>1. f \in Injection(1 .. n, S)
      BY <1>3 DEF Injection
  <2>2. Cardinality(1 .. n) = n
    <3>1. 1 \in Int /\ n \in Int
        BY <1>1
    <3>2. Cardinality(1 .. n) = IF 1 > n THEN 0 ELSE n - 1 + 1
        BY <3>1, FS_Interval
    <3> QED BY <1>1, <3>2
  <2>3. f \in Surjection(1 .. n, S)
      BY <2>1, <2>2, FS_Injection
  <2> QED BY <1>3, <2>3 DEF Surjection, Range
<1> QED BY <1>3, <1>4, <1>5

(* The list after an event holds the subscribers after it, each once. *)
LEMMA RelistIs ==
    ASSUME NEW D, NEW l \in Seq(D), IsInjective(l), NEW S \in SUBSET D, IsFiniteSet(S \ Range(l))
    PROVE  Relist(l, S) \in Seq(D) /\ IsInjective(Relist(l, S)) /\ Range(Relist(l, S)) = S
<1> PICK a : a = SetToSeq(S \ Range(l))
    OBVIOUS
<1> PICK b : b = Kept(l, S)
    OBVIOUS
<1> PICK s : s = Relist(l, S)
    OBVIOUS
<1>1. a \in Seq(D) /\ IsInjective(a) /\ Range(a) = S \ Range(l)
  <2>1. S \ Range(l) \in SUBSET D
      OBVIOUS
  <2> QED BY <2>1, SetIsListed
<1>2. b \in Seq(D) /\ IsInjective(b) /\ Range(b) = Range(l) \cap S
    BY KeptIs
<1>3. /\ s = a \o b /\ s \in Seq(D)
      /\ Len(a) \in Nat /\ Len(b) \in Nat /\ DOMAIN a = 1 .. Len(a) /\ DOMAIN b = 1 .. Len(b)
      /\ DOMAIN s = 1 .. Len(a) + Len(b)
      /\ \A i \in 1 .. Len(a) + Len(b) : s[i] = IF i <= Len(a) THEN a[i] ELSE b[i - Len(a)]
  <2>1. a \in Seq(D) /\ b \in Seq(D)
      BY <1>1, <1>2
  <2>2. s = a \o b
      BY DEF Relist
  <2> HIDE DEF Relist
  <2>3. Len(a) \in Nat /\ Len(b) \in Nat /\ DOMAIN a = 1 .. Len(a) /\ DOMAIN b = 1 .. Len(b)
      BY <2>1
  <2>4. a \o b \in Seq(D) /\ Len(a \o b) = Len(a) + Len(b)
      BY <2>1
  <2>5. DOMAIN (a \o b) = 1 .. Len(a) + Len(b)
      BY <2>4
  <2>6. \A i \in 1 .. Len(a) + Len(b) : (a \o b)[i] = IF i <= Len(a) THEN a[i] ELSE b[i - Len(a)]
      BY <2>1
  <2> QED BY <2>2, <2>3, <2>4, <2>5, <2>6
<1>4. \A i \in 1 .. Len(a) : a[i] \in S \ Range(l) /\ s[i] = a[i]
  <2> SUFFICES ASSUME NEW i \in 1 .. Len(a) PROVE a[i] \in S \ Range(l) /\ s[i] = a[i]
      OBVIOUS
  <2>1. a[i] \in Range(a)
      BY <1>3, RangeIs
  <2>2. s[i] = a[i]
      BY <1>3
  <2> QED BY <1>1, <2>1, <2>2
<1>5. \A i \in Len(a) + 1 .. Len(a) + Len(b) :
         i - Len(a) \in 1 .. Len(b) /\ s[i] = b[i - Len(a)] /\ b[i - Len(a)] \in Range(l) \cap S
  <2> SUFFICES ASSUME NEW i \in Len(a) + 1 .. Len(a) + Len(b)
               PROVE  i - Len(a) \in 1 .. Len(b) /\ s[i] = b[i - Len(a)] /\ b[i - Len(a)] \in Range(l) \cap S
      OBVIOUS
  <2>1. i - Len(a) \in 1 .. Len(b) /\ s[i] = b[i - Len(a)]
      BY <1>3
  <2>2. b[i - Len(a)] \in Range(b)
      BY <1>3, <2>1, RangeIs
  <2> QED BY <1>2, <2>1, <2>2
<1>6. \A i \in DOMAIN s : i \in 1 .. Len(a) \/ i \in Len(a) + 1 .. Len(a) + Len(b)
    BY <1>3
<1>7. IsInjective(s)
  <2> SUFFICES ASSUME NEW i \in DOMAIN s, NEW j \in DOMAIN s, s[i] = s[j] PROVE i = j
      BY DEF IsInjective
  <2>1. CASE i \in 1 .. Len(a) /\ j \in 1 .. Len(a)
      BY <1>1, <1>3, <1>4, <2>1 DEF IsInjective
  <2>2. CASE i \in Len(a) + 1 .. Len(a) + Len(b) /\ j \in Len(a) + 1 .. Len(a) + Len(b)
    <3>1. i - Len(a) = j - Len(a)
      <4> PICK u \in DOMAIN b : u = i - Len(a) /\ s[i] = b[u]
          BY <1>3, <1>5, <2>2
      <4> PICK v \in DOMAIN b : v = j - Len(a) /\ s[j] = b[v]
          BY <1>3, <1>5, <2>2
      <4>1. \A x, y \in DOMAIN b : b[x] = b[y] => x = y
          BY <1>2 DEF IsInjective
      <4>2. u = v
          BY <4>1
      <4> QED BY <4>2
    <3> QED BY <1>3, <2>2, <3>1
  <2>3. CASE i \in 1 .. Len(a) /\ j \in Len(a) + 1 .. Len(a) + Len(b)
    <3>1. s[i] \notin Range(l) /\ s[j] \in Range(l)
        BY <1>4, <1>5, <2>3
    <3> QED BY <3>1
  <2>4. CASE j \in 1 .. Len(a) /\ i \in Len(a) + 1 .. Len(a) + Len(b)
    <3>1. s[j] \notin Range(l) /\ s[i] \in Range(l)
        BY <1>4, <1>5, <2>4
    <3> QED BY <3>1
  <2> QED BY <1>6, <2>1, <2>2, <2>3, <2>4
<1>8. Range(s) = S
  <2>1. ASSUME NEW x \in Range(s) PROVE x \in S
    <3> PICK i \in DOMAIN s : s[i] = x
        BY <2>1, RangeIs
    <3> QED BY <1>4, <1>5, <1>6
  <2>2. ASSUME NEW x \in S PROVE x \in Range(s)
    <3>1. CASE x \in Range(l)
      <4> PICK k \in 1 .. Len(b) : b[k] = x
        <5>1. x \in Range(b)
            BY <1>2, <2>2, <3>1
        <5>2. \E i \in DOMAIN b : b[i] = x
            BY <5>1, RangeIs
        <5> QED BY <1>3, <5>2
      <4>1. k + Len(a) \in DOMAIN s /\ k + Len(a) > Len(a) /\ (k + Len(a)) - Len(a) = k
          BY <1>3
      <4>2. s[k + Len(a)] = b[k]
          BY <1>3, <4>1
      <4> QED BY <4>1, <4>2, RangeIs
    <3>2. CASE x \notin Range(l)
      <4> PICK k \in 1 .. Len(a) : a[k] = x
        <5>1. x \in Range(a)
            BY <1>1, <2>2, <3>2
        <5>2. \E i \in DOMAIN a : a[i] = x
            BY <5>1, RangeIs
        <5> QED BY <1>3, <5>2
      <4>1. k \in DOMAIN s /\ s[k] = x
          BY <1>3, <1>4
      <4> QED BY <4>1, RangeIs
    <3> QED BY <3>1, <3>2
  <2> QED BY <2>1, <2>2
<1> QED BY <1>3, <1>7, <1>8

(* The handle of a request is that of an active subscriber, if there is one. *)
LEMMA ConnHandleIs ==
    ASSUME NEW D, NEW l \in Seq(D), IsInjective(l), NEW in
    PROVE  /\ Range(l) \subseteq in => ConnHandle(l, in) = NoConnHandle
           /\ ~(Range(l) \subseteq in) => ConnHandle(l, in) \in Range(l) \ in
<1> PICK s : s = Kept(l, Range(l) \ in)
    OBVIOUS
<1>1. s \in Seq(D) /\ Range(s) = Range(l) \ in
    BY KeptIs
<1>2. s = << >> => Range(s) = {}
  <2>1. DOMAIN << >> = {}
      OBVIOUS
  <2> QED BY <2>1, RangeIs
<1>3. s # << >> => Head(s) \in Range(s)
  <2> SUFFICES ASSUME s # << >> PROVE Head(s) \in Range(s)
      OBVIOUS
  <2>1. 1 \in DOMAIN s /\ Head(s) = s[1]
      BY <1>1
  <2> QED BY <2>1, RangeIs
<1>4. ConnHandle(l, in) = IF s = << >> THEN NoConnHandle ELSE Head(s)
    BY DEF ConnHandle
<1> QED BY <1>1, <1>2, <1>3, <1>4

(* What the machine of four states makes of each event, for a subscriber   *)
(* that waits for the close: of a subscription,                            *)
AsSubscribed(r, id, ok) ==
    /\ r.machine.subs = Range(list) \cup {id} /\ r.machine.inactive = inactive
    /\ r.machine.state = (IF state = "RELEASED" /\ ok THEN "PENDING" ELSE state)
    /\ r.told = (IF state = "ACQUIRED" THEN {<<id, "GRANTED">>} ELSE {})
    /\ r.request = (IF state = "RELEASED" THEN "REQUEST" ELSE "none")

(* ... which is its result. *)
LEMMA SubscribeIs ==
    ASSUME state \in AgpsStates, NEW id, NEW ok \in BOOLEAN,
           NEW r, r = onRsrcEvent(machine, "SUBSCRIBE", id, TRUE, ok)
    PROVE  AsSubscribed(r, id, ok)
BY DEF AsSubscribed, onRsrcEvent, OnReleased, OnPending, OnAcquired, OnReleasing, AgpsStates, machine, Result, MoveTo,
       addSubscriber, Tell

(* The same for an unsubscription. *)
LEMMA UnsubscribeIs ==
    ASSUME state \in AgpsStates, NEW id \in Range(list),
           NEW r, r = onRsrcEvent(machine, "UNSUBSCRIBE", id, TRUE, TRUE)
    PROVE  /\ r.machine.subs = Range(list) /\ r.told = {<<id, "UNSUBSCRIBE">>}
           /\ r.machine.inactive = (IF state = "RELEASED" THEN inactive ELSE inactive \cup {id})
           /\ IF state \in {"PENDING", "ACQUIRED"} /\ Range(list) \subseteq inactive \cup {id}
              THEN r.machine.state = "RELEASING" /\ r.request = "RELEASE"
              ELSE r.machine.state = state /\ r.request = "none"
<1> USE DEF onRsrcEvent, OnReleased, OnPending, OnAcquired, OnReleasing, AgpsStates, machine, Result, MoveTo,
            Unsubscribed, AfterUnsubscribe, hasSubscribers, hasActiveSubscribers, Active, Tell
<1>1. CASE state = "RELEASED"
    BY <1>1
<1>2. CASE state = "PENDING"
    BY <1>2
<1>3. CASE state = "ACQUIRED"
    BY <1>3
<1>4. CASE state = "RELEASING"
    BY <1>4
<1> QED BY <1>1, <1>2, <1>3, <1>4

(* For a call that was opened. *)
LEMMA GrantedIs ==
    ASSUME state \in AgpsStates, NEW id, NEW r, r = onRsrcEvent(machine, "GRANTED", id, TRUE, TRUE)
    PROVE  /\ r.machine.subs = Range(list) /\ r.machine.inactive = inactive /\ r.request = "none"
           /\ r.machine.state = (IF state = "PENDING" THEN "ACQUIRED" ELSE state)
           /\ r.told = (IF state = "PENDING" THEN (Range(list) \ inactive) \X {"GRANTED"} ELSE {})
BY DEF onRsrcEvent, OnReleased, OnPending, OnAcquired, OnReleasing, AgpsStates, machine, Result, MoveTo, forMe, Active, Tell

(* For a call that was closed. *)
LEMMA ClosedIs ==
    ASSUME state \in AgpsStates, NEW ok \in BOOLEAN, NEW r, r = ReleasedReport(ok), inactive \subseteq Range(list)
    PROVE  /\ state = "RELEASED" =>
                 /\ r.machine.state = "RELEASED" /\ r.machine.subs = Range(list) /\ r.machine.inactive = inactive
                 /\ r.told = {} /\ r.request = "none"
           /\ state \in {"PENDING", "ACQUIRED"} =>
                 /\ r.machine.state = "RELEASED" /\ r.machine.subs = {} /\ r.machine.inactive = {}
                 /\ r.told = Range(list) \X {IF state = "PENDING" THEN "DENIED" ELSE "RELEASED"}
                 /\ r.request = "none"
           /\ state = "RELEASING" =>
                 /\ r.machine.subs = Range(list) \ inactive /\ r.machine.inactive = {}
                 /\ r.told = inactive \X {"RELEASED"}
                 /\ IF Range(list) \subseteq inactive
                    THEN r.machine.state = "RELEASED" /\ r.request = "none"
                    ELSE r.machine.state = "PENDING" /\ r.request = "REQUEST"
<1> USE DEF ReleasedReport, onRsrcEvent, OnReleased, OnPending, OnAcquired, OnReleasing, machine, Result, MoveTo,
            NotifyAllAndDelete, Deleted, forMe, hasActiveSubscribers, Active, Tell
<1>1. CASE state = "RELEASED"
    BY <1>1
<1>2. CASE state = "PENDING"
    BY <1>2
<1>3. CASE state = "ACQUIRED"
    BY <1>3
<1>4. CASE state = "RELEASING"
    BY <1>4
<1> QED BY <1>1, <1>2, <1>3, <1>4 DEF AgpsStates

(* Requests and releases in the queue are of clients. *)
DsIds == \A i \in DOMAIN msgs : msgs[i].type \in {"RequestSuplEs", "ReleaseATL"} => msgs[i].id \in DsClients

(* What one event changes: the list holds the new subscribers, and what is *)
(* added to the queue are the fallbacks, of everyone denied and of a       *)
(* request that is given up.                                               *)
LEMMA DispatchIs ==
    ASSUME AgpsDsAssumption, DsTypeOK, NEW r, NEW q \in Seq(DsMessages), NEW code, Dispatch(r, q, code),
           r.machine.subs \in SUBSET DsClients, IsFiniteSet(r.machine.subs \ Range(list))
    PROVE  /\ state' = r.machine.state /\ inactive' = r.machine.inactive /\ atl' = atl
           /\ list' \in Seq(DsClients) /\ IsInjective(list') /\ Range(list') = r.machine.subs
           /\ retries' \in 0 .. MaxRetries /\ timers' \in Nat /\ timers' >= timers
           /\ r.request = "REQUEST" /\ Retried(code) => timers' > 0
           /\ \E t \in Seq(DsMessages) :
                 /\ msgs' = q \o t /\ \A i \in DOMAIN t : t[i].type = "RequestATL"
                 /\ \A x \in Range(list) : <<x, "DENIED">> \in r.told => DsMsg("RequestATL", x) \in Range(t)
                 /\ r.request = "REQUEST" /\ GivenUp(code) =>
                       DsMsg("RequestATL", ConnHandle(list', inactive')) \in Range(t)
<1> PICK denied : denied = Kept(list, {i \in Range(list) : <<i, "DENIED">> \in r.told})
    OBVIOUS
<1> PICK handle : handle = ConnHandle(Relist(list, r.machine.subs), r.machine.inactive)
    OBVIOUS
<1> PICK last : last = IF r.request = "REQUEST" /\ GivenUp(code) THEN Fallback(<<handle>>) ELSE << >>
    OBVIOUS
<1>1. /\ state' = r.machine.state /\ list' = Relist(list, r.machine.subs) /\ inactive' = r.machine.inactive
      /\ msgs' = q \o (Fallback(denied) \o last)
      /\ retries' = (IF denied # << >> \/ last # << >> THEN 0
                     ELSE IF r.request = "REQUEST" /\ Retried(code) THEN retries + 1 ELSE retries)
      /\ timers' = (IF r.request = "REQUEST" /\ Retried(code) THEN timers + 1 ELSE timers)
      /\ atl' = atl
    BY DEF Dispatch
<1>2. list' \in Seq(DsClients) /\ IsInjective(list') /\ Range(list') = r.machine.subs
  <2>1. list \in Seq(DsClients) /\ IsInjective(list)
      BY DEF DsTypeOK
  <2> PICK l : l = Relist(list, r.machine.subs)
      OBVIOUS
  <2>2. l \in Seq(DsClients) /\ IsInjective(l) /\ Range(l) = r.machine.subs
      BY <2>1, RelistIs
  <2>3. list' = l
      BY <1>1
  <2> QED BY <2>2, <2>3
<1>3. retries' \in 0 .. MaxRetries
  <2>1. retries \in 0 .. MaxRetries /\ MaxRetries \in Nat
      BY DEF DsTypeOK, AgpsDsAssumption
  <2>2. Retried(code) => ~(retries + 1 > MaxRetries)
      BY DEF Retried, Exhausted
  <2> QED BY <1>1, <2>1, <2>2
<1>4. /\ timers' \in Nat /\ timers' >= timers
      /\ r.request = "REQUEST" /\ Retried(code) => timers' > 0
    BY <1>1 DEF DsTypeOK
<1>5. handle \in DsClients \cup {NoConnHandle} /\ handle = ConnHandle(list', inactive')
  <2>1. \/ handle = NoConnHandle \/ handle \in Range(list')
      BY <1>1, <1>2, ConnHandleIs
  <2> QED BY <1>1, <1>2, <2>1
<1>6. denied \in Seq(DsClients) /\ Range(denied) = {i \in Range(list) : <<i, "DENIED">> \in r.told}
  <2>1. list \in Seq(DsClients) /\ IsInjective(list)
      BY DEF DsTypeOK
  <2>2. /\ denied \in Seq(DsClients)
        /\ Range(denied) = Range(list) \cap {i \in Range(list) : <<i, "DENIED">> \in r.told}
      BY <2>1, KeptIs
  <2> QED BY <2>2
<1>7. ASSUME NEW D, D = DsClients \cup {NoConnHandle}, NEW s \in Seq(D)
      PROVE  /\ Fallback(s) \in Seq(DsMessages) /\ DOMAIN Fallback(s) = DOMAIN s
             /\ \A i \in DOMAIN s : Fallback(s)[i] = DsMsg("RequestATL", s[i])
  <2>1. Len(s) \in Nat /\ DOMAIN s = 1 .. Len(s) /\ \A i \in 1 .. Len(s) : s[i] \in D
      OBVIOUS
  <2>2. \A d \in D : DsMsg("RequestATL", d) \in DsMessages
      BY <1>7 DEF DsMsg, DsMessages, MsgTypes
  <2>3. DOMAIN Fallback(s) = DOMAIN s /\ \A i \in DOMAIN s : Fallback(s)[i] = DsMsg("RequestATL", s[i])
      BY DEF Fallback
  <2>4. Fallback(s) \in [1 .. Len(s) -> DsMessages]
      BY <2>1, <2>2 DEF Fallback
  <2> QED BY <2>1, <2>3, <2>4, IsASequence
<1> PICK D : D = DsClients \cup {NoConnHandle}
    OBVIOUS
<1> PICK u : u = Fallback(denied)
    OBVIOUS
<1>8. u \in Seq(DsMessages) /\ DOMAIN u = DOMAIN denied /\ \A i \in DOMAIN denied : u[i] = DsMsg("RequestATL", denied[i])
  <2>1. denied \in Seq(D)
      BY <1>6
  <2> QED BY <1>7, <2>1
<1>9. /\ last \in Seq(DsMessages) /\ \A i \in DOMAIN last : last[i].type = "RequestATL"
      /\ r.request = "REQUEST" /\ GivenUp(code) => 1 \in DOMAIN last /\ last[1] = DsMsg("RequestATL", handle)
  <2>1. CASE r.request = "REQUEST" /\ GivenUp(code)
    <3>1. last = Fallback(<<handle>>) /\ <<handle>> \in Seq(D)
        BY <1>5, <2>1
    <3> PICK w : w = <<handle>>
        OBVIOUS
    <3>2. w \in Seq(D) /\ DOMAIN w = {1} /\ w[1] = handle
        BY <3>1
    <3>3. last \in Seq(DsMessages) /\ DOMAIN last = DOMAIN w /\ \A i \in DOMAIN w : last[i] = DsMsg("RequestATL", w[i])
      <4>1. /\ Fallback(w) \in Seq(DsMessages) /\ DOMAIN Fallback(w) = DOMAIN w
            /\ \A i \in DOMAIN w : Fallback(w)[i] = DsMsg("RequestATL", w[i])
          BY <1>7, <3>2
      <4>2. last = Fallback(w)
          BY <3>1
      <4> QED BY <4>1, <4>2
    <3>4. DOMAIN last = {1} /\ last[1] = DsMsg("RequestATL", handle)
        BY <3>2, <3>3
    <3> QED BY <3>3, <3>4 DEF DsMsg
  <2>2. CASE ~(r.request = "REQUEST" /\ GivenUp(code))
    <3>1. last = << >> /\ << >> \in Seq(DsMessages) /\ DOMAIN << >> = {}
        BY <2>2
    <3> QED BY <2>2, <3>1
  <2> QED BY <2>1, <2>2
<1> PICK t : t = u \o last
    OBVIOUS
<1>10. /\ t \in Seq(DsMessages) /\ msgs' = q \o t
       /\ \A i \in DOMAIN u : i \in DOMAIN t /\ t[i] = u[i]
       /\ \A i \in DOMAIN last : i + Len(u) \in DOMAIN t /\ t[i + Len(u)] = last[i]
       /\ \A i \in DOMAIN t : i \in DOMAIN u \/ (i - Len(u) \in DOMAIN last /\ t[i] = last[i - Len(u)])
  <2>1. u \in Seq(DsMessages) /\ last \in Seq(DsMessages)
      BY <1>8, <1>9
  <2>2. msgs' = q \o t
      BY <1>1
  <2>3. /\ Len(u) \in Nat /\ Len(last) \in Nat /\ DOMAIN u = 1 .. Len(u) /\ DOMAIN last = 1 .. Len(last)
        /\ t \in Seq(DsMessages) /\ Len(t) = Len(u) + Len(last)
      BY <2>1
  <2>4. DOMAIN t = 1 .. Len(u) + Len(last)
      BY <2>3
  <2>5. \A i \in 1 .. Len(u) + Len(last) : t[i] = IF i <= Len(u) THEN u[i] ELSE last[i - Len(u)]
      BY <2>1
  <2>6. \A i \in DOMAIN u : i \in DOMAIN t /\ t[i] = u[i]
      BY <2>3, <2>4, <2>5
  <2>7. \A i \in DOMAIN last : i + Len(u) \in DOMAIN t /\ t[i + Len(u)] = last[i]
    <3> SUFFICES ASSUME NEW i \in DOMAIN last PROVE i + Len(u) \in DOMAIN t /\ t[i + Len(u)] = last[i]
        OBVIOUS
    <3>1. i + Len(u) \in 1 .. Len(u) + Len(last) /\ ~(i + Len(u) <= Len(u)) /\ (i + Len(u)) - Len(u) = i
        BY <2>3
    <3> QED BY <2>4, <2>5, <3>1
  <2>8. \A i \in DOMAIN t : i \in DOMAIN u \/ (i - Len(u) \in DOMAIN last /\ t[i] = last[i - Len(u)])
      BY <2>3, <2>4, <2>5
  <2> QED BY <1>1, <2>2, <2>3, <2>6, <2>7, <2>8
<1>11. \A i \in DOMAIN t : t[i].type = "RequestATL"
  <2>1. \A x : DsMsg("RequestATL", x).type = "RequestATL"
      BY DEF DsMsg
  <2> SUFFICES ASSUME NEW i \in DOMAIN t PROVE t[i].type = "RequestATL"
      OBVIOUS
  <2>2. CASE i \in DOMAIN u
    <3>1. t[i] = DsMsg("RequestATL", denied[i])
        BY <1>8, <1>10, <2>2
    <3> QED BY <2>1, <3>1
  <2>3. CASE i - Len(u) \in DOMAIN last /\ t[i] = last[i - Len(u)]
      BY <1>9, <2>3
  <2> QED BY <1>10, <2>2, <2>3
<1>12. ASSUME NEW x \in Range(list), <<x, "DENIED">> \in r.told PROVE DsMsg("RequestATL", x) \in Range(t)
  <2>1. x \in Range(denied)
      BY <1>6, <1>12
  <2> PICK i \in DOMAIN denied : denied[i] = x
      BY <2>1, RangeIs
  <2>2. i \in DOMAIN t /\ t[i] = DsMsg("RequestATL", x)
      BY <1>8, <1>10
  <2>3. t[i] \in Range(t)
      BY <2>2, RangeIs
  <2> QED BY <2>2, <2>3
<1>13. ASSUME r.request = "REQUEST", GivenUp(code)
       PROVE  DsMsg("RequestATL", ConnHandle(list', inactive')) \in Range(t)
  <2>1. 1 + Len(u) \in DOMAIN t /\ t[1 + Len(u)] = DsMsg("RequestATL", handle)
      BY <1>9, <1>10, <1>13
  <2>2. t[1 + Len(u)] \in Range(t)
      BY <2>1, RangeIs
  <2> QED BY <1>5, <2>1, <2>2
<1> QED BY <1>1, <1>2, <1>3, <1>4, <1>10, <1>11, <1>12, <1>13

(* The queue q after a message is taken and those of t are added is s. *)
Shifted(q, t, s) ==
    /\ \A i \in DOMAIN q : i = 1 \/ (i - 1 \in DOMAIN s /\ s[i - 1] = q[i])
    /\ \A i \in DOMAIN s : \/ i + 1 \in DOMAIN q /\ s[i] = q[i + 1]
                           \/ \E k \in DOMAIN t : s[i] = t[k]
    /\ \A k \in DOMAIN t : \E i \in DOMAIN s : s[i] = t[k]
    /\ q[1] = Head(q) /\ 1 \in DOMAIN q

(* Taking and adding do that. *)
LEMMA TakeMsg ==
    ASSUME NEW M, NEW q \in Seq(M), q # << >>, NEW t \in Seq(M), NEW s, s = Tail(q) \o t
    PROVE  s \in Seq(M) /\ Shifted(q, t, s)
<1> PICK p : p = Tail(q)
    OBVIOUS
<1>1. /\ p \in Seq(M) /\ Len(q) \in Nat \ {0} /\ Len(p) = Len(q) - 1 /\ Len(t) \in Nat
      /\ DOMAIN q = 1 .. Len(q) /\ DOMAIN t = 1 .. Len(t) /\ q[1] = Head(q)
      /\ \A i \in 1 .. Len(q) - 1 : p[i] = q[i + 1]
    OBVIOUS
<1>2. s = p \o t
    OBVIOUS
<1>3. s \in Seq(M) /\ Len(s) = Len(p) + Len(t)
    BY <1>1, <1>2
<1>4. DOMAIN s = 1 .. Len(q) - 1 + Len(t)
    BY <1>1, <1>3
<1>5. \A i \in 1 .. Len(p) + Len(t) : s[i] = IF i <= Len(p) THEN p[i] ELSE t[i - Len(p)]
    BY <1>1, <1>2
<1>6. ASSUME NEW i \in DOMAIN q PROVE i = 1 \/ (i - 1 \in DOMAIN s /\ s[i - 1] = q[i])
  <2> SUFFICES ASSUME i # 1 PROVE i - 1 \in DOMAIN s /\ s[i - 1] = q[i]
      OBVIOUS
  <2>1. i - 1 \in 1 .. Len(q) - 1 /\ i - 1 \in 1 .. Len(p) + Len(t) /\ i - 1 <= Len(p) /\ (i - 1) + 1 = i
      BY <1>1
  <2>2. s[i - 1] = p[i - 1] /\ p[i - 1] = q[(i - 1) + 1]
      BY <1>1, <1>5, <2>1
  <2> QED BY <1>1, <1>4, <2>1, <2>2
<1>7. ASSUME NEW i \in DOMAIN s
      PROVE  \/ i + 1 \in DOMAIN q /\ s[i] = q[i + 1]
             \/ \E k \in DOMAIN t : s[i] = t[k]
  <2>1. CASE i <= Len(p)
      BY <1>1, <1>4, <1>5, <2>1
  <2>2. CASE ~(i <= Len(p))
    <3>1. i - Len(p) \in DOMAIN t /\ s[i] = t[i - Len(p)]
        BY <1>1, <1>4, <1>5, <2>2
    <3> QED BY <3>1
  <2> QED BY <2>1, <2>2
<1>8. ASSUME NEW k \in DOMAIN t PROVE \E i \in DOMAIN s : s[i] = t[k]
  <2>1. k + Len(p) \in DOMAIN s /\ ~(k + Len(p) <= Len(p)) /\ (k + Len(p)) - Len(p) = k
        /\ k + Len(p) \in 1 .. Len(p) + Len(t)
      BY <1>1, <1>4
  <2>2. s[k + Len(p)] = t[k]
      BY <1>5, <2>1
  <2> QED BY <2>1, <2>2
<1> QED BY <1>1, <1>3, <1>6, <1>7, <1>8 DEF Shifted

(* The queue after one is added. *)
LEMMA AddMsg ==
    ASSUME NEW M, NEW q \in Seq(M), NEW m \in M, NEW s, s = Append(q, m)
    PROVE  /\ s \in Seq(M)
           /\ \A i \in DOMAIN q : i \in DOMAIN s /\ s[i] = q[i] /\ i < Len(q) + 1
           /\ \A i \in DOMAIN s : i = Len(q) + 1 \/ i \in DOMAIN q
           /\ Len(q) + 1 \in DOMAIN s /\ s[Len(q) + 1] = m /\ Len(q) \in Nat
OBVIOUS

(* The types are kept by an event, for any number of clients. *)
LEMMA DispatchTypes ==
    ASSUME AgpsDsAssumption, DsTypeOK, DsIds, msgs # << >>, NEW r, NEW code, Dispatch(r, Tail(msgs), code),
           r.machine.state \in AgpsStates, r.machine.subs \in SUBSET DsClients,
           IsFiniteSet(r.machine.subs \ Range(list)), r.machine.inactive \subseteq r.machine.subs
    PROVE  DsTypeOK' /\ DsIds'
<1>1. msgs \in Seq(DsMessages) /\ Tail(msgs) \in Seq(DsMessages)
    BY DEF DsTypeOK
<1>2. /\ state' = r.machine.state /\ inactive' = r.machine.inactive /\ atl' = atl
      /\ list' \in Seq(DsClients) /\ IsInjective(list') /\ Range(list') = r.machine.subs
      /\ retries' \in 0 .. MaxRetries /\ timers' \in Nat
      /\ \E t \in Seq(DsMessages) : msgs' = Tail(msgs) \o t /\ \A i \in DOMAIN t : t[i].type = "RequestATL"
    BY <1>1, DispatchIs
<1> PICK t \in Seq(DsMessages) : msgs' = Tail(msgs) \o t /\ \A i \in DOMAIN t : t[i].type = "RequestATL"
    BY <1>2
<1>3. /\ msgs' \in Seq(DsMessages)
      /\ \A i \in DOMAIN msgs' : \/ i + 1 \in DOMAIN msgs /\ msgs'[i] = msgs[i + 1]
                                 \/ \E k \in DOMAIN t : msgs'[i] = t[k]
    BY <1>1, TakeMsg DEF Shifted
<1>4. call' \in {"down", "starting", "up", "stopping"}
    BY DEF Dispatch, DsTypeOK
<1>5. dsClient' \in [DsClients -> {"idle", "asked", "open", "fallback", "closing"}]
  <2>1. \A c \in DsClients : dsClient[c] \in {"idle", "asked", "open", "fallback", "closing"}
      BY DEF DsTypeOK
  <2>2. informStatus(r.told)
      BY DEF Dispatch
  <2> QED BY <2>1, <2>2 DEF informStatus
<1>6. DsTypeOK'
    BY <1>2, <1>3, <1>4, <1>5 DEF DsTypeOK
<1>7. DsIds'
    BY <1>3 DEF DsIds
<1> QED BY <1>6, <1>7

(* Nobody new but one subscriber makes the difference finite. *)
LEMMA OneMoreIsFinite ==
    ASSUME NEW S, NEW T, NEW x, S \subseteq T \cup {x}
    PROVE  IsFiniteSet(S \ T)
<1>1. S \ T \in SUBSET {x} /\ IsFiniteSet({x})
    BY FS_Singleton
<1> QED BY <1>1, FS_Subset

(* The other steps change the queue by one message, and little else. *)
LEMMA DsTypesStep == AgpsDsAssumption /\ DsTypeOK /\ DsIds /\ [DsNext]_dsVars => DsTypeOK' /\ DsIds'
<1> SUFFICES ASSUME AgpsDsAssumption, DsTypeOK, DsIds, [DsNext]_dsVars PROVE DsTypeOK' /\ DsIds'
    OBVIOUS
<1>1. state \in AgpsStates /\ msgs \in Seq(DsMessages) /\ Range(list) \subseteq DsClients /\ inactive \subseteq Range(list)
  <2>1. list \in Seq(DsClients)
      BY DEF DsTypeOK
  <2>2. \A i \in DOMAIN list : list[i] \in DsClients
      BY <2>1
  <2>3. Range(list) \subseteq DsClients
      BY <2>2, RangeIs
  <2> QED BY <2>3 DEF DsTypeOK
<1>2. ASSUME msgs # << >>
      PROVE  /\ 1 \in DOMAIN msgs /\ Head(msgs) = msgs[1] /\ Head(msgs) \in DsMessages
             /\ Head(msgs).type \in {"RequestSuplEs", "ReleaseATL"} => Head(msgs).id \in DsClients
  <2>1. 1 \in DOMAIN msgs /\ Head(msgs) = msgs[1] /\ Head(msgs) \in DsMessages
      BY <1>1, <1>2
  <2> QED BY <2>1 DEF DsIds
<1>3. CASE LocEngRequestSuplEs
  <2> PICK code \in Outcomes : Dispatch(onRsrcEvent(machine, "SUBSCRIBE", Head(msgs).id, TRUE, code = "SUCCESS"),
                                        Tail(msgs), code)
      BY <1>3 DEF LocEngRequestSuplEs
  <2>1. msgs # << >> /\ Head(msgs).id \in DsClients
      BY <1>2, <1>3 DEF LocEngRequestSuplEs, DsTaken
  <2> PICK id \in DsClients : id = Head(msgs).id
      BY <2>1
  <2> PICK ok \in BOOLEAN : ok = (code = "SUCCESS")
      OBVIOUS
  <2> PICK r : r = onRsrcEvent(machine, "SUBSCRIBE", id, TRUE, ok)
      OBVIOUS
  <2>2. Dispatch(r, Tail(msgs), code)
      OBVIOUS
  <2>3. /\ r.machine.subs = Range(list) \cup {id} /\ r.machine.inactive = inactive
        /\ r.machine.state = (IF state = "RELEASED" /\ ok THEN "PENDING" ELSE state)
    <3>1. state \in AgpsStates
        BY <1>1
    <3>2. AsSubscribed(r, id, ok)
        BY <3>1, SubscribeIs
    <3> QED BY <3>2 DEF AsSubscribed
  <2>4. IsFiniteSet(r.machine.subs \ Range(list))
      BY <2>3, OneMoreIsFinite
  <2>5. r.machine.subs \in SUBSET DsClients /\ r.machine.inactive \subseteq r.machine.subs /\ r.machine.state \in AgpsStates
      BY <1>1, <2>3 DEF AgpsStates
  <2> QED BY <2>1, <2>2, <2>4, <2>5, DispatchTypes
<1>4. CASE LocEngReleaseATL
  <2> PICK c \in DsClients : c = Head(msgs).id
      BY <1>2, <1>4 DEF LocEngReleaseATL, DsTaken
  <2>1. msgs # << >>
      BY <1>4 DEF LocEngReleaseATL, DsTaken
  <2>2. CASE /\ atl' \subseteq atl /\ dsClient' = [dsClient EXCEPT ![c] = "idle"] /\ msgs' = Tail(msgs)
             /\ UNCHANGED <<state, list, inactive, retries, timers, call>>
    <3>1. Tail(msgs) \in Seq(DsMessages) /\ \A i \in DOMAIN Tail(msgs) : i + 1 \in DOMAIN msgs /\ Tail(msgs)[i] = msgs[i + 1]
        BY <1>1, <2>1
    <3>2. DsIds'
        BY <2>2, <3>1 DEF DsIds
    <3> QED BY <2>2, <3>1, <3>2 DEF DsTypeOK
  <2>3. CASE c \in Range(list) /\ Dispatch(onRsrcEvent(machine, "UNSUBSCRIBE", c, TRUE, TRUE), Tail(msgs), "SUCCESS")
    <3> PICK r : r = onRsrcEvent(machine, "UNSUBSCRIBE", c, TRUE, TRUE)
        OBVIOUS
    <3>1. /\ r.machine.subs = Range(list)
          /\ r.machine.inactive = (IF state = "RELEASED" THEN inactive ELSE inactive \cup {c})
          /\ r.machine.state \in {"RELEASING", state}
        BY <1>1, <2>3, UnsubscribeIs
    <3>2. IsFiniteSet(r.machine.subs \ Range(list))
        BY <3>1, OneMoreIsFinite
    <3>3. r.machine.subs \in SUBSET DsClients /\ r.machine.inactive \subseteq r.machine.subs /\ r.machine.state \in AgpsStates
        BY <1>1, <2>3, <3>1 DEF AgpsStates
    <3>4. Dispatch(r, Tail(msgs), "SUCCESS")
        BY <2>3
    <3> QED BY <2>1, <3>2, <3>3, <3>4, DispatchTypes
  <2> QED BY <1>4, <2>2, <2>3 DEF LocEngReleaseATL
<1>5. CASE LocEngRequestATL
  <2>1. /\ msgs # << >> /\ Head(msgs).type = "RequestATL" /\ msgs' = Tail(msgs)
        /\ atl' = atl \cup {Head(msgs).id}
        /\ UNCHANGED <<state, list, inactive, retries, timers, call>>
        /\ dsClient' = [d \in DsClients |-> IF d = Head(msgs).id /\ dsClient[d] = "asked" THEN "fallback" ELSE dsClient[d]]
      BY <1>5 DEF LocEngRequestATL, DsTaken
  <2>2. Head(msgs).id \in DsClients \cup {NoConnHandle}
      BY <1>2, <2>1 DEF DsMessages, MsgTypes
  <2>3. Tail(msgs) \in Seq(DsMessages) /\ \A i \in DOMAIN Tail(msgs) : i + 1 \in DOMAIN msgs /\ Tail(msgs)[i] = msgs[i + 1]
      BY <1>1, <2>1
  <2>4. DsIds'
      BY <2>1, <2>3 DEF DsIds
  <2>5. dsClient' \in [DsClients -> {"idle", "asked", "open", "fallback", "closing"}]
    <3>1. \A c \in DsClients : dsClient[c] \in {"idle", "asked", "open", "fallback", "closing"}
        BY DEF DsTypeOK
    <3> QED BY <2>1, <3>1
  <2> QED BY <2>1, <2>2, <2>3, <2>4, <2>5 DEF DsTypeOK
<1>6. CASE LocEngSuplEsOpened
  <2> PICK r : r = onRsrcEvent(machine, "GRANTED", NoConnHandle, TRUE, TRUE)
      OBVIOUS
  <2>1. msgs # << >> /\ Dispatch(r, Tail(msgs), "SUCCESS")
      BY <1>6 DEF LocEngSuplEsOpened, DsTaken
  <2>2. /\ r.machine.subs = Range(list) /\ r.machine.inactive = inactive /\ r.machine.state \in {"ACQUIRED", state}
      BY <1>1, GrantedIs
  <2>3. IsFiniteSet(r.machine.subs \ Range(list))
      BY <2>2, OneMoreIsFinite
  <2>4. r.machine.subs \in SUBSET DsClients /\ r.machine.inactive \subseteq r.machine.subs /\ r.machine.state \in AgpsStates
      BY <1>1, <2>2 DEF AgpsStates
  <2> QED BY <2>1, <2>3, <2>4, DispatchTypes
<1>7. CASE LocEngSuplEsClosed
  <2> PICK code \in Outcomes : Dispatch(ReleasedReport(code = "SUCCESS"), Tail(msgs), code)
      BY <1>7 DEF LocEngSuplEsClosed
  <2> PICK ok \in BOOLEAN : ok = (code = "SUCCESS")
      OBVIOUS
  <2> PICK r : r = ReleasedReport(ok)
      OBVIOUS
  <2>1. msgs # << >> /\ Dispatch(r, Tail(msgs), code)
      BY <1>7 DEF LocEngSuplEsClosed, DsTaken
  <2>2. /\ r.machine.subs \subseteq Range(list) /\ r.machine.inactive \subseteq r.machine.subs
        /\ r.machine.state \in {"RELEASED", "PENDING"}
    <3>1. state \in {"RELEASED", "PENDING", "ACQUIRED", "RELEASING"}
        BY <1>1 DEF AgpsStates
    <3>2. CASE state = "RELEASED"
      <4>1. r.machine.state = "RELEASED" /\ r.machine.subs = Range(list) /\ r.machine.inactive = inactive
          BY <1>1, <3>2, ClosedIs
      <4> QED BY <1>1, <4>1
    <3>3. CASE state \in {"PENDING", "ACQUIRED"}
      <4>1. r.machine.state = "RELEASED" /\ r.machine.subs = {} /\ r.machine.inactive = {}
          BY <1>1, <3>3, ClosedIs
      <4> QED BY <4>1
    <3>4. CASE state = "RELEASING"
      <4>1. /\ r.machine.subs = Range(list) \ inactive /\ r.machine.inactive = {}
            /\ IF Range(list) \subseteq inactive
               THEN r.machine.state = "RELEASED" /\ r.request = "none"
               ELSE r.machine.state = "PENDING" /\ r.request = "REQUEST"
          BY <1>1, <3>4, ClosedIs
      <4> QED BY <4>1
    <3> QED BY <3>1, <3>2, <3>3, <3>4
  <2>3. IsFiniteSet(r.machine.subs \ Range(list))
      BY <2>2, OneMoreIsFinite
  <2>4. r.machine.subs \in SUBSET DsClients /\ r.machine.state \in AgpsStates
      BY <1>1, <2>2 DEF AgpsStates
  <2> QED BY <2>1, <2>2, <2>3, <2>4, DispatchTypes
<1>8. CASE retryCallback
  <2>1. /\ timers > 0 /\ timers' = timers - 1
        /\ UNCHANGED <<state, list, inactive, retries, atl, call, dsClient>>
        /\ msgs' = (IF ConnHandle(list, inactive) = NoConnHandle THEN msgs
                    ELSE Append(msgs, DsMsg("RequestSuplEs", ConnHandle(list, inactive))))
      BY <1>8 DEF retryCallback
  <2>2. timers' \in Nat
      BY <2>1 DEF DsTypeOK
  <2>3. msgs' \in Seq(DsMessages) /\ DsIds'
    <3>1. CASE msgs' = msgs
        BY <1>1, <3>1 DEF DsIds
    <3>2. CASE ConnHandle(list, inactive) # NoConnHandle
      <4>1. ConnHandle(list, inactive) \in DsClients
        <5>1. ConnHandle(list, inactive) \in Range(list)
            BY <3>2, ConnHandleIs DEF DsTypeOK
        <5> QED BY <1>1, <5>1
      <4> PICK m : m = DsMsg("RequestSuplEs", ConnHandle(list, inactive))
          OBVIOUS
      <4>2. m \in DsMessages /\ m.id \in DsClients
          BY <4>1 DEF DsMsg, DsMessages, MsgTypes
      <4>3. msgs' = Append(msgs, m)
          BY <2>1, <3>2
      <4>4. /\ msgs' \in Seq(DsMessages)
            /\ \A i \in DOMAIN msgs' : msgs'[i] = m \/ (i \in DOMAIN msgs /\ msgs'[i] = msgs[i])
          BY <1>1, <4>2, <4>3, AddMsg
      <4> QED BY <4>2, <4>4 DEF DsIds
    <3> QED BY <2>1, <3>1, <3>2
  <2> QED BY <2>1, <2>2, <2>3 DEF DsTypeOK
<1>9. ASSUME NEW type \in {"SuplEsOpened", "SuplEsClosed"}, NEW next \in {"up", "down"}, CallReported(type, next)
      PROVE  DsTypeOK' /\ DsIds'
  <2> PICK m : m = [type |-> type]
      OBVIOUS
  <2>1. m \in DsMessages /\ m.type \notin {"RequestSuplEs", "ReleaseATL"}
      BY DEF DsMessages
  <2>2. /\ msgs' = Append(msgs, m) /\ call' = next
        /\ UNCHANGED <<state, list, inactive, retries, timers, atl, dsClient>>
      BY <1>9 DEF CallReported
  <2>3. /\ msgs' \in Seq(DsMessages)
        /\ \A i \in DOMAIN msgs' : msgs'[i] = m \/ (i \in DOMAIN msgs /\ msgs'[i] = msgs[i])
      BY <1>1, <2>1, <2>2, AddMsg
  <2>4. DsIds'
      BY <2>1, <2>3 DEF DsIds
  <2> QED BY <2>2, <2>3, <2>4 DEF DsTypeOK
<1>10. CASE DataService \/ CallLost
    BY <1>9, <1>10 DEF DataService, CallOpened, CallFailed, CallStopped, CallLost
<1>11. ASSUME NEW c \in DsClients, Request(c) \/ Release(c) PROVE DsTypeOK' /\ DsIds'
  <2> PICK m : m \in {DsMsg("RequestSuplEs", c), DsMsg("ReleaseATL", c)} /\ msgs' = Append(msgs, m)
      BY <1>11 DEF Request, Release
  <2>1. m \in DsMessages /\ m.id \in DsClients
      BY DEF DsMsg, DsMessages, MsgTypes
  <2>2. UNCHANGED <<state, list, inactive, retries, timers, atl, call>>
      BY <1>11 DEF Request, Release
  <2>3. dsClient' \in [DsClients -> {"idle", "asked", "open", "fallback", "closing"}]
      BY <1>11 DEF Request, Release, DsTypeOK
  <2>4. /\ msgs' \in Seq(DsMessages)
        /\ \A i \in DOMAIN msgs' : msgs'[i] = m \/ (i \in DOMAIN msgs /\ msgs'[i] = msgs[i])
      BY <1>1, <2>1, AddMsg
  <2>5. DsIds'
      BY <2>1, <2>4 DEF DsIds
  <2> QED BY <2>2, <2>3, <2>4, <2>5 DEF DsTypeOK
<1>12. CASE UNCHANGED dsVars
    BY <1>12 DEF dsVars, DsTypeOK, DsIds
<1> QED BY <1>3, <1>4, <1>5, <1>6, <1>7, <1>8, <1>10, <1>11, <1>12 DEF DsNext, DsMsgThread

(* One client, c.  The messages about it, and the reports of the service. *)
AskEs(c) == DsMsg("RequestSuplEs", c)
AskAtl(c) == DsMsg("RequestATL", c)
GiveUp(c) == DsMsg("ReleaseATL", c)
WasOpened == [type |-> "SuplEsOpened"]
WasClosed == [type |-> "SuplEsClosed"]

(* A report that the call opened is true, or followed by one that it       *)
(* closed; a client's release is queued once.                              *)
OpenedInv(q, k) ==
    \/ k \in {"up", "stopping"}
    \/ \A i \in DOMAIN q : q[i] = WasOpened => \E j \in DOMAIN q : j > i /\ q[j] = WasClosed

Once(q, m) == \A i, j \in DOMAIN q : q[i] = m /\ q[j] = m => i = j

(* The state of the machine, the subscribers L, the inactive ones, the     *)
(* timers, the queued messages R, the call k and the client agree.         *)
OneAgrees(c, st, L, in, tm, R, k, cl) ==
    /\ in = (IF st = "RELEASING" THEN {c} ELSE {})
    /\ st = "RELEASING" => cl = "idle"
    /\ GiveUp(c) \in R => cl = "closing"
    /\ k = "stopping" => st \in {"RELEASING", "RELEASED"}
    /\ st = "PENDING" => k \in {"starting", "stopping"} \/ WasOpened \in R \/ WasClosed \in R
    /\ cl = "asked" => \/ AskEs(c) \in R \/ AskAtl(c) \in R
                       \/ c \in L /\ st \in {"PENDING", "RELEASING"}
                       \/ c \in L /\ st = "RELEASED" /\ tm > 0
    /\ st = "ACQUIRED" => k = "up" \/ WasClosed \in R
    /\ st = "RELEASING" => k = "stopping" \/ WasClosed \in R

(* The inductive invariant for one client. *)
OneInv(c) ==
    /\ OneAgrees(c, state, Range(list), inactive, timers, Range(msgs), call, dsClient[c])
    /\ OpenedInv(msgs, call) /\ Once(msgs, GiveUp(c))

(* The messages differ. *)
LEMMA MsgsDiffer ==
    ASSUME NEW c
    PROVE  /\ AskEs(c) # AskAtl(c) /\ AskEs(c) # GiveUp(c) /\ AskAtl(c) # GiveUp(c)
           /\ WasOpened # WasClosed
           /\ \A m : m.type = "RequestATL" => m # AskEs(c) /\ m # GiveUp(c) /\ m # WasOpened /\ m # WasClosed
           /\ AskEs(c).type = "RequestSuplEs" /\ GiveUp(c).type = "ReleaseATL"
           /\ WasOpened.type = "SuplEsOpened" /\ WasClosed.type = "SuplEsClosed"
BY DEF AskEs, AskAtl, GiveUp, WasOpened, WasClosed, DsMsg

(* What is left of the queue when its first message is taken and fallbacks *)
(* are added.                                                              *)
LEMMA TakeKeeps ==
    ASSUME NEW c, NEW q \in Seq(DsMessages), q # << >>, NEW t \in Seq(DsMessages),
           \A k \in DOMAIN t : t[k].type = "RequestATL", NEW s, s = Tail(q) \o t
    PROVE  /\ Range(t) \subseteq Range(s)
           /\ \A x \in Range(q) : x = Head(q) \/ x \in Range(s)
           /\ \A x \in Range(s) : x \in Range(q) \/ x.type = "RequestATL"
           /\ \A k : OpenedInv(q, k) =>
                 /\ OpenedInv(s, k)
                 /\ Head(q) = WasOpened => k \in {"up", "stopping"} \/ WasClosed \in Range(s)
           /\ Once(q, GiveUp(c)) => /\ Once(s, GiveUp(c))
                                    /\ Head(q) = GiveUp(c) => GiveUp(c) \notin Range(s)
<1>1. /\ s \in Seq(DsMessages)
      /\ \A i \in DOMAIN q : i = 1 \/ (i - 1 \in DOMAIN s /\ s[i - 1] = q[i])
      /\ \A i \in DOMAIN s : \/ i + 1 \in DOMAIN q /\ s[i] = q[i + 1]
                             \/ \E k \in DOMAIN t : s[i] = t[k]
      /\ \A k \in DOMAIN t : \E i \in DOMAIN s : s[i] = t[k]
      /\ q[1] = Head(q) /\ 1 \in DOMAIN q
  <2>1. s \in Seq(DsMessages) /\ Shifted(q, t, s)
    <3> PICK M : M = DsMessages
        OBVIOUS
    <3>1. q \in Seq(M) /\ t \in Seq(M)
        OBVIOUS
    <3> QED BY <3>1, TakeMsg
  <2> QED BY <2>1 DEF Shifted
<1>2. Range(t) \subseteq Range(s)
  <2> SUFFICES ASSUME NEW x \in Range(t) PROVE x \in Range(s)
      OBVIOUS
  <2> PICK k \in DOMAIN t : t[k] = x
      BY RangeIs
  <2> PICK i \in DOMAIN s : s[i] = t[k]
      BY <1>1
  <2> QED BY RangeIs
<1>3. ASSUME NEW x \in Range(q) PROVE x = Head(q) \/ x \in Range(s)
  <2> PICK i \in DOMAIN q : q[i] = x
      BY <1>3, RangeIs
  <2>1. CASE i = 1
      BY <1>1, <2>1
  <2>2. CASE i - 1 \in DOMAIN s /\ s[i - 1] = q[i]
      BY <2>2, RangeIs
  <2> QED BY <1>1, <2>1, <2>2
<1>4. ASSUME NEW x \in Range(s) PROVE x \in Range(q) \/ x.type = "RequestATL"
  <2> PICK i \in DOMAIN s : s[i] = x
      BY <1>4, RangeIs
  <2>1. CASE i + 1 \in DOMAIN q /\ s[i] = q[i + 1]
      BY <2>1, RangeIs
  <2>2. CASE \E k \in DOMAIN t : s[i] = t[k]
      BY <2>2
  <2> QED BY <1>1, <2>1, <2>2
<1>5. \A i \in DOMAIN s : s[i] \in {WasOpened, GiveUp(c)} => i + 1 \in DOMAIN q /\ s[i] = q[i + 1]
  <2> SUFFICES ASSUME NEW i \in DOMAIN s, s[i] \in {WasOpened, GiveUp(c)} PROVE i + 1 \in DOMAIN q /\ s[i] = q[i + 1]
      OBVIOUS
  <2>1. s[i].type # "RequestATL"
      BY MsgsDiffer
  <2> QED BY <1>1, <2>1
<1>6. DOMAIN q \subseteq Nat /\ DOMAIN s \subseteq Nat
    BY <1>1
<1>7. ASSUME NEW k, OpenedInv(q, k)
      PROVE  /\ OpenedInv(s, k)
             /\ Head(q) = WasOpened => k \in {"up", "stopping"} \/ WasClosed \in Range(s)
  <2> SUFFICES ASSUME k \notin {"up", "stopping"}
               PROVE  OpenedInv(s, k) /\ (Head(q) = WasOpened => WasClosed \in Range(s))
      BY DEF OpenedInv
  <2>1. \A i \in DOMAIN q : q[i] = WasOpened => \E j \in DOMAIN q : j > i /\ q[j] = WasClosed
      BY <1>7 DEF OpenedInv
  <2>2. ASSUME NEW i \in DOMAIN s, s[i] = WasOpened PROVE \E j \in DOMAIN s : j > i /\ s[j] = WasClosed
    <3>1. i + 1 \in DOMAIN q /\ q[i + 1] = WasOpened
        BY <1>5, <2>2
    <3> PICK j \in DOMAIN q : j > i + 1 /\ q[j] = WasClosed
        BY <2>1, <3>1
    <3>2. i \in Nat /\ j \in Nat /\ j # 1 /\ j - 1 > i
        BY <1>6
    <3>3. j - 1 \in DOMAIN s /\ s[j - 1] = WasClosed
        BY <1>1, <3>2
    <3> QED BY <3>2, <3>3
  <2>3. ASSUME Head(q) = WasOpened PROVE WasClosed \in Range(s)
    <3> PICK j \in DOMAIN q : j > 1 /\ q[j] = WasClosed
        BY <1>1, <2>1, <2>3
    <3>1. j - 1 \in DOMAIN s /\ s[j - 1] = WasClosed
        BY <1>1
    <3> QED BY <3>1, RangeIs
  <2> QED BY <2>2, <2>3 DEF OpenedInv
<1>8. ASSUME Once(q, GiveUp(c))
      PROVE  Once(s, GiveUp(c)) /\ (Head(q) = GiveUp(c) => GiveUp(c) \notin Range(s))
  <2>1. ASSUME NEW i \in DOMAIN s, NEW j \in DOMAIN s, s[i] = GiveUp(c), s[j] = GiveUp(c) PROVE i = j
    <3>1. i + 1 \in DOMAIN q /\ q[i + 1] = GiveUp(c) /\ j + 1 \in DOMAIN q /\ q[j + 1] = GiveUp(c)
        BY <1>5, <2>1
    <3>2. i + 1 = j + 1
        BY <1>8, <3>1 DEF Once
    <3> QED BY <1>6, <3>2
  <2>2. ASSUME Head(q) = GiveUp(c), GiveUp(c) \in Range(s) PROVE FALSE
    <3> PICK i \in DOMAIN s : s[i] = GiveUp(c)
        BY <2>2, RangeIs
    <3>1. i + 1 \in DOMAIN q /\ q[i + 1] = GiveUp(c)
        BY <1>5
    <3>2. i + 1 = 1
        BY <1>1, <1>8, <2>2, <3>1 DEF Once
    <3>3. i \in 1 .. Len(s)
        BY <1>1
    <3> QED BY <3>2, <3>3
  <2> QED BY <2>1, <2>2 DEF Once
<1> QED BY <1>2, <1>3, <1>4, <1>7, <1>8

(* The queue s is q with one message m more. *)
IsAdded(c, q, m, s) ==
    /\ Range(s) = Range(q) \cup {m}
    /\ \A k : OpenedInv(q, k) /\ m # WasOpened => OpenedInv(s, k)
    /\ \A k : m = WasClosed => OpenedInv(s, k)
    /\ (Once(q, GiveUp(c)) /\ (m = GiveUp(c) => GiveUp(c) \notin Range(q)) => Once(s, GiveUp(c)))

(* Append makes it. *)
LEMMA AddKeeps ==
    ASSUME NEW c, NEW q \in Seq(DsMessages), NEW m \in DsMessages, NEW s, s = Append(q, m)
    PROVE  IsAdded(c, q, m, s)
<1> PICK n : n = Len(q) + 1
    OBVIOUS
<1>1. /\ \A i \in DOMAIN q : i \in DOMAIN s /\ s[i] = q[i] /\ i < n
      /\ \A i \in DOMAIN s : i = n \/ i \in DOMAIN q
      /\ n \in DOMAIN s /\ s[n] = m
    BY AddMsg
<1>2. Range(s) = Range(q) \cup {m}
  <2>1. ASSUME NEW x \in Range(s) PROVE x \in Range(q) \cup {m}
    <3> PICK i \in DOMAIN s : s[i] = x
        BY <2>1, RangeIs
    <3>1. CASE i = n
        BY <1>1, <3>1
    <3>2. CASE i \in DOMAIN q
        BY <1>1, <3>2, RangeIs
    <3> QED BY <1>1, <3>1, <3>2
  <2>2. ASSUME NEW x \in Range(q) PROVE x \in Range(s)
    <3> PICK i \in DOMAIN q : q[i] = x
        BY <2>2, RangeIs
    <3>1. i \in DOMAIN s /\ s[i] = x
        BY <1>1
    <3> QED BY <3>1, RangeIs
  <2>3. m \in Range(s)
      BY <1>1, RangeIs
  <2> QED BY <2>1, <2>2, <2>3
<1>3. ASSUME NEW k, OpenedInv(q, k), m # WasOpened PROVE OpenedInv(s, k)
  <2> SUFFICES ASSUME k \notin {"up", "stopping"}, NEW i \in DOMAIN s, s[i] = WasOpened
               PROVE  \E j \in DOMAIN s : j > i /\ s[j] = WasClosed
      BY DEF OpenedInv
  <2>1. i \in DOMAIN q /\ q[i] = WasOpened
      BY <1>1, <1>3
  <2> PICK j \in DOMAIN q : j > i /\ q[j] = WasClosed
      BY <1>3, <2>1 DEF OpenedInv
  <2> QED BY <1>1
<1>4. ASSUME NEW k, m = WasClosed PROVE OpenedInv(s, k)
  <2> SUFFICES ASSUME NEW i \in DOMAIN s, s[i] = WasOpened PROVE \E j \in DOMAIN s : j > i /\ s[j] = WasClosed
      BY DEF OpenedInv
  <2>1. i # n
      BY <1>1, <1>4, MsgsDiffer
  <2>2. i \in DOMAIN q
      BY <1>1, <2>1
  <2>3. i \in Nat /\ n \in Nat /\ i < n
      BY <1>1, <2>2
  <2>4. n > i
      BY <2>3
  <2> QED BY <1>1, <1>4, <2>4
<1>5. ASSUME Once(q, GiveUp(c)), m = GiveUp(c) => GiveUp(c) \notin Range(q) PROVE Once(s, GiveUp(c))
  <2> SUFFICES ASSUME NEW i \in DOMAIN s, NEW j \in DOMAIN s, s[i] = GiveUp(c), s[j] = GiveUp(c) PROVE i = j
      BY DEF Once
  <2>1. CASE m = GiveUp(c)
    <3>1. \A k \in DOMAIN q : s[k] # GiveUp(c)
        BY <1>1, <1>5, <2>1, RangeIs
    <3> QED BY <1>1, <3>1
  <2>2. CASE m # GiveUp(c)
    <3>1. i \in DOMAIN q /\ j \in DOMAIN q
        BY <1>1, <2>2
    <3> QED BY <1>1, <1>5, <3>1 DEF Once
  <2> QED BY <2>1, <2>2
<1> QED BY <1>2, <1>3, <1>4, <1>5 DEF IsAdded

(* What an event of the machine does to the one client's state: the effect *)
(* of Dispatch in terms of sets.                                           *)
OneEffect(c, st, subs, in, told, request, code) ==
    /\ state' = st /\ inactive' = in
    /\ Range(list') = subs /\ IsInjective(list') /\ list' \in Seq(DsClients)
    /\ timers' \in Nat /\ timers' >= timers
    /\ (request = "REQUEST" /\ Retried(code) => timers' > 0)
    /\ \A x \in Range(msgs) : x = Head(msgs) \/ x \in Range(msgs')
    /\ \A x \in Range(msgs') : x \in Range(msgs) \/ x.type = "RequestATL"
    /\ (c \in Range(list) /\ <<c, "DENIED">> \in told => AskAtl(c) \in Range(msgs'))
    /\ (request = "REQUEST" /\ GivenUp(code) => AskAtl(ConnHandle(list', inactive')) \in Range(msgs'))
    /\ OpenedInv(msgs', call)
    /\ (Head(msgs) = WasOpened => call \in {"up", "stopping"} \/ WasClosed \in Range(msgs'))
    /\ Once(msgs', GiveUp(c)) /\ (Head(msgs) = GiveUp(c) => GiveUp(c) \notin Range(msgs'))
    /\ call' = (IF request = "REQUEST" /\ code = "SUCCESS" THEN "starting"
                ELSE IF request = "RELEASE" /\ call \in {"starting", "up"} THEN "stopping" ELSE call)
    /\ dsClient'[c] = (IF <<c, "UNSUBSCRIBE">> \in told THEN "idle"
                       ELSE IF <<c, "GRANTED">> \in told /\ dsClient[c] = "asked" THEN "open" ELSE dsClient[c])

(* Dispatch has that effect. *)
LEMMA OneDispatch ==
    ASSUME AgpsDsAssumption, DsTypeOK, NEW c, DsClients = {c}, OneInv(c), msgs # << >>,
           NEW r, NEW code, Dispatch(r, Tail(msgs), code),
           r.machine.subs \in SUBSET {c}, IsFiniteSet(r.machine.subs \ Range(list))
    PROVE  OneEffect(c, r.machine.state, r.machine.subs, r.machine.inactive, r.told, r.request, code)
<1>1. msgs \in Seq(DsMessages) /\ Tail(msgs) \in Seq(DsMessages)
    BY DEF DsTypeOK
<1>2. /\ state' = r.machine.state /\ inactive' = r.machine.inactive
      /\ list' \in Seq(DsClients) /\ IsInjective(list') /\ Range(list') = r.machine.subs
      /\ timers' \in Nat /\ timers' >= timers
      /\ r.request = "REQUEST" /\ Retried(code) => timers' > 0
      /\ \E t \in Seq(DsMessages) :
            /\ msgs' = Tail(msgs) \o t /\ \A i \in DOMAIN t : t[i].type = "RequestATL"
            /\ \A x \in Range(list) : <<x, "DENIED">> \in r.told => DsMsg("RequestATL", x) \in Range(t)
            /\ r.request = "REQUEST" /\ GivenUp(code) =>
                  DsMsg("RequestATL", ConnHandle(list', inactive')) \in Range(t)
    BY <1>1, DispatchIs
<1> PICK t \in Seq(DsMessages) :
            /\ msgs' = Tail(msgs) \o t /\ \A i \in DOMAIN t : t[i].type = "RequestATL"
            /\ \A x \in Range(list) : <<x, "DENIED">> \in r.told => DsMsg("RequestATL", x) \in Range(t)
            /\ r.request = "REQUEST" /\ GivenUp(code) =>
                  DsMsg("RequestATL", ConnHandle(list', inactive')) \in Range(t)
    BY <1>2
<1>3. /\ Range(t) \subseteq Range(msgs')
      /\ \A x \in Range(msgs) : x = Head(msgs) \/ x \in Range(msgs')
      /\ \A x \in Range(msgs') : x \in Range(msgs) \/ x.type = "RequestATL"
      /\ \A k : OpenedInv(msgs, k) =>
            /\ OpenedInv(msgs', k)
            /\ Head(msgs) = WasOpened => k \in {"up", "stopping"} \/ WasClosed \in Range(msgs')
      /\ Once(msgs, GiveUp(c)) => /\ Once(msgs', GiveUp(c))
                                  /\ Head(msgs) = GiveUp(c) => GiveUp(c) \notin Range(msgs')
  <2> PICK q : q = msgs
      OBVIOUS
  <2> PICK s : s = msgs'
      OBVIOUS
  <2>1. q \in Seq(DsMessages) /\ q # << >> /\ s = Tail(q) \o t
      BY <1>1
  <2>2. /\ Range(t) \subseteq Range(s)
        /\ \A x \in Range(q) : x = Head(q) \/ x \in Range(s)
        /\ \A x \in Range(s) : x \in Range(q) \/ x.type = "RequestATL"
        /\ \A k : OpenedInv(q, k) =>
              /\ OpenedInv(s, k)
              /\ Head(q) = WasOpened => k \in {"up", "stopping"} \/ WasClosed \in Range(s)
        /\ Once(q, GiveUp(c)) => /\ Once(s, GiveUp(c))
                                 /\ Head(q) = GiveUp(c) => GiveUp(c) \notin Range(s)
      BY <2>1, TakeKeeps
  <2> QED BY <2>2
<1>4. OpenedInv(msgs, call) /\ Once(msgs, GiveUp(c))
    BY DEF OneInv
<1>5. /\ call' = (IF r.request = "REQUEST" /\ code = "SUCCESS" THEN "starting"
                  ELSE IF r.request = "RELEASE" /\ call \in {"starting", "up"} THEN "stopping" ELSE call)
      /\ informStatus(r.told)
    BY DEF Dispatch
<1>6. dsClient'[c] = (IF <<c, "UNSUBSCRIBE">> \in r.told THEN "idle"
                      ELSE IF <<c, "GRANTED">> \in r.told /\ dsClient[c] = "asked" THEN "open" ELSE dsClient[c])
    BY <1>5 DEF informStatus
<1>7. /\ c \in Range(list) /\ <<c, "DENIED">> \in r.told => AskAtl(c) \in Range(msgs')
      /\ r.request = "REQUEST" /\ GivenUp(code) => AskAtl(ConnHandle(list', inactive')) \in Range(msgs')
    BY <1>3 DEF AskAtl
<1> QED BY <1>2, <1>3, <1>4, <1>5, <1>6, <1>7 DEF OneEffect

(* The first message of the queue. *)
LEMMA FirstIs ==
    ASSUME DsTypeOK, DsIds, NEW c, DsClients = {c}, msgs # << >>
    PROVE  /\ Head(msgs) \in Range(msgs) /\ Head(msgs) \in DsMessages
           /\ Head(msgs).type = "RequestSuplEs" => Head(msgs) = AskEs(c) /\ Head(msgs).id = c
           /\ Head(msgs).type = "ReleaseATL" => Head(msgs) = GiveUp(c) /\ Head(msgs).id = c
           /\ Head(msgs).type = "RequestATL" => Head(msgs) = AskAtl(Head(msgs).id)
           /\ Head(msgs).type = "SuplEsOpened" => Head(msgs) = WasOpened
           /\ Head(msgs).type = "SuplEsClosed" => Head(msgs) = WasClosed
<1> PICK m : m = Head(msgs)
    OBVIOUS
<1>1. 1 \in DOMAIN msgs /\ m = msgs[1] /\ m \in DsMessages
    BY DEF DsTypeOK
<1>2. m \in Range(msgs)
    BY <1>1, RangeIs
<1>3. m.type \in {"RequestSuplEs", "ReleaseATL"} => m.id = c
    BY <1>1 DEF DsIds
<1>4. \/ m = [type |-> m.type, id |-> m.id] /\ m.type \in MsgTypes
      \/ m = [type |-> m.type] /\ m.type \in {"SuplEsOpened", "SuplEsClosed"}
    BY <1>1 DEF DsMessages
<1>5. CASE m = [type |-> m.type, id |-> m.id] /\ m.type \in MsgTypes
    BY <1>1, <1>2, <1>3, <1>5 DEF MsgTypes, AskEs, GiveUp, AskAtl, DsMsg
<1>6. CASE m = [type |-> m.type] /\ m.type \in {"SuplEsOpened", "SuplEsClosed"}
    BY <1>1, <1>2, <1>6 DEF WasOpened, WasClosed
<1> QED BY <1>4, <1>5, <1>6

(* The list holds that client at most. *)
LEMMA OneList ==
    ASSUME DsTypeOK, NEW c, DsClients = {c}
    PROVE  Range(list) \subseteq {c}
<1>1. list \in Seq({c})
    BY DEF DsTypeOK
<1>2. \A i \in DOMAIN list : list[i] = c
    BY <1>1
<1> QED BY <1>2, RangeIs

(* What is left when a message is taken and none is added. *)
LEMMA OneTaken ==
    ASSUME DsTypeOK, NEW c, OpenedInv(msgs, call), Once(msgs, GiveUp(c)), msgs # << >>, msgs' = Tail(msgs)
    PROVE  /\ \A x \in Range(msgs) : x = Head(msgs) \/ x \in Range(msgs')
           /\ \A x \in Range(msgs') : x \in Range(msgs) \/ x.type = "RequestATL"
           /\ OpenedInv(msgs', call) /\ Once(msgs', GiveUp(c))
           /\ Head(msgs) = GiveUp(c) => GiveUp(c) \notin Range(msgs')
<1> PICK q : q = msgs
    OBVIOUS
<1> PICK s : s = msgs'
    OBVIOUS
<1> PICK t : t = << >>
    OBVIOUS
<1>1. q \in Seq(DsMessages) /\ q # << >> /\ Tail(q) \in Seq(DsMessages) /\ s = Tail(q)
    BY DEF DsTypeOK
<1>2. t \in Seq(DsMessages) /\ \A k \in DOMAIN t : t[k].type = "RequestATL"
    OBVIOUS
<1>3. s = Tail(q) \o t
    BY <1>1
<1>4. /\ \A x \in Range(q) : x = Head(q) \/ x \in Range(s)
      /\ \A x \in Range(s) : x \in Range(q) \/ x.type = "RequestATL"
      /\ \A k : OpenedInv(q, k) => OpenedInv(s, k)
      /\ Once(q, GiveUp(c)) => /\ Once(s, GiveUp(c))
                               /\ Head(q) = GiveUp(c) => GiveUp(c) \notin Range(s)
    BY <1>1, <1>2, <1>3, TakeKeeps
<1> QED BY <1>4

(* Where the report of the opening is not true, the other one is queued. *)
LEMMA OpenedThenClosed ==
    ASSUME NEW q, NEW k, OpenedInv(q, k), k \notin {"up", "stopping"}, WasOpened \in Range(q)
    PROVE  WasClosed \in Range(q)
<1> PICK i \in DOMAIN q : q[i] = WasOpened
    BY RangeIs
<1> PICK j \in DOMAIN q : j > i /\ q[j] = WasClosed
    BY DEF OpenedInv
<1> QED BY RangeIs

(* The only client there can be in the list, and what is queued, agree     *)
(* after each event of the machine.                                        *)
LEMMA OneRequestSuplEs ==
    ASSUME AgpsDsAssumption, DsTypeOK, DsIds, NEW c, DsClients = {c}, OneInv(c), LocEngRequestSuplEs
    PROVE  OneInv(c)'
<1>1. msgs # << >> /\ Head(msgs) = AskEs(c) /\ Head(msgs).id = c
    BY FirstIs DEF LocEngRequestSuplEs, DsTaken
<1> PICK code \in Outcomes : Dispatch(onRsrcEvent(machine, "SUBSCRIBE", Head(msgs).id, TRUE, code = "SUCCESS"),
                                      Tail(msgs), code)
    BY DEF LocEngRequestSuplEs
<1> PICK ok \in BOOLEAN : ok = (code = "SUCCESS")
    OBVIOUS
<1> PICK r : r = onRsrcEvent(machine, "SUBSCRIBE", c, TRUE, ok)
    OBVIOUS
<1>2. Dispatch(r, Tail(msgs), code)
    BY <1>1
<1>3. state \in AgpsStates /\ Range(list) \subseteq {c}
    BY OneList DEF DsTypeOK
<1>4. /\ r.machine.subs = Range(list) \cup {c} /\ r.machine.inactive = inactive
      /\ r.machine.state = (IF state = "RELEASED" /\ ok THEN "PENDING" ELSE state)
      /\ r.told = (IF state = "ACQUIRED" THEN {<<c, "GRANTED">>} ELSE {})
      /\ r.request = (IF state = "RELEASED" THEN "REQUEST" ELSE "none")
  <2>1. state \in AgpsStates
      BY <1>3
  <2>2. AsSubscribed(r, c, ok)
      BY <2>1, SubscribeIs
  <2> QED BY <2>2 DEF AsSubscribed
<1>5. r.machine.subs \in SUBSET {c} /\ IsFiniteSet(r.machine.subs \ Range(list))
    BY <1>3, <1>4, OneMoreIsFinite
<1>6. /\ state' = r.machine.state /\ inactive' = r.machine.inactive
      /\ Range(list') = r.machine.subs /\ IsInjective(list') /\ list' \in Seq(DsClients)
      /\ timers' \in Nat /\ timers' >= timers
      /\ r.request = "REQUEST" /\ Retried(code) => timers' > 0
      /\ \A x \in Range(msgs) : x = Head(msgs) \/ x \in Range(msgs')
      /\ \A x \in Range(msgs') : x \in Range(msgs) \/ x.type = "RequestATL"
      /\ r.request = "REQUEST" /\ GivenUp(code) => AskAtl(ConnHandle(list', inactive')) \in Range(msgs')
      /\ OpenedInv(msgs', call) /\ Once(msgs', GiveUp(c))
      /\ call' = (IF r.request = "REQUEST" /\ code = "SUCCESS" THEN "starting"
                  ELSE IF r.request = "RELEASE" /\ call \in {"starting", "up"} THEN "stopping" ELSE call)
      /\ dsClient'[c] = (IF <<c, "UNSUBSCRIBE">> \in r.told THEN "idle"
                         ELSE IF <<c, "GRANTED">> \in r.told /\ dsClient[c] = "asked" THEN "open" ELSE dsClient[c])
  <2>1. OneEffect(c, r.machine.state, r.machine.subs, r.machine.inactive, r.told, r.request, code)
      BY <1>1, <1>2, <1>5, OneDispatch
  <2> QED BY <2>1 DEF OneEffect
<1>7. code = "SUCCESS" => call = "down"
    BY DEF Outcomes
<1>8. code = "SUCCESS" \/ Retried(code) \/ GivenUp(code)
    BY DEF Outcomes, ReturnCodes, Retried, GivenUp
<1>9. Range(list') = {c}
    BY <1>3, <1>4, <1>6
<1>10. state = "RELEASED" /\ GivenUp(code) => AskAtl(c) \in Range(msgs')
  <2> SUFFICES ASSUME state = "RELEASED", GivenUp(code) PROVE AskAtl(c) \in Range(msgs')
      OBVIOUS
  <2>1. inactive' = {}
      BY <1>4, <1>6 DEF OneInv, OneAgrees
  <2>2. ConnHandle(list', inactive') = c
    <3>1. list' \in Seq(DsClients) /\ IsInjective(list') /\ ~(Range(list') \subseteq inactive')
        BY <1>6, <1>9, <2>1
    <3>2. ConnHandle(list', inactive') \in Range(list') \ inactive'
      <4> PICK l : l = list'
          OBVIOUS
      <4>1. ConnHandle(l, inactive') \in Range(l) \ inactive'
          BY <3>1, ConnHandleIs
      <4> QED BY <4>1
    <3> QED BY <1>9, <3>2
  <2> QED BY <1>4, <1>6, <2>2
<1>11. /\ dsClient'[c] = (IF state = "ACQUIRED" /\ dsClient[c] = "asked" THEN "open" ELSE dsClient[c])
       /\ call' = (IF state = "RELEASED" /\ code = "SUCCESS" THEN "starting" ELSE call)
       /\ state' = (IF state = "RELEASED" /\ code = "SUCCESS" THEN "PENDING" ELSE state)
       /\ inactive' = inactive
    BY <1>4, <1>6
<1>12. \A x \in {GiveUp(c), WasOpened, WasClosed} : x \in Range(msgs) <=> x \in Range(msgs')
    BY <1>1, <1>6, MsgsDiffer
<1>13. AskAtl(c) \in Range(msgs) => AskAtl(c) \in Range(msgs')
    BY <1>1, <1>6, MsgsDiffer
<1>14. OpenedInv(msgs', call')
    BY <1>6, <1>7, <1>11 DEF OpenedInv
<1>15. OneAgrees(c, state, Range(list), inactive, timers, Range(msgs), call, dsClient[c])
    BY DEF OneInv
<1>16. timers \in Nat /\ state \in {"RELEASED", "PENDING", "ACQUIRED", "RELEASING"}
    BY <1>3 DEF DsTypeOK, AgpsStates
<1>17. state = "RELEASED" /\ Retried(code) => timers' > 0
    BY <1>4, <1>6
<1>18. OneAgrees(c, state', {c}, inactive', timers', Range(msgs'), call', dsClient'[c])
    BY <1>7, <1>8, <1>10, <1>11, <1>12, <1>13, <1>15, <1>16, <1>17 DEF OneAgrees
<1> QED BY <1>6, <1>9, <1>14, <1>18 DEF OneInv

(* The same after a release. *)
LEMMA OneReleaseATL ==
    ASSUME AgpsDsAssumption, DsTypeOK, DsIds, NEW c, DsClients = {c}, OneInv(c), LocEngReleaseATL
    PROVE  OneInv(c)'
<1>1. msgs # << >> /\ Head(msgs) = GiveUp(c) /\ Head(msgs).id = c
    BY FirstIs DEF LocEngReleaseATL, DsTaken
<1>2. state \in AgpsStates /\ Range(list) \subseteq {c}
    BY OneList DEF DsTypeOK
<1>3. OneAgrees(c, state, Range(list), inactive, timers, Range(msgs), call, dsClient[c])
    BY DEF OneInv
<1>4. dsClient[c] = "closing"
    BY <1>1, <1>3, FirstIs DEF OneAgrees
<1>5. state \in {"RELEASED", "PENDING", "ACQUIRED"}
    BY <1>2, <1>3, <1>4 DEF OneAgrees, AgpsStates
<1>6. CASE dsClient' = [dsClient EXCEPT ![c] = "idle"] /\ msgs' = Tail(msgs)
           /\ UNCHANGED <<state, list, inactive, retries, timers, call>>
  <2>1. dsClient'[c] = "idle"
      BY <1>6 DEF DsTypeOK
  <2>2. /\ \A x \in Range(msgs) : x = Head(msgs) \/ x \in Range(msgs')
        /\ \A x \in Range(msgs') : x \in Range(msgs) \/ x.type = "RequestATL"
        /\ OpenedInv(msgs', call) /\ Once(msgs', GiveUp(c)) /\ GiveUp(c) \notin Range(msgs')
      BY <1>1, <1>6, OneTaken DEF OneInv
  <2>3. \A x \in {WasOpened, WasClosed} : x \in Range(msgs) => x \in Range(msgs')
      BY <1>1, <2>2, MsgsDiffer
  <2>4. OneAgrees(c, state, Range(list), inactive, timers, Range(msgs'), call, dsClient'[c])
      BY <1>3, <1>5, <2>1, <2>2, <2>3 DEF OneAgrees
  <2> QED BY <1>6, <2>2, <2>4 DEF OneInv
<1>7. CASE c \in Range(list) /\ Dispatch(onRsrcEvent(machine, "UNSUBSCRIBE", c, TRUE, TRUE), Tail(msgs), "SUCCESS")
  <2> PICK r : r = onRsrcEvent(machine, "UNSUBSCRIBE", c, TRUE, TRUE)
      OBVIOUS
  <2>1. /\ r.machine.subs = Range(list) /\ r.told = {<<c, "UNSUBSCRIBE">>}
        /\ r.machine.inactive = (IF state = "RELEASED" THEN inactive ELSE inactive \cup {c})
        /\ IF state \in {"PENDING", "ACQUIRED"} /\ Range(list) \subseteq inactive \cup {c}
           THEN r.machine.state = "RELEASING" /\ r.request = "RELEASE"
           ELSE r.machine.state = state /\ r.request = "none"
      BY <1>2, <1>7, UnsubscribeIs
  <2>2. r.machine.subs \in SUBSET {c} /\ IsFiniteSet(r.machine.subs \ Range(list))
      BY <1>2, <2>1, OneMoreIsFinite
  <2>3. /\ state' = r.machine.state /\ inactive' = r.machine.inactive /\ Range(list') = r.machine.subs
        /\ timers' \in Nat /\ timers' >= timers
        /\ \A x \in Range(msgs) : x = Head(msgs) \/ x \in Range(msgs')
        /\ OpenedInv(msgs', call) /\ Once(msgs', GiveUp(c))
        /\ Head(msgs) = GiveUp(c) => GiveUp(c) \notin Range(msgs')
        /\ call' = (IF r.request = "REQUEST" /\ "SUCCESS" = "SUCCESS" THEN "starting"
                    ELSE IF r.request = "RELEASE" /\ call \in {"starting", "up"} THEN "stopping" ELSE call)
        /\ dsClient'[c] = (IF <<c, "UNSUBSCRIBE">> \in r.told THEN "idle"
                           ELSE IF <<c, "GRANTED">> \in r.told /\ dsClient[c] = "asked" THEN "open" ELSE dsClient[c])
    <3>1. Dispatch(r, Tail(msgs), "SUCCESS")
        BY <1>7
    <3>2. OneEffect(c, r.machine.state, r.machine.subs, r.machine.inactive, r.told, r.request, "SUCCESS")
        BY <1>1, <2>2, <3>1, OneDispatch
    <3> QED BY <3>2 DEF OneEffect
  <2>4. dsClient'[c] = "idle" /\ GiveUp(c) \notin Range(msgs')
      BY <1>1, <2>1, <2>3
  <2>5. \A x \in {WasOpened, WasClosed} : x \in Range(msgs) => x \in Range(msgs')
      BY <1>1, <2>3, MsgsDiffer
  <2>6. CASE state = "RELEASED"
    <3>1. state' = "RELEASED" /\ inactive' = inactive /\ call' = call
        BY <2>1, <2>3, <2>6
    <3>2. OneAgrees(c, state', Range(list'), inactive', timers', Range(msgs'), call', dsClient'[c])
        BY <1>3, <2>4, <2>6, <3>1 DEF OneAgrees
    <3> QED BY <2>3, <3>1, <3>2 DEF OneInv
  <2>7. CASE state \in {"PENDING", "ACQUIRED"}
    <3>1. /\ state' = "RELEASING" /\ inactive' = {c}
          /\ call' = (IF call \in {"starting", "up"} THEN "stopping" ELSE call)
        BY <1>2, <1>3, <2>1, <2>3, <2>7 DEF OneAgrees
    <3>2. OpenedInv(msgs', call')
        BY <2>3, <3>1 DEF OpenedInv
    <3>3. call' = "stopping" \/ WasClosed \in Range(msgs')
      <4> SUFFICES ASSUME call \notin {"starting", "up"} PROVE WasClosed \in Range(msgs')
          BY <3>1
      <4>1. call # "stopping"
          BY <1>3, <2>7 DEF OneAgrees
      <4>2. WasOpened \in Range(msgs) \/ WasClosed \in Range(msgs)
          BY <1>3, <2>7, <4>1 DEF OneAgrees
      <4>3. WasOpened \in Range(msgs) => WasClosed \in Range(msgs)
          BY <4>1, OpenedThenClosed DEF OneInv
      <4> QED BY <2>5, <4>2, <4>3
    <3>4. OneAgrees(c, state', Range(list'), inactive', timers', Range(msgs'), call', dsClient'[c])
        BY <2>4, <3>1, <3>3 DEF OneAgrees
    <3> QED BY <2>3, <3>2, <3>4 DEF OneInv
  <2> QED BY <1>5, <2>6, <2>7
<1> QED BY <1>1, <1>6, <1>7 DEF LocEngReleaseATL

(* The same after the fallback. *)
LEMMA OneRequestATL ==
    ASSUME AgpsDsAssumption, DsTypeOK, DsIds, NEW c, DsClients = {c}, OneInv(c), LocEngRequestATL
    PROVE  OneInv(c)'
<1>1. /\ msgs # << >> /\ Head(msgs).type = "RequestATL" /\ msgs' = Tail(msgs)
      /\ UNCHANGED <<state, list, inactive, retries, timers, call>>
      /\ dsClient' = [d \in DsClients |-> IF d = Head(msgs).id /\ dsClient[d] = "asked" THEN "fallback" ELSE dsClient[d]]
    BY DEF LocEngRequestATL, DsTaken
<1> PICK h : h = Head(msgs)
    OBVIOUS
<1>2. h = AskAtl(h.id) /\ h.type = "RequestATL"
    BY <1>1, FirstIs
<1>3. dsClient'[c] = (IF c = h.id /\ dsClient[c] = "asked" THEN "fallback" ELSE dsClient[c])
    BY <1>1
<1>4. OneAgrees(c, state, Range(list), inactive, timers, Range(msgs), call, dsClient[c])
    BY DEF OneInv
<1>5. /\ \A x \in Range(msgs) : x = h \/ x \in Range(msgs')
      /\ \A x \in Range(msgs') : x \in Range(msgs) \/ x.type = "RequestATL"
      /\ OpenedInv(msgs', call) /\ Once(msgs', GiveUp(c))
    BY <1>1, OneTaken DEF OneInv
<1>6. \A x \in {AskEs(c), GiveUp(c), WasOpened, WasClosed} : x \in Range(msgs) <=> x \in Range(msgs')
    BY <1>2, <1>5, MsgsDiffer
<1>7. AskAtl(c) \in Range(msgs) => AskAtl(c) \in Range(msgs') \/ c = h.id
    BY <1>5 DEF AskAtl, DsMsg
<1>8. OneAgrees(c, state, Range(list), inactive, timers, Range(msgs'), call, dsClient'[c])
    BY <1>3, <1>4, <1>6, <1>7 DEF OneAgrees
<1> QED BY <1>1, <1>5, <1>8 DEF OneInv

(* The same after the report that the call opened. *)
LEMMA OneSuplEsOpened ==
    ASSUME AgpsDsAssumption, DsTypeOK, DsIds, NEW c, DsClients = {c}, OneInv(c), LocEngSuplEsOpened
    PROVE  OneInv(c)'
<1> PICK r : r = onRsrcEvent(machine, "GRANTED", NoConnHandle, TRUE, TRUE)
    OBVIOUS
<1>1. msgs # << >> /\ Head(msgs) = WasOpened /\ Dispatch(r, Tail(msgs), "SUCCESS")
    BY FirstIs DEF LocEngSuplEsOpened, DsTaken
<1>2. state \in AgpsStates /\ Range(list) \subseteq {c}
    BY OneList DEF DsTypeOK
<1>3. /\ r.machine.subs = Range(list) /\ r.machine.inactive = inactive /\ r.request = "none"
      /\ r.machine.state = (IF state = "PENDING" THEN "ACQUIRED" ELSE state)
      /\ r.told = (IF state = "PENDING" THEN (Range(list) \ inactive) \X {"GRANTED"} ELSE {})
    BY <1>2, GrantedIs
<1>4. r.machine.subs \in SUBSET {c} /\ IsFiniteSet(r.machine.subs \ Range(list))
    BY <1>2, <1>3, OneMoreIsFinite
<1>5. OneEffect(c, r.machine.state, r.machine.subs, r.machine.inactive, r.told, r.request, "SUCCESS")
    BY <1>1, <1>4, OneDispatch
<1>6. /\ state' = r.machine.state /\ inactive' = inactive /\ Range(list') = Range(list)
      /\ timers' \in Nat /\ timers' >= timers /\ call' = call
      /\ \A x \in Range(msgs) : x = WasOpened \/ x \in Range(msgs')
      /\ \A x \in Range(msgs') : x \in Range(msgs) \/ x.type = "RequestATL"
      /\ OpenedInv(msgs', call) /\ Once(msgs', GiveUp(c))
      /\ call \in {"up", "stopping"} \/ WasClosed \in Range(msgs')
    BY <1>1, <1>3, <1>5 DEF OneEffect
<1>7. dsClient'[c] = (IF <<c, "UNSUBSCRIBE">> \in r.told THEN "idle"
                      ELSE IF <<c, "GRANTED">> \in r.told /\ dsClient[c] = "asked" THEN "open" ELSE dsClient[c])
    BY <1>5 DEF OneEffect
<1>8. \A x \in {AskEs(c), AskAtl(c), WasClosed} : x \in Range(msgs) => x \in Range(msgs')
  <2>1. AskEs(c).type # WasOpened.type /\ AskAtl(c).type # WasOpened.type /\ WasClosed # WasOpened
      BY MsgsDiffer DEF AskAtl, DsMsg
  <2> QED BY <1>6, <2>1
<1>9. GiveUp(c) \in Range(msgs') => GiveUp(c) \in Range(msgs)
    BY <1>6, MsgsDiffer
<1>10. OneAgrees(c, state, Range(list), inactive, timers, Range(msgs), call, dsClient[c])
    BY DEF OneInv
<1>11. timers \in Nat
    BY DEF DsTypeOK
<1>12. CASE state = "PENDING"
  <2>1. state' = "ACQUIRED" /\ inactive = {} /\ r.told = Range(list) \X {"GRANTED"}
      BY <1>3, <1>6, <1>10, <1>12 DEF OneAgrees
  <2>2. dsClient'[c] = (IF c \in Range(list) /\ dsClient[c] = "asked" THEN "open" ELSE dsClient[c])
      BY <1>7, <2>1
  <2>3. OneAgrees(c, state', Range(list'), inactive', timers', Range(msgs'), call', dsClient'[c])
      BY <1>6, <1>8, <1>9, <1>10, <1>12, <2>1, <2>2 DEF OneAgrees
  <2> QED BY <1>6, <2>3 DEF OneInv
<1>13. CASE state # "PENDING"
  <2>1. state' = state /\ r.told = {}
      BY <1>3, <1>6, <1>13
  <2>2. dsClient'[c] = dsClient[c]
      BY <1>7, <2>1
  <2>3. OneAgrees(c, state', Range(list'), inactive', timers', Range(msgs'), call', dsClient'[c])
    <3>1. /\ inactive' = inactive /\ Range(list') = Range(list) /\ call' = call
          /\ (timers > 0 => timers' > 0)
        BY <1>6, <1>11
    <3>2. OneAgrees(c, state, Range(list), inactive, timers', Range(msgs'), call, dsClient[c])
        BY <1>8, <1>9, <1>10, <1>13, <3>1 DEF OneAgrees
    <3> QED BY <2>1, <2>2, <3>1, <3>2
  <2> QED BY <1>6, <2>3 DEF OneInv
<1> QED BY <1>12, <1>13

(* The same after the report that the call closed: the machine is RELEASED *)
(* whatever it was, as nobody but the client that leaves can be listed.    *)
LEMMA OneSuplEsClosed ==
    ASSUME AgpsDsAssumption, DsTypeOK, DsIds, NEW c, DsClients = {c}, OneInv(c), LocEngSuplEsClosed
    PROVE  OneInv(c)'
<1>1. msgs # << >> /\ Head(msgs) = WasClosed
    BY FirstIs DEF LocEngSuplEsClosed, DsTaken
<1> PICK code \in Outcomes : Dispatch(ReleasedReport(code = "SUCCESS"), Tail(msgs), code)
    BY DEF LocEngSuplEsClosed
<1> PICK ok \in BOOLEAN : ok = (code = "SUCCESS")
    OBVIOUS
<1> PICK r : r = ReleasedReport(ok)
    OBVIOUS
<1>2. Dispatch(r, Tail(msgs), code)
    OBVIOUS
<1>3. state \in AgpsStates /\ Range(list) \subseteq {c} /\ inactive \subseteq Range(list)
    BY OneList DEF DsTypeOK
<1>4. OneAgrees(c, state, Range(list), inactive, timers, Range(msgs), call, dsClient[c])
    BY DEF OneInv
<1>5. inactive = (IF state = "RELEASING" THEN {c} ELSE {}) /\ (state = "RELEASING" => dsClient[c] = "idle")
    BY <1>4 DEF OneAgrees
<1>6. /\ r.machine.state = "RELEASED" /\ r.machine.subs \subseteq Range(list) /\ r.machine.inactive = {}
      /\ r.request = "none"
      /\ <<c, "UNSUBSCRIBE">> \notin r.told /\ <<c, "GRANTED">> \notin r.told
      /\ (state = "PENDING" /\ c \in Range(list) => <<c, "DENIED">> \in r.told)
      /\ (state = "RELEASED" => r.machine.subs = Range(list))
  <2>1. CASE state = "RELEASED"
    <3>1. /\ r.machine.state = "RELEASED" /\ r.machine.subs = Range(list) /\ r.machine.inactive = inactive
          /\ r.told = {} /\ r.request = "none"
        BY <1>3, <2>1, ClosedIs
    <3> QED BY <1>5, <2>1, <3>1
  <2>2. CASE state \in {"PENDING", "ACQUIRED"}
    <3>1. /\ r.machine.state = "RELEASED" /\ r.machine.subs = {} /\ r.machine.inactive = {}
          /\ r.told = Range(list) \X {IF state = "PENDING" THEN "DENIED" ELSE "RELEASED"}
          /\ r.request = "none"
        BY <1>3, <2>2, ClosedIs
    <3> QED BY <2>2, <3>1
  <2>3. CASE state = "RELEASING"
    <3>1. /\ r.machine.subs = Range(list) \ inactive /\ r.machine.inactive = {}
          /\ r.told = inactive \X {"RELEASED"}
          /\ IF Range(list) \subseteq inactive
             THEN r.machine.state = "RELEASED" /\ r.request = "none"
             ELSE r.machine.state = "PENDING" /\ r.request = "REQUEST"
        BY <1>3, <2>3, ClosedIs
    <3> QED BY <1>3, <1>5, <2>3, <3>1
  <2> QED BY <1>3, <2>1, <2>2, <2>3 DEF AgpsStates
<1>7. r.machine.subs \in SUBSET {c} /\ IsFiniteSet(r.machine.subs \ Range(list))
    BY <1>3, <1>6, OneMoreIsFinite
<1>8. OneEffect(c, r.machine.state, r.machine.subs, r.machine.inactive, r.told, r.request, code)
    BY <1>1, <1>2, <1>7, OneDispatch
<1>9. /\ state' = "RELEASED" /\ inactive' = {} /\ Range(list') = r.machine.subs
      /\ timers' \in Nat /\ timers' >= timers /\ call' = call /\ dsClient'[c] = dsClient[c]
      /\ \A x \in Range(msgs) : x = WasClosed \/ x \in Range(msgs')
      /\ \A x \in Range(msgs') : x \in Range(msgs) \/ x.type = "RequestATL"
      /\ OpenedInv(msgs', call) /\ Once(msgs', GiveUp(c))
      /\ (state = "PENDING" /\ c \in Range(list) => AskAtl(c) \in Range(msgs'))
    BY <1>1, <1>6, <1>8 DEF OneEffect
<1>10. \A x \in {AskEs(c), AskAtl(c)} : x \in Range(msgs) => x \in Range(msgs')
  <2>1. AskEs(c).type # WasClosed.type /\ AskAtl(c).type # WasClosed.type
      BY MsgsDiffer DEF AskAtl, DsMsg
  <2> QED BY <1>9, <2>1
<1>11. GiveUp(c) \in Range(msgs') => GiveUp(c) \in Range(msgs)
    BY <1>9, MsgsDiffer
<1>12. timers \in Nat
    BY DEF DsTypeOK
<1>13. state = "RELEASED" => Range(list') = Range(list)
    BY <1>6, <1>9
<1>14. OneAgrees(c, state', Range(list'), inactive', timers', Range(msgs'), call', dsClient'[c])
    BY <1>4, <1>5, <1>9, <1>10, <1>11, <1>12, <1>13 DEF OneAgrees
<1> QED BY <1>9, <1>14 DEF OneInv

(* The same after a retry. *)
LEMMA OneRetry ==
    ASSUME AgpsDsAssumption, DsTypeOK, DsIds, NEW c, DsClients = {c}, OneInv(c), retryCallback
    PROVE  OneInv(c)'
<1>1. /\ timers > 0 /\ timers' = timers - 1
      /\ UNCHANGED <<state, list, inactive, retries, atl, call, dsClient>>
      /\ msgs' = (IF ConnHandle(list, inactive) = NoConnHandle THEN msgs
                  ELSE Append(msgs, DsMsg("RequestSuplEs", ConnHandle(list, inactive))))
    BY DEF retryCallback
<1>2. OneAgrees(c, state, Range(list), inactive, timers, Range(msgs), call, dsClient[c])
    BY DEF OneInv
<1>3. OpenedInv(msgs, call) /\ Once(msgs, GiveUp(c)) /\ Range(list) \subseteq {c} /\ msgs \in Seq(DsMessages)
    BY OneList DEF OneInv, DsTypeOK
<1>4. list \in Seq(DsClients) /\ IsInjective(list)
    BY DEF DsTypeOK
<1>5. CASE Range(list) \subseteq inactive
  <2>1. msgs' = msgs
      BY <1>1, <1>4, <1>5, ConnHandleIs
  <2>2. ~(c \in Range(list) /\ state = "RELEASED")
      BY <1>2, <1>5 DEF OneAgrees
  <2>3. OneAgrees(c, state, Range(list), inactive, timers', Range(msgs), call, dsClient[c])
      BY <1>2, <2>2 DEF OneAgrees
  <2> QED BY <1>1, <1>3, <2>1, <2>3 DEF OneInv
<1>6. CASE ~(Range(list) \subseteq inactive)
  <2>1. ConnHandle(list, inactive) = c
    <3>1. ConnHandle(list, inactive) \in Range(list)
        BY <1>4, <1>6, ConnHandleIs
    <3> QED BY <1>3, <3>1
  <2>2. c # NoConnHandle
      BY DEF AgpsDsAssumption
  <2> PICK m : m = AskEs(c)
      OBVIOUS
  <2>3. msgs' = Append(msgs, m) /\ m \in DsMessages
      BY <1>1, <2>1, <2>2 DEF AskEs, DsMsg, DsMessages, MsgTypes
  <2>4. m # WasOpened /\ m # GiveUp(c) /\ m # WasClosed
    <3>1. m.type # WasOpened.type /\ m.type # GiveUp(c).type /\ m.type # WasClosed.type
        BY MsgsDiffer
    <3> QED BY <3>1
  <2>5. Range(msgs') = Range(msgs) \cup {m} /\ OpenedInv(msgs', call) /\ Once(msgs', GiveUp(c))
    <3> PICK q : q = msgs
        OBVIOUS
    <3> PICK s : s = msgs'
        OBVIOUS
    <3>1. q \in Seq(DsMessages) /\ s = Append(q, m)
        BY <1>3, <2>3
    <3>2. IsAdded(c, q, m, s)
        BY <2>3, <3>1, AddKeeps
    <3> QED BY <1>3, <2>4, <3>2 DEF IsAdded
  <2>6. AskEs(c) \in Range(msgs') /\ Range(msgs) \subseteq Range(msgs') /\ (GiveUp(c) \in Range(msgs') => GiveUp(c) \in Range(msgs))
      BY <2>4, <2>5
  <2>7. OneAgrees(c, state, Range(list), inactive, timers', Range(msgs'), call, dsClient[c])
      BY <1>2, <2>6 DEF OneAgrees
  <2> QED BY <1>1, <2>5, <2>7 DEF OneInv
<1> QED BY <1>5, <1>6

(* The same after the data service reported the call. *)
LEMMA OneCall ==
    ASSUME AgpsDsAssumption, DsTypeOK, DsIds, NEW c, DsClients = {c}, OneInv(c), DataService \/ CallLost
    PROVE  OneInv(c)'
<1> PICK m \in {WasOpened, WasClosed} :
        /\ msgs' = Append(msgs, m) /\ call' = (IF m = WasOpened THEN "up" ELSE "down")
        /\ (m = WasOpened => call = "starting")
        /\ UNCHANGED <<state, list, inactive, retries, timers, atl, dsClient>>
    BY MsgsDiffer DEF DataService, CallOpened, CallFailed, CallStopped, CallLost, CallReported, WasOpened, WasClosed
<1>1. OneAgrees(c, state, Range(list), inactive, timers, Range(msgs), call, dsClient[c])
    BY DEF OneInv
<1>2. OpenedInv(msgs, call) /\ Once(msgs, GiveUp(c)) /\ msgs \in Seq(DsMessages)
    BY DEF OneInv, DsTypeOK
<1>3. m \in DsMessages
    BY DEF WasOpened, WasClosed, DsMessages
<1>4. m # GiveUp(c)
  <2>1. m.type # GiveUp(c).type
      BY MsgsDiffer
  <2> QED BY <2>1
<1>5. /\ Range(msgs') = Range(msgs) \cup {m} /\ Once(msgs', GiveUp(c))
      /\ (m = WasClosed => OpenedInv(msgs', call'))
  <2> PICK q : q = msgs
      OBVIOUS
  <2> PICK s : s = msgs'
      OBVIOUS
  <2>1. q \in Seq(DsMessages) /\ s = Append(q, m)
      BY <1>2
  <2>2. IsAdded(c, q, m, s)
      BY <1>3, <2>1, AddKeeps
  <2> QED BY <1>2, <1>4, <2>2 DEF IsAdded
<1>6. OpenedInv(msgs', call')
  <2>1. CASE m = WasOpened
      BY <2>1 DEF OpenedInv
  <2> QED BY <1>5, <2>1
<1>7. m \in Range(msgs') /\ Range(msgs) \subseteq Range(msgs') /\ (GiveUp(c) \in Range(msgs') => GiveUp(c) \in Range(msgs))
    BY <1>4, <1>5
<1>8. CASE m = WasOpened
  <2>1. call = "starting" /\ call' = "up"
      BY <1>8
  <2>2. OneAgrees(c, state, Range(list), inactive, timers, Range(msgs'), call', dsClient[c])
      BY <1>1, <1>7, <1>8, <2>1 DEF OneAgrees
  <2> QED BY <1>5, <1>6, <2>2 DEF OneInv
<1>9. CASE m = WasClosed
  <2>1. call' = "down"
      BY <1>9, MsgsDiffer
  <2>2. OneAgrees(c, state, Range(list), inactive, timers, Range(msgs'), call', dsClient[c])
      BY <1>1, <1>7, <1>9, <2>1 DEF OneAgrees
  <2> QED BY <1>5, <1>6, <2>2 DEF OneInv
<1> QED BY <1>8, <1>9

(* The same after a step of the client. *)
LEMMA OneClient ==
    ASSUME AgpsDsAssumption, DsTypeOK, DsIds, NEW c, DsClients = {c}, OneInv(c), Request(c) \/ Release(c)
    PROVE  OneInv(c)'
<1>1. OneAgrees(c, state, Range(list), inactive, timers, Range(msgs), call, dsClient[c])
    BY DEF OneInv
<1>2. OpenedInv(msgs, call) /\ Once(msgs, GiveUp(c)) /\ msgs \in Seq(DsMessages)
    BY DEF OneInv, DsTypeOK
<1> PICK m : m = IF Request(c) THEN AskEs(c) ELSE GiveUp(c)
    OBVIOUS
<1>3. msgs' = Append(msgs, m) /\ UNCHANGED <<state, list, inactive, retries, timers, atl, call>>
    BY DEF Request, Release, AskEs, GiveUp
<1>4. m \in DsMessages
    BY DEF AskEs, GiveUp, DsMsg, DsMessages, MsgTypes
<1>5. m # WasOpened
  <2>1. m.type # WasOpened.type
      BY MsgsDiffer
  <2> QED BY <2>1
<1>6. dsClient[c] \in {"idle", "asked", "open", "fallback"} /\ GiveUp(c) \notin Range(msgs)
  <2>1. dsClient[c] \in {"idle", "asked", "open", "fallback"}
      BY DEF Request, Release
  <2> QED BY <1>1, <2>1 DEF OneAgrees
<1>7. Range(msgs') = Range(msgs) \cup {m} /\ OpenedInv(msgs', call) /\ Once(msgs', GiveUp(c))
  <2> PICK q : q = msgs
      OBVIOUS
  <2> PICK s : s = msgs'
      OBVIOUS
  <2> PICK p : p = m
      OBVIOUS
  <2>1. q \in Seq(DsMessages) /\ p \in DsMessages /\ s = Append(q, p)
      BY <1>2, <1>3, <1>4
  <2>2. IsAdded(c, q, p, s)
      BY <2>1, AddKeeps
  <2> QED BY <1>2, <1>5, <1>6, <2>2 DEF IsAdded
<1>8. CASE Request(c)
  <2>1. dsClient'[c] = "asked" /\ c \notin inactive
      BY <1>8 DEF Request, HandleFree, DsTypeOK
  <2>2. state # "RELEASING"
      BY <1>1, <2>1 DEF OneAgrees
  <2>3. AskEs(c) \in Range(msgs') /\ Range(msgs) \subseteq Range(msgs') /\ GiveUp(c) \notin Range(msgs')
      BY <1>6, <1>7, <1>8, MsgsDiffer
  <2>4. OneAgrees(c, state, Range(list), inactive, timers, Range(msgs'), call, dsClient'[c])
      BY <1>1, <2>1, <2>2, <2>3 DEF OneAgrees
  <2> QED BY <1>3, <1>7, <2>4 DEF OneInv
<1>9. CASE Release(c)
  <2>1. dsClient'[c] = "closing" /\ dsClient[c] # "idle"
      BY <1>9 DEF Release, DsTypeOK
  <2>2. state # "RELEASING"
      BY <1>1, <2>1 DEF OneAgrees
  <2>3. Range(msgs) \subseteq Range(msgs')
      BY <1>7
  <2>4. OneAgrees(c, state, Range(list), inactive, timers, Range(msgs'), call, dsClient'[c])
      BY <1>1, <2>1, <2>2, <2>3 DEF OneAgrees
  <2> QED BY <1>3, <1>7, <2>4 DEF OneInv
<1> QED BY <1>8, <1>9

(* Nothing is queued and nobody asked at the start. *)
LEMMA DsStart ==
    ASSUME AgpsDsAssumption, DsInit
    PROVE  DsTypeOK /\ DsIds /\ Range(list) = {} /\ Range(msgs) = {}
<1> USE DEF DsInit
<1>1. DOMAIN << >> = {}
    OBVIOUS
<1>2. Range(list) = {} /\ Range(msgs) = {}
    BY <1>1, RangeIs
<1>3. list \in Seq(DsClients) /\ IsInjective(list) /\ msgs \in Seq(DsMessages)
    BY <1>1 DEF IsInjective
<1>4. DsIds
    BY <1>1 DEF DsIds
<1>5. retries \in 0 .. MaxRetries /\ timers \in Nat
    BY DEF AgpsDsAssumption
<1> QED BY <1>2, <1>3, <1>4, <1>5 DEF DsTypeOK, AgpsStates

(* The machine, its list without duplicates, the retry counter and the     *)
(* queue have their types, for any number of clients, through every order  *)
(* of calls, reports, retries and fallbacks of loc_eng_agps.cpp.           *)
THEOREM DsTypeCorrect == DsSpec => []DsTypeOK
<1>1. DsInit => DsTypeOK /\ DsIds
    BY AgpsDsAssumption, DsStart
<1>2. DsTypeOK /\ DsIds /\ [DsNext]_dsVars => DsTypeOK' /\ DsIds'
    BY AgpsDsAssumption, DsTypesStep
<1> QED BY <1>1, <1>2, PTL DEF DsSpec

(* With one client the emergency connection's machine, the client, the     *)
(* retry timers and the data service agree in every state: a request that  *)
(* is not answered is queued, falling back, listed, or to be retried, a    *)
(* PENDING machine has an answer to come, and ACQUIRED and RELEASING are   *)
(* backed by the call or by the report of its end.                         *)
THEOREM OneClientAgrees ==
    ASSUME NEW CONSTANT c, DsClients = {c}
    PROVE  DsSpec => []DsAgrees
<1>1. DsInit => DsTypeOK /\ DsIds /\ OneInv(c)
  <2> SUFFICES ASSUME DsInit PROVE DsTypeOK /\ DsIds /\ OneInv(c)
      OBVIOUS
  <2>1. DsTypeOK /\ DsIds /\ Range(list) = {} /\ Range(msgs) = {}
      BY AgpsDsAssumption, DsStart
  <2>2. state = "RELEASED" /\ inactive = {} /\ call = "down" /\ dsClient[c] = "idle" /\ DOMAIN msgs = {}
      BY DEF DsInit
  <2>3. OneAgrees(c, state, Range(list), inactive, timers, Range(msgs), call, dsClient[c])
      BY <2>1, <2>2 DEF OneAgrees
  <2>4. OpenedInv(msgs, call) /\ Once(msgs, GiveUp(c))
      BY <2>2 DEF OpenedInv, Once
  <2> QED BY <2>1, <2>3, <2>4 DEF OneInv
<1>2. (DsTypeOK /\ DsIds /\ OneInv(c)) /\ [DsNext]_dsVars => (DsTypeOK /\ DsIds /\ OneInv(c))'
  <2> SUFFICES ASSUME DsTypeOK, DsIds, OneInv(c), [DsNext]_dsVars PROVE (DsTypeOK /\ DsIds /\ OneInv(c))'
      OBVIOUS
  <2>1. DsTypeOK' /\ DsIds'
      BY AgpsDsAssumption, DsTypesStep
  <2>2. CASE LocEngRequestSuplEs
      BY <2>1, <2>2, AgpsDsAssumption, OneRequestSuplEs
  <2>3. CASE LocEngReleaseATL
      BY <2>1, <2>3, AgpsDsAssumption, OneReleaseATL
  <2>4. CASE LocEngRequestATL
      BY <2>1, <2>4, AgpsDsAssumption, OneRequestATL
  <2>5. CASE LocEngSuplEsOpened
      BY <2>1, <2>5, AgpsDsAssumption, OneSuplEsOpened
  <2>6. CASE LocEngSuplEsClosed
      BY <2>1, <2>6, AgpsDsAssumption, OneSuplEsClosed
  <2>7. CASE retryCallback
      BY <2>1, <2>7, AgpsDsAssumption, OneRetry
  <2>8. CASE DataService \/ CallLost
      BY <2>1, <2>8, AgpsDsAssumption, OneCall
  <2>9. CASE Request(c) \/ Release(c)
      BY <2>1, <2>9, AgpsDsAssumption, OneClient
  <2>10. CASE UNCHANGED dsVars
      BY <2>1, <2>10 DEF dsVars, OneInv
  <2>11. OneInv(c)'
    <3>1. CASE \E d \in DsClients : Request(d) \/ Release(d)
        BY <2>9, <3>1
    <3> QED BY <2>2, <2>3, <2>4, <2>5, <2>6, <2>7, <2>8, <2>10, <3>1 DEF DsNext, DsMsgThread
  <2> QED BY <2>1, <2>11
<1>3. DsTypeOK /\ DsIds /\ OneInv(c) => DsAgrees
  <2> SUFFICES ASSUME DsTypeOK, OneInv(c) PROVE DsAgrees
      OBVIOUS
  <2>1. OneAgrees(c, state, Range(list), inactive, timers, Range(msgs), call, dsClient[c])
      BY DEF OneInv
  <2>2. DsPendingIsAnswered
      BY <2>1 DEF OneAgrees, DsPendingIsAnswered, Queued, WasOpened, WasClosed
  <2>3. CallBacksState
      BY <2>1 DEF OneAgrees, CallBacksState, Queued, WasClosed
  <2>4. DsWaitingIsTracked
    <3>1. dsClient[c] = "asked" =>
              \/ Queued(DsMsg("RequestSuplEs", c)) \/ Queued(DsMsg("RequestATL", c))
              \/ c \in Range(list) /\ state \in {"PENDING", "RELEASING"}
              \/ c \in Range(list) /\ state = "RELEASED" /\ timers > 0
        BY <2>1 DEF OneAgrees, Queued, AskEs, AskAtl
    <3> QED BY <3>1 DEF DsWaitingIsTracked
  <2> QED BY <2>2, <2>3, <2>4 DEF DsAgrees
<1> QED BY <1>1, <1>2, <1>3, PTL DEF DsSpec
=============================================================================
