----------------------------- MODULE LocApiProofs ------------------------------
(***************************************************************************)
(* Proofs about LocApi, for any adapters, events and size of the table and *)
(* any number of messages that wait.                                       *)
(***************************************************************************)
EXTENDS LocApi, FiniteSetTheorems, WellFoundedInduction, TLAPS

\* A table t whose first n slots, and no others, hold the adapters of H, each
\* of them once.
Holds(t, n, H) ==
    /\ n \in 0 .. MAX_ADAPTERS
    /\ \A i \in Slots : t[i] # NoAdapter <=> i <= n
    /\ \A i, j \in 1 .. n : t[i] = t[j] => i = j
    /\ \A i \in 1 .. n : t[i] \in H
    /\ \A a \in H : \E i \in 1 .. n : t[i] = a

\* The adapters that were put in the table of a context and are alive.
Here(c) == {a \in Adapters : aHome[a] = c}

TablesInv ==
    \A c \in Contexts : \E n \in 0 .. MAX_ADAPTERS : Holds(aTable[c], n, Here(c))

ApiMsgs ==
    [kind : {"LocOpenMsg"}, api : Contexts, mask : SUBSET Events]
        \cup [kind : {"LocSsrMsg"}, api : Contexts]

\* A message that will register the event with the modem of the context.
Brings(m, c, e) ==
    m.api = c /\ (m.kind = "LocOpenMsg" => e \in m.mask)

\* An event that an adapter wants is registered, or a message that brings it
\* waits: what EventsAreRegistered leaves out is that messages wait.
PendingInv ==
    \A c \in Contexts \ aDown, a \in Adapters :
        aHome[a] = c /\ HasModem(c) =>
            \A e \in aMask[a] \ ExcludedMask(c) :
                e \in aOpened[c] \/ \E i \in 1 .. Len(aMsgs) : Brings(aMsgs[i], c, e)

\* The types that LocApiTypeOK leaves out; an adapter is in the table of a
\* context that exists.
LocApiMore ==
    /\ aMsgs \in Seq(ApiMsgs)
    /\ aOpened \in [Contexts -> SUBSET (Events \cup Closed)]
    /\ \A a \in Adapters : aHome[a] # NoContext => aApi[aHome[a]] # "none"

\* The inductive invariant.
LocApiIInv ==
    LocApiTypeOK /\ LocApiMore /\ TablesInv /\ PendingInv /\ OneInjectContext

-----------------------------------------------------------------------------
(* The table. *)

\* Every set of naturals that is not empty has a least member.
LEMMA MinIsThere ==
    ASSUME NEW S \in SUBSET Nat, S # {}
    PROVE  Min(S) \in S /\ \A y \in S : Min(S) <= y
<1> DEFINE R == OpToRel(<, Nat)
<1>1. PICK x \in S : \A y \in S : ~(<<y, x>> \in R)
    BY NatLessThanWellFounded, WFMin
<1>2. ASSUME NEW y \in S, y < x
      PROVE  <<y, x>> \in R
  <2>1. <<y, x>> \in Nat \X Nat /\ <<y, x>>[1] = y /\ <<y, x>>[2] = x
      OBVIOUS
  <2> QED BY <1>2, <2>1 DEF OpToRel
<1> HIDE DEF R
<1>3. ASSUME NEW y \in S
      PROVE  x <= y
  <2>1. ~(y < x)
      BY <1>1, <1>2
  <2>2. x \in Nat /\ y \in Nat
      OBVIOUS
  <2> QED BY <2>1, <2>2
<1> QED BY <1>3 DEF Min

\* The loops visit the slots in use.
LEMMA VisitedIs ==
    ASSUME NEW t, NEW n, NEW H, Holds(t, n, H)
    PROVE  Visited(t) = 1 .. n
BY LocApiAssumption DEF Holds, Visited, Slots

\* The first free slot is the one after those in use.
LEMMA FreeIs ==
    ASSUME NEW t, NEW n, NEW H, Holds(t, n, H)
    PROVE  LET free == {i \in Slots : t[i] = NoAdapter}
           IN  free # {} => n < MAX_ADAPTERS /\ Min(free) = n + 1
<1> DEFINE free == {i \in Slots : t[i] = NoAdapter}
<1> SUFFICES ASSUME free # {} PROVE n < MAX_ADAPTERS /\ Min(free) = n + 1
    OBVIOUS
<1>1. n \in Nat /\ MAX_ADAPTERS \in Nat /\ free = {i \in Slots : i > n}
    BY LocApiAssumption DEF Holds, Slots
<1>2. n < MAX_ADAPTERS /\ n + 1 \in free /\ \A i \in free : n + 1 <= i
    BY <1>1 DEF Slots
<1>3. \A i \in free : i \in Nat
    BY DEF Slots
<1> QED BY <1>1, <1>2, <1>3 DEF Min

\* The last slot in use is the greatest one that is visited.
LEMMA LastIs ==
    ASSUME NEW n \in Nat \ {0}
    PROVE  Max(1 .. n) = n
BY DEF Max

\* As many adapters are in the table as slots are in use.
LEMMA CountIs ==
    ASSUME NEW t, NEW n, NEW H, Holds(t, n, H)
    PROVE  Cardinality(H) = n
<1> DEFINE f == [i \in 1 .. n |-> t[i]]
<1>1. n \in Nat
    BY DEF Holds
<1>2. f \in [1 .. n -> H] /\ (\A i, j \in 1 .. n : f[i] = f[j] => i = j)
      /\ (\A a \in H : \E i \in 1 .. n : f[i] = a)
    BY DEF Holds
<1>3. f \in Bijection(1 .. n, H)
    BY <1>2 DEF Bijection, Injection, Surjection, IsInjective
<1>4. ExistsBijection(1 .. n, H)
    BY <1>3 DEF ExistsBijection
<1> QED BY <1>1, <1>4, FS_CountingElements

\* A new adapter takes the slot after those in use.
LEMMA AddHolds ==
    ASSUME NEW t \in [Slots -> Adapters \cup {NoAdapter}], NEW n, NEW H,
           Holds(t, n, H), n < MAX_ADAPTERS, NEW a \in Adapters, a \notin H
    PROVE  Holds([t EXCEPT ![n + 1] = a], n + 1, H \cup {a})
<1> DEFINE u == [t EXCEPT ![n + 1] = a]
<1>1. n \in Nat /\ MAX_ADAPTERS \in Nat /\ n + 1 \in 0 .. MAX_ADAPTERS /\ n + 1 \in Slots
    BY LocApiAssumption DEF Holds, Slots
<1>2. a # NoAdapter
    BY LocApiAssumption DEF NoAdapter
<1>3. u[n + 1] = a /\ \A i \in Slots : i # n + 1 => u[i] = t[i]
    BY <1>1
<1>4. \A i \in 1 .. n : i \in Slots /\ u[i] = t[i] /\ i # n + 1
    BY <1>1, <1>3 DEF Slots
<1>5. \A i \in 1 .. n + 1 : i = n + 1 \/ i \in 1 .. n
    BY <1>1
<1> HIDE DEF u
<1>6. \A i \in Slots : u[i] # NoAdapter <=> i <= n + 1
  <2> SUFFICES ASSUME NEW i \in Slots PROVE u[i] # NoAdapter <=> i <= n + 1
      OBVIOUS
  <2>1. i \in Nat /\ (t[i] # NoAdapter <=> i <= n)
      BY DEF Holds, Slots
  <2>2. CASE i = n + 1
      BY <1>1, <1>2, <1>3, <2>2
  <2>3. CASE i # n + 1
    <3>1. u[i] = t[i] /\ (i <= n <=> i <= n + 1)
        BY <1>1, <1>3, <2>1, <2>3
    <3> QED BY <2>1, <3>1
  <2> QED BY <2>2, <2>3
<1>7. \A i, j \in 1 .. n + 1 : u[i] = u[j] => i = j
    BY <1>3, <1>4, <1>5 DEF Holds
<1>8. \A i \in 1 .. n + 1 : u[i] \in H \cup {a}
    BY <1>3, <1>4, <1>5 DEF Holds
<1>9. \A b \in H \cup {a} : \E i \in 1 .. n + 1 : u[i] = b
  <2> SUFFICES ASSUME NEW b \in H \cup {a} PROVE \E i \in 1 .. n + 1 : u[i] = b
      OBVIOUS
  <2>1. 1 .. n \subseteq 1 .. n + 1 /\ n + 1 \in 1 .. n + 1
      BY <1>1
  <2>2. CASE b = a
      BY <1>3, <2>1, <2>2
  <2>3. CASE b \in H
    <3>1. PICK i \in 1 .. n : t[i] = b
        BY <2>3 DEF Holds
    <3> QED BY <1>4, <2>1, <3>1
  <2> QED BY <2>2, <2>3
<1> QED BY <1>1, <1>6, <1>7, <1>8, <1>9 DEF Holds, u

\* A removed adapter leaves no hole.
LEMMA RemoveHolds ==
    ASSUME NEW t \in [Slots -> Adapters \cup {NoAdapter}], NEW n, NEW H,
           Holds(t, n, H), NEW j \in Visited(t)
    PROVE  /\ Removed(t, j) \in [Slots -> Adapters \cup {NoAdapter}]
           /\ Holds(Removed(t, j), n - 1, H \ {t[j]})
           /\ n > 0
<1> DEFINE u == Removed(t, j)
<1>1. n \in Nat /\ MAX_ADAPTERS \in Nat /\ n <= MAX_ADAPTERS
    BY LocApiAssumption DEF Holds
<1>2. j \in 1 .. n /\ n > 0 /\ n \in Slots /\ j \in Slots
    BY <1>1, VisitedIs DEF Slots
<1>3. Max(Visited(t)) = n
    BY <1>1, <1>2, VisitedIs, LastIs
<1>4. u = [t EXCEPT ![j] = t[n], ![n] = NoAdapter]
    BY <1>3 DEF Removed
<1>5. u \in [Slots -> Adapters \cup {NoAdapter}]
    BY <1>2, <1>4
<1>6. u[n] = NoAdapter /\ (j # n => u[j] = t[n]) /\ \A i \in Slots : i # n /\ i # j => u[i] = t[i]
    BY <1>2, <1>4
<1> HIDE DEF u
<1>7. n - 1 \in 0 .. MAX_ADAPTERS /\ n - 1 \in Nat
      /\ \A i \in 1 .. n - 1 : i \in 1 .. n /\ i # n /\ i \in Slots
    BY <1>1, <1>2 DEF Slots
<1>8. \A i \in 1 .. n : i = n \/ i \in 1 .. n - 1
    BY <1>1
<1>9. \A i \in Slots : u[i] # NoAdapter <=> i <= n - 1
  <2> SUFFICES ASSUME NEW i \in Slots PROVE u[i] # NoAdapter <=> i <= n - 1
      OBVIOUS
  <2>1. i \in Nat /\ (t[i] # NoAdapter <=> i <= n) /\ t[n] # NoAdapter
      BY <1>1, <1>2 DEF Holds, Slots
  <2>2. CASE i = n
    <3>1. ~(i <= n - 1)
        BY <1>1, <2>2
    <3> QED BY <1>6, <2>2, <3>1
  <2>3. CASE i # n /\ i = j
    <3>1. i <= n - 1
        BY <1>1, <1>2, <2>3
    <3> QED BY <1>6, <2>1, <2>3, <3>1
  <2>4. CASE i # n /\ i # j
    <3>1. i <= n <=> i <= n - 1
        BY <1>1, <2>1, <2>4
    <3> QED BY <1>6, <2>1, <2>4, <3>1
  <2> QED BY <2>2, <2>3, <2>4
<1>10. \A i \in 1 .. n - 1 : u[i] = (IF i = j THEN t[n] ELSE t[i])
    BY <1>6, <1>7
<1>11. n \in 1 .. n
    BY <1>1, <1>2
<1>12. \A x, y \in 1 .. n : t[x] = t[y] => x = y
    BY DEF Holds
<1>13. \A i, k \in 1 .. n - 1 : u[i] = u[k] => i = k
    BY <1>7, <1>10, <1>11, <1>12
<1>14. \A i \in 1 .. n - 1 : u[i] \in H \ {t[j]}
    BY <1>2, <1>7, <1>10, <1>11, <1>12 DEF Holds
<1>15. \A b \in H \ {t[j]} : \E i \in 1 .. n - 1 : u[i] = b
  <2> SUFFICES ASSUME NEW b \in H \ {t[j]} PROVE \E i \in 1 .. n - 1 : u[i] = b
      OBVIOUS
  <2>1. PICK k \in 1 .. n : t[k] = b
      BY DEF Holds
  <2>2. k # j
      BY <2>1
  <2>3. CASE k = n
    <3>1. j \in 1 .. n - 1
        BY <1>2, <1>8, <2>2, <2>3
    <3> QED BY <1>10, <2>1, <2>3, <3>1
  <2>4. CASE k # n
    <3>1. k \in 1 .. n - 1
        BY <1>8, <2>4
    <3> QED BY <1>10, <2>1, <2>2, <3>1
  <2> QED BY <2>3, <2>4
<1> QED BY <1>2, <1>5, <1>7, <1>9, <1>13, <1>14, <1>15 DEF Holds, u

-----------------------------------------------------------------------------
(* The steps. *)

\* A step that leaves the tables and the homes alone.
LEMMA SameTables ==
    ASSUME TablesInv, UNCHANGED <<aTable, aHome>>
    PROVE  TablesInv'
BY DEF TablesInv, Here

\* A step that changes the table of one context.
LEMMA OneTable ==
    ASSUME TablesInv, NEW c \in Contexts, NEW n, Holds(aTable'[c], n, Here(c)'),
           \A d \in Contexts \ {c} : aTable'[d] = aTable[d] /\ Here(d)' = Here(d)
    PROVE  TablesInv'
<1> SUFFICES ASSUME NEW d \in Contexts
             PROVE  \E k \in 0 .. MAX_ADAPTERS : Holds(aTable'[d], k, Here(d)')
    BY DEF TablesInv
<1>1. CASE d = c
    BY <1>1 DEF Holds
<1>2. CASE d # c
    BY <1>2 DEF TablesInv
<1> QED BY <1>1, <1>2

\* What is sent waits behind what waited.
LEMMA SentWaits ==
    ASSUME LocApiIInv, NEW m, sendMsg(m), NEW c, NEW e,
           \/ Brings(m, c, e)
           \/ \E i \in 1 .. Len(aMsgs) : Brings(aMsgs[i], c, e)
    PROVE  \E i \in 1 .. Len(aMsgs') : Brings(aMsgs'[i], c, e)
<1>1. aMsgs \in Seq(ApiMsgs)
    BY DEF LocApiIInv, LocApiMore
<1>2. /\ Len(aMsgs') = Len(aMsgs) + 1 /\ Len(aMsgs) \in Nat
      /\ aMsgs'[Len(aMsgs) + 1] = m
      /\ \A i \in 1 .. Len(aMsgs) : aMsgs'[i] = aMsgs[i]
    BY <1>1 DEF sendMsg
<1>3. Len(aMsgs) + 1 \in 1 .. Len(aMsgs') /\ 1 .. Len(aMsgs) \subseteq 1 .. Len(aMsgs')
    BY <1>2
<1> QED BY <1>2, <1>3

\* What is sent keeps the queue well-formed.
LEMMA SentTypes ==
    ASSUME LocApiIInv, NEW m \in ApiMsgs, sendMsg(m)
    PROVE  aMsgs' \in Seq(ApiMsgs) /\ Len(aMsgs') <= MaxMsgs
BY LocApiAssumption DEF LocApiIInv, LocApiMore, sendMsg

(* The messages that are sent are messages, and what they bring. *)
LEMMA MsgsAre ==
    /\ \A c \in Contexts, k \in SUBSET Events : OpenMsg(c, k) \in ApiMsgs
    /\ \A c \in Contexts : [kind |-> "LocSsrMsg", api |-> c] \in ApiMsgs
    /\ \A c, e, k : e \in k => Brings(OpenMsg(c, k), c, e)
    /\ \A c, e : Brings([kind |-> "LocSsrMsg", api |-> c], c, e)
BY DEF ApiMsgs, OpenMsg, Brings

\* The mask of a context is of events, and has those of its adapters.
LEMMA MaskIs ==
    ASSUME NEW t \in [Slots -> Adapters \cup {NoAdapter}], NEW n, NEW H \in SUBSET Adapters,
           Holds(t, n, H), NEW mask \in [Adapters -> SUBSET Events], NEW c
    PROVE  /\ getEvtMask(t, mask, c) \in SUBSET Events
           /\ \A a \in H : mask[a] \ ExcludedMask(c) \subseteq getEvtMask(t, mask, c)
<1>1. Visited(t) = 1 .. n
    BY VisitedIs
<1>2. \A i \in 1 .. n : t[i] \in H
    BY DEF Holds
<1>3. \A a \in H : \E i \in 1 .. n : t[i] = a
    BY DEF Holds
<1> DEFINE all == UNION {mask[t[i]] : i \in Visited(t)}
<1>4. getEvtMask(t, mask, c) = all \ ExcludedMask(c)
    BY DEF getEvtMask
<1>5. all \subseteq Events
  <2>1. \A i \in 1 .. n : mask[t[i]] \subseteq Events
      BY <1>2
  <2> QED BY <1>1, <2>1
<1>6. \A a \in H : mask[a] \subseteq all
    BY <1>1, <1>3
<1> QED BY <1>4, <1>5, <1>6

(* Types of a table and of what it holds. *)
LEMMA TableTypes ==
    ASSUME LocApiIInv, NEW c \in Contexts
    PROVE  /\ aTable[c] \in [Slots -> Adapters \cup {NoAdapter}]
           /\ Here(c) \in SUBSET Adapters
           /\ aMask \in [Adapters -> SUBSET Events]
           /\ \E n \in 0 .. MAX_ADAPTERS : Holds(aTable[c], n, Here(c))
BY DEF LocApiIInv, LocApiTypeOK, TablesInv, Here

\* NULL is no context.
LEMMA ContextNames == NoContext \notin Contexts
BY DEF NoContext, Contexts

(* The invariant holds at the start. *)
LEMMA LocApiInitOK == LocApiInit => LocApiIInv
<1> SUFFICES ASSUME LocApiInit PROVE LocApiIInv
    OBVIOUS
<1> USE LocApiAssumption DEF LocApiInit
<1>1. LocApiTypeOK
  <2>1. aTable \in [Contexts -> [Slots -> Adapters \cup {NoAdapter}]]
      OBVIOUS
  <2>2. Len(aMsgs) <= MaxMsgs
      OBVIOUS
  <2> QED BY <2>1, <2>2 DEF LocApiTypeOK
<1>2. LocApiMore
    BY DEF LocApiMore
<1>3. TablesInv
  <2> SUFFICES ASSUME NEW c \in Contexts PROVE Holds(aTable[c], 0, Here(c))
      BY DEF TablesInv
  <2>1. Here(c) = {}
      BY ContextNames DEF Here
  <2>2. \A i \in Slots : aTable[c][i] = NoAdapter /\ ~(i <= 0)
      BY DEF Slots
  <2>3. 0 \in 0 .. MAX_ADAPTERS /\ 1 .. 0 = {}
      OBVIOUS
  <2> QED BY <2>1, <2>2, <2>3 DEF Holds
<1>4. PendingInv
    BY DEF PendingInv
<1>5. OneInjectContext
    BY DEF OneInjectContext
<1> QED BY <1>1, <1>2, <1>3, <1>4, <1>5 DEF LocApiIInv

(* Some API is always made. *)
LEMMA createLocApiIs ==
    ASSUME NEW p
    PROVE  createLocApi(p) \in {"none", "base", "lbs", "v02", "rpc"} \ {"none"}
BY DEF createLocApi

(* A context is made with its API. *)
LEMMA getLocContextStep ==
    ASSUME LocApiIInv, NEW c \in Contexts, getLocContext(c)
    PROVE  LocApiIInv'
<1>1. /\ aApi[c] = "none" /\ aApi' \in [Contexts -> {"none", "base", "lbs", "v02", "rpc"}]
      /\ \A d \in Contexts : d # c => aApi'[d] = aApi[d]
      /\ aApi'[c] # "none"
  <2>1. PICK p \in Platforms : aApi' = [aApi EXCEPT ![c] = createLocApi(p)]
      BY DEF getLocContext
  <2> QED BY <2>1, createLocApiIs DEF getLocContext, LocApiIInv, LocApiTypeOK
<1>2. UNCHANGED <<aTable, aMask, aHome, aMsgs, aOpened, aDown>>
    BY DEF getLocContext
<1>3. LocApiTypeOK'
  <2>1. {aInject', aInjected'} \subseteq Contexts \cup {NoContext}
      BY DEF getLocContext, LocApiIInv, LocApiTypeOK
  <2> QED BY <1>1, <1>2, <2>1 DEF LocApiIInv, LocApiTypeOK
<1>4. LocApiMore'
    BY <1>1, <1>2, ContextNames DEF LocApiIInv, LocApiMore, LocApiTypeOK
<1>5. TablesInv'
    BY <1>2, SameTables DEF LocApiIInv
<1>6. PendingInv'
  <2>1. ASSUME NEW d \in Contexts, NEW a \in Adapters, aHome[a] = d
        PROVE  d # c /\ (HasModem(d)' <=> HasModem(d))
    <3>1. aApi[d] # "none"
        BY <2>1, ContextNames DEF LocApiIInv, LocApiMore
    <3> QED BY <1>1, <3>1 DEF HasModem
  <2> QED BY <1>2, <2>1 DEF PendingInv, LocApiIInv
<1>7. OneInjectContext'
    BY DEF getLocContext, LocApiIInv, OneInjectContext
<1> QED BY <1>3, <1>4, <1>5, <1>6, <1>7 DEF LocApiIInv

(* An adapter takes the first free slot, and its events are asked for. *)
LEMMA addAdapterStep ==
    ASSUME LocApiIInv, NEW c \in Contexts, NEW a \in Adapters, addAdapter(c, a)
    PROVE  LocApiIInv'
<1> DEFINE free == {i \in Slots : aTable[c][i] = NoAdapter}
<1>1. /\ aApi[c] # "none" /\ aHome[a] = NoContext
      /\ aMask' = [aMask EXCEPT ![a] = EvtMask[a]]
      /\ UNCHANGED <<aContext, aOpened>>
      /\ free = {} => UNCHANGED <<aTable, aHome, aMsgs>>
      /\ free # {} => /\ aTable' = [aTable EXCEPT ![c][Min(free)] = a]
                      /\ aHome' = [aHome EXCEPT ![a] = c]
                      /\ sendMsg(OpenMsg(c, EvtMask[a]))
    BY DEF addAdapter
<1> HIDE DEF free
<1>2. EvtMask[a] \in SUBSET Events /\ aMask' \in [Adapters -> SUBSET Events]
      /\ \A b \in Adapters \ {a} : aMask'[b] = aMask[b]
    BY <1>1, LocApiAssumption DEF LocApiIInv, LocApiTypeOK
<1>3. UNCHANGED <<aApi, aInject, aInjected, aDown, aOpened>>
    BY <1>1 DEF aContext
<1>4. OneInjectContext'
    BY <1>3 DEF LocApiIInv, OneInjectContext
<1>5. CASE free = {}
  <2>1. UNCHANGED <<aTable, aHome, aMsgs>>
      BY <1>1, <1>5
  <2>2. TablesInv'
      BY <2>1, SameTables DEF LocApiIInv
  <2>3. PendingInv'
      BY <1>1, <1>2, <1>3, <2>1, ContextNames DEF LocApiIInv, PendingInv, HasModem
  <2>4. LocApiTypeOK' /\ LocApiMore'
      BY <1>2, <1>3, <2>1 DEF LocApiIInv, LocApiTypeOK, LocApiMore
  <2> QED BY <1>4, <2>2, <2>3, <2>4 DEF LocApiIInv
<1>6. CASE free # {}
  <2>1. PICK n \in 0 .. MAX_ADAPTERS : Holds(aTable[c], n, Here(c))
      BY TableTypes
  <2>2. n < MAX_ADAPTERS /\ Min(free) = n + 1 /\ n + 1 \in Slots
    <3>1. n < MAX_ADAPTERS /\ Min(free) = n + 1
        BY <1>6, <2>1, FreeIs DEF free
    <3> QED BY <3>1, LocApiAssumption DEF Slots
  <2>3. a \notin Here(c)
      BY <1>1, ContextNames DEF Here
  <2>4. aTable[c] \in [Slots -> Adapters \cup {NoAdapter}]
      BY TableTypes
  <2>5. /\ aTable' \in [Contexts -> [Slots -> Adapters \cup {NoAdapter}]]
        /\ aTable'[c] = [aTable[c] EXCEPT ![n + 1] = a]
        /\ \A d \in Contexts \ {c} : aTable'[d] = aTable[d]
    <3>1. aTable \in [Contexts -> [Slots -> Adapters \cup {NoAdapter}]]
        BY DEF LocApiIInv, LocApiTypeOK
    <3>2. aTable' = [aTable EXCEPT ![c] = [aTable[c] EXCEPT ![n + 1] = a]]
        BY <1>1, <1>6, <2>2
    <3>3. [aTable[c] EXCEPT ![n + 1] = a] \in [Slots -> Adapters \cup {NoAdapter}]
        BY <2>2, <2>4
    <3> QED BY <3>1, <3>2, <3>3
  <2>6. /\ aHome' \in [Adapters -> Contexts \cup {NoContext}]
        /\ aHome'[a] = c /\ \A b \in Adapters \ {a} : aHome'[b] = aHome[b]
      BY <1>1, <1>6 DEF LocApiIInv, LocApiTypeOK
  <2>7. Here(c)' = Here(c) \cup {a} /\ \A d \in Contexts \ {c} : Here(d)' = Here(d)
      BY <1>1, <2>6, ContextNames DEF Here
  <2>8. TablesInv'
    <3>1. Holds(aTable'[c], n + 1, Here(c)')
      <4>1. Holds([aTable[c] EXCEPT ![n + 1] = a], n + 1, Here(c) \cup {a})
          BY <2>1, <2>2, <2>3, <2>4, AddHolds
      <4> QED BY <2>5, <2>7, <4>1
    <3> QED BY <2>5, <2>7, <3>1, OneTable DEF LocApiIInv
  <2>9. aMsgs' \in Seq(ApiMsgs) /\ Len(aMsgs') <= MaxMsgs
      BY <1>1, <1>2, <1>6, MsgsAre, SentTypes
  <2>10. LocApiTypeOK' /\ LocApiMore'
      BY <1>1, <1>2, <1>3, <2>5, <2>6, <2>9 DEF LocApiIInv, LocApiTypeOK, LocApiMore
  <2>11. PendingInv'
    <3> SUFFICES ASSUME NEW d \in Contexts \ aDown, NEW b \in Adapters, aHome'[b] = d, HasModem(d),
                        NEW e \in aMask'[b] \ ExcludedMask(d), e \notin aOpened[d]
                 PROVE  \E i \in 1 .. Len(aMsgs') : Brings(aMsgs'[i], d, e)
        BY <1>3 DEF PendingInv, HasModem
    <3>1. CASE b = a
      <4>1. d = c /\ e \in EvtMask[a]
          BY <1>1, <1>2, <2>6, <3>1 DEF LocApiIInv, LocApiTypeOK
      <4> QED BY <1>1, <1>6, <4>1, MsgsAre, SentWaits
    <3>2. CASE b # a
      <4>1. \E i \in 1 .. Len(aMsgs) : Brings(aMsgs[i], d, e)
          BY <1>2, <2>6, <3>2 DEF LocApiIInv, PendingInv
      <4> QED BY <1>1, <1>6, <4>1, SentWaits
    <3> QED BY <3>1, <3>2
  <2> QED BY <1>4, <2>8, <2>10, <2>11 DEF LocApiIInv
<1> QED BY <1>5, <1>6

(* An adapter leaves and the last one moves to its slot. *)
LEMMA removeAdapterStep ==
    ASSUME LocApiIInv, NEW a \in Adapters, removeAdapter(a)
    PROVE  LocApiIInv'
<1>1. PICK c \in Contexts : c = aHome[a]
    BY DEF removeAdapter, LocApiIInv, LocApiTypeOK
<1>2. /\ aHome' = [aHome EXCEPT ![a] = NoContext]
      /\ aMask' = [aMask EXCEPT ![a] = {}]
      /\ UNCHANGED <<aApi, aInject, aInjected, aDown>>
      /\ aTable'[c][1] = NoAdapter =>
            aOpened' = [aOpened EXCEPT ![c] = Closed] /\ UNCHANGED aMsgs
      /\ aTable'[c][1] # NoAdapter =>
            sendMsg(OpenMsg(c, getEvtMask(aTable'[c], aMask, c))) /\ UNCHANGED aOpened
    BY <1>1 DEF removeAdapter, aContext
<1>3. PICK j \in Visited(aTable[c]) :
          aTable[c][j] = a /\ aTable' = [aTable EXCEPT ![c] = Removed(aTable[c], j)]
    BY <1>1 DEF removeAdapter
<1>4. PICK n \in 0 .. MAX_ADAPTERS : Holds(aTable[c], n, Here(c))
    BY <1>1, TableTypes
<1>5. aTable[c] \in [Slots -> Adapters \cup {NoAdapter}] /\ aMask \in [Adapters -> SUBSET Events]
      /\ aTable \in [Contexts -> [Slots -> Adapters \cup {NoAdapter}]]
    BY <1>1, TableTypes DEF LocApiIInv, LocApiTypeOK
<1>6. /\ Removed(aTable[c], j) \in [Slots -> Adapters \cup {NoAdapter}]
      /\ Holds(Removed(aTable[c], j), n - 1, Here(c) \ {a}) /\ n > 0
    BY <1>3, <1>4, <1>5, RemoveHolds
<1>7. /\ aTable' \in [Contexts -> [Slots -> Adapters \cup {NoAdapter}]]
      /\ aTable'[c] = Removed(aTable[c], j)
      /\ \A d \in Contexts \ {c} : aTable'[d] = aTable[d]
    BY <1>1, <1>3, <1>5, <1>6
<1>8. /\ aHome' \in [Adapters -> Contexts \cup {NoContext}]
      /\ aHome'[a] = NoContext /\ aHome[a] = c
      /\ \A b \in Adapters \ {a} : aHome'[b] = aHome[b]
    BY <1>1, <1>2 DEF LocApiIInv, LocApiTypeOK
<1>9. Here(c)' = Here(c) \ {a} /\ \A d \in Contexts \ {c} : Here(d)' = Here(d)
    BY <1>1, <1>8, ContextNames DEF Here
<1>10. Holds(aTable'[c], n - 1, Here(c)')
    BY <1>6, <1>7, <1>9
<1>11. TablesInv'
    BY <1>1, <1>7, <1>9, <1>10, OneTable DEF LocApiIInv
<1>12. aMask' \in [Adapters -> SUBSET Events] /\ aMask'[a] = {}
       /\ \A b \in Adapters \ {a} : aMask'[b] = aMask[b]
    BY <1>2, <1>5
<1>13. OneInjectContext'
    BY <1>2 DEF LocApiIInv, OneInjectContext
<1>14. \A b \in Adapters : aHome'[b] # NoContext => aApi'[aHome'[b]] # "none"
    BY <1>2, <1>8 DEF LocApiIInv, LocApiMore
<1>15. CASE aTable'[c][1] = NoAdapter
  <2>1. Here(c)' = {}
    <3>1. n - 1 \in Nat /\ 1 \in Slots /\ (aTable'[c][1] # NoAdapter <=> 1 <= n - 1)
        BY <1>10, LocApiAssumption DEF Holds, Slots
    <3>2. 1 .. (n - 1) = {}
        BY <1>15, <3>1
    <3> QED BY <1>10, <3>2 DEF Holds
  <2>2. /\ aOpened' \in [Contexts -> SUBSET (Events \cup Closed)]
        /\ aOpened'[c] = Closed /\ \A d \in Contexts \ {c} : aOpened'[d] = aOpened[d]
        /\ UNCHANGED aMsgs
      BY <1>1, <1>2, <1>15 DEF LocApiIInv, LocApiMore
  <2>3. LocApiTypeOK'
      BY <1>2, <1>7, <1>8, <1>12, <2>2 DEF LocApiIInv, LocApiTypeOK
  <2>4. LocApiMore'
      BY <1>14, <2>2 DEF LocApiIInv, LocApiMore
  <2>5. PendingInv'
    <3> SUFFICES ASSUME NEW d \in Contexts \ aDown, NEW b \in Adapters, aHome'[b] = d, HasModem(d),
                        NEW e \in aMask'[b] \ ExcludedMask(d), e \notin aOpened'[d]
                 PROVE  \E i \in 1 .. Len(aMsgs) : Brings(aMsgs[i], d, e)
        BY <1>2, <2>2 DEF PendingInv, HasModem
    <3>1. d # c /\ b # a
        BY <1>8, <2>1, ContextNames DEF Here
    <3> QED BY <1>8, <1>12, <2>2, <3>1 DEF LocApiIInv, PendingInv
  <2> QED BY <1>11, <1>13, <2>3, <2>4, <2>5 DEF LocApiIInv
<1>16. CASE aTable'[c][1] # NoAdapter
  <2>1. getEvtMask(aTable'[c], aMask, c) \in SUBSET Events
    <3>1. Here(c)' \in SUBSET Adapters
        BY DEF Here
    <3> QED BY <1>5, <1>6, <1>7, <1>10, <3>1, MaskIs
  <2>2. sendMsg(OpenMsg(c, getEvtMask(aTable'[c], aMask, c))) /\ UNCHANGED aOpened
      BY <1>2, <1>16
  <2>3. aMsgs' \in Seq(ApiMsgs) /\ Len(aMsgs') <= MaxMsgs
      BY <1>1, <2>1, <2>2, MsgsAre, SentTypes
  <2>4. LocApiTypeOK'
      BY <1>2, <1>7, <1>8, <1>12, <2>2, <2>3 DEF LocApiIInv, LocApiTypeOK
  <2>5. LocApiMore'
      BY <1>14, <2>2, <2>3 DEF LocApiIInv, LocApiMore
  <2>6. PendingInv'
    <3> SUFFICES ASSUME NEW d \in Contexts \ aDown, NEW b \in Adapters, aHome'[b] = d, HasModem(d),
                        NEW e \in aMask'[b] \ ExcludedMask(d), e \notin aOpened[d]
                 PROVE  \E i \in 1 .. Len(aMsgs') : Brings(aMsgs'[i], d, e)
        BY <1>2, <2>2 DEF PendingInv, HasModem
    <3>1. b # a
        BY <1>8, ContextNames
    <3>2. \E i \in 1 .. Len(aMsgs) : Brings(aMsgs[i], d, e)
        BY <1>8, <1>12, <3>1 DEF LocApiIInv, PendingInv
    <3> QED BY <2>2, <3>2, SentWaits
  <2> QED BY <1>11, <1>13, <2>4, <2>5, <2>6 DEF LocApiIInv
<1> QED BY <1>15, <1>16

(* An adapter changes its mask. *)
LEMMA updateEvtMaskStep ==
    ASSUME LocApiIInv, NEW a \in Adapters, NEW event \in Toggled, updateEvtMask(a, event)
    PROVE  LocApiIInv'
<1>1. PICK c \in Contexts : c = aHome[a]
    BY DEF updateEvtMask, LocApiIInv, LocApiTypeOK
<1>2. /\ sendMsg(OpenMsg(c, getEvtMask(aTable[c], aMask', c)))
      /\ UNCHANGED <<aApi, aInject, aInjected, aDown, aTable, aHome, aOpened>>
    BY <1>1 DEF updateEvtMask, aContext
<1>3. aMask' \in [Adapters -> SUBSET Events] /\ \A b \in Adapters \ {a} : aMask'[b] = aMask[b]
  <2>1. event \in Events /\ aMask \in [Adapters -> SUBSET Events]
      BY LocApiAssumption DEF LocApiIInv, LocApiTypeOK
  <2> QED BY <2>1 DEF updateEvtMask
<1>4. a \in Here(c)
    BY <1>1 DEF Here
<1>5. PICK n \in 0 .. MAX_ADAPTERS : Holds(aTable[c], n, Here(c))
    BY <1>1, TableTypes
<1>6. /\ getEvtMask(aTable[c], aMask', c) \in SUBSET Events
      /\ \A b \in Here(c) : aMask'[b] \ ExcludedMask(c) \subseteq getEvtMask(aTable[c], aMask', c)
    BY <1>1, <1>3, <1>5, TableTypes, MaskIs
<1>7. aMsgs' \in Seq(ApiMsgs) /\ Len(aMsgs') <= MaxMsgs
    BY <1>1, <1>2, <1>6, MsgsAre, SentTypes
<1>8. LocApiTypeOK' /\ LocApiMore' /\ OneInjectContext'
    BY <1>2, <1>3, <1>7 DEF LocApiIInv, LocApiTypeOK, LocApiMore, OneInjectContext
<1>9. TablesInv'
    BY <1>2, SameTables DEF LocApiIInv
<1>10. PendingInv'
  <2> SUFFICES ASSUME NEW d \in Contexts \ aDown, NEW b \in Adapters, aHome[b] = d, HasModem(d),
                      NEW e \in aMask'[b] \ ExcludedMask(d), e \notin aOpened[d]
               PROVE  \E i \in 1 .. Len(aMsgs') : Brings(aMsgs'[i], d, e)
      BY <1>2 DEF PendingInv, HasModem
  <2>1. CASE d = c
    <3>1. e \in getEvtMask(aTable[c], aMask', c)
        BY <1>6, <2>1 DEF Here
    <3>2. Brings(OpenMsg(c, getEvtMask(aTable[c], aMask', c)), d, e)
        BY <2>1, <3>1, MsgsAre
    <3> QED BY <1>2, <3>2, SentWaits
  <2>2. CASE d # c
    <3>1. b # a
        BY <1>1, <2>2
    <3>2. \E i \in 1 .. Len(aMsgs) : Brings(aMsgs[i], d, e)
        BY <1>3, <3>1 DEF LocApiIInv, PendingInv
    <3> QED BY <1>2, <3>2, SentWaits
  <2> QED BY <2>1, <2>2
<1> QED BY <1>8, <1>9, <1>10 DEF LocApiIInv

\* An open of a modem that runs adds the mask.
LEMMA openIs ==
    ASSUME LocApiIInv, NEW o \in [Contexts -> SUBSET (Events \cup Closed)], NEW c \in Contexts,
           \A d \in Contexts : o[d] = Closed \/ o[d] \subseteq Events,
           NEW mask \in SUBSET Events
    PROVE  /\ open(o, c, mask) \in [Contexts -> SUBSET (Events \cup Closed)]
           /\ \A d \in Contexts : open(o, c, mask)[d] = Closed \/ open(o, c, mask)[d] \subseteq Events
           /\ \A d \in Contexts : \A e \in Events : e \in o[d] => e \in open(o, c, mask)[d]
           /\ HasModem(c) /\ c \notin aDown =>
                 mask \ ExcludedMask(c) \subseteq open(o, c, mask)[c]
<1>1. \A e \in Events : e \notin Closed
    BY LocApiAssumption DEF Closed
<1>2. CASE aApi[c] = "base" \/ c \in aDown
    BY <1>2 DEF open, HasModem
<1>3. CASE ~(aApi[c] = "base" \/ c \in aDown)
  <2> DEFINE v == (o[c] \ Closed) \cup (mask \ ExcludedMask(c))
  <2>1. open(o, c, mask) = [o EXCEPT ![c] = v]
      BY <1>3 DEF open
  <2>2. v \subseteq Events /\ \A e \in Events : e \in o[c] => e \in v
      BY <1>1 DEF Closed
  <2>3. mask \ ExcludedMask(c) \subseteq v
      OBVIOUS
  <2> HIDE DEF v
  <2>4. /\ [o EXCEPT ![c] = v][c] = v
        /\ \A d \in Contexts \ {c} : [o EXCEPT ![c] = v][d] = o[d]
        /\ [o EXCEPT ![c] = v] \in [Contexts -> SUBSET (Events \cup Closed)]
      BY <2>2
  <2> QED BY <2>1, <2>2, <2>3, <2>4
<1> QED BY <1>2, <1>3

(* The message thread opens, closes or opens again. *)
LEMMA MsgProcStep ==
    ASSUME LocApiIInv, MsgProc
    PROVE  LocApiIInv'
<1> DEFINE m == Head(aMsgs)
           msgs == Tail(aMsgs)
<1>1. /\ aMsgs # <<>> /\ aMsgs' = msgs
      /\ m.kind = "LocOpenMsg" => aOpened' = open(aOpened, m.api, m.mask)
      /\ m.kind # "LocOpenMsg" =>
            aOpened' = open([aOpened EXCEPT ![m.api] = Closed], m.api,
                            getEvtMask(aTable[m.api], aMask, m.api))
      /\ UNCHANGED <<aApi, aInject, aInjected, aDown, aTable, aMask, aHome>>
    BY DEF MsgProc, aContext
<1>2. /\ aMsgs \in Seq(ApiMsgs) /\ m = aMsgs[1] /\ m \in ApiMsgs
      /\ msgs \in Seq(ApiMsgs) /\ Len(msgs) = Len(aMsgs) - 1 /\ Len(aMsgs) \in Nat
      /\ \A i \in 1 .. Len(msgs) : msgs[i] = aMsgs[i + 1]
    BY <1>1 DEF LocApiIInv, LocApiMore
<1>3. m.api \in Contexts /\ (m.kind = "LocOpenMsg" => m.mask \in SUBSET Events)
    BY <1>2 DEF ApiMsgs
<1>4. aOpened \in [Contexts -> SUBSET (Events \cup Closed)]
      /\ \A d \in Contexts : aOpened[d] = Closed \/ aOpened[d] \subseteq Events
    BY DEF LocApiIInv, LocApiMore, LocApiTypeOK
\* An event that only the handled message brought.
<1>5. ASSUME NEW c, NEW e, \E i \in 1 .. Len(aMsgs) : Brings(aMsgs[i], c, e), ~Brings(m, c, e)
      PROVE  \E i \in 1 .. Len(msgs) : Brings(msgs[i], c, e)
  <2>1. PICK i \in 1 .. Len(aMsgs) : Brings(aMsgs[i], c, e)
      BY <1>5
  <2>2. i # 1
      BY <1>2, <1>5, <2>1
  <2>3. i - 1 \in 1 .. Len(msgs) /\ (i - 1) + 1 = i
      BY <1>2, <2>2
  <2> QED BY <1>2, <2>1, <2>3
<1> HIDE DEF m, msgs
<1>6. ASSUME NEW c \in Contexts
      PROVE  getEvtMask(aTable[c], aMask, c) \in SUBSET Events
             /\ \A a \in Here(c) : aMask[a] \ ExcludedMask(c) \subseteq getEvtMask(aTable[c], aMask, c)
    BY TableTypes, MaskIs
<1>7. PICK o, mask : /\ aOpened' = open(o, m.api, mask) /\ mask \in SUBSET Events
                     /\ o \in [Contexts -> SUBSET (Events \cup Closed)]
                     /\ \A d \in Contexts : o[d] = Closed \/ o[d] \subseteq Events
                     /\ \A d \in Contexts : d # m.api => o[d] = aOpened[d]
                     /\ m.kind = "LocOpenMsg" => o = aOpened /\ mask = m.mask
                     /\ m.kind # "LocOpenMsg" => mask = getEvtMask(aTable[m.api], aMask, m.api)
  <2>1. CASE m.kind = "LocOpenMsg"
      BY <1>1, <1>3, <1>4, <2>1
  <2>2. CASE m.kind # "LocOpenMsg"
    <3> DEFINE o == [aOpened EXCEPT ![m.api] = Closed]
    <3>1. /\ o \in [Contexts -> SUBSET (Events \cup Closed)]
          /\ \A d \in Contexts : o[d] = Closed \/ o[d] \subseteq Events
          /\ \A d \in Contexts : d # m.api => o[d] = aOpened[d]
        BY <1>3, <1>4
    <3> HIDE DEF o
    <3>2. aOpened' = open(o, m.api, getEvtMask(aTable[m.api], aMask, m.api))
        BY <1>1, <2>2 DEF o
    <3> QED BY <1>3, <1>6, <2>2, <3>1, <3>2
  <2> QED BY <2>1, <2>2
<1>8. /\ aOpened' \in [Contexts -> SUBSET (Events \cup Closed)]
      /\ \A d \in Contexts : aOpened'[d] = Closed \/ aOpened'[d] \subseteq Events
      /\ \A d \in Contexts : \A e \in Events : e \in o[d] => e \in aOpened'[d]
      /\ HasModem(m.api) /\ m.api \notin aDown =>
             mask \ ExcludedMask(m.api) \subseteq aOpened'[m.api]
    BY <1>3, <1>7, openIs
<1>9. LocApiTypeOK' /\ LocApiMore' /\ OneInjectContext'
  <2>1. Len(aMsgs') <= MaxMsgs
      BY <1>1, <1>2, LocApiAssumption DEF LocApiIInv, LocApiTypeOK
  <2> QED BY <1>1, <1>2, <1>8, <2>1 DEF LocApiIInv, LocApiTypeOK, LocApiMore, OneInjectContext
<1>10. TablesInv'
    BY <1>1, SameTables DEF LocApiIInv
<1>11. PendingInv'
  <2> SUFFICES ASSUME NEW d \in Contexts \ aDown, NEW a \in Adapters, aHome[a] = d, HasModem(d),
                      NEW e \in aMask[a] \ ExcludedMask(d), e \notin aOpened'[d]
               PROVE  \E i \in 1 .. Len(msgs) : Brings(msgs[i], d, e)
      BY <1>1 DEF PendingInv, HasModem
  <2>1. e \in Events
      BY DEF LocApiIInv, LocApiTypeOK
  <2>2. ~Brings(m, d, e)
    <3> SUFFICES ASSUME Brings(m, d, e) PROVE e \in aOpened'[d]
        OBVIOUS
    <3>1. m.api = d
        BY DEF Brings
    <3>2. e \in mask
      <4>1. CASE m.kind = "LocOpenMsg"
          BY <1>7, <4>1 DEF Brings
      <4>2. CASE m.kind # "LocOpenMsg"
          BY <1>6, <1>7, <3>1, <4>2 DEF Here
      <4> QED BY <4>1, <4>2
    <3> QED BY <1>8, <3>1, <3>2
  <2>3. e \in aOpened[d] => e \in o[d]
    <3>1. CASE m.api # d
        BY <1>7, <3>1
    <3>2. CASE m.api = d
        BY <1>7, <2>2, <3>2 DEF Brings
    <3> QED BY <3>1, <3>2
  <2>4. \E i \in 1 .. Len(aMsgs) : Brings(aMsgs[i], d, e)
      BY <1>8, <2>1, <2>3 DEF LocApiIInv, PendingInv
  <2> QED BY <1>5, <2>2, <2>4
<1> QED BY <1>9, <1>10, <1>11 DEF LocApiIInv

(* The modem is back. *)
LEMMA handleEngineUpEventStep ==
    ASSUME LocApiIInv, NEW c \in Contexts, handleEngineUpEvent(c)
    PROVE  LocApiIInv'
<1>1. /\ aDown' = aDown \ {c}
      /\ sendMsg([kind |-> "LocSsrMsg", api |-> c])
      /\ aInjected' = IF c = aInject THEN c ELSE aInjected
      /\ UNCHANGED <<aApi, aInject, aTable, aMask, aHome, aOpened>>
    BY DEF handleEngineUpEvent, injectFeatureConfig
<1>2. aMsgs' \in Seq(ApiMsgs) /\ Len(aMsgs') <= MaxMsgs
    BY <1>1, MsgsAre, SentTypes
<1>3. LocApiTypeOK'
    BY <1>1, <1>2 DEF LocApiIInv, LocApiTypeOK
<1>4. LocApiMore' /\ OneInjectContext'
    BY <1>1, <1>2 DEF LocApiIInv, LocApiMore, OneInjectContext
<1>5. TablesInv'
    BY <1>1, SameTables DEF LocApiIInv
<1>6. PendingInv'
  <2> SUFFICES ASSUME NEW d \in Contexts, d = c \/ d \notin aDown, NEW a \in Adapters, aHome[a] = d,
                      HasModem(d), NEW e \in aMask[a] \ ExcludedMask(d), e \notin aOpened[d]
               PROVE  \E i \in 1 .. Len(aMsgs') : Brings(aMsgs'[i], d, e)
      BY <1>1 DEF PendingInv, HasModem
  <2>1. CASE d = c
      BY <1>1, <2>1, MsgsAre, SentWaits
  <2>2. CASE d # c
    <3>1. \E i \in 1 .. Len(aMsgs) : Brings(aMsgs[i], d, e)
        BY <2>2 DEF LocApiIInv, PendingInv
    <3> QED BY <1>1, <3>1, SentWaits
  <2> QED BY <2>1, <2>2
<1> QED BY <1>3, <1>4, <1>5, <1>6 DEF LocApiIInv

(* The modem is gone. *)
LEMMA handleEngineDownEventStep ==
    ASSUME LocApiIInv, NEW c \in Contexts, handleEngineDownEvent(c)
    PROVE  LocApiIInv'
<1>1. /\ aDown' = aDown \cup {c}
      /\ aOpened' = [aOpened EXCEPT ![c] = Closed]
      /\ UNCHANGED <<aApi, aInject, aInjected, aTable, aMask, aHome, aMsgs>>
    BY DEF handleEngineDownEvent
<1>2. /\ aOpened' \in [Contexts -> SUBSET (Events \cup Closed)]
      /\ aOpened'[c] = Closed /\ \A d \in Contexts \ {c} : aOpened'[d] = aOpened[d]
    BY <1>1 DEF LocApiIInv, LocApiMore
<1>3. LocApiTypeOK'
    BY <1>1, <1>2 DEF LocApiIInv, LocApiTypeOK
<1>4. LocApiMore' /\ OneInjectContext'
    BY <1>1, <1>2 DEF LocApiIInv, LocApiMore, OneInjectContext
<1>5. TablesInv'
    BY <1>1, SameTables DEF LocApiIInv
<1>6. PendingInv'
    BY <1>1, <1>2 DEF LocApiIInv, PendingInv, HasModem
<1> QED BY <1>3, <1>4, <1>5, <1>6 DEF LocApiIInv

(* What changes nothing of the tables, masks and messages. *)
LEMMA SameLocApi ==
    ASSUME LocApiIInv,
           UNCHANGED <<aApi, aInject, aInjected, aTable, aMask, aHome, aMsgs, aOpened, aDown>>
    PROVE  LocApiIInv'
<1>1. LocApiTypeOK' /\ LocApiMore' /\ OneInjectContext'
    BY DEF LocApiIInv, LocApiTypeOK, LocApiMore, OneInjectContext
<1>2. TablesInv'
    BY SameTables DEF LocApiIInv
<1>3. PendingInv'
    BY DEF LocApiIInv, PendingInv, HasModem
<1> QED BY <1>1, <1>2, <1>3 DEF LocApiIInv

(* No step breaks the invariant. *)
LEMMA LocApiStep ==
    LocApiIInv /\ [LocApiNext]_aVars => LocApiIInv'
<1> SUFFICES ASSUME LocApiIInv, [LocApiNext]_aVars PROVE LocApiIInv'
    OBVIOUS
<1>1. CASE MsgProc
    BY <1>1, MsgProcStep
<1>2. ASSUME NEW c \in Contexts, getLocContext(c) PROVE LocApiIInv'
    BY <1>2, getLocContextStep
<1>3. ASSUME NEW c \in Contexts, NEW a \in Adapters, addAdapter(c, a) PROVE LocApiIInv'
    BY <1>3, addAdapterStep
<1>4. ASSUME NEW c \in Contexts, handleEngineUpEvent(c) PROVE LocApiIInv'
    BY <1>4, handleEngineUpEventStep
<1>5. ASSUME NEW c \in Contexts, handleEngineDownEvent(c) PROVE LocApiIInv'
    BY <1>5, handleEngineDownEventStep
<1>6. ASSUME NEW c \in Contexts, report(c) PROVE LocApiIInv'
    BY <1>6, SameLocApi DEF report, aContext
<1>7. ASSUME NEW c \in Contexts, NEW r \in ApiRequests, request(c, r) PROVE LocApiIInv'
    BY <1>7, SameLocApi DEF request, aContext
<1>8. ASSUME NEW a \in Adapters, removeAdapter(a) PROVE LocApiIInv'
    BY <1>8, removeAdapterStep
<1>9. ASSUME NEW a \in Adapters, NEW e \in Toggled, updateEvtMask(a, e) PROVE LocApiIInv'
    BY <1>9, updateEvtMaskStep
<1>10. CASE UNCHANGED aVars
    BY <1>10, SameLocApi DEF aVars
<1> QED BY <1>1, <1>2, <1>3, <1>4, <1>5, <1>6, <1>7, <1>8, <1>9, <1>10 DEF LocApiNext

-----------------------------------------------------------------------------
\* However adapters come and go and modems restart, the table of a context holds
\* its living adapters before the first free slot, the modem reports every
\* event an adapter wants once no message waits, and features go through the
\* context that was made first (addAdapter, removeAdapter, updateEvtMask,
\* LocOpenMsg, LocSsrMsg, injectFeatureConfig).
THEOREM AdaptersAreAlwaysServed == LocApiSpec => []AdaptersAreServed
<1>1. LocApiIInv => AdaptersAreServed
  <2> SUFFICES ASSUME LocApiIInv PROVE AdaptersAreServed
      OBVIOUS
  <2>1. TableIsDense
    <3> SUFFICES ASSUME NEW c \in Contexts
                 PROVE  /\ {aTable[c][i] : i \in Visited(aTable[c])} = Here(c)
                        /\ {i \in Slots : aTable[c][i] # NoAdapter} = 1 .. Cardinality(Here(c))
        BY DEF TableIsDense, Here
    <3>1. PICK n \in 0 .. MAX_ADAPTERS : Holds(aTable[c], n, Here(c))
        BY TableTypes
    <3>2. Visited(aTable[c]) = 1 .. n /\ Cardinality(Here(c)) = n
        BY <3>1, VisitedIs, CountIs
    <3>3. {aTable[c][i] : i \in 1 .. n} = Here(c)
        BY <3>1 DEF Holds
    <3>4. {i \in Slots : aTable[c][i] # NoAdapter} = 1 .. n
        BY <3>1, LocApiAssumption DEF Holds, Slots
    <3> QED BY <3>2, <3>3, <3>4
  <2>2. EventsAreRegistered
    <3> SUFFICES ASSUME aMsgs = <<>>, NEW c \in Contexts \ aDown, NEW a \in Adapters,
                        aHome[a] = c, HasModem(c), NEW e \in aMask[a] \ ExcludedMask(c)
                 PROVE  e \in aOpened[c]
        BY DEF EventsAreRegistered
    <3>1. 1 .. Len(aMsgs) = {}
        OBVIOUS
    <3> QED BY <3>1 DEF LocApiIInv, PendingInv
  <2> QED BY <2>1, <2>2 DEF LocApiIInv, AdaptersAreServed
<1> QED BY <1>1, LocApiInitOK, LocApiStep, PTL DEF LocApiSpec

\* TO_ALL_LOCADAPTERS visits every living adapter of the context, once.
LEMMA AllAreTold ==
    ASSUME LocApiIInv, NEW c \in Contexts
    PROVE  /\ TO_ALL(c) \in Seq(Adapters)
           /\ IsInjective(TO_ALL(c)) /\ ToSet(TO_ALL(c)) = Here(c)
<1>1. PICK n \in 0 .. MAX_ADAPTERS : Holds(aTable[c], n, Here(c))
    BY TableTypes
<1>2. Visited(aTable[c]) = 1 .. n /\ Cardinality(1 .. n) = n
    BY <1>1, VisitedIs, FS_Interval
<1>3. TO_ALL(c) = SubSeq(aTable[c], 1, n)
    BY <1>2 DEF TO_ALL
<1>4. aTable[c] \in Seq(Adapters \cup {NoAdapter}) /\ Len(aTable[c]) = MAX_ADAPTERS
    BY TableTypes, LocApiAssumption DEF Slots
<1>5. /\ TO_ALL(c) \in Seq(Adapters \cup {NoAdapter}) /\ Len(TO_ALL(c)) = n
      /\ \A i \in 1 .. n : TO_ALL(c)[i] = aTable[c][i]
    BY <1>3, <1>4, LocApiAssumption
<1>6. DOMAIN TO_ALL(c) = 1 .. n
    BY <1>5
<1>7. \A i \in 1 .. n : aTable[c][i] \in Adapters
    BY <1>1 DEF Holds, Here
<1>8. TO_ALL(c) \in Seq(Adapters)
    BY <1>5, <1>7
<1>9. IsInjective(TO_ALL(c))
    BY <1>1, <1>5, <1>6 DEF IsInjective, Holds
<1>10. ToSet(TO_ALL(c)) = Here(c)
    BY <1>1, <1>5, <1>6 DEF ToSet, Holds
<1> QED BY <1>8, <1>9, <1>10

\* TO_1ST_HANDLING_LOCADAPTERS stops at the first adapter that takes the
\* request, and reaches it.
LEMMA OneTakes ==
    ASSUME LocApiIInv, NEW c \in Contexts, NEW r
    PROVE  LET to == TO_1ST_HANDLING(c, r) IN
           /\ IsInjective(to)
           /\ \A i \in DOMAIN to : r \in Takes[to[i]] => i = Len(to)
           /\ (\E a \in Here(c) : r \in Takes[a]) => \E i \in DOMAIN to : r \in Takes[to[i]]
<1> DEFINE all == TO_ALL(c)
           takers == {i \in DOMAIN all : r \in Takes[all[i]]}
           to == TO_1ST_HANDLING(c, r)
<1> SUFFICES /\ IsInjective(to)
             /\ \A i \in DOMAIN to : r \in Takes[to[i]] => i = Len(to)
             /\ (\E a \in Here(c) : r \in Takes[a]) => \E i \in DOMAIN to : r \in Takes[to[i]]
    OBVIOUS
<1>1. /\ all \in Seq(Adapters)
      /\ \A i, j \in DOMAIN all : all[i] = all[j] => i = j
      /\ \A a \in Here(c) : \E i \in DOMAIN all : all[i] = a
    BY AllAreTold DEF IsInjective, ToSet
<1>2. (takers = {} => to = all) /\ (takers # {} => to = SubSeq(all, 1, Min(takers)))
    BY DEF TO_1ST_HANDLING
<1> HIDE DEF all, to
<1>3. CASE takers = {}
    BY <1>1, <1>2, <1>3 DEF IsInjective
<1>4. CASE takers # {}
  <2> DEFINE m == Min(takers)
  <2>1. m \in takers /\ \A i \in takers : m <= i
    <3>1. takers \in SUBSET Nat
        BY <1>1
    <3> QED BY <1>4, <3>1, MinIsThere
  <2>2. m \in 1 .. Len(all) /\ Len(all) \in Nat /\ DOMAIN all = 1 .. Len(all)
    <3>1. Len(all) \in Nat /\ DOMAIN all = 1 .. Len(all)
        BY <1>1
    <3> QED BY <2>1, <3>1
  <2>3. r \in Takes[all[m]]
      BY <2>1
  <2>4. \A i \in DOMAIN all : r \in Takes[all[i]] => m <= i
      BY <2>1
  <2>5. to = SubSeq(all, 1, m)
      BY <1>2, <1>4
  <2> HIDE DEF m, takers
  <2>6. /\ DOMAIN to = 1 .. m /\ Len(to) = m
        /\ \A i \in 1 .. m : to[i] = all[i] /\ i \in DOMAIN all /\ i <= m /\ i \in Nat
      BY <1>1, <2>2, <2>5
  <2>7. IsInjective(to)
      BY <1>1, <2>6 DEF IsInjective
  <2>8. ASSUME NEW i \in DOMAIN to, r \in Takes[to[i]] PROVE i = Len(to)
    <3>1. m <= i /\ i <= m /\ i \in Nat
        BY <2>4, <2>6, <2>8
    <3> QED BY <2>2, <2>6, <3>1
  <2>9. m \in DOMAIN to /\ r \in Takes[to[m]]
      BY <2>2, <2>3, <2>6
  <2> QED BY <2>7, <2>8, <2>9
<1> QED BY <1>3, <1>4

\* What RightAdaptersAreTold says of one step.
ToldRight ==
    LET here == {a \in Adapters : aHome[a] = aTold'.by}
        to == aTold'.to
        Took(i) == aTold'.what \in Takes[to[i]]
    IN  aTold' # Nothing =>
          /\ IsInjective(to)
          /\ aTold'.what = "report" => ToSet(to) = here
          /\ aTold'.what # "report" =>
               /\ \A i \in DOMAIN to : Took(i) => i = Len(to)
               /\ (\E a \in here : aTold'.what \in Takes[a]) => \E i \in DOMAIN to : Took(i)

\* A report reaches every living adapter of its context once, and a request is
\* taken by the first adapter that takes it and by no other, whatever adapters
\* came and went before (TO_ALL_LOCADAPTERS, TO_1ST_HANDLING_LOCADAPTERS).
THEOREM TheRightAdaptersAreTold == LocApiSpec => RightAdaptersAreTold
<1>1. ASSUME LocApiIInv, NEW c \in Contexts,
             aTold' = [what |-> "report", by |-> c, to |-> TO_ALL(c)]
      PROVE  ToldRight
  <2>1. aTold'.what = "report" /\ aTold'.by = c /\ aTold'.to = TO_ALL(c)
      BY <1>1
  <2>2. IsInjective(TO_ALL(c)) /\ ToSet(TO_ALL(c)) = {a \in Adapters : aHome[a] = c}
      BY <1>1, AllAreTold DEF Here
  <2> QED BY <2>1, <2>2 DEF ToldRight
<1>2. ASSUME LocApiIInv, NEW c \in Contexts, NEW r \in ApiRequests,
             aTold' = [what |-> r, by |-> c, to |-> TO_1ST_HANDLING(c, r)]
      PROVE  ToldRight
  <2> DEFINE to == TO_1ST_HANDLING(c, r)
  <2>1. aTold'.what = r /\ aTold'.by = c /\ aTold'.to = to /\ r # "report"
      BY <1>2, LocApiAssumption
  <2>2. /\ IsInjective(to)
        /\ \A i \in DOMAIN to : r \in Takes[to[i]] => i = Len(to)
        /\ (\E a \in Here(c) : r \in Takes[a]) => \E i \in DOMAIN to : r \in Takes[to[i]]
      BY <1>2, OneTakes
  <2> HIDE DEF to
  <2> QED BY <2>1, <2>2 DEF ToldRight, Here
<1>3. aTold' = Nothing => ToldRight
    BY DEF ToldRight
<1>4. LocApiIInv /\ [LocApiNext]_aVars => [ToldRight]_aVars
  <2> SUFFICES ASSUME LocApiIInv, LocApiNext PROVE ToldRight
      OBVIOUS
  <2>1. CASE MsgProc
      BY <1>3, <2>1 DEF MsgProc
  <2>2. ASSUME NEW c \in Contexts, getLocContext(c) PROVE ToldRight
      BY <1>3, <2>2 DEF getLocContext
  <2>3. ASSUME NEW c \in Contexts, NEW a \in Adapters, addAdapter(c, a) PROVE ToldRight
      BY <1>3, <2>3 DEF addAdapter
  <2>4. ASSUME NEW c \in Contexts, handleEngineUpEvent(c) PROVE ToldRight
      BY <1>1, <2>4 DEF handleEngineUpEvent
  <2>5. ASSUME NEW c \in Contexts, handleEngineDownEvent(c) PROVE ToldRight
      BY <1>1, <2>5 DEF handleEngineDownEvent
  <2>6. ASSUME NEW c \in Contexts, report(c) PROVE ToldRight
      BY <1>1, <2>6 DEF report
  <2>7. ASSUME NEW c \in Contexts, NEW r \in ApiRequests, request(c, r) PROVE ToldRight
      BY <1>2, <2>7 DEF request
  <2>8. ASSUME NEW a \in Adapters, removeAdapter(a) PROVE ToldRight
      BY <1>3, <2>8 DEF removeAdapter
  <2>9. ASSUME NEW a \in Adapters, NEW e \in Toggled, updateEvtMask(a, e) PROVE ToldRight
      BY <1>3, <2>9 DEF updateEvtMask
  <2> QED BY <2>1, <2>2, <2>3, <2>4, <2>5, <2>6, <2>7, <2>8, <2>9 DEF LocApiNext
<1> QED BY <1>4, LocApiInitOK, LocApiStep, PTL DEF LocApiSpec, RightAdaptersAreTold, ToldRight
=============================================================================
