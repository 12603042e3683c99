--------------------------- MODULE CameraMetadata ---------------------------
(***************************************************************************)
(* CameraMetadata: objects that own a buffer of entries, lend it out under *)
(* a lock, give it away, take one over, and make it larger when needed.    *)
(* The buffers and what is done to one of them are the library's           *)
(* (camera_metadata.h).  A tag is known with its type; data that fits into *)
(* the entry takes no room of its own.                                     *)
(***************************************************************************)
EXTENDS Integers, Sequences, SequencesExt, FiniteSetsExt

CONSTANTS Metas,       \* the CameraMetadata objects
          NumBuffers,  \* buffers alive at a time
          MaxMetaCalls

ASSUME MetaAssumption == NumBuffers \in Nat /\ MaxMetaCalls \in Nat

VARIABLES mObj,    \* each object's mBuffer, 0 for null, and mLocked
          mMem,    \* the buffers: alive, entries, room for entries and for data
          mRaw,    \* the buffers the client holds after release
          mLent,   \* what getAndLock has lent: the pointer and what it pointed to
          mLost,   \* buffers nobody can free any more
          mRes,    \* the result of the last update
          mCalls

mVars == <<mObj, mMem, mRaw, mLent, mLost, mRes, mCalls>>

MetaTags == {1, 2}  \* the second has data outside of its entry
MetaVals == {1, 2}
Outside(tag, val) == IF tag = 1 THEN 0 ELSE val
Bytes(ents) == FoldLeft(LAMBDA n, e : n + Outside(e.tag, e.val), 0, ents)

Dead == [alive |-> FALSE, ents |-> <<>>, ecap |-> 0, dcap |-> 0]
Buffer(ents, ecap, dcap) == [alive |-> TRUE, ents |-> ents, ecap |-> ecap, dcap |-> dcap]
NotLent == [buf |-> 0, was |-> Dead]
NoUpdate == [o |-> 0, tag |-> 0, val |-> 0, res |-> "none"]

CameraMetadataInit ==
    /\ mObj = [o \in Metas |-> [buf |-> 0, locked |-> FALSE]]
    /\ mMem = [b \in 1 .. NumBuffers |-> Dead]
    /\ mRaw = {} /\ mLent = [o \in Metas |-> NotLent] /\ mLost = {}
    /\ mRes = NoUpdate /\ mCalls = 0

-----------------------------------------------------------------------------
Buf(o) == mObj[o].buf
Locked(o) == mObj[o].locked

(* malloc: an address that is free is used again at once. *)
FreeBuffers == {b \in DOMAIN mMem : ~mMem[b].alive}
Fresh == Min(FreeBuffers)

MetaCall == mCalls < MaxMetaCalls /\ mCalls' = mCalls + 1
OnlyBuffers == UNCHANGED <<mRaw, mLent>> /\ mRes' = NoUpdate

(* The memory without o's buffer: the part of clear() that frees it. *)
Cleared(o, mem) == IF Buf(o) = 0 THEN mem ELSE [mem EXCEPT ![Buf(o)] = Dead]
Holds(o, b) == mObj' = [mObj EXCEPT ![o].buf = b]

(* Pointers the client can have: of an object, its own, null. *)
Pointers == {Buf(o) : o \in Metas} \cup mRaw \cup {0}

clear(o) ==
    /\ MetaCall /\ OnlyBuffers /\ UNCHANGED mLost
    /\ IF Locked(o) THEN UNCHANGED <<mObj, mMem>> ELSE mMem' = Cleared(o, mMem) /\ Holds(o, 0)

(* operator=: the copy is made before the own buffer is freed.  Out of     *)
(* memory, clone_camera_metadata returns null.                             *)
assign(o, p, ok) ==
    /\ MetaCall /\ OnlyBuffers /\ UNCHANGED mLost
    /\ ok => FreeBuffers # {}
    /\ IF Locked(o) \/ p = Buf(o) THEN UNCHANGED <<mObj, mMem>>
       ELSE IF p = 0 \/ ~ok THEN mMem' = Cleared(o, mMem) /\ Holds(o, 0)
       ELSE LET ents == mMem[p].ents
            IN  /\ mMem' = Cleared(o, [mMem EXCEPT ![Fresh] = Buffer(ents, Len(ents), Bytes(ents))])
                /\ Holds(o, Fresh)

(* The destructor; the object is made again at once. *)
destroy(o) ==
    /\ MetaCall /\ UNCHANGED <<mRaw, mLost>> /\ mRes' = NoUpdate
    /\ mMem' = Cleared(o, mMem)
    /\ mObj' = [mObj EXCEPT ![o] = [buf |-> 0, locked |-> FALSE]]
    /\ mLent' = [mLent EXCEPT ![o] = NotLent]

getAndLock(o) ==
    /\ MetaCall /\ UNCHANGED <<mMem, mRaw, mLost>> /\ mRes' = NoUpdate
    /\ mObj' = [mObj EXCEPT ![o].locked = TRUE]
    /\ mLent' = [mLent EXCEPT ![o] = [buf |-> Buf(o), was |-> IF Buf(o) = 0 THEN Dead ELSE mMem[Buf(o)]]]

(* Mutant: any pointer unlocks. *)
AnyUnlocks(o, p) == Locked(o)

Unlocks(o, p) == Locked(o) /\ p = Buf(o)

unlock(o, p) ==
    /\ MetaCall /\ UNCHANGED <<mMem, mRaw, mLost>> /\ mRes' = NoUpdate
    /\ mObj' = [mObj EXCEPT ![o].locked = Locked(o) /\ ~Unlocks(o, p)]
    /\ mLent' = IF Locked(o) /\ p = mLent[o].buf THEN [mLent EXCEPT ![o] = NotLent] ELSE mLent

(* Mutant: the buffer that was given away is kept, too. *)
KeepReleased(o) == UNCHANGED mObj

GiveAway(o) == Holds(o, 0)

release(o) ==
    /\ MetaCall /\ UNCHANGED <<mMem, mLent, mLost>> /\ mRes' = NoUpdate
    /\ IF Locked(o) THEN UNCHANGED <<mObj, mRaw>> ELSE mRaw' = mRaw \cup ({Buf(o)} \ {0}) /\ GiveAway(o)

(* acquire of a buffer: a locked object does not take it, and as it does   *)
(* not say so either, the buffer is lost.                                  *)
acquireBuffer(o, p) ==
    /\ p \in mRaw
    /\ MetaCall /\ UNCHANGED mLent /\ mRes' = NoUpdate
    /\ mRaw' = mRaw \ {p}
    /\ IF Locked(o) THEN mLost' = mLost \cup {p} /\ UNCHANGED <<mObj, mMem>>
       ELSE mMem' = Cleared(o, mMem) /\ Holds(o, p) /\ UNCHANGED mLost

(* acquire of another object's buffer: a locked one gives null. *)
acquire(o, other) ==
    /\ MetaCall /\ OnlyBuffers /\ UNCHANGED mLost
    /\ IF Locked(o) THEN UNCHANGED <<mObj, mMem>>
       ELSE IF Locked(other) THEN mMem' = Cleared(o, mMem) /\ Holds(o, 0)
       ELSE /\ mMem' = IF o = other THEN mMem ELSE Cleared(o, mMem)
            /\ mObj' = [[mObj EXCEPT ![other].buf = 0] EXCEPT ![o].buf = Buf(other)]

(* Mutant: the other's lock is not looked at. *)
OwnLock(o, other) == ~Locked(o)

BothUnlocked(o, other) == ~Locked(o) /\ ~Locked(other)

swap(o, other) ==
    /\ MetaCall /\ OnlyBuffers /\ UNCHANGED <<mMem, mLost>>
    /\ mObj' = IF BothUnlocked(o, other)
               THEN [mObj EXCEPT ![o].buf = Buf(other), ![other].buf = Buf(o)] ELSE mObj

-----------------------------------------------------------------------------
(* resizeIfNeeded.  Grown is the room that is asked for. *)

(* Mutant: room for what is there, without what comes. *)
GrownShort(count, extra, cap) == IF count > cap THEN count * 2 ELSE cap

Grown(count, extra, cap) == IF count + extra > cap THEN (count + extra) * 2 ELSE cap

(* The buffer o has afterwards, its content, the memory, and the buffer    *)
(* that is lost, because mBuffer is overwritten by the null of a failed    *)
(* allocation.                                                             *)
resizeIfNeeded(o, extraEntries, extraData, ok) ==
    LET b == mMem[Buf(o)]
        ecap == Grown(Len(b.ents), extraEntries, b.ecap)
        dcap == Grown(Bytes(b.ents), extraData, b.dcap)
        kept == [buf |-> Buf(o), mem |-> mMem, lost |-> {}]
        none(lost) == [buf |-> 0, mem |-> mMem, lost |-> lost]
        made(mem, new) == [buf |-> Fresh, mem |-> [mem EXCEPT ![Fresh] = new], lost |-> {}]
    IN  IF Buf(o) = 0
        THEN IF ok THEN made(mMem, Buffer(<<>>, extraEntries * 2, extraData * 2)) ELSE none({})
        ELSE IF ecap <= b.ecap /\ dcap <= b.dcap THEN kept
        ELSE IF ok THEN made(Cleared(o, mMem), Buffer(b.ents, ecap, dcap)) ELSE none({Buf(o)})

(* add_camera_metadata_entry, append_camera_metadata and                   *)
(* update_camera_metadata_entry fail when there is no room.                *)
Fits(b, ents) == Len(ents) <= b.ecap /\ Bytes(ents) <= b.dcap

Replaced(mem, buf, ents) == [mem EXCEPT ![buf].ents = ents]

(* append: what resizeIfNeeded returns is not looked at.  Nobody appends   *)
(* an object to itself, which would read the buffer after a resize freed   *)
(* it, or appends null.                                                    *)
append(o, p, ok) ==
    /\ p \notin {0, Buf(o)}
    /\ MetaCall /\ UNCHANGED <<mRaw, mLent>>
    /\ ok => FreeBuffers # {}
    /\ IF Locked(o) THEN UNCHANGED <<mObj, mMem, mLost>> /\ mRes' = NoUpdate
       ELSE LET r == resizeIfNeeded(o, Len(mMem[p].ents), Bytes(mMem[p].ents), ok)
                ents == r.mem[r.buf].ents \o mMem[p].ents
            IN  /\ Holds(o, r.buf) /\ mLost' = mLost \cup r.lost
                /\ IF r.buf = 0 THEN mMem' = r.mem /\ mRes' = NoUpdate
                   ELSE IF Fits(r.mem[r.buf], ents) THEN mMem' = Replaced(r.mem, r.buf, ents) /\ mRes' = NoUpdate
                   ELSE mMem' = r.mem /\ mRes' = [NoUpdate EXCEPT !.res = "no room"]

(* find_camera_metadata_entry: the first entry of the tag, 0 for none.     *)
Find(ents, tag) == SelectInSeq(ents, LAMBDA e : e.tag = tag)

MetaEntry(tag, val) == [tag |-> tag, val |-> val]

(* The front of update, for each type: the lock and checkType. *)
MayUpdate(o, typed) == ~Locked(o) /\ typed

(* update and updateImpl: typed says that checkType agrees, own that the   *)
(* data lies in the buffer that is updated.                                *)
update(o, tag, val, typed, own, ok) ==
    /\ MetaCall /\ UNCHANGED <<mRaw, mLent>>
    /\ own => Buf(o) # 0
    /\ ok => FreeBuffers # {}
    /\ LET r == resizeIfNeeded(o, 1, Outside(tag, val), ok)
           done(res) == mRes' = [o |-> o, tag |-> tag, val |-> val, res |-> res]
           b == r.mem[r.buf]
           at == Find(b.ents, tag)
           ents == IF at = 0 THEN Append(b.ents, MetaEntry(tag, val)) ELSE [b.ents EXCEPT ![at] = MetaEntry(tag, val)]
       IN  IF ~MayUpdate(o, typed) \/ own THEN done("invalid") /\ UNCHANGED <<mObj, mMem, mLost>>
           ELSE /\ Holds(o, r.buf) /\ mLost' = mLost \cup r.lost
                /\ IF r.buf = 0 THEN mMem' = r.mem /\ done("no memory")
                   ELSE IF Fits(b, ents) THEN mMem' = Replaced(r.mem, r.buf, ents) /\ done("ok")
                   ELSE mMem' = r.mem /\ done("no room")

erase(o, tag) ==
    /\ MetaCall /\ OnlyBuffers /\ UNCHANGED <<mObj, mLost>>
    /\ LET at == IF Buf(o) = 0 THEN 0 ELSE Find(mMem[Buf(o)].ents, tag)
       IN  mMem' = IF Locked(o) \/ at = 0 THEN mMem
                   ELSE Replaced(mMem, Buf(o), RemoveAt(mMem[Buf(o)].ents, at))

sort(o) ==
    /\ MetaCall /\ OnlyBuffers /\ UNCHANGED <<mObj, mLost>>
    /\ mMem' = IF Locked(o) \/ Buf(o) = 0 THEN mMem
               ELSE Replaced(mMem, Buf(o), SortSeq(mMem[Buf(o)].ents, LAMBDA e, f : e.tag < f.tag))

(* readFromParcel of an object: a parcel that cannot be read leaves it as  *)
(* it is; one of size 0 is null.                                           *)
readFromParcel(o, ents, readable) ==
    /\ MetaCall /\ OnlyBuffers /\ UNCHANGED mLost
    /\ readable => FreeBuffers # {}
    /\ IF Locked(o) \/ ~readable THEN UNCHANGED <<mObj, mMem>>
       ELSE IF ents = <<>> THEN mMem' = Cleared(o, mMem) /\ Holds(o, 0)
       ELSE /\ mMem' = Cleared(o, [mMem EXCEPT ![Fresh] = Buffer(ents, Len(ents), Bytes(ents))])
            /\ Holds(o, Fresh)

CameraMetadataNext ==
    \E o \in Metas :
       \/ clear(o) \/ destroy(o) \/ getAndLock(o) \/ release(o) \/ sort(o)
       \/ \E p \in Pointers : unlock(o, p) \/ acquireBuffer(o, p)
       \/ \E p \in Pointers, ok \in BOOLEAN : assign(o, p, ok) \/ append(o, p, ok)
       \/ \E other \in Metas : acquire(o, other) \/ swap(o, other)
       \/ \E tag \in MetaTags : erase(o, tag)
       \/ \E tag \in MetaTags, val \in MetaVals, typed, own, ok \in BOOLEAN : update(o, tag, val, typed, own, ok)
       \/ \E ents \in {<<>>, <<MetaEntry(2, 1)>>}, readable \in BOOLEAN : readFromParcel(o, ents, readable)

CameraMetadataSpec == CameraMetadataInit /\ [][CameraMetadataNext]_mVars

-----------------------------------------------------------------------------
(* Every buffer that is alive has one owner, an object or the client, and  *)
(* whatever is owned is alive: nothing is freed twice, used after it was   *)
(* freed or forgotten.  The exceptions are in mLost: a buffer whose larger *)
(* copy could not be allocated, and one given to a locked object.          *)
BuffersHaveOneOwner ==
    LET owned == {Buf(o) : o \in Metas} \ {0}
    IN  /\ \A o1, o2 \in Metas : o1 # o2 /\ Buf(o1) # 0 => Buf(o1) # Buf(o2)
        /\ owned \cap (mRaw \cup mLost) = {} /\ mRaw \cap mLost = {}
        /\ owned \cup mRaw \cup mLost = {b \in DOMAIN mMem : mMem[b].alive}

(* What getAndLock has lent stays where it is and as it is until it is     *)
(* handed back, whatever is called on this object or on others.            *)
LentIsFrozen ==
    \A o \in Metas : mLent[o] # NotLent =>
        /\ Locked(o) /\ Buf(o) = mLent[o].buf
        /\ Buf(o) # 0 => mMem[Buf(o)] = mLent[o].was

(* resizeIfNeeded makes room for what comes: no entry is refused for want  *)
(* of it, and an update that returns OK can be found.                      *)
UpdatesAreMade ==
    /\ mRes.res # "no room"
    /\ \A b \in DOMAIN mMem : Fits(mMem[b], mMem[b].ents)
    /\ mRes.res = "ok" =>
          LET ents == mMem[Buf(mRes.o)].ents IN ents[Find(ents, mRes.tag)].val = mRes.val

(* The metadata the camera's client holds is neither lost nor changed      *)
(* behind its back.                                                        *)
MetadataIsKept == BuffersHaveOneOwner /\ LentIsFrozen /\ UpdatesAreMade
=============================================================================
