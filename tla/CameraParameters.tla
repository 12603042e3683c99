-------------------------- MODULE CameraParameters --------------------------
(***************************************************************************)
(* The camera's parameters: CameraParameters, a map sorted by its keys,    *)
(* and CameraParameters2, a list in the order of setting; the text of      *)
(* key=value pairs both are sent as; and their way through the wrapper,    *)
(* which edits what the vendor says before the application gets it and     *)
(* what the application sets before the vendor gets it.                    *)
(*                                                                         *)
(* A text is a sequence of tokens: the four marks, words, and the digits   *)
(* of a number, which is its value.                                        *)
(***************************************************************************)
EXTENDS Integers, Sequences, SequencesExt

CONSTANTS VendorTexts,    \* what a vendor first says
          AppKeys,        \* what the application sets, with which values
          AppValues,
          AppNumbers,     \* widths and heights it sets
          MaxParamCalls

ASSUME ParamAssumption == MaxParamCalls \in Nat

VARIABLES pClass,   \* "sorted" or "ordered"
          pMap,     \* mMap: the pairs in their order
          pVendor,  \* the vendor's text
          pSet,     \* the application's settings that were accepted, in order
          pCalls

pVars == <<pClass, pMap, pVendor, pSet, pCalls>>

Eq == -1
Semi == -2
X == -3
Comma == -4
Marks == {Eq, Semi, X, Comma}
NoText == <<-5>>  \* a null pointer

(* The keys and words the code names. *)
PREVIEW_SIZE == <<-10>>
SUPPORTED_PREVIEW_SIZES == <<-11>>
PREVIEW_FPS_RANGE == <<-21>>
SUPPORTED_SCENE_MODES == <<-12>>
SCENE_MODE == <<-13>>
QC_HDR_NEED_1X == <<-14>>
QC_LONGSHOT_SUPPORTED == <<-15>>
AUTO_WHITEBALANCE_LOCK_SUPPORTED == <<-16>>
QC_MANUAL_FOCUS_POSITION == <<-17>>
QC_MANUAL_FOCUS_POS_TYPE == <<-18>>
QC_FOCUS_POSITION_SCALE == <<-19>>
QC_FOCUS_POSITION_DIOPTER == <<-20>>
SCENE_MODE_HDR == <<-30>>
FALSE_TEXT == <<-31>>
AUTO_HDR == <<-32, Comma, -30>>

-----------------------------------------------------------------------------
(* mMap.  A KeyedVector is sorted and has a key once; OrderedKeyedVector   *)
(* appends, and finds the first of its key.                                *)
Pair(k, v) == [k |-> k, v |-> v]
indexOfKey(map, k) == SelectInSeq(map, LAMBDA e : e.k = k)

TextLess(a, b) ==
    \/ IsStrictPrefix(a, b)
    \/ \E i \in DOMAIN a \cap DOMAIN b : a[i] < b[i] /\ SubSeq(a, 1, i - 1) = SubSeq(b, 1, i - 1)

removeItem(map, k) == LET i == indexOfKey(map, k) IN IF i = 0 THEN map ELSE RemoveAt(map, i)

addSorted(map, k, v) ==
    LET rest == removeItem(map, k)
        n == Len(SelectSeq(rest, LAMBDA e : TextLess(e.k, k)))
    IN  InsertAt(rest, n + 1, Pair(k, v))

add(c, map, k, v) == IF c = "sorted" THEN addSorted(map, k, v) ELSE Append(map, Pair(k, v))

(* Mutant: the place of a key that is there is kept. *)
replaceInPlace(c, map, k, v) ==
    LET i == indexOfKey(map, k) IN IF i = 0 THEN add(c, map, k, v) ELSE [map EXCEPT ![i].v = v]

replaceValueFor(c, map, k, v) == add(c, removeItem(map, k), k, v)

(* get: CameraParameters takes an empty value for none. *)
getOrdered(map, k) == LET i == indexOfKey(map, k) IN IF i = 0 THEN NoText ELSE map[i].v
getSorted(map, k) == LET v == getOrdered(map, k) IN IF v = <<>> THEN NoText ELSE v
get(c, map, k) == IF c = "sorted" THEN getSorted(map, k) ELSE getOrdered(map, k)

(* compareSetOrder of two keys that have been set. *)
compareSetOrder(map, k1, k2) ==
    LET i == indexOfKey(map, k1)
        j == indexOfKey(map, k2)
    IN  IF i = 0 \/ j = 0 THEN "NAME_NOT_FOUND" ELSE IF i = j THEN "equal" ELSE IF i < j THEN "less" ELSE "greater"

IllFormed(t) == Contains(t, Eq) \/ Contains(t, Semi)

(* Mutant: the value is not looked at. *)
RejectedByKey(k, v) == k = NoText \/ v = NoText \/ IllFormed(k)

Rejected(k, v) == k = NoText \/ v = NoText \/ IllFormed(k) \/ IllFormed(v)

(* set.  With QCOM_HARDWARE, CameraParameters adds hdr-need-1x=false;      *)
(* CameraParameters2 expects no null.                                      *)
WithNeed1x(map) ==
    IF getSorted(map, QC_HDR_NEED_1X) = NoText
    THEN replaceValueFor("sorted", map, QC_HDR_NEED_1X, FALSE_TEXT) ELSE map

setSorted(map, k, v) == IF Rejected(k, v) THEN map ELSE replaceValueFor("sorted", WithNeed1x(map), k, v)
setOrdered(map, k, v) == IF Rejected(k, v) THEN map ELSE replaceValueFor("ordered", map, k, v)
set(c, map, k, v) == IF c = "sorted" THEN setSorted(map, k, v) ELSE setOrdered(map, k, v)

flatten(map) ==
    FoldLeft(LAMBDA t, i : t \o map[i].k \o <<Eq>> \o map[i].v \o (IF i # Len(map) THEN <<Semi>> ELSE <<>>),
             <<>>, [i \in DOMAIN map |-> i])

strchr(t, mark) == SelectInSeq(t, LAMBDA x : x = mark)
From(t, i) == SubSeq(t, i, Len(t))

RECURSIVE unflattenFrom(_, _, _)
unflattenFrom(c, map, a) ==
    LET eq == strchr(a, Eq)
        k == SubSeq(a, 1, eq - 1)
        rest == From(a, eq + 1)
        semi == strchr(rest, Semi)
    IN  IF eq = 0 THEN map
        ELSE IF semi = 0 THEN add(c, map, k, rest)
        ELSE unflattenFrom(c, add(c, map, k, SubSeq(rest, 1, semi - 1)), From(rest, semi + 1))

unflatten(c, t) == unflattenFrom(c, <<>>, t)

-----------------------------------------------------------------------------
(* Sizes.  strtol takes the number in front, or 0 and nothing. *)
strtol(t) == IF t # <<>> /\ Head(t) >= 0 THEN [n |-> Head(t), end |-> Tail(t)] ELSE [n |-> 0, end |-> t]
StartsWith(t, mark) == t # <<>> /\ Head(t) = mark

parse_pair(t, delim) ==
    LET w == strtol(t)
        h == strtol(Tail(w.end))
    IN  IF StartsWith(w.end, delim) THEN [ok |-> TRUE, w |-> w.n, h |-> h.n, end |-> h.end]
        ELSE [ok |-> FALSE, w |-> -1, h |-> -1, end |-> t]

(* Mutant: a size is taken before what follows it is looked at. *)
GoodEndLate(p) == p.ok

GoodEnd(p) == p.ok /\ (p.end = <<>> \/ Head(p.end) = Comma)

RECURSIVE parseSizesList(_)
parseSizesList(t) ==
    LET p == parse_pair(t, X)
    IN  IF t = NoText \/ ~GoodEnd(p) THEN <<>>
        ELSE <<<<p.w, p.h>>>> \o (IF p.end = <<>> THEN <<>> ELSE parseSizesList(Tail(p.end)))

getPair(c, map, k, delim) ==
    LET t == get(c, map, k)
        p == parse_pair(t, delim)
    IN  IF t = NoText THEN <<-1, -1>> ELSE <<p.w, p.h>>

getPreviewSize(c, map) == getPair(c, map, PREVIEW_SIZE, X)
getPreviewFpsRange(c, map) == getPair(c, map, PREVIEW_FPS_RANGE, Comma)
getSupportedPreviewSizes(c, map) == parseSizesList(get(c, map, SUPPORTED_PREVIEW_SIZES))

-----------------------------------------------------------------------------
(* The wrapper's two edits. *)
camera_fixup_getparams(t) ==
    LET m1 == removeItem(removeItem(unflatten("sorted", t), QC_LONGSHOT_SUPPORTED), AUTO_WHITEBALANCE_LOCK_SUPPORTED)
        m2 == setSorted(m1, SUPPORTED_SCENE_MODES, AUTO_HDR)
        position == getSorted(m2, QC_MANUAL_FOCUS_POSITION)
        type == getSorted(m2, QC_MANUAL_FOCUS_POS_TYPE)
        given == IF position = NoText THEN <<0>> ELSE position
    IN  flatten(CASE type = <<2>> -> setSorted(m2, QC_FOCUS_POSITION_SCALE, given)
                  [] type = <<3>> -> setSorted(m2, QC_FOCUS_POSITION_DIOPTER, given)
                  [] OTHER -> m2)

(* Mutant: the mode is set before the key is removed, and set adds it. *)
Need1xSetAgain(map) == setSorted(removeItem(map, QC_HDR_NEED_1X), SCENE_MODE, SCENE_MODE_HDR)

WithoutNeed1x(map) == removeItem(map, QC_HDR_NEED_1X)

fixup_set(t) ==
    LET map == unflatten("sorted", t)
    IN  flatten(IF getSorted(map, SCENE_MODE) = SCENE_MODE_HDR THEN WithoutNeed1x(map) ELSE map)

-----------------------------------------------------------------------------
CameraParametersInit ==
    /\ pClass \in {"sorted", "ordered"}
    /\ pVendor \in VendorTexts
    /\ pMap = unflatten(pClass, pVendor)
    /\ pSet = <<>> /\ pCalls = 0

ParamCall == pCalls < MaxParamCalls /\ pCalls' = pCalls + 1

(* What the application has set, without k. *)
Forget(k) == SelectSeq(pSet, LAMBDA e : e.k # k)

setParam(k, v) ==
    /\ k = NoText \/ v = NoText => pClass = "sorted"
    /\ ParamCall /\ UNCHANGED <<pClass, pVendor>>
    /\ pMap' = set(pClass, pMap, k, v)
    /\ pSet' = IF k = NoText \/ v = NoText \/ IllFormed(k) \/ IllFormed(v) THEN pSet ELSE Append(Forget(k), Pair(k, v))

setPreviewSize(w, h) == setParam(PREVIEW_SIZE, <<w, X, h>>)

(* Only CameraParameters2 has it. *)
setPreviewFpsRange(min, max) == pClass = "ordered" /\ setParam(PREVIEW_FPS_RANGE, <<min, Comma, max>>)

removeParam(k) ==
    /\ ParamCall /\ UNCHANGED <<pClass, pVendor>>
    /\ pMap' = removeItem(pMap, k) /\ pSet' = Forget(k)

(* The parameters are sent as a text and made again from it. *)
passParams ==
    /\ ParamCall /\ UNCHANGED <<pClass, pVendor, pSet>>
    /\ pMap' = unflatten(pClass, flatten(pMap))

(* getParameters of the application: it starts anew with what it gets.     *)
camera_get_parameters ==
    /\ ParamCall /\ UNCHANGED <<pClass, pVendor>>
    /\ pMap' = unflatten(pClass, camera_fixup_getparams(pVendor))
    /\ pSet' = <<>>

(* setParameters of the application: the vendor takes the edited text.     *)
setParameters ==
    /\ ParamCall /\ UNCHANGED <<pClass, pMap, pSet>>
    /\ pVendor' = fixup_set(flatten(pMap))

CameraParametersNext ==
    \/ \E k \in AppKeys, v \in AppValues : setParam(k, v)
    \/ \E m, n \in AppNumbers : setPreviewSize(m, n) \/ setPreviewFpsRange(m, n)
    \/ \E k \in AppKeys : removeParam(k)
    \/ passParams \/ camera_get_parameters \/ setParameters

CameraParametersSpec == CameraParametersInit /\ [][CameraParametersNext]_pVars

-----------------------------------------------------------------------------
(* flatten and unflatten are inverse to each other on every map that a     *)
(* vendor's text and the application's settings can make: no key or value  *)
(* that set lets through can be taken for two.                             *)
TextsAreInverse == unflatten(pClass, flatten(pMap)) = pMap

(* Does the map have every key once?  A list made of a text that has one   *)
(* twice keeps both, and set replaces the first.                           *)
KeysAreUnique == \A i, j \in DOMAIN pMap : pMap[i].k = pMap[j].k => i = j

(* Whatever was set and accepted last is what is read, also after the      *)
(* parameters went through a text; and compareSetOrder's answer is the     *)
(* order of setting.  The exception is an empty hdr-need-1x, which the     *)
(* next set takes for none.                                                *)
LastSetIsRead ==
    KeysAreUnique =>
        /\ \A i \in DOMAIN pSet : pSet[i] # Pair(QC_HDR_NEED_1X, <<>>) =>
              LET j == indexOfKey(pMap, pSet[i].k) IN j # 0 /\ pMap[j].v = pSet[i].v
        /\ pClass = "ordered" => \A i, j \in DOMAIN pSet :
              i < j => compareSetOrder(pMap, pSet[i].k, pSet[j].k) = "less"

(* Of a size, a number or nothing is on either side of the x. *)
IsSize(t) == \E i \in DOMAIN t :
    t[i] = X /\ i <= 2 /\ Len(t) - i <= 1 /\ \A j \in DOMAIN t \ {i} : t[j] >= 0
SizeOf(t) == <<IF Head(t) = X THEN 0 ELSE Head(t), IF Last(t) = X THEN 0 ELSE Last(t)>>

(* The supported sizes that are read are the pieces between commas that    *)
(* come before the first that is no size; and the preview size and the     *)
(* range of rates that were set are the ones read.                         *)
SizesAreRead ==
    LET t == get(pClass, pMap, SUPPORTED_PREVIEW_SIZES)
        starts == SetToSortSeq({1} \cup {i + 1 : i \in {j \in DOMAIN t : t[j] = Comma}}, <)
        piece(n) == SubSeq(t, starts[n], IF n = Len(starts) THEN Len(t) ELSE starts[n + 1] - 2)
        sizes == getSupportedPreviewSizes(pClass, pMap)
    IN  /\ t # NoText => \A n \in DOMAIN starts :
              /\ n <= Len(sizes) <=> \A l \in 1 .. n : IsSize(piece(l))
              /\ n <= Len(sizes) => sizes[n] = SizeOf(piece(n))
        /\ KeysAreUnique => \A i \in DOMAIN pSet :
              /\ pSet[i].k = PREVIEW_SIZE => getPreviewSize(pClass, pMap) = SizeOf(pSet[i].v)
              /\ pSet[i].k = PREVIEW_FPS_RANGE =>
                    getPreviewFpsRange(pClass, pMap) = <<Head(pSet[i].v), Last(pSet[i].v)>>

(* In HDR the vendor is never told whether it needs a second frame, though *)
(* every set puts that key back.                                           *)
HdrIsLeftToVendor ==
    LET map == unflatten("sorted", pVendor)
    IN  pVendor \notin VendorTexts /\ getSorted(map, SCENE_MODE) = SCENE_MODE_HDR
            => indexOfKey(map, QC_HDR_NEED_1X) = 0

(* The parameters keep their meaning from the vendor to the application    *)
(* and back.                                                               *)
ParametersAreKept == TextsAreInverse /\ LastSetIsRead /\ SizesAreRead /\ HdrIsLeftToVendor
=============================================================================
