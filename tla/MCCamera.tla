------------------------------ MODULE MCCamera ------------------------------
(***************************************************************************)
(* The parts of the camera's shims and of its wrapper, checked in one run: *)
(* the first state chooses which of them moves.                            *)
(***************************************************************************)
EXTENDS CameraBinder, CameraClient, CameraWrapper, VendorTags, CameraMetadata, CameraParameters

TagEntry(tag, name, section) == [tag |-> tag, name |-> name, section |-> section, type |-> tag % 2]
TagEntries ==
    {TagEntry(t, n, s) : t \in {10, 11, 12}, n \in {1, 2}, s \in {5, 6}}
       \cup {TagEntry(9, 1, 5), TagEntry(12, 0, 5), TagEntry(12, 2, 0), [TagEntry(12, 2, 5) EXCEPT !.type = 2]}
TagsOfVendors ==
    {ops \in UNION {[1 .. n -> TagEntries] : n \in 0 .. 3} :
        \A i, j \in DOMAIN ops : i # j =>
            /\ ops[i].tag # ops[j].tag
            /\ <<ops[i].name, ops[i].section>> # <<ops[j].name, ops[j].section>>}

SizesOf(sizes) == Pair(SUPPORTED_PREVIEW_SIZES, sizes)
FocusType(n) == Pair(QC_MANUAL_FOCUS_POS_TYPE, <<n>>)
TextsOfVendors ==
    {flatten(map) : map \in {
        <<SizesOf(<<6, X, 4, Comma, 3, X, 2>>), Pair(QC_LONGSHOT_SUPPORTED, <<1>>), FocusType(2)>>,
        <<SizesOf(<<X, 4, Comma, 3, X>>), FocusType(3), Pair(QC_MANUAL_FOCUS_POSITION, <<9>>)>>,
        <<SizesOf(<<6, X, 4, Comma>>), Pair(SCENE_MODE, SCENE_MODE_HDR), Pair(<<50>>, <<>>)>>,
        <<SizesOf(<<6, X, 4, Comma, 3, X, 2, X, Comma, 1, X, 1>>), Pair(<<50>>, <<8, Eq, 9>>)>>,
        <<SizesOf(<<6, Comma, 3, X, 2>>), Pair(<<50>>, <<7>>), Pair(<<50>>, <<>>)>>}}
       \cup {<<>>, <<50>>, <<Semi, 50, Eq, 7, Semi>>}
KeysOfApp == {SCENE_MODE, QC_HDR_NEED_1X, <<50>>, <<50, Eq>>}
ValuesOfApp == {SCENE_MODE_HDR, <<>>, <<7, Semi, 8>>, NoText}

ThreadSymmetry == Permutations(ClientThreads)

VARIABLE part

vars == <<part, bVars, kVars, wVars, vVars, mVars, pVars>>

NoParameters == pClass = "sorted" /\ pMap = <<>> /\ pVendor = <<>> /\ pSet = <<>> /\ pCalls = 0

Init ==
    /\ part \in {"binder", "client", "wrapper", "tags", "metadata", "parameters"}
    /\ BinderInit /\ CameraClientInit /\ CameraWrapperInit /\ VendorTagInit
    /\ CameraMetadataInit
    /\ IF part = "parameters" THEN CameraParametersInit ELSE NoParameters

Next ==
    /\ UNCHANGED part
    /\ \/ part = "binder" /\ BinderNext /\ UNCHANGED <<kVars, wVars, vVars, mVars, pVars>>
       \/ part = "client" /\ CameraClientNext /\ UNCHANGED <<bVars, wVars, vVars, mVars, pVars>>
       \/ part = "wrapper" /\ CameraWrapperNext /\ UNCHANGED <<bVars, kVars, vVars, mVars, pVars>>
       \/ part = "tags" /\ VendorTagNext /\ UNCHANGED <<bVars, kVars, wVars, mVars, pVars>>
       \/ part = "metadata" /\ CameraMetadataNext /\ UNCHANGED <<bVars, kVars, wVars, vVars, pVars>>
       \/ part = "parameters" /\ CameraParametersNext /\ UNCHANGED <<bVars, kVars, wVars, vVars, mVars>>

Spec == Init /\ [][Next]_vars
=============================================================================
