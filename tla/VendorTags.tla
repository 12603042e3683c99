------------------------------ MODULE VendorTags ------------------------------
(***************************************************************************)
(* VendorTagDescriptor: the service makes a descriptor of the vendor's     *)
(* tags, sends it in a parcel and the client makes its own from that.  A   *)
(* KeyedVector is a function and goes by its keys in order, a SortedVector *)
(* is a sorted sequence without duplicates; names are numbers, because     *)
(* their order matters, and 0 is a null one.  Vendors give no name that is *)
(* empty, which only createFromParcel refuses, and no tag or name twice.   *)
(***************************************************************************)
EXTENDS Parcels, FiniteSetsExt

CONSTANTS VendorOps,  \* what vendors answer: sequences of [tag, name, section, type]
          Boundary,   \* CAMERA_METADATA_VENDOR_TAG_BOUNDARY
          NumTypes

ASSUME VendorTagAssumption == Boundary \in Nat /\ NumTypes \in Nat

VARIABLES vOps,    \* the vendor's tags
          vDesc,   \* the service's descriptor, <<>> for none
          vParcel,
          vRead    \* the client's

vVars == <<vOps, vDesc, vParcel, vRead>>

VendorTagInit == vOps = <<>> /\ vDesc = <<>> /\ vParcel = <<>> /\ vRead = <<>>

InOrder(S) == SetToSortSeq(S, <)
IsType(n) == n \in 0 .. NumTypes - 1

(* mReverseMapping: section and name to tag, filled in the given order,    *)
(* so that the last of two equal ones stays.                               *)
ReverseMapping(tags, name, section) ==
    FoldLeft(LAMBDA f, t : [k \in DOMAIN f \cup {<<section[t], name[t]>>} |->
                               IF k = <<section[t], name[t]>> THEN t ELSE f[k]], <<>>, tags)

(* createDescriptorFromOps. *)
Acceptable(ops) ==
    \A i \in DOMAIN ops : /\ ops[i].tag >= Boundary /\ ops[i].name # 0 /\ ops[i].section # 0
                          /\ IsType(ops[i].type)

FromOps(ops) ==
    LET tags == {ops[i].tag : i \in DOMAIN ops}
        entry(t) == CHOOSE e \in Range(ops) : e.tag = t
        sections == InOrder({e.section : e \in Range(ops)})
        index(t) == CHOOSE j \in DOMAIN sections : sections[j] = entry(t).section
    IN  [count |-> Len(ops), sections |-> sections,
         name |-> [t \in tags |-> entry(t).name], type |-> [t \in tags |-> entry(t).type],
         section |-> [t \in tags |-> index(t) - 1],
         reverse |-> ReverseMapping([i \in DOMAIN ops |-> ops[i].tag], [t \in tags |-> entry(t).name],
                              [t \in tags |-> entry(t).section])]

createDescriptorFromOps(ops) ==
    /\ vDesc = <<>>
    /\ vOps' = ops /\ vDesc' = IF Acceptable(ops) THEN <<FromOps(ops)>> ELSE <<>>
    /\ UNCHANGED <<vParcel, vRead>>

-----------------------------------------------------------------------------
Word(n) == [Item("string8", <<"word">>) EXCEPT !.n = n]

(* Mutant: every tag is written with the place of its section from one.    *)
writeTagShifted(d, t) == <<Number(t), Number(d.type[t]), Word(d.name[t]), Number(d.section[t] + 1)>>

writeTag(d, t) == <<Number(t), Number(d.type[t]), Word(d.name[t]), Number(d.section[t])>>

(* VendorTagDescriptor::writeToParcel. *)
writeTags(d) ==
    <<Number(d.count)>>
       \o FlattenSeq([i \in 1 .. Cardinality(DOMAIN d.name) |-> writeTag(d, InOrder(DOMAIN d.name)[i])])
       \o IF d.sections = <<>> THEN <<>>
          ELSE <<Number(Len(d.sections))>> \o [i \in DOMAIN d.sections |-> Word(d.sections[i])]

writeToParcel ==
    /\ vDesc # <<>> /\ vParcel = <<>>
    /\ vParcel' = writeTags(vDesc[1])
    /\ UNCHANGED <<vOps, vDesc, vRead>>

(* createFromParcel, of a parcel p: the tags, the number of sections and   *)
(* their names, each checked; <<>> is an error.                            *)
Tag(p, i) == At(p, 4 * i - 2, "int32").n
TagType(p, i) == At(p, 4 * i - 1, "int32").n
TagName(p, i) == At(p, 4 * i, "string8").n
TagSection(p, i) == At(p, 4 * i + 1, "int32").n

FromParcel(p) ==
    LET count == At(p, 1, "int32").n
        sectionCount == IF count > 0 THEN At(p, 4 * count + 2, "int32").n ELSE 0
        names == [j \in 1 .. sectionCount |-> At(p, 4 * count + 2 + j, "string8").n]
        sections == InOrder(Range(names))
        allTags == [i \in 1 .. count |-> Tag(p, i)]
        of(f(_, _), t) == f(p, CHOOSE i \in 1 .. count : Tag(p, i) = t)
        wellFormed == /\ \A i \in 1 .. count : /\ Tag(p, i) >= Boundary /\ TagName(p, i) # 0
                                               /\ IsType(TagType(p, i))
                                               /\ TagSection(p, i) < sectionCount
                      /\ \A j \in 1 .. sectionCount : names[j] # 0
        section == [t \in Range(allTags) |-> of(TagSection, t)]
    IN  IF ~wellFormed THEN <<>>
        ELSE <<[count |-> count, sections |-> sections,
                name |-> [t \in Range(allTags) |-> of(TagName, t)],
                type |-> [t \in Range(allTags) |-> of(TagType, t)],
                section |-> section,
                reverse |-> ReverseMapping(allTags, [t \in Range(allTags) |-> of(TagName, t)],
                                     [t \in Range(allTags) |-> sections[section[t] + 1]])]>>

createFromParcel ==
    /\ vParcel # <<>> /\ vRead = <<>>
    /\ vRead' = <<FromParcel(vParcel)>>
    /\ UNCHANGED <<vOps, vDesc, vParcel>>

VendorTagNext ==
    \/ \E ops \in VendorOps : createDescriptorFromOps(ops)
    \/ writeToParcel \/ createFromParcel

VendorTagSpec == VendorTagInit /\ [][VendorTagNext]_vVars

-----------------------------------------------------------------------------
(* getSectionName and lookupTag. *)
getSectionName(d, t) == d.sections[d.section[t] + 1]
lookupTag(d, name, section) == d.reverse[<<section, name>>]

(* The client accepts every descriptor the service sends and answers every *)
(* question as the service does and as the vendor did: name, type and      *)
(* section of each tag, and the tag of each name in its section, whatever  *)
(* the order of the vendor's tags and sections.                            *)
TagsSurviveParcel ==
    vRead # <<>> =>
        /\ vRead[1] = vDesc
        /\ \A i \in DOMAIN vOps : LET e == vOps[i] d == vRead[1][1] IN
              /\ d.name[e.tag] = e.name /\ d.type[e.tag] = e.type
              /\ getSectionName(d, e.tag) = e.section
              /\ lookupTag(d, e.name, e.section) = e.tag
=============================================================================
