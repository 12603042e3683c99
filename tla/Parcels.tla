------------------------------- MODULE Parcels -------------------------------
(***************************************************************************)
(* What the camera shims put into a binder parcel and take out of it.  A   *)
(* parcel is a sequence of items of a kind; a value is a sequence of       *)
(* names, empty for a null.  Parcel itself is outside the repository: a    *)
(* read past the end gives zero or null, and a read of another kind gives  *)
(* rubbish.                                                                *)
(*                                                                         *)
(* Both sides of a call are lists of fields.  A field of mode              *)
(*   must   is always there,                                               *)
(*   given  is the marker 1 or 0 that says whether the value for c is,     *)
(*   one    is the marker 1,                                               *)
(*   opt    is written for a value c that is not null, and read after a    *)
(*          marker that was not 0,                                         *)
(*   if     is there for a value c that is not null, by what both sides    *)
(*          have of c, and ifnot for one that is,                          *)
(*   avail  is read while the parcel has more.                             *)
(***************************************************************************)
EXTENDS Integers, Sequences, SequencesExt

Null == <<>>
Rubbish == <<"?">>
Item(k, v) == [k |-> k, v |-> v, n |-> 0]
Number(n) == [k |-> "int32", v |-> <<"number">>, n |-> n]

Field(k, a) == [k |-> k, a |-> a, o |-> "must", c |-> a]
Int32(a) == Field("int32", a)
Int64(a) == Field("int64", a)
Str16(a) == Field("string16", a)
Str8(a) == Field("string8", a)
Binder(a) == Field("binder", a)
Metadata(a) == Field("metadata", a)
Exc == Field("exception", "exception")
Given(c) == [Field("int32", "marker") EXCEPT !.o = "given", !.c = c]
One == [Field("int32", "marker") EXCEPT !.o = "one"]
Opt(field, c) == [field EXCEPT !.o = "opt", !.c = c]
If(field, c) == [field EXCEPT !.o = "if", !.c = c]
IfNot(field, c) == [field EXCEPT !.o = "ifnot", !.c = c]
Avail(field) == [field EXCEPT !.o = "avail"]
Opts(fields, c) == [i \in DOMAIN fields |-> Opt(fields[i], c)]

(* Parcel::readInt32, readStrongBinder, ...: the item at pos, as kind k.   *)
At(p, pos, k) ==
    IF pos > Len(p) THEN Item(k, IF k \in {"int32", "int64", "exception"} THEN <<"0">> ELSE Null)
    ELSE IF p[pos].k = k THEN p[pos] ELSE Item(k, Rubbish)

-----------------------------------------------------------------------------
(* The parcelables. *)

(* CameraMetadata: the size of the blob, and for one that is not zero the  *)
(* blob and the offset of the metadata in it.                              *)
writeMetadata(v) ==
    IF v = Null THEN <<Number(0)>> ELSE <<Number(1), Item("blob", v), Item("int32", <<"offset">>)>>

readMetadata(p, pos) ==
    IF At(p, pos, "int32").n = 0 THEN [v |-> Null, pos |-> pos + 1]
    ELSE [v |-> At(p, pos + 1, "blob").v, pos |-> pos + 3]

(* CaptureResultExtras. *)
WriteExtrasSwapped == <<Int32("requestId"), Int32("burstId"), Int32("precaptureTriggerId"),
                        Int32("afTriggerId"), Int64("frameNumber"), Int32("partialResultCount")>>

WriteExtras == <<Int32("requestId"), Int32("burstId"), Int32("afTriggerId"),
                 Int32("precaptureTriggerId"), Int64("frameNumber"), Int32("partialResultCount")>>

ReadExtras == <<Int32("requestId"), Int32("burstId"), Int32("afTriggerId"),
                Int32("precaptureTriggerId"), Int64("frameNumber"), Int32("partialResultCount")>>

(* OutputConfiguration. *)
WriteOutput == <<Int32("rotation"), Str16("unknown_name"), Binder("gbp")>>
ReadOutput == <<Int32("rotation"), Str16("unknown_name"), Binder("gbp")>>

(* CaptureRequest: <<metadata, reprocess>> and the surfaces, each "null"   *)
(* or not.                                                                 *)
Name(v) == IF v = Null THEN "null" ELSE v[1]
Named(name) == IF name = "null" THEN Null ELSE <<name>>

writeRequest(v) ==
    writeMetadata(Named(v[1])) \o <<Number(Len(v) - 2)>>
       \o FlattenSeq([i \in 1 .. Len(v) - 2 |->
            <<Item("string16", <<"android.view.Surface">>), Item("string16", <<"unknown_name">>),
              Item("binder", Named(v[i + 2]))>>])
       \o <<Item("int32", <<v[2]>>)>>

readRequest(p, pos) ==
    LET m == readMetadata(p, pos)
        n == At(p, m.pos, "int32").n
        surface(i) ==
            IF At(p, m.pos + 3 * i - 2, "string16").v = Null THEN "no class"
            ELSE Name(At(p, m.pos + 3 * i, "binder").v)
    IN  [v |-> <<Name(m.v), Name(At(p, m.pos + 3 * n + 1, "int32").v)>> \o [i \in 1 .. n |-> surface(i)],
         pos |-> m.pos + 3 * n + 2]

(* A List of CaptureRequests, some null, in submitRequestList. *)
writeRequests(list) ==
    <<Number(Len(list))>>
       \o FlattenSeq([i \in DOMAIN list |->
            IF list[i] = Null THEN <<Item("int32", <<"0">>)>>
            ELSE <<Item("int32", <<"1">>)>> \o writeRequest(list[i])])

readRequests(p, pos) ==
    LET n == At(p, pos, "int32").n
        next(st, i) ==
            IF At(p, st.pos, "int32").v = <<"0">>
            THEN [v |-> Append(st.v, Null), pos |-> st.pos + 1]
            ELSE LET r == readRequest(p, st.pos + 1)
                 IN  [v |-> Append(st.v, r.v), pos |-> r.pos]
    IN  FoldLeft(next, [v |-> <<>>, pos |-> pos + 1], [i \in 1 .. n |-> i])

(* The int32 array of notifySystemEvent, refused if it is null or has more *)
(* than 512 elements.                                                      *)
writeArray(v) ==
    IF v = Null THEN <<Number(-1)>>
    ELSE <<Number(IF v = <<"long">> THEN 513 ELSE 512), Item("ints", v)>>

readArray(p, pos) ==
    LET n == At(p, pos, "int32").n IN
    IF n < 0 \/ n > 512 THEN [v |-> <<"refused">>, pos |-> pos + 1]
    ELSE [v |-> At(p, pos + 1, "ints").v, pos |-> pos + 2]

-----------------------------------------------------------------------------
(* A list of fields is written and read. *)

WriteValue(k, v) ==
    CASE k = "metadata" -> writeMetadata(v)
      [] k = "request"  -> writeRequest(v)
      [] k = "requests" -> writeRequests(v)
      [] k = "array"    -> writeArray(v)
      [] OTHER          -> <<Item(k, v)>>

ReadValue(k, p, pos) ==
    CASE k = "metadata" -> readMetadata(p, pos)
      [] k = "request"  -> readRequest(p, pos)
      [] k = "requests" -> readRequests(p, pos)
      [] k = "array"    -> readArray(p, pos)
      [] OTHER          -> [v |-> At(p, pos, k).v, pos |-> pos + 1]

Written(f, args) ==
    CASE f.o = "given" -> <<Item("int32", <<IF args[f.c] = Null THEN "0" ELSE "1">>)>>
      [] f.o = "one" -> <<Item("int32", <<"1">>)>>
      [] f.o \in {"opt", "if"} /\ args[f.c] = Null -> <<>>
      [] f.o = "ifnot" /\ args[f.c] # Null -> <<>>
      [] OTHER -> WriteValue(f.k, args[f.a])

Write(fields, args) == FlattenSeq([i \in DOMAIN fields |-> Written(fields[i], args)])

(* st: the values read so far, the position and the last marker. *)
ReadField(p, st, f) ==
    LET here == ReadValue(f.k, p, st.pos)
        skipped == \/ f.o = "opt" /\ ~st.given
                   \/ f.o = "if" /\ st.env[f.c] = Null
                   \/ f.o = "ifnot" /\ st.env[f.c] # Null
                   \/ f.o = "avail" /\ st.pos > Len(p)
    IN  IF f.o \in {"given", "one"} THEN [st EXCEPT !.given = here.v # <<"0">>, !.pos = here.pos]
        ELSE IF skipped THEN st
        ELSE [st EXCEPT !.env[f.a] = here.v, !.pos = here.pos]

Read(fields, p, pos) ==
    LET names == {fields[i].a : i \in DOMAIN fields}
    IN  FoldLeft(LAMBDA st, f : ReadField(p, st, f),
                 [env |-> [a \in names |-> Null], pos |-> pos, given |-> FALSE], fields)
=============================================================================
