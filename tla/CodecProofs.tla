---------------------------- MODULE CodecProofs ----------------------------
(***************************************************************************)
(* Proofs of the safety properties of Codec, for every size of the buffer, *)
(* of the words and of the fields.                                         *)
(***************************************************************************)
EXTENDS Codec, TLAPS

\* The first i fields are written and sent.
Whole(i) == \A j \in 1 .. i : j \in WrittenFields /\ End(j) <= reqLength

\* The fields that are written follow each other, each is ended, and they do
\* not reach beyond tail; while no field is refused there is no gap either.
Layout ==
    /\ \A i \in WrittenFields : packed[i].ended /\ End(i) <= tail
    /\ \A i, j \in WrittenFields : i < j => End(i) <= packed[j].at
    /\ \A i \in DOMAIN packed :
         1 .. i \subseteq WrittenFields
            => packed[i].at = IF i = 1 THEN 0 ELSE End(i - 1)
    /\ 1 .. Len(packed) \subseteq WrittenFields
         => tail = IF packed = <<>> THEN 0 ELSE End(Len(packed))

\* The receiver's side of the message.
Received ==
    /\ phase = "unpack" =>
         /\ reqLength = length
         /\ Header + length + 1 < BufSize
         /\ Len(unpacked) <= Len(packed)
    /\ phase # "unpack" => reqLength = 0 /\ head = 0 /\ unpacked = <<>>
    /\ Whole(Len(unpacked))
         => head = IF unpacked = <<>> THEN 0 ELSE End(Len(unpacked))

CInv ==
    /\ CodecTypeOK
    /\ zeroFrom = 0
    /\ Layout
    /\ OnlyRawOverruns
    /\ Received
    /\ ReadsBack
    /\ ReadsStayInside

USE CodecAssumption
-----------------------------------------------------------------------------
(***************************************************************************)
(* Fields and their widths.                                                *)
(***************************************************************************)
LEMMA FieldFacts ==
    ASSUME NEW f \in Field
    PROVE  /\ f.size \in Nat
           /\ Width(f) \in Nat
           /\ Width(f) > 0
           /\ f.kind \in {"fixed", "string", "raw"}
           /\ f.kind = "fixed" => Width(f) = f.size
           /\ f.kind = "string" => Width(f) = f.size + 1
           /\ f.kind = "raw" => Width(f) = f.size + 2
    BY SMT DEF Field, Width

LEMMA PackedField ==
    ASSUME CodecTypeOK, NEW k \in Nat, k < Len(packed)
    PROVE  k + 1 \in DOMAIN packed /\ packed[k + 1].field \in Field
  <1> DEFINE Entry == [field : Field, at : Nat \cup {Failed}, ended : BOOLEAN]
  <1>1. packed \in Seq(Entry)
    BY DEF CodecTypeOK
  <1> HIDE DEF Entry
  <1>2. k + 1 \in DOMAIN packed /\ packed[k + 1] \in Entry
    BY <1>1, SMT
  <1> USE DEF Entry
  <1> QED BY <1>2

LEMMA EndFacts ==
    ASSUME CodecTypeOK, NEW i \in WrittenFields
    PROVE  /\ i \in 1 .. Len(packed)
           /\ packed[i].at \in Nat
           /\ packed[i].field \in Field
           /\ End(i) \in Nat
           /\ packed[i].at < End(i)
  <1>1. i \in 1 .. Len(packed) /\ packed[i].at \in Nat /\ packed[i].field \in Field
    <2>1. DOMAIN packed = 1 .. Len(packed)
      BY SMT DEF CodecTypeOK
    <2>2. i \in DOMAIN packed /\ packed[i].at # Failed
      BY DEF WrittenFields
    <2> DEFINE Entry == [field : Field, at : Nat \cup {Failed}, ended : BOOLEAN]
    <2>3. packed \in Seq(Entry)
      BY DEF CodecTypeOK
    <2> HIDE DEF Entry
    <2>4. packed[i] \in Entry
      BY <2>1, <2>2, <2>3, SMT
    <2> USE DEF Entry
    <2> QED BY <2>1, <2>2, <2>4
  <1>2. Width(packed[i].field) \in Nat /\ Width(packed[i].field) > 0
    BY <1>1, FieldFacts
  <1> QED BY <1>1, <1>2, SMT DEF End

LEMMA Initially == CodecInit => CInv
  <1> SUFFICES ASSUME CodecInit PROVE CInv
    OBVIOUS
  <1>1. CodecTypeOK
    BY SMT DEF CodecInit, CodecTypeOK
  <1>2. WrittenFields = {} /\ DOMAIN packed = {} /\ DOMAIN unpacked = {}
    BY SMT DEF CodecInit, WrittenFields
  <1>3. Layout /\ OnlyRawOverruns /\ ReadsBack
    BY <1>1, <1>2, SMT DEF CodecInit, Layout, OnlyRawOverruns, ReadsBack
  <1>4. Received /\ ReadsStayInside
    BY SMT DEF CodecInit, Received, ReadsStayInside
  <1> QED BY <1>1, <1>3, <1>4 DEF CInv, CodecInit
-----------------------------------------------------------------------------
(***************************************************************************)
(* Packing: one entry is added to packed.                                  *)
(***************************************************************************)
\* What appending an entry leaves of the ones before it.
LEMMA EarlierEntries ==
    ASSUME CodecTypeOK, NEW e, packed' = Append(packed, e),
           NEW n \in Nat, n = Len(packed)
    PROVE  /\ Len(packed') = n + 1
           /\ packed'[n + 1] = e
           /\ \A i \in 1 .. n : packed'[i] = packed[i]
           /\ WrittenFields' = WrittenFields \cup
                               (IF e.at # Failed THEN {n + 1} ELSE {})
           /\ \A i \in 1 .. n : End(i)' = End(i)
           /\ End(n + 1)' = e.at + Width(e.field)
  <1>1. /\ Len(packed') = n + 1
        /\ packed'[n + 1] = e
        /\ \A i \in 1 .. n : packed'[i] = packed[i]
        /\ DOMAIN packed = 1 .. n
        /\ DOMAIN packed' = 1 .. n + 1
    BY SMT DEF CodecTypeOK
  <1>2. \A i \in 1 .. n : End(i)' = End(i)
    BY <1>1, Zenon DEF End
  <1>3. End(n + 1)' = e.at + Width(e.field)
    <2>1. End(n + 1)' = packed'[n + 1].at + Width(packed'[n + 1].field)
      BY DEF End
    <2> QED BY <1>1, <2>1
  <1>4. WrittenFields' = WrittenFields \cup (IF e.at # Failed THEN {n + 1} ELSE {})
    <2>1. WrittenFields' = {i \in 1 .. n + 1 : packed'[i].at # Failed}
      BY <1>1 DEF WrittenFields, Failed
    <2>2. WrittenFields = {i \in 1 .. n : packed[i].at # Failed}
      BY <1>1 DEF WrittenFields
    <2> QED BY <1>1, <2>1, <2>2, SMT
  <1> QED BY <1>1, <1>2, <1>3, <1>4

\* A field that is written at tail.
LEMMA WriteKeeps ==
    ASSUME CInv, NEW f \in Field, Packing,
           Written(f),
           tail' = tail + Width(f),
           \/ length' = tail' /\ (f.kind # "raw" => length + Width(f) <= BufSize)
           \/ length' = length /\ f.kind = "raw",
           UNCHANGED <<phase, zeroFrom, reqLength, head, unpacked>>
    PROVE  CInv'
  <1>n. PICK n \in Nat : n = Len(packed)
    BY SMT DEF CInv, CodecTypeOK
  <1> DEFINE e == [field |-> f, at |-> tail, ended |-> tail + f.size >= zeroFrom]
  <1>0. CodecTypeOK /\ n = Len(packed) /\ tail \in Nat /\ zeroFrom = 0 /\ phase = "pack"
    BY <1>n, SMT DEF CInv, CodecTypeOK, Packing
  <1>1. /\ f.size \in Nat /\ Width(f) \in Nat /\ Width(f) > 0
    BY FieldFacts
  <1>2. packed' = Append(packed, e)
    BY DEF Written
  <1>3. e \in [field : Field, at : Nat \cup {Failed}, ended : BOOLEAN]
    BY <1>0
  <1>4. CodecTypeOK'
    BY <1>0, <1>1, <1>2, <1>3, SMT DEF CodecTypeOK
  <1>5. e.at # Failed /\ e.ended /\ e.at = tail /\ e.field = f
    <2>1. tail + f.size >= 0 /\ tail # Failed
      BY <1>0, <1>1, SMT DEF Failed
    <2> QED BY <1>0, <2>1
  <1> HIDE DEF e
  <1>6. /\ Len(packed') = n + 1
        /\ packed'[n + 1] = e
        /\ \A i \in 1 .. n : packed'[i] = packed[i]
        /\ WrittenFields' = WrittenFields \cup {n + 1}
        /\ \A i \in 1 .. n : End(i)' = End(i)
        /\ End(n + 1)' = tail'
    BY <1>0, <1>2, <1>5, EarlierEntries
  <1>7. \A i \in WrittenFields : i \in 1 .. n /\ End(i) \in Nat /\ packed[i].at \in Nat
    BY <1>0, EndFacts
  <1>8. Layout'
    <2>1. \A i \in WrittenFields' : packed'[i].ended /\ End(i)' <= tail'
      <3>1. ASSUME NEW i \in WrittenFields
            PROVE  packed'[i].ended /\ End(i)' <= tail'
        <4>1. packed[i].ended /\ End(i) <= tail
          BY DEF CInv, Layout
        <4>2. packed'[i] = packed[i] /\ End(i)' = End(i) /\ End(i) \in Nat
          BY <1>6, <1>7
        <4> QED BY <1>0, <1>1, <4>1, <4>2, SMT
      <3>2. packed'[n + 1].ended /\ End(n + 1)' <= tail'
        BY <1>0, <1>1, <1>5, <1>6, SMT
      <3> QED BY <1>6, <3>1, <3>2
    <2>2. \A i, j \in WrittenFields' : i < j => End(i)' <= packed'[j].at
      BY <1>0, <1>1, <1>5, <1>6, <1>7, SMT DEF CInv, Layout
    <2>3. \A i \in DOMAIN packed' :
             1 .. i \subseteq WrittenFields'
                => packed'[i].at = IF i = 1 THEN 0 ELSE End(i - 1)'
      <3> SUFFICES ASSUME NEW i \in DOMAIN packed', 1 .. i \subseteq WrittenFields'
                   PROVE  packed'[i].at = IF i = 1 THEN 0 ELSE End(i - 1)'
        OBVIOUS
      <3>1. i \in 1 .. n + 1 /\ DOMAIN packed = 1 .. n
        BY <1>0, <1>4, <1>6, SMT DEF CodecTypeOK
      <3>2. CASE i = n + 1
        <4>1. 1 .. n \subseteq WrittenFields
          BY <1>0, <1>6, <3>2, SMT
        <4>2. tail = IF packed = <<>> THEN 0 ELSE End(n)
          BY <1>0, <4>1 DEF CInv, Layout
        <4>3. packed = <<>> <=> n = 0
          BY <1>0, SMT DEF CodecTypeOK
        <4> QED BY <1>0, <1>5, <1>6, <3>2, <4>2, <4>3, SMT
      <3>3. CASE i \in 1 .. n
        <4>1. 1 .. i \subseteq WrittenFields
          BY <1>0, <1>6, <3>3, SMT
        <4>2. packed[i].at = IF i = 1 THEN 0 ELSE End(i - 1)
          BY <3>1, <3>3, <4>1 DEF CInv, Layout
        <4> QED BY <1>0, <1>6, <3>3, <4>2, SMT
      <3> QED BY <1>0, <3>1, <3>2, <3>3, SMT
    <2>4. tail' = End(Len(packed))' /\ packed' # <<>>
      <3>1. End(Len(packed))' = End(n + 1)'
        BY <1>6 DEF End
      <3>2. packed' # <<>>
        BY <1>0, <1>6, SMT
      <3> QED BY <1>6, <3>1, <3>2
    <2> QED BY <2>1, <2>2, <2>3, <2>4 DEF Layout
  <1>9. OnlyRawOverruns'
    <2> SUFFICES ASSUME ~RawPacked' PROVE tail' <= BufSize /\ length' = tail'
      BY DEF OnlyRawOverruns
    <2>1. n + 1 \in WrittenFields' /\ packed'[n + 1].field = f
      BY <1>0, <1>5, <1>6
    <2>2. f.kind # "raw"
      BY <2>1 DEF RawPacked
    <2>3. ~RawPacked
      BY <1>6, <1>7 DEF RawPacked
    <2> QED BY <1>0, <1>1, <2>2, <2>3, SMT DEF CInv, OnlyRawOverruns, CodecTypeOK
  <1>10. Received' /\ ReadsBack' /\ ReadsStayInside'
    <2>1. reqLength' = 0 /\ head' = 0 /\ unpacked' = <<>> /\ phase' = "pack"
      BY <1>0 DEF CInv, Received
    <2> QED BY <2>1, SMT DEF Received, ReadsBack, ReadsStayInside
  <1> QED BY <1>0, <1>4, <1>8, <1>9, <1>10 DEF CInv

\* A field that is refused.
LEMMA RefusalKeeps ==
    ASSUME CInv, NEW f \in Field, Packing, Refused(f),
           UNCHANGED <<phase, zeroFrom, reqLength, head, unpacked>>
    PROVE  CInv'
  <1>n. PICK n \in Nat : n = Len(packed)
    BY SMT DEF CInv, CodecTypeOK
  <1> DEFINE e == [field |-> f, at |-> Failed, ended |-> FALSE]
  <1>0. CodecTypeOK /\ n = Len(packed) /\ tail \in Nat /\ zeroFrom = 0 /\ phase = "pack"
    BY <1>n, SMT DEF CInv, CodecTypeOK, Packing
  <1>2. packed' = Append(packed, e) /\ UNCHANGED <<tail, length>>
    BY DEF Refused
  <1>3. e \in [field : Field, at : Nat \cup {Failed}, ended : BOOLEAN]
    OBVIOUS
  <1>4. CodecTypeOK'
    BY <1>0, <1>2, <1>3, SMT DEF CodecTypeOK
  <1>5. e.at = Failed
    OBVIOUS
  <1> HIDE DEF e
  <1>6. /\ Len(packed') = n + 1
        /\ \A i \in 1 .. n : packed'[i] = packed[i]
        /\ WrittenFields' = WrittenFields
        /\ \A i \in 1 .. n : End(i)' = End(i)
    BY <1>0, <1>2, <1>5, EarlierEntries
  <1>7. \A i \in WrittenFields : i \in 1 .. n /\ End(i) \in Nat /\ packed[i].at \in Nat
    BY <1>0, EndFacts
  <1>8. Layout'
    <2>1. \A i \in WrittenFields' : packed'[i].ended /\ End(i)' <= tail'
      BY <1>0, <1>2, <1>6, <1>7, SMT DEF CInv, Layout
    <2>2. \A i, j \in WrittenFields' : i < j => End(i)' <= packed'[j].at
      BY <1>0, <1>6, <1>7, SMT DEF CInv, Layout
    <2>3. \A i \in 1 .. n + 1 : 1 .. i \subseteq WrittenFields => i \in 1 .. n
      BY <1>0, <1>7, SMT
    <2>4. \A i \in DOMAIN packed' :
             1 .. i \subseteq WrittenFields'
                => packed'[i].at = IF i = 1 THEN 0 ELSE End(i - 1)'
      <3> SUFFICES ASSUME NEW i \in DOMAIN packed', 1 .. i \subseteq WrittenFields'
                   PROVE  packed'[i].at = IF i = 1 THEN 0 ELSE End(i - 1)'
        OBVIOUS
      <3>1. i \in 1 .. n /\ i \in DOMAIN packed
        <4>1. DOMAIN packed' = 1 .. n + 1 /\ DOMAIN packed = 1 .. n
          BY <1>0, <1>4, <1>6, SMT DEF CodecTypeOK
        <4> QED BY <1>6, <2>3, <4>1
      <3>2. packed[i].at = IF i = 1 THEN 0 ELSE End(i - 1)
        BY <1>6, <3>1 DEF CInv, Layout
      <3> QED BY <1>0, <1>6, <3>1, <3>2, SMT
    <2>5. ~(1 .. Len(packed') \subseteq WrittenFields')
      <3>1. n + 1 \in 1 .. Len(packed') /\ n + 1 \notin 1 .. n
        BY <1>0, <1>6, SMT
      <3> QED BY <1>6, <1>7, <3>1
    <2> QED BY <2>1, <2>2, <2>4, <2>5 DEF Layout
  <1>9. OnlyRawOverruns'
    BY <1>2, <1>6, <1>7 DEF CInv, OnlyRawOverruns, RawPacked
  <1>10. Received' /\ ReadsBack' /\ ReadsStayInside'
    <2>1. reqLength' = 0 /\ head' = 0 /\ unpacked' = <<>> /\ phase' = "pack"
      BY <1>0 DEF CInv, Received
    <2> QED BY <2>1, SMT DEF Received, ReadsBack, ReadsStayInside
  <1> QED BY <1>0, <1>4, <1>8, <1>9, <1>10 DEF CInv
-----------------------------------------------------------------------------
(***************************************************************************)
(* Unpacking: one entry is added to unpacked.                              *)
(***************************************************************************)
NoRawAsked == \A i \in DOMAIN packed : packed[i].field.kind # "raw"

\* Where the receiver stands before a field that is whole.
LEMMA HeadAtField ==
    ASSUME CInv, phase = "unpack", NEW k \in Nat, k = Len(unpacked),
           k < Len(packed), Whole(k + 1)
    PROVE  /\ k + 1 \in WrittenFields
           /\ End(k + 1) <= reqLength
           /\ head = packed[k + 1].at
  <1>0. CodecTypeOK
    BY DEF CInv
  <1>1. k + 1 \in 1 .. k + 1 /\ 1 .. k \subseteq 1 .. k + 1
    BY SMT
  <1>2. 1 .. k + 1 \subseteq WrittenFields /\ Whole(k)
    BY <1>1 DEF Whole
  <1>3. k + 1 \in DOMAIN packed
    BY <1>0, SMT DEF CodecTypeOK
  <1>4. packed[k + 1].at = IF k + 1 = 1 THEN 0 ELSE End((k + 1) - 1)
    BY <1>2, <1>3 DEF CInv, Layout
  <1>5. head = IF unpacked = <<>> THEN 0 ELSE End(k)
    BY <1>2 DEF CInv, Received
  <1>6. (unpacked = <<>> <=> k = 0) /\ (k + 1) - 1 = k /\ (k + 1 = 1 <=> k = 0)
    BY <1>0, SMT DEF CodecTypeOK
  <1>7. head = packed[k + 1].at
    BY <1>4, <1>5, <1>6
  <1> QED BY <1>1, <1>7 DEF Whole

\* A reader that stands where a field was written finds that field's size.
LEMMA SizeAtField ==
    ASSUME CInv, NEW i \in WrittenFields, head = packed[i].at
    PROVE  SizesHere(packed[i].field.kind) = {packed[i].field.size}
  <1>0. CodecTypeOK
    BY DEF CInv
  <1>1. ASSUME NEW j \in DOMAIN packed, packed[j].at = head
        PROVE  j = i
    <2>1. packed[i].at # Failed /\ i \in DOMAIN packed
      BY DEF WrittenFields
    <2>2. j \in WrittenFields
      BY <1>1, <2>1 DEF WrittenFields
    <2>3. /\ packed[i].at < End(i) /\ packed[j].at < End(j)
          /\ End(i) \in Nat /\ End(j) \in Nat
          /\ packed[i].at \in Nat /\ packed[j].at \in Nat
          /\ i \in 1 .. Len(packed) /\ j \in 1 .. Len(packed)
      BY <1>0, <2>2, EndFacts
    <2>4. (i < j => End(i) <= packed[j].at) /\ (j < i => End(j) <= packed[i].at)
      BY <2>2 DEF CInv, Layout
    <2>5. Len(packed) \in Nat
      BY <1>0, SMT DEF CodecTypeOK
    <2> QED BY <1>1, <2>3, <2>4, <2>5, SMT
  <1>2. i \in DOMAIN packed /\ packed[i].ended
    BY DEF WrittenFields, CInv, Layout
  <1> QED BY <1>1, <1>2 DEF SizesHere

\* A field that is read, or not found.
LEMMA UnpackKeeps ==
    ASSUME CInv, phase = "unpack", NEW k \in Nat, k = Len(unpacked),
           k < Len(packed),
           NEW a \in Nat \cup {Failed}, NEW m \in Nat,
           unpacked' = Append(unpacked, [at |-> a, size |-> m]),
           head' \in Nat,
           Whole(k + 1) => /\ a = packed[k + 1].at
                           /\ m = packed[k + 1].field.size
                           /\ head' = End(k + 1),
           NoRawAsked => head' <= reqLength + 1,
           UNCHANGED <<phase, tail, length, zeroFrom, packed, reqLength>>
    PROVE  CInv'
  <1> DEFINE e == [at |-> a, size |-> m]
  <1>0. CodecTypeOK /\ zeroFrom = 0
    BY DEF CInv
  <1>1. e \in [at : Nat \cup {Failed}, size : Nat]
    OBVIOUS
  <1>2. CodecTypeOK'
    BY <1>0, <1>1, SMT DEF CodecTypeOK
  <1> HIDE DEF e
  <1>3. /\ Len(unpacked') = k + 1
        /\ unpacked'[k + 1] = e
        /\ \A i \in 1 .. k : unpacked'[i] = unpacked[i]
        /\ DOMAIN unpacked' = 1 .. k + 1
        /\ DOMAIN unpacked = 1 .. k
        /\ unpacked' # <<>>
    BY <1>0, <1>1, SMT DEF CodecTypeOK, e
  <1>4. WrittenFields' = WrittenFields /\ (\A i : End(i)' = End(i))
        /\ (\A i : Whole(i)' <=> Whole(i))
    BY DEF WrittenFields, End, Whole
  <1>5. Layout' /\ OnlyRawOverruns'
    BY <1>4 DEF CInv, Layout, OnlyRawOverruns, RawPacked
  <1>6. Received'
    <2>1. Len(unpacked') <= Len(packed')
      BY <1>0, <1>3, SMT DEF CodecTypeOK
    <2>2. ASSUME Whole(Len(unpacked))' PROVE head' = End(Len(unpacked))'
      <3>1. Whole(k + 1)
        BY <1>3, <1>4, <2>2 DEF Whole
      <3>2. End(Len(unpacked))' = End(k + 1)
        BY <1>3 DEF End
      <3> QED BY <3>1, <3>2
    <2> QED BY <1>3, <2>1, <2>2 DEF CInv, Received
  <1>7. ReadsBack'
    <2> SUFFICES ASSUME NEW i \in 1 .. k + 1, Whole(i)
                 PROVE  unpacked'[i] = [at |-> packed[i].at,
                                        size |-> packed[i].field.size]
      BY <1>3, <1>4 DEF ReadsBack, Whole
    <2>1. CASE i = k + 1
      BY <1>3, <2>1 DEF e
    <2>2. CASE i \in 1 .. k
      BY <1>3, <2>2 DEF CInv, ReadsBack, Whole
    <2> QED BY <2>1, <2>2, SMT
  <1>8. ReadsStayInside'
    <2> SUFFICES ASSUME NoRawAsked PROVE head' <= reqLength' + 1 /\ head' < BufSize
      BY DEF ReadsStayInside, NoRawAsked
    <2>1. head' <= reqLength + 1
      OBVIOUS
    <2>2. reqLength = length /\ Header + length + 1 < BufSize
      BY DEF CInv, Received
    <2>3. length \in Nat /\ reqLength \in Nat
      BY <1>0, SMT DEF CodecTypeOK
    <2> QED BY <2>1, <2>2, <2>3, SMT
  <1> QED BY <1>0, <1>2, <1>5, <1>6, <1>7, <1>8 DEF CInv

\* Without raw data in the message everything written is sent.
LEMMA NothingLeftOut ==
    ASSUME CInv, phase = "unpack", NoRawAsked, NEW i \in WrittenFields
    PROVE  End(i) <= reqLength
  <1>1. ~RawPacked
    BY DEF NoRawAsked, RawPacked, WrittenFields
  <1> QED BY <1>1 DEF CInv, OnlyRawOverruns, Received, Layout

\* A read that finds nothing.
LEMMA NothingFound ==
    ASSUME CInv, phase = "unpack", NEW k \in Nat, k = Len(unpacked),
           k < Len(packed), ~Whole(k + 1), GotNothing,
           UNCHANGED <<phase, tail, length, zeroFrom, packed, reqLength>>
    PROVE  CInv'
  <1>1. unpacked' = Append(unpacked, [at |-> Failed, size |-> 0]) /\ head' = head
    BY DEF GotNothing
  <1>2. head' \in Nat /\ 0 \in Nat /\ Failed \in Nat \cup {Failed}
    BY <1>1 DEF CInv, CodecTypeOK
  <1>3. NoRawAsked => head' <= reqLength + 1
    BY <1>1 DEF CInv, ReadsStayInside, NoRawAsked
  <1> QED BY <1>1, <1>2, <1>3, UnpackKeeps

LEMMA ReadFixedKeeps == CInv /\ READ_FIXED => CInv'
  <1> SUFFICES ASSUME CInv, READ_FIXED PROVE CInv'
    OBVIOUS
  <1>n. PICK k \in Nat : k = Len(unpacked)
    BY SMT DEF CInv, CodecTypeOK
  <1>0. /\ phase = "unpack" /\ k < Len(packed)
        /\ packed[k + 1].field.kind = "fixed"
        /\ WantedSize = packed[k + 1].field.size
        /\ UNCHANGED <<phase, tail, length, zeroFrom, packed, reqLength>>
    BY <1>n DEF READ_FIXED, Wants, WantedSize
  <1>1. CodecTypeOK /\ head \in Nat /\ reqLength \in Nat
    BY DEF CInv, CodecTypeOK
  <1>2. packed[k + 1].field \in Field
    BY <1>0, <1>1, PackedField
  <1>3. WantedSize \in Nat /\ Width(packed[k + 1].field) = WantedSize
    BY <1>0, <1>2, FieldFacts
  <1>4. ASSUME Whole(k + 1)
        PROVE  /\ head = packed[k + 1].at
               /\ End(k + 1) = head + WantedSize
               /\ head + WantedSize <= reqLength
    BY <1>n, <1>0, <1>3, <1>4, HeadAtField DEF End
  <1>5. CASE /\ head + WantedSize <= reqLength
             /\ Got(WantedSize)
             /\ head' = head + WantedSize
    <2>1. head' \in Nat /\ head' <= reqLength + 1 /\ head \in Nat \cup {Failed}
      BY <1>1, <1>3, <1>5, SMT
    <2>2. unpacked' = Append(unpacked, [at |-> head, size |-> WantedSize])
      BY <1>5 DEF Got
    <2>3. Whole(k + 1) => /\ head = packed[k + 1].at
                          /\ WantedSize = packed[k + 1].field.size
                          /\ head' = End(k + 1)
      BY <1>0, <1>4, <1>5
    <2> QED BY <1>n, <1>0, <1>3, <2>1, <2>2, <2>3, UnpackKeeps
  <1>6. CASE head + WantedSize > reqLength /\ GotNothing
    <2>1. ~Whole(k + 1)
      BY <1>1, <1>3, <1>4, <1>6, SMT
    <2> QED BY <1>n, <1>0, <2>1, <1>6, NothingFound
  <1> QED BY <1>5, <1>6 DEF READ_FIXED
LEMMA ReadStringKeeps == CInv /\ READ_STRING => CInv'
  <1> SUFFICES ASSUME CInv, READ_STRING PROVE CInv'
    OBVIOUS
  <1>n. PICK k \in Nat : k = Len(unpacked)
    BY SMT DEF CInv, CodecTypeOK
  <1>0. /\ phase = "unpack" /\ k < Len(packed)
        /\ packed[k + 1].field.kind = "string"
        /\ UNCHANGED <<phase, tail, length, zeroFrom, packed, reqLength>>
    BY <1>n DEF READ_STRING, Wants
  <1>1. CodecTypeOK /\ head \in Nat /\ reqLength \in Nat
    BY DEF CInv, CodecTypeOK
  <1>2. packed[k + 1].field \in Field
    BY <1>0, <1>1, PackedField
  <1>3. /\ packed[k + 1].field.size \in Nat
        /\ Width(packed[k + 1].field) = packed[k + 1].field.size + 1
    BY <1>0, <1>2, FieldFacts
  <1>4. ASSUME Whole(k + 1)
        PROVE  /\ k + 1 \in WrittenFields
               /\ head = packed[k + 1].at
               /\ End(k + 1) = head + (packed[k + 1].field.size + 1)
               /\ End(k + 1) <= reqLength
               /\ SizesHere("string") = {packed[k + 1].field.size}
    <2>1. /\ k + 1 \in WrittenFields
          /\ head = packed[k + 1].at
          /\ End(k + 1) <= reqLength
      BY <1>n, <1>0, <1>4, HeadAtField
    <2> QED BY <1>0, <1>3, <2>1, SizeAtField DEF End
  <1>5. CASE head + 1 > reqLength /\ GotNothing
    <2>1. ~Whole(k + 1)
      BY <1>1, <1>3, <1>4, <1>5, SMT
    <2> QED BY <1>n, <1>0, <2>1, <1>5, NothingFound
  <1>6. CASE /\ head + 1 <= reqLength
             /\ \E n \in IF SizesHere("string") # {} THEN SizesHere("string")
                         ELSE 0 .. reqLength - head :
                    Got(n) /\ head' = head + n + 1
    <2>1. PICK n \in IF SizesHere("string") # {} THEN SizesHere("string")
                     ELSE 0 .. reqLength - head :
             Got(n) /\ head' = head + n + 1
      BY <1>6
    <2>2. n \in Nat /\ (NoRawAsked => head + n <= reqLength)
      <3>1. CASE SizesHere("string") = {}
        BY <1>1, <1>6, <2>1, <3>1, SMT
      <3>2. CASE SizesHere("string") # {}
        <4>1. PICK j \in DOMAIN packed : /\ packed[j].at = head
                                         /\ packed[j].field.kind = "string"
                                         /\ n = packed[j].field.size
          BY <2>1, <3>2 DEF SizesHere
        <4>2. j \in WrittenFields
          BY <1>1, <4>1, SMT DEF WrittenFields, Failed
        <4>3. packed[j].field \in Field
          BY <1>1, <4>2, EndFacts
        <4>4. n \in Nat /\ End(j) = head + (n + 1)
          BY <4>1, <4>3, FieldFacts DEF End
        <4>5. NoRawAsked => End(j) <= reqLength
          BY <1>0, <4>2, NothingLeftOut
        <4> QED BY <1>1, <4>4, <4>5, SMT
      <3> QED BY <3>1, <3>2
    <2>3. /\ head \in Nat \cup {Failed} /\ head' \in Nat
          /\ NoRawAsked => head' <= reqLength + 1
      BY <1>1, <2>1, <2>2, SMT
    <2>4. ASSUME Whole(k + 1)
          PROVE  /\ head = packed[k + 1].at
                 /\ n = packed[k + 1].field.size
                 /\ head' = End(k + 1)
      <3>1. n = packed[k + 1].field.size
        BY <1>4, <2>1, <2>4
      <3> QED BY <1>1, <1>3, <1>4, <2>1, <2>4, <3>1, SMT
    <2>5. unpacked' = Append(unpacked, [at |-> head, size |-> n])
      BY <2>1 DEF Got
    <2> QED BY <1>n, <1>0, <2>2, <2>3, <2>4, <2>5, UnpackKeeps
  <1> QED BY <1>5, <1>6 DEF READ_STRING
LEMMA ReadRawKeeps == CInv /\ READ_RAW => CInv'
  <1> SUFFICES ASSUME CInv, READ_RAW PROVE CInv'
    OBVIOUS
  <1>n. PICK k \in Nat : k = Len(unpacked)
    BY SMT DEF CInv, CodecTypeOK
  <1>0. /\ phase = "unpack" /\ k < Len(packed)
        /\ packed[k + 1].field.kind = "raw"
        /\ UNCHANGED <<phase, tail, length, zeroFrom, packed, reqLength>>
    BY <1>n DEF READ_RAW, Wants
  <1>1. CodecTypeOK /\ head \in Nat /\ reqLength \in Nat
    BY DEF CInv, CodecTypeOK
  <1>2. packed[k + 1].field \in Field
    BY <1>0, <1>1, PackedField
  <1>3. /\ packed[k + 1].field.size \in Nat
        /\ Width(packed[k + 1].field) = packed[k + 1].field.size + 2
    BY <1>0, <1>2, FieldFacts
  <1>4. ASSUME Whole(k + 1)
        PROVE  /\ k + 1 \in WrittenFields
               /\ head = packed[k + 1].at
               /\ End(k + 1) = head + (packed[k + 1].field.size + 2)
               /\ End(k + 1) <= reqLength
               /\ SizesHere("raw") = {packed[k + 1].field.size}
    <2>1. /\ k + 1 \in WrittenFields
          /\ head = packed[k + 1].at
          /\ End(k + 1) <= reqLength
      BY <1>n, <1>0, <1>4, HeadAtField
    <2> QED BY <1>0, <1>3, <2>1, SizeAtField DEF End
  <1>5. CASE head + 1 > reqLength /\ GotNothing
    <2>1. ~Whole(k + 1)
      BY <1>1, <1>3, <1>4, <1>5, SMT
    <2> QED BY <1>n, <1>0, <2>1, <1>5, NothingFound
  <1>6. CASE /\ head + 1 <= reqLength
             /\ \E n \in IF SizesHere("raw") # {} THEN SizesHere("raw")
                         ELSE 0 .. BufSize :
                    Got(n) /\ head' = head + 2 + n
    <2>1. PICK n \in IF SizesHere("raw") # {} THEN SizesHere("raw")
                     ELSE 0 .. BufSize :
             Got(n) /\ head' = head + 2 + n
      BY <1>6
    <2>2. n \in Nat
      <3>1. CASE SizesHere("raw") = {}
        BY <2>1, <3>1, SMT
      <3>2. CASE SizesHere("raw") # {}
        <4>1. PICK j \in DOMAIN packed : /\ packed[j].at = head
                                         /\ n = packed[j].field.size
          BY <2>1, <3>2 DEF SizesHere
        <4>2. j \in WrittenFields
          BY <1>1, <4>1, SMT DEF WrittenFields, Failed
        <4>3. packed[j].field \in Field
          BY <1>1, <4>2, EndFacts
        <4> QED BY <4>1, <4>3, FieldFacts
      <3> QED BY <3>1, <3>2
    <2>3. head \in Nat \cup {Failed} /\ head' \in Nat
      BY <1>1, <2>1, <2>2, SMT
    <2>4. ASSUME Whole(k + 1)
          PROVE  /\ head = packed[k + 1].at
                 /\ n = packed[k + 1].field.size
                 /\ head' = End(k + 1)
      <3>1. n = packed[k + 1].field.size
        BY <1>4, <2>1, <2>4
      <3> QED BY <1>1, <1>3, <1>4, <2>1, <2>4, <3>1, SMT
    <2>5. unpacked' = Append(unpacked, [at |-> head, size |-> n])
      BY <2>1 DEF Got
    <2>6. ~NoRawAsked
      <3>1. k + 1 \in DOMAIN packed
        BY <1>0, <1>1, PackedField
      <3> QED BY <1>0, <3>1 DEF NoRawAsked
    <2> QED BY <1>n, <1>0, <2>2, <2>3, <2>4, <2>5, <2>6, UnpackKeeps
  <1> QED BY <1>5, <1>6 DEF READ_RAW
-----------------------------------------------------------------------------
LEMMA PackStep == CInv /\ Pack => CInv'
  <1> SUFFICES ASSUME CInv, NEW f \in Field,
                      WRITE_FIXED(f) \/ WRITE_STRING(f) \/ WRITE_RAW(f)
               PROVE  CInv'
    BY DEF Pack
  <1>0. Packing /\ UNCHANGED <<phase, zeroFrom, reqLength, head, unpacked>>
    BY DEF WRITE_FIXED, WRITE_STRING, WRITE_RAW
  <1>1. /\ f.kind = "fixed" => Width(f) = f.size
        /\ f.kind = "string" => Width(f) = f.size + 1
        /\ f.kind = "raw" => Width(f) = f.size + 2
        /\ f.size \in Nat
    BY FieldFacts
  <1>2. tail \in Nat /\ length \in Nat
    BY SMT DEF CInv, CodecTypeOK
  <1>3. CASE Refused(f)
    BY <1>0, <1>3, RefusalKeeps
  <1>4. CASE WRITE_FIXED(f) /\ ~Refused(f)
    <2>1. /\ f.kind = "fixed" /\ Fits(f.size) /\ Written(f)
          /\ tail' = tail + f.size /\ length' = tail'
      BY <1>4 DEF WRITE_FIXED
    <2>2. f.kind # "raw" => length + Width(f) <= BufSize
      BY <1>1, <2>1 DEF Fits
    <2>3. tail' = tail + Width(f)
      BY <1>1, <2>1
    <2> QED BY <1>0, <2>1, <2>2, <2>3, WriteKeeps
  <1>5. CASE WRITE_STRING(f) /\ ~Refused(f)
    <2>1. /\ f.kind = "string" /\ Fits(f.size + 1) /\ Written(f)
          /\ tail' = tail + f.size + 1 /\ length' = tail'
      BY <1>5 DEF WRITE_STRING
    <2>2. f.kind # "raw" => length + Width(f) <= BufSize
      BY <1>1, <2>1 DEF Fits
    <2>3. tail' = tail + Width(f)
      BY <1>1, <1>2, <2>1, SMT
    <2> QED BY <1>0, <2>1, <2>2, <2>3, WriteKeeps
  <1>6. CASE WRITE_RAW(f) /\ ~Refused(f)
    <2>1. /\ f.kind = "raw" /\ Written(f)
          /\ tail' = tail + 2 + f.size /\ length' = length
      BY <1>6 DEF WRITE_RAW
    <2>2. tail' = tail + Width(f)
      BY <1>1, <1>2, <2>1, SMT
    <2> QED BY <1>0, <2>1, <2>2, WriteKeeps
  <1> QED BY <1>3, <1>4, <1>5, <1>6

LEMMA CarryStep == CInv /\ (Carry \/ CarryTooLarge \/ CarryOverrun) => CInv'
  <1> SUFFICES ASSUME CInv, Carry \/ CarryTooLarge \/ CarryOverrun PROVE CInv'
    OBVIOUS
  <1>0. /\ phase = "pack" /\ tail <= BufSize
        /\ UNCHANGED <<tail, length, zeroFrom, packed, head, unpacked>>
    BY DEF Carry, CarryTooLarge, CarryOverrun
  <1>1. CodecTypeOK /\ zeroFrom = 0 /\ reqLength = 0 /\ head = 0 /\ unpacked = <<>>
    BY <1>0, SMT DEF CInv, Received
  <1>2. WrittenFields' = WrittenFields /\ (\A i : End(i)' = End(i))
    BY <1>0 DEF WrittenFields, End
  <1>3. Layout' /\ OnlyRawOverruns'
    BY <1>0, <1>2 DEF CInv, Layout, OnlyRawOverruns, RawPacked
  <1>4. ReadsBack'
    BY <1>0, <1>1, SMT DEF ReadsBack
  <1>5. CASE Carry
    <2>1. phase' = "unpack" /\ reqLength' = length /\ Header + length + 1 < BufSize
      BY <1>5 DEF Carry
    <2>2. CodecTypeOK'
      BY <1>0, <1>1, <2>1, SMT DEF CodecTypeOK
    <2>3. Received' /\ ReadsStayInside'
      BY <1>0, <1>1, <2>1, SMT DEF Received, ReadsStayInside, CodecTypeOK
    <2> QED BY <1>0, <1>1, <1>3, <1>4, <2>2, <2>3 DEF CInv
  <1>6. CASE CarryTooLarge \/ CarryOverrun
    <2>1. phase' \in {"lost", "overrun"} /\ reqLength' = reqLength
      BY <1>6 DEF CarryTooLarge, CarryOverrun
    <2>2. CodecTypeOK'
      BY <1>0, <1>1, <2>1, SMT DEF CodecTypeOK
    <2>3. Received' /\ ReadsStayInside'
      BY <1>0, <1>1, <2>1, SMT DEF Received, ReadsStayInside
    <2> QED BY <1>0, <1>1, <1>3, <1>4, <2>2, <2>3 DEF CInv
  <1> QED BY <1>5, <1>6

LEMMA ResetStep == ResetBuffers => CInv'
  <1> SUFFICES ASSUME ResetBuffers PROVE CInv'
    OBVIOUS
  <1>1. /\ phase' = "pack" /\ tail' = 0 /\ length' = 0 /\ zeroFrom' = 0
        /\ packed' = <<>> /\ reqLength' = 0 /\ head' = 0 /\ unpacked' = <<>>
    BY DEF ResetBuffers
  <1>2. CodecTypeOK'
    BY <1>1, SMT DEF CodecTypeOK
  <1>3. WrittenFields' = {} /\ DOMAIN packed' = {} /\ DOMAIN unpacked' = {}
    BY <1>1, SMT DEF WrittenFields
  <1>4. Layout' /\ OnlyRawOverruns' /\ ReadsBack'
    BY <1>1, <1>3, SMT DEF Layout, OnlyRawOverruns, ReadsBack
  <1>5. Received' /\ ReadsStayInside'
    BY <1>1, SMT DEF Received, ReadsStayInside
  <1> QED BY <1>1, <1>2, <1>4, <1>5 DEF CInv

LEMMA CodecStutter == CInv /\ UNCHANGED codecVars => CInv'
  <1> SUFFICES ASSUME CInv, UNCHANGED codecVars PROVE CInv'
    OBVIOUS
  <1>1. UNCHANGED <<phase, tail, length, zeroFrom, packed, reqLength, head, unpacked>>
    BY DEF codecVars
  <1>2. WrittenFields' = WrittenFields /\ (\A i : End(i)' = End(i))
    BY <1>1 DEF WrittenFields, End
  <1>3. CodecTypeOK' /\ zeroFrom' = 0
    BY <1>1 DEF CInv, CodecTypeOK
  <1>4. Layout' /\ OnlyRawOverruns'
    BY <1>1, <1>2 DEF CInv, Layout, OnlyRawOverruns, RawPacked
  <1>5. Whole(Len(unpacked))' = Whole(Len(unpacked))
    BY <1>1, <1>2 DEF Whole
  <1>6. Received'
    BY <1>1, <1>2, <1>5 DEF CInv, Received
  <1>7. ReadsBack' /\ ReadsStayInside'
    BY <1>1, <1>2 DEF CInv, ReadsBack, ReadsStayInside
  <1> QED BY <1>3, <1>4, <1>6, <1>7 DEF CInv
-----------------------------------------------------------------------------
(***************************************************************************)
(* The theorems.                                                           *)
(***************************************************************************)

\* The inductive invariant of the codec (WRITE_*, READ_*, DTPLink_ResetBuffers).
THEOREM CodecInvariance == CodecSpec => []CInv
  <1>1. CInv /\ [CodecNext]_codecVars => CInv'
    BY PackStep, CarryStep, ReadFixedKeeps, ReadStringKeeps, ReadRawKeeps,
       ResetStep, CodecStutter DEF CodecNext, Unpack
  <1> QED BY <1>1, Initially, PTL DEF CodecSpec

\* Every offset and length of the two buffers keeps its type.
THEOREM CodecTypeCorrect == CodecSpec => []CodecTypeOK
  <1>1. CInv => CodecTypeOK
    BY DEF CInv
  <1> QED BY <1>1, CodecInvariance, PTL

\* The WRITE_* functions other than WRITE_RAW never leave the response buffer
\* and count every byte, for any buffer and any sizes of words and strings.
THEOREM WritesStayInside == CodecSpec => []OnlyRawOverruns
  <1>1. CInv => OnlyRawOverruns
    BY DEF CInv
  <1> QED BY <1>1, CodecInvariance, PTL

\* READ_* give back what WRITE_* were given, in the order of the generated
\* pack and unpack functions, up to the first field refused or not sent.
THEOREM RoundTrip == CodecSpec => []ReadsBack
  <1>1. CInv => ReadsBack
    BY DEF CInv
  <1> QED BY <1>1, CodecInvariance, PTL

\* READ_WORD, READ_DWORD, READ_FLOAT, READ_BYTE and READ_STRING never run out
\* of the request buffer, even behind a refused field.
THEOREM ReadsInside == CodecSpec => []ReadsStayInside
  <1>1. CInv => ReadsStayInside
    BY DEF CInv
  <1> QED BY <1>1, CodecInvariance, PTL
=============================================================================
