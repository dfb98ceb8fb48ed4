------------------------ MODULE ClientRequestsProofs ------------------------
(***************************************************************************)
(* Proofs about ClientRequests, for every size of the buffers and of an    *)
(* unsigned long, any clients and messages, and both network layers.       *)
(***************************************************************************)
EXTENDS ClientRequests, TLAPS

-----------------------------------------------------------------------------
(***************************************************************************)
(* The chain of reads and writes of one data query.                        *)
(***************************************************************************)
\* A handler's state whose request is b.
State(b, hd, r, f) ==
    [req |-> [content |-> b, head |-> hd, length |-> BodyLen(b)],
     resp |-> r, fields |-> f]

Filled(cells, n) == [content |-> cells, tail |-> n, length |-> n]

Fields == [1 .. 3 -> Value]

LEMMA LongSizes ==
    /\ LongSize = 4 * LongWords
    /\ LongWords \in {1, 2}
    /\ LongSize \in {4, 8}
    /\ BufSize \in Nat
    /\ BufSize >= 64
    /\ BufSize < 32768
    /\ 0 \in Value
    /\ Value \subseteq Nat
BY SizeAssumption DEF LongSize, Value

\* READ_DWORD on such a state.
LEMMA ReadDword ==
    ASSUME NEW b \in Seq(Value), NEW hd \in Nat, NEW r, NEW f \in Fields,
           NEW i \in 1 .. 2
    PROVE  READ_DWORD(State(b, hd, r, f), i) =
             IF hd + LongSize <= BodyLen(b)
             THEN State(b, hd + LongSize, r, Stored(f, i, AtHead(State(b, hd, r, f))))
             ELSE State(b, hd, r, f)
BY DEF READ_DWORD, State

LEMMA ReadWord ==
    ASSUME NEW b \in Seq(Value), NEW hd \in Nat, NEW r, NEW f,
           hd + 2 <= BodyLen(b)
    PROVE  READ_WORD(State(b, hd, r, f)) = State(b, hd + 2, r, f)
BY DEF READ_WORD, State

LEMMA PutInto ==
    ASSUME NEW b, NEW hd, NEW f, NEW cs, NEW n \in Nat, NEW cells, NEW k \in Nat,
           n + k <= BufSize
    PROVE  Put(State(b, hd, Filled(cs, n), f), cells, k) =
             State(b, hd, Filled(cs \o cells, n + k), f)
BY DEF Put, State, Filled

LEMMA CellRead ==
    ASSUME NEW b \in Seq(Value), NEW r, NEW f, NEW k \in Nat \ {0}, k < Len(b)
    PROVE  AtHead(State(b, 4 * k - 2, r, f)) = b[k + 1]
<1>1. (4 * k - 2 + 6) \div 4 = k + 1
  OBVIOUS
<1>2. k + 1 \in DOMAIN b
  OBVIOUS
<1> QED BY <1>1, <1>2 DEF AtHead, State

LEMMA WordRead ==
    ASSUME NEW b \in Seq(Value), NEW r, NEW f, b # <<>>
    PROVE  AtHead(State(b, 0, r, f)) = b[1]
<1>1. (0 + 6) \div 4 = 1 /\ 1 \in DOMAIN b
  OBVIOUS
<1> QED BY <1>1 DEF AtHead, State

LEMMA StoredFields ==
    ASSUME NEW f \in Fields, NEW i \in 1 .. 2, NEW v \in Value
    PROVE  /\ Stored(f, i, v) \in Fields
           /\ Stored(f, i, v)[i] = v
           /\ i = 2 => Stored(f, i, v)[1] = f[1]
           /\ i = 1 => Stored(f, i, v)[2] \in {0, f[2]}
BY LongSizes DEF Stored, Fields

LEMMA BodyLengths ==
    ASSUME NEW b \in Seq(Value)
    PROVE  /\ BodyLen(b) \in Nat
           /\ b = <<>> => BodyLen(b) = 0 /\ Len(b) = 0
           /\ b # <<>> => BodyLen(b) = 4 * Len(b) - 2 /\ Len(b) \in Nat /\ Len(b) >= 1
<1>1. Len(b) \in Nat /\ (b = <<>> <=> Len(b) = 0)
  OBVIOUS
<1> QED BY <1>1 DEF BodyLen

\* What the application reads are the two parameters, in their order.
LEMMA ParametersRead ==
    ASSUME NEW b \in Seq(Value), b # <<>>, NEW r
    PROVE  \E hd \in Nat, f \in Fields :
             /\ CRequest_index_unpack(State(b, 2, r, <<0, 0, 0>>)) = State(b, hd, r, f)
             /\ hd <= BodyLen(b)
             /\ f[1] = Param(b, 1)
             /\ f[2] = Param(b, 2)
<1> DEFINE L == LongWords
           f0 == <<0, 0, 0>>
           v1 == AtHead(State(b, 2, r, f0))
           f1 == Stored(f0, 1, v1)
           v2 == AtHead(State(b, 2 + LongSize, r, f1))
           f2 == Stored(f1, 2, v2)
           Done(hd, f) ==
             /\ CRequest_index_unpack(State(b, 2, r, f0)) = State(b, hd, r, f)
             /\ hd <= BodyLen(b)
             /\ f[1] = Param(b, 1)
             /\ f[2] = Param(b, 2)
<1> SUFFICES \E hd \in Nat, f \in Fields : Done(hd, f)
  OBVIOUS
<1>0. /\ BodyLen(b) = 4 * Len(b) - 2 /\ Len(b) \in Nat /\ Len(b) >= 1
      /\ L \in {1, 2} /\ LongSize = 4 * L
  BY BodyLengths, LongSizes
<1>1. f0 \in Fields /\ f0[1] = 0 /\ f0[2] = 0
  BY LongSizes DEF Fields
<1> HIDE DEF f0
<1>2. READ_DWORD(State(b, 2, r, f0), 1) =
        IF 2 + LongSize <= BodyLen(b) THEN State(b, 2 + LongSize, r, f1)
        ELSE State(b, 2, r, f0)
  BY <1>1, ReadDword
<1>3. CASE ~(2 + LongSize <= BodyLen(b))
  <2>1. READ_DWORD(State(b, 2, r, f0), 2) = State(b, 2, r, f0)
    BY <1>1, <1>3, ReadDword
  <2>2. CRequest_index_unpack(State(b, 2, r, f0)) = State(b, 2, r, f0)
    BY <1>2, <1>3, <2>1 DEF CRequest_index_unpack
  <2>3. Param(b, 1) = 0 /\ Param(b, 2) = 0
    BY <1>0, <1>3 DEF Param
  <2>4. 2 \in Nat /\ 2 <= BodyLen(b)
    BY <1>0
  <2>5. Done(2, f0)
    BY <1>1, <2>2, <2>3, <2>4
  <2> HIDE DEF Done
  <2> QED BY <1>1, <2>4, <2>5
<1>4. CASE 2 + LongSize <= BodyLen(b)
  <2>1. 1 + L <= Len(b)
    BY <1>0, <1>4
  <2>2. v1 = b[2] /\ v1 \in Value /\ Param(b, 1) = b[2]
    <3>1. v1 = b[2]
      <4>1. 4 * 1 - 2 = 2 /\ 1 + 1 = 2 /\ 1 \in Nat \ {0} /\ 1 < Len(b)
        BY <1>0, <2>1
      <4>2. AtHead(State(b, 4 * 1 - 2, r, f0)) = b[1 + 1]
        BY <4>1, CellRead
      <4> QED BY <4>1, <4>2
    <3> QED BY <1>0, <2>1, <3>1 DEF Param
  <2>3. f1 \in Fields /\ f1[1] = Param(b, 1) /\ f1[2] = 0
    <3>1. f1 \in Fields /\ f1[1] = v1 /\ f1[2] \in {0, f0[2]}
      <4> HIDE DEF v1
      <4>1. 1 \in 1 .. 2 /\ 1 # 2
        OBVIOUS
      <4> QED BY <1>1, <2>2, <4>1, StoredFields
    <3> QED BY <1>1, <2>2, <3>1
  <2>4. CRequest_index_unpack(State(b, 2, r, f0)) =
          IF 2 + LongSize + LongSize <= BodyLen(b)
          THEN State(b, 2 + LongSize + LongSize, r, f2)
          ELSE State(b, 2 + LongSize, r, f1)
    BY <1>0, <1>2, <1>4, <2>3, ReadDword DEF CRequest_index_unpack
  <2>5. CASE ~(2 + LongSize + LongSize <= BodyLen(b))
    <3>1. Param(b, 2) = 0
      BY <1>0, <2>5 DEF Param
    <3>2. 2 + LongSize \in Nat
      BY <1>0
    <3>3. Done(2 + LongSize, f1)
      <4> HIDE DEF f1, v1
      <4> QED BY <1>4, <2>3, <2>4, <2>5, <3>1
    <3> HIDE DEF Done, f1
    <3> QED BY <2>3, <3>2, <3>3
  <2>6. CASE 2 + LongSize + LongSize <= BodyLen(b)
    <3>1. 1 + 2 * L <= Len(b)
      BY <1>0, <2>6
    <3>2. v2 = b[2 + L]
      <4>1. L + 1 \in Nat \ {0} /\ L + 1 < Len(b)
        BY <1>0, <3>1
      <4>2. 2 + LongSize = 4 * (L + 1) - 2
        BY <1>0
      <4>3. v2 = b[(L + 1) + 1]
        BY <4>1, <4>2, CellRead
      <4> QED BY <1>0, <4>3
    <3>3. v2 \in Value /\ Param(b, 2) = v2
      BY <1>0, <3>1, <3>2 DEF Param
    <3>4. f2 \in Fields /\ f2[2] = v2 /\ f2[1] = f1[1]
      <4> HIDE DEF v2, f1
      <4>1. 2 \in 1 .. 2
        OBVIOUS
      <4> QED BY <2>3, <3>3, <4>1, StoredFields
    <3>5. 2 + LongSize + LongSize \in Nat
      BY <1>0
    <3>6. Done(2 + LongSize + LongSize, f2)
      <4> HIDE DEF f1, f2, v1, v2
      <4> QED BY <2>3, <2>4, <2>6, <3>3, <3>4
    <3> HIDE DEF Done, f2
    <3> QED BY <3>4, <3>5, <3>6
  <2> QED BY <2>5, <2>6
<1> QED BY <1>3, <1>4

\* The response structure is packed completely: it fits behind the identifier.
LEMMA ResponsePacked ==
    ASSUME NEW b, NEW hd, NEW f, NEW i, NEW d1, NEW d2, NEW r1
    PROVE  CResponse_index_packup(State(b, hd, Filled(<<i>>, 2), f), d1, d2, r1) =
             State(b, hd,
                   Filled(<<i>> \o Long(d1) \o Long(d2) \o Long(r1) \o Greeting,
                          18 + 3 * LongSize), f)
<1> DEFINE c1 == <<i>> \o Long(d1)
           c2 == c1 \o Long(d2)
           c3 == c2 \o Long(r1)
<1>0. LongSize \in {4, 8} /\ BufSize \in Nat /\ BufSize >= 64
  BY LongSizes
<1>1. WRITE_DWORD(State(b, hd, Filled(<<i>>, 2), f), d1)
        = State(b, hd, Filled(c1, 2 + LongSize), f)
  <2>1. 2 \in Nat /\ LongSize \in Nat /\ 2 + LongSize <= BufSize
    BY <1>0
  <2> QED BY <2>1, PutInto DEF WRITE_DWORD
<1>2. WRITE_DWORD(State(b, hd, Filled(c1, 2 + LongSize), f), d2)
        = State(b, hd, Filled(c2, 2 + LongSize + LongSize), f)
  <2>1. /\ 2 + LongSize \in Nat /\ LongSize \in Nat
        /\ 2 + LongSize + LongSize <= BufSize
    BY <1>0
  <2> HIDE DEF c1
  <2> QED BY <2>1, PutInto DEF WRITE_DWORD
<1>3. WRITE_DWORD(State(b, hd, Filled(c2, 2 + LongSize + LongSize), f), r1)
        = State(b, hd, Filled(c3, 2 + LongSize + LongSize + LongSize), f)
  <2>1. /\ 2 + LongSize + LongSize \in Nat /\ LongSize \in Nat
        /\ 2 + LongSize + LongSize + LongSize <= BufSize
    BY <1>0
  <2> HIDE DEF c2
  <2> QED BY <2>1, PutInto DEF WRITE_DWORD
<1>4. WRITE_STRING(State(b, hd, Filled(c3, 2 + LongSize + LongSize + LongSize), f))
        = State(b, hd, Filled(c3 \o Greeting,
                              2 + LongSize + LongSize + LongSize + 16), f)
  <2>1. /\ 2 + LongSize + LongSize + LongSize \in Nat /\ 16 \in Nat
        /\ 2 + LongSize + LongSize + LongSize + 16 <= BufSize
    BY <1>0
  <2> HIDE DEF c3
  <2> QED BY <2>1, PutInto DEF WRITE_STRING
<1>5. 2 + LongSize + LongSize + LongSize + 16 = 18 + 3 * LongSize
  BY <1>0
<1>6. CResponse_index_packup(State(b, hd, Filled(<<i>>, 2), f), d1, d2, r1)
        = State(b, hd, Filled(c3 \o Greeting, 18 + 3 * LongSize), f)
  <2> HIDE DEF c1, c2, c3
  <2> QED BY <1>1, <1>2, <1>3, <1>4, <1>5 DEF CResponse_index_packup
<1> QED BY <1>6

\* The identifier goes from one buffer to the other.
LEMMA IdCopied ==
    ASSUME NEW b \in Seq(Value)
    PROVE  LET h == State(b, 0, Filled(<<>>, 0), <<0, 0, 0>>)
           IN  /\ WordAtHead(h) = Id(b)
               /\ \E hd \in Nat :
                    /\ hd <= BodyLen(b)
                    /\ b # <<>> => hd = 2
                    /\ WRITE_WORD(READ_WORD(h), Id(b))
                         = State(b, hd, Filled(<<Id(b)>>, 2), <<0, 0, 0>>)
<1> DEFINE h == State(b, 0, Filled(<<>>, 0), <<0, 0, 0>>)
<1>0. <<>> \o <<Id(b)>> = <<Id(b)>>
  OBVIOUS
<1>1. ASSUME NEW hd
      PROVE  WRITE_WORD(State(b, hd, Filled(<<>>, 0), <<0, 0, 0>>), Id(b))
               = State(b, hd, Filled(<<Id(b)>>, 2), <<0, 0, 0>>)
  <2>1. 0 \in Nat /\ 2 \in Nat /\ 0 + 2 <= BufSize /\ 0 + 2 = 2
    BY LongSizes
  <2>2. Put(State(b, hd, Filled(<<>>, 0), <<0, 0, 0>>), <<Id(b)>>, 2)
          = State(b, hd, Filled(<<>> \o <<Id(b)>>, 0 + 2), <<0, 0, 0>>)
    <3> HIDE <1>0
    <3> QED BY <2>1 DEF Put, State, Filled
  <2> QED BY <1>0, <2>1, <2>2 DEF WRITE_WORD
<1>2. CASE b = <<>>
  <2>1. BodyLen(b) = 0 /\ Id(b) = 0
    BY <1>2, BodyLengths DEF Id
  <2>2. WordAtHead(h) = 0 /\ READ_WORD(h) = h
    BY <2>1 DEF WordAtHead, READ_WORD, State
  <2>3. 0 \in Nat /\ 0 <= BodyLen(b)
    BY <2>1
  <2> QED BY <1>1, <1>2, <2>1, <2>2, <2>3
<1>3. CASE b # <<>>
  <2>1. BodyLen(b) \in Nat /\ 2 <= BodyLen(b) /\ Id(b) = b[1]
    BY <1>3, BodyLengths DEF Id
  <2>2. READ_WORD(h) = State(b, 2, Filled(<<>>, 0), <<0, 0, 0>>)
    <3>1. 0 \in Nat /\ 0 + 2 <= BodyLen(b) /\ 0 + 2 = 2
      BY <2>1
    <3>2. READ_WORD(h) = State(b, 0 + 2, Filled(<<>>, 0), <<0, 0, 0>>)
      BY <3>1, ReadWord
    <3> QED BY <3>1, <3>2
  <2>3. WordAtHead(h) = AtHead(h)
    BY <2>1 DEF WordAtHead, State
  <2>4. AtHead(h) = b[1]
    BY <1>3, WordRead
  <2>5. 2 \in Nat
    OBVIOUS
  <2> QED BY <1>1, <2>1, <2>2, <2>3, <2>4, <2>5
<1> QED BY <1>2, <1>3

\* Handling the body of a request gives what the service promises.
LEMMA ProcessedIsResult ==
    ASSUME NEW b \in Seq(Value)
    PROVE  \E hd \in Nat, n \in {2, 18 + 3 * LongSize} : \E f :
             /\ hd <= BodyLen(b)
             /\ Processed(b, BodyLen(b)) = State(b, hd, Filled(Result(b), n), f)
<1> DEFINE h == State(b, 0, Filled(<<>>, 0), <<0, 0, 0>>)
<1>1. PICK hd0 \in Nat :
        /\ WordAtHead(h) = Id(b)
        /\ hd0 <= BodyLen(b)
        /\ b # <<>> => hd0 = 2
        /\ WRITE_WORD(READ_WORD(h), Id(b))
             = State(b, hd0, Filled(<<Id(b)>>, 2), <<0, 0, 0>>)
  BY IdCopied
<1>2. Processed(b, BodyLen(b))
        = device_server_main(State(b, hd0, Filled(<<Id(b)>>, 2), <<0, 0, 0>>), Id(b))
  <2>1. Processed(b, BodyLen(b))
          = device_server_main(WRITE_WORD(READ_WORD(h), WordAtHead(h)), WordAtHead(h))
    BY DEF Processed, DTPLink_ResetBuffers, State, Filled
  <2> QED BY <1>1, <2>1
<1>3. CASE Id(b) # 1
  <2>1. Processed(b, BodyLen(b)) = State(b, hd0, Filled(Result(b), 2), <<0, 0, 0>>)
    BY <1>2, <1>3 DEF device_server_main, Result
  <2>2. 2 \in {2, 18 + 3 * LongSize}
    OBVIOUS
  <2> QED BY <1>1, <2>1, <2>2
<1>4. CASE Id(b) = 1
  <2>1. b # <<>> /\ hd0 = 2
    BY <1>1, <1>4 DEF Id
  <2>2. PICK hd \in Nat, f \in Fields :
          /\ CRequest_index_unpack(State(b, 2, Filled(<<1>>, 2), <<0, 0, 0>>))
               = State(b, hd, Filled(<<1>>, 2), f)
          /\ hd <= BodyLen(b)
          /\ f[1] = Param(b, 1)
          /\ f[2] = Param(b, 2)
    BY <2>1, ParametersRead
  <2>3. State(b, hd, Filled(<<1>>, 2), f).fields = f
    BY DEF State
  <2>4. Processed(b, BodyLen(b))
          = CResponse_index_packup(State(b, hd, Filled(<<1>>, 2), f), Param(b, 1),
                                   Param(b, 2), Plus(Param(b, 1), Param(b, 2)))
    BY <1>2, <1>4, <2>1, <2>2, <2>3 DEF device_server_main
  <2>5. Processed(b, BodyLen(b))
          = State(b, hd, Filled(Result(b), 18 + 3 * LongSize), f)
    BY <1>4, <2>4, ResponsePacked DEF Result
  <2>6. 18 + 3 * LongSize \in {2, 18 + 3 * LongSize}
    OBVIOUS
  <2> QED BY <2>2, <2>5, <2>6
<1> QED BY <1>3, <1>4
-----------------------------------------------------------------------------
(***************************************************************************)
(* Types and lengths of requests and replies.                              *)
(***************************************************************************)
\* What concatenation does, a fact at a time.
LEMMA CatType ==
    ASSUME NEW S, NEW s \in Seq(S), NEW t \in Seq(S)
    PROVE  s \o t \in Seq(S)
OBVIOUS

LEMMA CatLen ==
    ASSUME NEW S, NEW s \in Seq(S), NEW t \in Seq(S)
    PROVE  Len(s \o t) = Len(s) + Len(t)
OBVIOUS

LEMMA CatLeft ==
    ASSUME NEW S, NEW s \in Seq(S), NEW t \in Seq(S), NEW i \in 1 .. Len(s)
    PROVE  (s \o t)[i] = s[i]
OBVIOUS

LEMMA CatRight ==
    ASSUME NEW S, NEW s \in Seq(S), NEW t \in Seq(S), NEW i \in 1 .. Len(t)
    PROVE  (s \o t)[Len(s) + i] = t[i]
OBVIOUS

LEMMA CatNext ==
    ASSUME NEW S, NEW s \in Seq(S), NEW t \in Seq(S), Len(t) >= 1
    PROVE  (s \o t)[Len(s) + 1] = t[1]
OBVIOUS

LEMMA LongType ==
    ASSUME NEW S, NEW v \in S, 0 \in S
    PROVE  Long(v) \in Seq(S) /\ Len(Long(v)) = LongWords /\ Long(v)[1] = v
<1>1. <<v>> \in Seq(S) /\ Len(<<v>>) = 1 /\ <<v>>[1] = v
  OBVIOUS
<1>2. <<v, 0>> \in Seq(S) /\ Len(<<v, 0>>) = 2 /\ <<v, 0>>[1] = v
  OBVIOUS
<1> QED BY <1>1, <1>2, LongSizes DEF Long

LEMMA ParamType ==
    ASSUME NEW b \in Seq(Value), NEW k \in {1, 2}
    PROVE  Param(b, k) \in Value
<1>1. LongWords \in {1, 2} /\ 0 \in Value
  BY LongSizes
<1>2. Len(b) \in Nat /\ \A i \in 1 .. Len(b) : b[i] \in Value
  OBVIOUS
<1>3. CASE 1 + k * LongWords <= Len(b)
  <2>1. 2 + (k - 1) * LongWords \in 1 .. Len(b)
    BY <1>1, <1>2, <1>3
  <2> QED BY <1>2, <1>3, <2>1 DEF Param
<1> QED BY <1>1, <1>3 DEF Param

LEMMA IdType == \A b \in Seq(Value) : Id(b) \in Value
<1> SUFFICES ASSUME NEW b \in Seq(Value) PROVE Id(b) \in Value
  OBVIOUS
<1>1. b # <<>> => b[1] \in Value
  OBVIOUS
<1> QED BY <1>1, LongSizes DEF Id

LEMMA PlusType ==
    ASSUME NEW a \in Value, NEW b \in Value
    PROVE  Plus(a, b) \in Value
BY SizeAssumption DEF Plus, Value

LEMMA LongPut ==
    ASSUME NEW c \in Seq(Cell), NEW v \in Value
    PROVE  /\ c \o Long(v) \in Seq(Cell)
           /\ Len(c \o Long(v)) = Len(c) + LongWords
           /\ \A i \in 1 .. Len(c) : (c \o Long(v))[i] = c[i]
           /\ (c \o Long(v))[Len(c) + 1] = v
<1>1. v \in Cell /\ 0 \in Cell
  BY LongSizes DEF Cell
<1>2. Long(v) \in Seq(Cell) /\ Len(Long(v)) = LongWords /\ Long(v)[1] = v
  BY <1>1, LongType, Zenon
<1>3. Len(Long(v)) >= 1
  BY <1>2, LongSizes
<1>4. c \o Long(v) \in Seq(Cell)
  BY <1>2, CatType, Zenon
<1>5. Len(c \o Long(v)) = Len(c) + LongWords
  BY <1>2, CatLen, Zenon
<1>6. \A i \in 1 .. Len(c) : (c \o Long(v))[i] = c[i]
  BY <1>2, CatLeft, Zenon
<1>7. (c \o Long(v))[Len(c) + 1] = v
  BY <1>2, <1>3, CatNext, Zenon
<1> QED BY <1>4, <1>5, <1>6, <1>7, Zenon

\* A message packed by the generated code.
Packed(i, d1, d2, r1) ==
    <<i>> \o Long(d1) \o Long(d2) \o Long(r1) \o Greeting

LEMMA PackedShape ==
    ASSUME NEW i \in Value, NEW d1 \in Value, NEW d2 \in Value, NEW r1 \in Value
    PROVE  /\ Packed(i, d1, d2, r1) \in Seq(Cell)
           /\ Len(Packed(i, d1, d2, r1)) = 5 + 3 * LongWords
           /\ Packed(i, d1, d2, r1)[1] = i
           /\ Packed(i, d1, d2, r1)[2] = d1
           /\ Packed(i, d1, d2, r1)[2 + LongWords] = d2
           /\ Packed(i, d1, d2, r1)[2 + 2 * LongWords] = r1
<1> DEFINE L == LongWords
           c0 == <<i>>
           c1 == c0 \o Long(d1)
           c2 == c1 \o Long(d2)
           c3 == c2 \o Long(r1)
           s == c3 \o Greeting
<1>0. L \in {1, 2} /\ Value \subseteq Cell
  BY LongSizes DEF Cell
<1>1. c0 \in Seq(Cell) /\ Len(c0) = 1 /\ c0[1] = i
  <2>1. i \in Cell
    BY <1>0
  <2> QED BY <2>1
<1>2. Greeting \in Seq(Cell) /\ Len(Greeting) = 4
  <2>1. Text \in Cell
    BY DEF Cell
  <2> QED BY <2>1 DEF Greeting
<1> HIDE DEF c0
<1>3. c1 \in Seq(Cell) /\ Len(c1) = 1 + L /\ c1[1] = i /\ c1[2] = d1
  <2>1. 1 \in 1 .. 1 /\ 1 + 1 = 2
    OBVIOUS
  <2>2. c1 \in Seq(Cell)
    BY <1>1, LongPut, Zenon
  <2>3. Len(c1) = Len(c0) + L
    BY <1>1, LongPut, Zenon
  <2>4. \A k \in 1 .. Len(c0) : c1[k] = c0[k]
    BY <1>1, LongPut, Zenon
  <2>5. c1[Len(c0) + 1] = d1
    BY <1>1, LongPut, Zenon
  <2> QED BY <1>1, <2>1, <2>2, <2>3, <2>4, <2>5, Zenon
<1> HIDE DEF c1
<1>4. /\ c2 \in Seq(Cell) /\ Len(c2) = 1 + 2 * L
      /\ c2[1] = i /\ c2[2] = d1 /\ c2[2 + L] = d2
  <2>1. /\ 1 \in 1 .. Len(c1) /\ 2 \in 1 .. Len(c1)
        /\ Len(c1) + 1 = 2 + L /\ Len(c1) + L = 1 + 2 * L
    BY <1>0, <1>3
  <2>2. c2 \in Seq(Cell)
    BY <1>3, LongPut, Zenon
  <2>3. Len(c2) = Len(c1) + L
    BY <1>3, LongPut, Zenon
  <2>4. \A k \in 1 .. Len(c1) : c2[k] = c1[k]
    BY <1>3, LongPut, Zenon
  <2>5. c2[Len(c1) + 1] = d2
    BY <1>3, LongPut, Zenon
  <2> QED BY <1>3, <2>1, <2>2, <2>3, <2>4, <2>5, Zenon
<1> HIDE DEF c2
<1>5. /\ c3 \in Seq(Cell) /\ Len(c3) = 1 + 3 * L
      /\ c3[1] = i /\ c3[2] = d1 /\ c3[2 + L] = d2 /\ c3[2 + 2 * L] = r1
  <2>1. /\ 1 \in 1 .. Len(c2) /\ 2 \in 1 .. Len(c2) /\ 2 + L \in 1 .. Len(c2)
        /\ Len(c2) + 1 = 2 + 2 * L /\ Len(c2) + L = 1 + 3 * L
    BY <1>0, <1>4
  <2>2. c3 \in Seq(Cell)
    BY <1>4, LongPut, Zenon
  <2>3. Len(c3) = Len(c2) + L
    BY <1>4, LongPut, Zenon
  <2>4. \A k \in 1 .. Len(c2) : c3[k] = c2[k]
    BY <1>4, LongPut, Zenon
  <2>5. c3[Len(c2) + 1] = r1
    BY <1>4, LongPut, Zenon
  <2> QED BY <1>4, <2>1, <2>2, <2>3, <2>4, <2>5, Zenon
<1> HIDE DEF c3
<1>6. /\ s \in Seq(Cell) /\ Len(s) = 5 + 3 * L
      /\ s[1] = i /\ s[2] = d1 /\ s[2 + L] = d2 /\ s[2 + 2 * L] = r1
  <2>1. /\ 1 \in 1 .. Len(c3) /\ 2 \in 1 .. Len(c3) /\ 2 + L \in 1 .. Len(c3)
        /\ 2 + 2 * L \in 1 .. Len(c3) /\ Len(c3) + 4 = 5 + 3 * L
    BY <1>0, <1>5
  <2>2. s \in Seq(Cell)
    BY <1>2, <1>5, CatType, Zenon
  <2>3. Len(s) = Len(c3) + 4
    BY <1>2, <1>5, CatLen, Zenon
  <2>4. \A k \in 1 .. Len(c3) : s[k] = c3[k]
    BY <1>2, <1>5, CatLeft, Zenon
  <2> QED BY <1>5, <2>1, <2>2, <2>3, <2>4, Zenon
<1>7. Packed(i, d1, d2, r1) = s
  BY DEF c0, c1, c2, c3, Packed
<1> HIDE DEF s
<1> QED BY <1>6, <1>7, Zenon

LEMMA ResultShape ==
    ASSUME NEW b \in Seq(Value)
    PROVE  /\ Result(b) \in Seq(Cell)
           /\ Len(Result(b)) \in 1 .. 11
           /\ Result(b)[1] = Id(b)
           /\ Id(b) = 1 => /\ Result(b)[2] = Param(b, 1)
                           /\ Result(b)[2 + LongWords] = Param(b, 2)
                           /\ Result(b)[2 + 2 * LongWords]
                                = Plus(Param(b, 1), Param(b, 2))
                           /\ Len(Result(b)) = 5 + 3 * LongWords
<1>1. CASE Id(b) = 1
  <2> DEFINE p1 == Param(b, 1)
             p2 == Param(b, 2)
             p3 == Plus(p1, p2)
  <2>1. 1 \in Value /\ p1 \in Value /\ p2 \in Value
    BY <1>1, IdType, ParamType
  <2>2. p3 \in Value
    BY <2>1, PlusType
  <2>3. Result(b) = Packed(1, p1, p2, p3)
    BY <1>1 DEF Result, Packed
  <2>4. 5 + 3 * LongWords \in 1 .. 11
    BY LongSizes
  <2> HIDE DEF p1, p2, p3
  <2>5. /\ Packed(1, p1, p2, p3) \in Seq(Cell)
        /\ Len(Packed(1, p1, p2, p3)) = 5 + 3 * LongWords
        /\ Packed(1, p1, p2, p3)[1] = 1
        /\ Packed(1, p1, p2, p3)[2] = p1
        /\ Packed(1, p1, p2, p3)[2 + LongWords] = p2
        /\ Packed(1, p1, p2, p3)[2 + 2 * LongWords] = p3
    BY <2>1, <2>2, PackedShape
  <2> QED BY <1>1, <2>3, <2>4, <2>5 DEF p1, p2, p3
<1>2. CASE Id(b) # 1
  <2>1. Id(b) \in Cell
    BY IdType DEF Cell
  <2>2. Result(b) = <<Id(b)>>
    BY <1>2 DEF Result
  <2> QED BY <1>2, <2>1, <2>2
<1> QED BY <1>1, <1>2
-----------------------------------------------------------------------------
(***************************************************************************)
(* Lengths.                                                                *)
(***************************************************************************)
LEMMA Header ==
    ASSUME NEW cmd
    PROVE  HeaderLen(cmd) \in {2, 9, 14}
BY DEF HeaderLen

LEMMA Lengths ==
    ASSUME NEW d \in Request
    PROVE  /\ d.body \in Seq(Value)
           /\ BodyLen(d.body) \in Nat
           /\ d.len \in Nat
           /\ d.len >= 1
<1>1. d.body \in Seq(Value)
  BY DEF Request
<1>2. BodyLen(d.body) \in Nat
  BY <1>1, BodyLengths
<1>3. d.len \in Nat \ {0}
  BY DEF Request
<1> QED BY <1>1, <1>2, <1>3

\* Both network layers accept the same datagrams.
LEMMA RecvAgrees ==
    ASSUME NEW d \in Request
    PROVE  DTPLink_Recv(d) <=> Receivable(d)
<1> DEFINE n == d.len
<1>1. n \in Nat /\ n >= 1 /\ BufSize \in Nat /\ BufSize >= 64
  BY Lengths, LongSizes
<1>2. RecvLinux(n) <=> n + 1 < BufSize
  <2> HIDE DEF n
  <2> QED BY <1>1 DEF RecvLinux
<1>3. RecvWindows(n) <=> n + 1 < BufSize
  <2> HIDE DEF n
  <2> QED BY <1>1 DEF RecvWindows
<1> QED BY <1>2, <1>3 DEF DTPLink_Recv, Receivable

\* A data query that ends inside its header has no body; any other one is as long
\* as its header and its body.
Formed(d) ==
    d.cmd \in DataQuery /\ Whole(d) => d.len = HeaderLen(d.cmd) + BodyLen(d.body)

\* No length computed for a whole data query wraps.
LEMMA LengthsComputed ==
    ASSUME NEW d \in Request, d.cmd \in DataQuery, Formed(d), Whole(d), Receivable(d)
    PROVE  /\ BodyLen(d.body) <= BufSize
           /\ BodyLen(d.body) \in 0 .. BufSize
           /\ d.cmd \in {"QUERY_DATA_TO_REMOTE_DS", "QUERY_DATA_TO_LOCAL_DS"}
                => imsgLen(d) = BodyLen(d.body)
           /\ d.cmd = "QUERY_DATA_RELAY_TO_REMOTE_DS"
                => ParseRelayInfoOnDS(d) = BodyLen(d.body)
           /\ d.cmd = "QUERY_DATA_HTTP_TO_REMOTE_DS"
                => ParseRelayHttpInfoOnDS(d) = BodyLen(d.body)
<1> DEFINE B == BodyLen(d.body)
           H == HeaderLen(d.cmd)
<1>1. B \in Nat /\ H \in {2, 9, 14} /\ d.len = H + B
  BY Lengths, Header DEF Formed
<1>2. BufSize \in Nat /\ H + B + 1 < BufSize /\ BufSize < 65536
  BY <1>1, LongSizes DEF Receivable
<1>3. imsgLen(d) = H + B - 2
  <2> HIDE DEF B, H
  <2>1. imsgLen(d) = (H + B - 2) % 65536
    BY <1>1 DEF imsgLen, Wrap16
  <2> QED BY <1>1, <1>2, <2>1
<1>4. d.cmd \in {"QUERY_DATA_TO_REMOTE_DS", "QUERY_DATA_TO_LOCAL_DS"} => H = 2
  BY DEF HeaderLen
<1>5. d.cmd = "QUERY_DATA_RELAY_TO_REMOTE_DS" => H = 9
  BY DEF HeaderLen
<1>6. d.cmd = "QUERY_DATA_HTTP_TO_REMOTE_DS" => H = 14
  BY DEF HeaderLen
<1> HIDE DEF B, H
<1>7. H = 9 => imsgLen(d) - 7 = B
  BY <1>1, <1>3
<1>8. H = 14 => imsgLen(d) - 12 = B
  BY <1>1, <1>3
<1>9. H = 2 => imsgLen(d) = B
  BY <1>1, <1>3
<1>10. B <= BufSize /\ B \in 0 .. BufSize
  BY <1>1, <1>2
<1>11. /\ d.cmd = "QUERY_DATA_RELAY_TO_REMOTE_DS" => ParseRelayInfoOnDS(d) = B
       /\ d.cmd = "QUERY_DATA_HTTP_TO_REMOTE_DS" => ParseRelayHttpInfoOnDS(d) = B
  BY <1>5, <1>6, <1>7, <1>8 DEF ParseRelayInfoOnDS, ParseRelayHttpInfoOnDS
<1> QED BY <1>4, <1>9, <1>10, <1>11 DEF B

\* Every length computed for one that is not whole is negative or wraps.
LEMMA LengthsWrong ==
    ASSUME NEW d \in Request, ~Whole(d)
    PROVE  /\ d.cmd \in DataQuery
           /\ d.cmd \in {"QUERY_DATA_TO_REMOTE_DS", "QUERY_DATA_TO_LOCAL_DS"}
                => imsgLen(d) \notin 0 .. BufSize
           /\ d.cmd = "QUERY_DATA_RELAY_TO_REMOTE_DS"
                => ParseRelayInfoOnDS(d) \notin 0 .. BufSize
           /\ d.cmd = "QUERY_DATA_HTTP_TO_REMOTE_DS"
                => ParseRelayHttpInfoOnDS(d) \notin 0 .. BufSize
<1> DEFINE n == d.len
           H == HeaderLen(d.cmd)
<1>1. n \in Nat /\ n >= 1 /\ H \in {2, 9, 14} /\ n < H /\ d.cmd \in DataQuery
  BY Lengths, Header DEF Whole
<1>2. BufSize \in Nat /\ BufSize < 32768
  BY LongSizes
<1>3. imsgLen(d) = (n - 2) % 65536
  BY DEF imsgLen, Wrap16
<1>4. d.cmd \in {"QUERY_DATA_TO_REMOTE_DS", "QUERY_DATA_TO_LOCAL_DS"} => H = 2
  BY DEF HeaderLen
<1>5. d.cmd = "QUERY_DATA_RELAY_TO_REMOTE_DS" => H = 9
  BY DEF HeaderLen
<1>6. d.cmd = "QUERY_DATA_HTTP_TO_REMOTE_DS" => H = 14
  BY DEF HeaderLen
<1> HIDE DEF n, H
<1>7. CASE n = 1
  <2>1. \A j, k \in Int : k = j + 65536 => j % 65536 = k % 65536
    OBVIOUS
  <2>2. imsgLen(d) = 65535
    <3>1. n - 2 \in Int /\ 65535 = (n - 2) + 65536
      BY <1>7
    <3>2. (n - 2) % 65536 = 65535 % 65536
      BY <2>1, <3>1
    <3>3. 65535 % 65536 = 65535
      OBVIOUS
    <3> QED BY <1>3, <3>2, <3>3
  <2> QED BY <1>1, <1>2, <2>2 DEF ParseRelayInfoOnDS, ParseRelayHttpInfoOnDS
<1>8. CASE n >= 2
  <2>1. imsgLen(d) = n - 2
    BY <1>1, <1>3, <1>8
  <2>2. H # 2
    BY <1>1, <1>8
  <2>3. H = 9 => imsgLen(d) - 7 < 0
    BY <1>1, <2>1
  <2>4. H = 14 => imsgLen(d) - 12 < 0
    BY <1>1, <2>1
  <2> QED BY <1>1, <1>2, <1>4, <1>5, <1>6, <2>2, <2>3, <2>4
          DEF ParseRelayInfoOnDS, ParseRelayHttpInfoOnDS
<1> QED BY <1>1, <1>7, <1>8
-----------------------------------------------------------------------------
(***************************************************************************)
(* What a handler leaves in the buffers and sends.                         *)
(***************************************************************************)
Buffers(req, resp) ==
    /\ req \in [content : Seq(Value), head : Nat, length : UInt16]
    /\ resp \in [content : Seq(Cell), tail : Nat, length : UInt16]
    /\ req.length <= BufSize
    /\ req.head <= req.length

LEMMA InRange ==
    ASSUME NEW n \in Nat, NEW m \in Nat, n <= m
    PROVE  n \in 0 .. m
OBVIOUS

LEMMA Word16 ==
    ASSUME NEW n \in Nat, n < 65536
    PROVE  n \in UInt16
<1> DEFINE m == 65535
<1>1. m \in Nat /\ n <= m
  OBVIOUS
<1>2. UInt16 = 0 .. m
  BY DEF UInt16
<1> HIDE DEF m
<1>3. n \in 0 .. m
  BY <1>1, InRange
<1> QED BY <1>2, <1>3

LEMMA EmptyBuffers ==
    /\ Buffers([content |-> <<>>, head |-> 0, length |-> 0],
               [content |-> <<>>, tail |-> 0, length |-> 0])
    /\ Buffers(DTPLink_ResetBuffers.req, DTPLink_ResetBuffers.resp)
<1>1. <<>> \in Seq(Value) /\ <<>> \in Seq(Cell) /\ 0 \in Nat /\ 0 \in UInt16
  BY Word16
<1>2. 0 <= BufSize /\ 0 <= 0
  BY LongSizes
<1> QED BY <1>1, <1>2 DEF Buffers, DTPLink_ResetBuffers

LEMMA QueryProcessed ==
    ASSUME NEW d \in Request, BodyLen(d.body) <= BufSize
    PROVE  /\ Processed(d.body, BodyLen(d.body)).resp.content = Result(d.body)
           /\ Buffers(Processed(d.body, BodyLen(d.body)).req,
                      Processed(d.body, BodyLen(d.body)).resp)
<1> DEFINE b == d.body
           B == BodyLen(b)
<1>1. b \in Seq(Value) /\ B \in Nat
  BY Lengths
<1>2. PICK hd \in Nat, n \in {2, 18 + 3 * LongSize} : \E f :
        /\ hd <= B
        /\ Processed(b, B) = State(b, hd, Filled(Result(b), n), f)
  BY <1>1, ProcessedIsResult
<1>3. /\ hd <= B
      /\ Processed(b, B).req = [content |-> b, head |-> hd, length |-> B]
      /\ Processed(b, B).resp = [content |-> Result(b), tail |-> n, length |-> n]
  BY <1>2 DEF State, Filled
<1>4. Result(b) \in Seq(Cell)
  BY <1>1, ResultShape
<1>5. n \in Nat /\ n \in UInt16 /\ B \in UInt16 /\ B <= BufSize
  <2> HIDE DEF B
  <2>1. n \in Nat /\ n < 65536
    BY <1>2, LongSizes
  <2>2. B <= BufSize
    BY DEF B
  <2>3. B < 65536
    BY <1>1, <2>2, LongSizes
  <2>4. n \in UInt16
    BY <2>1, Word16
  <2>5. B \in UInt16
    BY <1>1, <2>3, Word16
  <2> QED BY <2>1, <2>2, <2>4, <2>5
<1> HIDE DEF b, B
<1>6. Processed(b, B).resp.content = Result(b)
  BY <1>3
<1>7. Buffers(Processed(b, B).req, Processed(b, B).resp)
  <2> DEFINE req == Processed(b, B).req
             resp == Processed(b, B).resp
  <2>2. req \in [content : Seq(Value), head : Nat, length : UInt16]
    BY <1>1, <1>3, <1>5
  <2>3. resp \in [content : Seq(Cell), tail : Nat, length : UInt16]
    BY <1>3, <1>4, <1>5
  <2>4. req.length <= BufSize /\ req.head <= req.length
    BY <1>3, <1>5
  <2> QED BY <2>2, <2>3, <2>4 DEF Buffers
<1> QED BY <1>6, <1>7 DEF b, B

\* Every handler does what the service promises for a whole request.
LEMMA HandlerServes ==
    ASSUME NEW d \in Request, Formed(d), Whole(d), ProcessClientRequests(d)
    PROVE  Serve(d) /\ Buffers(REQUEST_INFO', RESPONSE_INFO') /\ UNCHANGED overrunBy
<1>1. Receivable(d) /\ Taken(d) /\ UNCHANGED asked
  BY RecvAgrees DEF ProcessClientRequests, Copied, Handled, Overrun,
       OnReceiveDNSQueryRequest, OnReceiveLocalDNSQueryRequest,
       OnReceiveDataQueryRequest, ProcessRemoteDataQueryRequest,
       OnReceiveRelayDataQueryRequest, OnReceiveHttpDataQueryRequest, OnReceiveOther
<1>2. SUFFICES /\ outNet' = outNet \cup AnswersTo(d)
               /\ Buffers(REQUEST_INFO', RESPONSE_INFO')
               /\ UNCHANGED overrunBy
  BY <1>1 DEF Serve
<1>3. CASE OnReceiveDNSQueryRequest(d)
  BY <1>3, EmptyBuffers DEF OnReceiveDNSQueryRequest, Handled, AnswersTo
<1>4. CASE OnReceiveLocalDNSQueryRequest(d)
  BY <1>4, EmptyBuffers DEF OnReceiveLocalDNSQueryRequest, Handled, AnswersTo
<1>5. CASE OnReceiveDataQueryRequest(d)
  <2>1. /\ d.cmd \in {"QUERY_DATA_TO_REMOTE_DS", "QUERY_DATA_TO_LOCAL_DS"}
        /\ d.cmd \in DataQuery
    BY <1>5 DEF OnReceiveDataQueryRequest, DataQuery
  <2>2. /\ imsgLen(d) = BodyLen(d.body) /\ BodyLen(d.body) <= BufSize
        /\ BodyLen(d.body) \in 0 .. BufSize
    BY <1>1, <2>1, LengthsComputed
  <2> DEFINE h == Processed(d.body, BodyLen(d.body))
  <2>3. h.resp.content = Result(d.body) /\ Buffers(h.req, h.resp)
    BY <2>2, QueryProcessed
  <2>4. /\ REQUEST_INFO' = h.req /\ RESPONSE_INFO' = h.resp
        /\ outNet' = outNet \cup {Reply("REMOTE_DS_DATA_RESP_TO_CLIENT", d.from,
                                        NoPublicAddr, 0, h.resp.content)}
        /\ UNCHANGED overrunBy
    BY <1>5, <2>2
       DEF OnReceiveDataQueryRequest, ProcessRemoteDataQueryRequest, Copied, Handled
  <2> HIDE DEF h
  <2> QED BY <2>1, <2>3, <2>4 DEF AnswersTo
<1>6. CASE OnReceiveRelayDataQueryRequest(d)
  <2>1. d.cmd = "QUERY_DATA_RELAY_TO_REMOTE_DS" /\ d.cmd \in DataQuery
    BY <1>6 DEF OnReceiveRelayDataQueryRequest, DataQuery
  <2>2. /\ ParseRelayInfoOnDS(d) = BodyLen(d.body)
        /\ BodyLen(d.body) <= BufSize /\ BodyLen(d.body) \in 0 .. BufSize
    BY <1>1, <2>1, LengthsComputed
  <2> DEFINE h == Processed(d.body, BodyLen(d.body))
  <2>3. h.resp.content = Result(d.body) /\ Buffers(h.req, h.resp)
    BY <2>2, QueryProcessed
  <2>4. /\ REQUEST_INFO' = h.req /\ RESPONSE_INFO' = h.resp
        /\ outNet' = outNet \cup {Reply("REMOTE_DS_DATA_RESP_RELAY_TO_CLIENT", d.from,
                                        d.client, 0, h.resp.content)}
        /\ UNCHANGED overrunBy
    BY <1>6, <2>2 DEF OnReceiveRelayDataQueryRequest, Copied, Handled
  <2> HIDE DEF h
  <2> QED BY <2>1, <2>3, <2>4 DEF AnswersTo
<1>7. CASE OnReceiveHttpDataQueryRequest(d)
  <2>1. d.cmd = "QUERY_DATA_HTTP_TO_REMOTE_DS" /\ d.cmd \in DataQuery
    BY <1>7 DEF OnReceiveHttpDataQueryRequest, DataQuery
  <2>2. /\ ParseRelayHttpInfoOnDS(d) = BodyLen(d.body)
        /\ BodyLen(d.body) <= BufSize /\ BodyLen(d.body) \in 0 .. BufSize
    BY <1>1, <2>1, LengthsComputed
  <2> DEFINE h == Processed(d.body, BodyLen(d.body))
  <2>3. h.resp.content = Result(d.body) /\ Buffers(h.req, h.resp)
    BY <2>2, QueryProcessed
  <2>4. /\ REQUEST_INFO' = h.req /\ RESPONSE_INFO' = h.resp
        /\ outNet' = outNet \cup {Reply("REMOTE_DS_DATA_RESP_HTTP_TO_CLIENT", d.from,
                                        d.client, d.relayFd, h.resp.content)}
        /\ UNCHANGED overrunBy
    BY <1>7, <2>2 DEF OnReceiveHttpDataQueryRequest, Copied, Handled
  <2> HIDE DEF h
  <2> QED BY <2>1, <2>3, <2>4 DEF AnswersTo
<1>8. CASE OnReceiveOther(d)
  BY <1>8, EmptyBuffers DEF OnReceiveOther, Handled, AnswersTo, DataQuery
<1> QED BY <1>3, <1>4, <1>5, <1>6, <1>7, <1>8 DEF ProcessClientRequests

\* A data query that is not whole overruns the request buffer.
LEMMA CutOffOverruns ==
    ASSUME NEW d \in Request, ~Whole(d), ProcessClientRequests(d)
    PROVE  Overrun(d) /\ d.cmd \in DataQuery
<1>1. d.cmd \in DataQuery
  BY LengthsWrong
<1>2. CASE OnReceiveDataQueryRequest(d)
  BY <1>2, LengthsWrong
     DEF OnReceiveDataQueryRequest, ProcessRemoteDataQueryRequest, Copied
<1>3. CASE OnReceiveRelayDataQueryRequest(d)
  BY <1>3, LengthsWrong DEF OnReceiveRelayDataQueryRequest, Copied
<1>4. CASE OnReceiveHttpDataQueryRequest(d)
  BY <1>4, LengthsWrong DEF OnReceiveHttpDataQueryRequest, Copied
<1>5. ~ (\/ OnReceiveDNSQueryRequest(d) \/ OnReceiveLocalDNSQueryRequest(d)
         \/ OnReceiveOther(d))
  BY <1>1
     DEF OnReceiveDNSQueryRequest, OnReceiveLocalDNSQueryRequest, OnReceiveOther,
         DataQuery
<1> QED BY <1>1, <1>2, <1>3, <1>4, <1>5 DEF ProcessClientRequests
-----------------------------------------------------------------------------
(***************************************************************************)
(* Requests of the clients and the replies to them.                        *)
(***************************************************************************)
OutReply ==
    [cmd : Command, to : Endpoint, client : Endpoint, relayFd : Nat, body : Seq(Cell)]

LEMMA NoAddrType == NoPublicAddr \in Endpoint
<1>1. 0 \in Port
  BY DEF Port
<1> HIDE DEF Port
<1> QED BY <1>1, HostAssumption DEF NoPublicAddr, Endpoint

LEMMA WireType ==
    ASSUME NEW w \in {1, 2}, NEW ps \in Seq(Value)
    PROVE  Wire(w, ps) \in Seq(Value) /\ Len(Wire(w, ps)) = w * Len(ps)
<1> DEFINE n == w * Len(ps)
           cell(i) == IF w = 1 THEN ps[i]
                      ELSE IF i % 2 = 1 THEN ps[(i + 1) \div 2] ELSE 0
<1>1. n \in Nat /\ Len(ps) \in Nat /\ 0 \in Value
  BY LongSizes
<1>2. \A i \in 1 .. Len(ps) : ps[i] \in Value
  OBVIOUS
<1>3. ASSUME NEW i \in 1 .. n PROVE cell(i) \in Value
  <2>1. CASE w = 1
    BY <1>1, <1>2, <2>1
  <2>2. CASE w = 2 /\ i % 2 = 1
    <3>1. (i + 1) \div 2 \in 1 .. Len(ps)
      BY <1>1, <2>2
    <3> QED BY <1>2, <2>2, <3>1
  <2>3. CASE w = 2 /\ i % 2 # 1
    BY <1>1, <2>3
  <2> QED BY <2>1, <2>2, <2>3
<1>4. Wire(w, ps) = [i \in 1 .. n |-> cell(i)]
  BY DEF Wire
<1> HIDE DEF n, cell
<1>5. [i \in 1 .. n |-> cell(i)] \in Seq(Value)
  BY <1>1, <1>3
<1>6. Len([i \in 1 .. n |-> cell(i)]) = n
  BY <1>1
<1> QED BY <1>4, <1>5, <1>6 DEF n

LEMMA MessageType ==
    ASSUME NEW c \in Client, NEW q \in Messages[c]
    PROVE  q.id \in Value /\ q.params \in Seq(Value)
BY ServiceAssumption

LEMMA RequestTypes ==
    ASSUME NEW c \in Client, NEW q \in Messages[c]
    PROVE  /\ RequestOf(c, q) \in Request
           /\ RequestOf(c, q).cmd = Profile[c].cmd
           /\ RequestOf(c, q).body = <<q.id>> \o Wire(Profile[c].words, q.params)
           /\ RequestOf(c, q).body # <<>>
           /\ Whole(RequestOf(c, q)) /\ Formed(RequestOf(c, q))
<1> DEFINE p == Profile[c]
           w == Wire(p.words, q.params)
           b == <<q.id>> \o w
<1>1. /\ p.cmd \in DataQuery /\ p.addr \in Endpoint /\ p.fd \in Nat
      /\ p.words \in {1, 2} /\ CenterServer \in Endpoint
  BY ServiceAssumption
<1>2. q.id \in Value /\ q.params \in Seq(Value)
  BY MessageType
<1>3. w \in Seq(Value) /\ <<q.id>> \in Seq(Value) /\ Len(<<q.id>>) = 1
  <2>1. w \in Seq(Value)
    <3> HIDE DEF p
    <3> QED BY <1>1, <1>2, WireType
  <2> DEFINE i == q.id
  <2>2. i \in Value
    BY <1>2
  <2> HIDE DEF i
  <2>3. <<i>> \in Seq(Value) /\ Len(<<i>>) = 1
    BY <2>2
  <2> QED BY <2>1, <2>3 DEF i
<1>4. p.cmd \in Command
  BY <1>1 DEF DataQuery, Command
<1> HIDE DEF p, w
<1>5. b \in Seq(Value)
  BY <1>3, CatType, Zenon
<1>6. Len(b) = 1 + Len(w) /\ Len(w) \in Nat
  BY <1>3, CatLen
<1>7. b # <<>>
  BY <1>5, <1>6
<1> DEFINE r == RequestOf(c, q)
<1>8. /\ r.cmd = p.cmd
      /\ r.body = b
      /\ r.len = HeaderLen(p.cmd) + BodyLen(b)
  BY DEF RequestOf, p, w
<1>10. HeaderLen(p.cmd) \in {2, 9, 14} /\ BodyLen(b) \in Nat
  BY <1>5, Header, BodyLengths
<1> HIDE DEF b
<1>9. r \in Request
  <2> DEFINE from == IF p.cmd \in Relayed THEN CenterServer ELSE p.addr
             client == IF p.cmd \in Relayed THEN p.addr ELSE NoPublicAddr
             fd == IF p.cmd = "QUERY_DATA_HTTP_TO_REMOTE_DS" THEN p.fd ELSE 0
  <2>1. from \in Endpoint /\ client \in Endpoint /\ fd \in Nat /\ FALSE \in BOOLEAN
    BY <1>1, NoAddrType
  <2>2. r = [cmd |-> p.cmd, from |-> from, client |-> client, relayFd |-> fd,
             named |-> FALSE, len |-> HeaderLen(p.cmd) + BodyLen(b), body |-> b]
    BY DEF RequestOf, p, w, b
  <2>3. HeaderLen(p.cmd) + BodyLen(b) \in Nat \ {0}
    BY <1>10
  <2> HIDE DEF from, client, fd, r
  <2> QED BY <1>4, <1>5, <2>1, <2>2, <2>3 DEF Request
<1>11. Whole(r) /\ Formed(r)
  <2>1. r.len >= HeaderLen(r.cmd)
    BY <1>8, <1>10
  <2> HIDE DEF r
  <2> QED BY <1>8, <2>1 DEF Whole, Formed
<1> QED BY <1>7, <1>8, <1>9, <1>11 DEF p, w, b

LEMMA AnswerTypes ==
    ASSUME NEW d \in Request, NEW m \in AnswersTo(d)
    PROVE  /\ m \in OutReply
           /\ m.body = <<>> \/ m.body = Result(d.body)
           /\ m.cmd \in DataReply => d.cmd \in DataQuery
<1> DEFINE R == Result(d.body)
<1>1. R \in Seq(Cell) /\ <<>> \in Seq(Cell) /\ 0 \in Nat
  BY Lengths, ResultShape
<1>2. d.from \in Endpoint /\ d.client \in Endpoint /\ d.relayFd \in Nat
  BY DEF Request
<1>3. NoPublicAddr \in Endpoint
  BY NoAddrType
<1> HIDE DEF R
<1>4. CASE m = Reply("SERVER_PUNCHING", d.client, NoPublicAddr, 0, <<>>)
  BY <1>1, <1>2, <1>3, <1>4 DEF Reply, OutReply, Command, DataReply
<1>5. CASE m = Reply("QUERY_DS_IP_TO_LOCAL_DS", d.from, NoPublicAddr, 0, <<>>)
  BY <1>1, <1>2, <1>3, <1>5 DEF Reply, OutReply, Command, DataReply
<1>6. CASE /\ m = Reply("REMOTE_DS_DATA_RESP_TO_CLIENT", d.from, NoPublicAddr, 0, R)
           /\ d.cmd \in DataQuery
  BY <1>1, <1>2, <1>3, <1>6 DEF Reply, OutReply, Command, R
<1>7. CASE /\ m = Reply("REMOTE_DS_DATA_RESP_RELAY_TO_CLIENT", d.from, d.client, 0, R)
           /\ d.cmd \in DataQuery
  BY <1>1, <1>2, <1>3, <1>7 DEF Reply, OutReply, Command, R
<1>8. CASE /\ m = Reply("REMOTE_DS_DATA_RESP_HTTP_TO_CLIENT", d.from, d.client,
                        d.relayFd, R)
           /\ d.cmd \in DataQuery
  BY <1>1, <1>2, <1>3, <1>8 DEF Reply, OutReply, Command, R
<1> QED BY <1>4, <1>5, <1>6, <1>7, <1>8 DEF AnswersTo, DataQuery, R

-----------------------------------------------------------------------------
(***************************************************************************)
(* The inductive invariant.  The lengths in the buffers bound each other,  *)
(* every request under way was asked by a client, every data reply answers *)
(* such a request, and no reply is longer than the application's longest.  *)
(***************************************************************************)
Origin ==
    /\ \A d \in inNet : \E c \in Client : \E q \in asked[c] : d = RequestOf(c, q)
    /\ \A m \in outNet : m.cmd \in DataReply =>
         \E c \in Client : \E q \in asked[c] : m \in AnswersTo(RequestOf(c, q))

ReqInv ==
    /\ asked \in [Client -> SUBSET UNION {Messages[c] : c \in Client}]
    /\ \A c \in Client : asked[c] \subseteq Messages[c]
    /\ outNet \subseteq OutReply
    /\ Buffers(REQUEST_INFO, RESPONSE_INFO)
    /\ \A d \in overrunBy : d \in Request /\ d.cmd \in DataQuery /\ ~Whole(d)
    /\ Origin
    /\ \A m \in outNet : Len(m.body) <= 11

LEMMA Inhabited ==
    ASSUME ReqInv, NEW d \in inNet
    PROVE  d \in Request /\ Whole(d) /\ Formed(d)
<1>1. PICK c \in Client : \E q \in asked[c] : d = RequestOf(c, q)
  BY DEF ReqInv, Origin
<1>2. PICK q \in asked[c] : d = RequestOf(c, q)
  BY <1>1
<1>3. q \in Messages[c]
  BY <1>2 DEF ReqInv
<1>4. /\ RequestOf(c, q) \in Request
      /\ Whole(RequestOf(c, q)) /\ Formed(RequestOf(c, q))
  BY <1>3, RequestTypes
<1> QED BY <1>2, <1>4

\* Whatever is received is as long as its header and body, or is no query at all
\* or a cut-off one.
LEMMA AllFormed ==
    ASSUME ReqInv, NEW d \in inNet \cup Notices
    PROVE  d \in Request /\ Formed(d)
BY Inhabited, ServiceAssumption, NoticeAssumption DEF Formed

LEMMA InitInv == ASSUME ReqInit PROVE ReqInv
<1>1. /\ asked = [c \in Client |-> {}] /\ inNet = {} /\ outNet = {}
  BY DEF ReqInit, ServiceInit
<1>2. Buffers(REQUEST_INFO, RESPONSE_INFO) /\ overrunBy = {}
  BY EmptyBuffers DEF ReqInit
<1> QED BY <1>1, <1>2 DEF ReqInv, Origin

\* Sending the answers to a request that came from a client, or to a notice.
LEMMA ServeInv ==
    ASSUME ReqInv, NEW d \in inNet \cup Notices, Serve(d),
           Buffers(REQUEST_INFO', RESPONSE_INFO'), UNCHANGED overrunBy
    PROVE  ReqInv'
<1>1. /\ outNet' = outNet \cup AnswersTo(d) /\ inNet' \subseteq inNet
      /\ asked' = asked
  BY DEF Serve, Taken
<1>2. d \in Request
  BY AllFormed
<1>3. ASSUME NEW m \in AnswersTo(d)
      PROVE  m \in OutReply /\ Len(m.body) <= 11
  <2>1. m \in OutReply /\ (m.body = <<>> \/ m.body = Result(d.body))
    BY <1>2, AnswerTypes
  <2>2. Len(Result(d.body)) \in 1 .. 11
    BY <1>2, Lengths, ResultShape
  <2>3. Len(<<>>) = 0 /\ 0 <= 11
    OBVIOUS
  <2>4. \A n \in 1 .. 11 : n <= 11
    OBVIOUS
  <2> QED BY <2>1, <2>2, <2>3, <2>4, Zenon
<1>4. ASSUME NEW m \in AnswersTo(d), m.cmd \in DataReply
      PROVE  \E c \in Client : \E q \in asked[c] : m \in AnswersTo(RequestOf(c, q))
  <2>1. d.cmd \in DataQuery
    BY <1>2, <1>4, AnswerTypes
  <2>2. d \in inNet
    BY <2>1, NoticeAssumption DEF Serve
  <2> QED BY <2>2 DEF ReqInv, Origin
<1>5. Origin'
  BY <1>1, <1>4 DEF ReqInv, Origin
<1> QED BY <1>1, <1>3, <1>5 DEF ReqInv

LEMMA NextInv == ASSUME ReqInv, [ReqNext]_reqVars PROVE ReqInv'
<1>1. ASSUME NEW d \in inNet \cup Notices, ProcessClientRequests(d) PROVE ReqInv'
  <2>1. d \in Request /\ Formed(d)
    BY AllFormed
  <2>2. CASE Whole(d)
    BY <1>1, <2>1, <2>2, HandlerServes, ServeInv
  <2>3. CASE ~Whole(d)
    <3>1. Overrun(d) /\ d.cmd \in DataQuery
      BY <1>1, <2>1, <2>3, CutOffOverruns
    <3> QED BY <2>1, <2>3, <3>1 DEF ReqInv, Origin, Overrun, Taken
  <2> QED BY <2>2, <2>3
<1>2. ASSUME NEW d \in inNet \cup Notices, RecvFails(d) PROVE ReqInv'
  BY <1>2 DEF ReqInv, Origin, RecvFails, Taken
<1>3. ASSUME LoseRequest \/ ReplyLeaves,
             UNCHANGED <<REQUEST_INFO, RESPONSE_INFO, overrunBy>>
      PROVE  ReqInv'
  BY <1>3 DEF ReqInv, Origin, LoseRequest, ReplyLeaves
<1>4. ASSUME NEW c \in Client, Ask(c),
             UNCHANGED <<REQUEST_INFO, RESPONSE_INFO, overrunBy>>
      PROVE  ReqInv'
  <2>1. PICK q \in Messages[c] :
          /\ asked' = [asked EXCEPT ![c] = @ \cup {q}]
          /\ inNet' = inNet \cup {RequestOf(c, q)}
    BY <1>4 DEF Ask
  <2>2. outNet' = outNet
    BY <1>4 DEF Ask
  <2>3. \A e \in Client : asked'[e] = IF e = c THEN asked[c] \cup {q} ELSE asked[e]
    BY <2>1 DEF ReqInv
  <2>4. \A e \in Client : asked[e] \subseteq asked'[e] /\ asked'[e] \subseteq Messages[e]
    BY <2>3 DEF ReqInv
  <2>5. asked' \in [Client -> SUBSET UNION {Messages[e] : e \in Client}]
    <3>1. q \in UNION {Messages[e] : e \in Client}
      OBVIOUS
    <3> QED BY <2>1, <3>1 DEF ReqInv
  <2>6. Origin'
    <3>1. ASSUME NEW d \in inNet'
          PROVE  \E e \in Client : \E p \in asked'[e] : d = RequestOf(e, p)
      <4>1. CASE d \in inNet
        BY <2>4, <4>1 DEF ReqInv, Origin
      <4>2. CASE d = RequestOf(c, q)
        BY <2>3, <4>2
      <4> QED BY <2>1, <3>1, <4>1, <4>2
    <3>2. ASSUME NEW m \in outNet', m.cmd \in DataReply
          PROVE  \E e \in Client : \E p \in asked'[e] : m \in AnswersTo(RequestOf(e, p))
      BY <2>2, <2>4, <3>2 DEF ReqInv, Origin
    <3> QED BY <3>1, <3>2 DEF Origin
  <2> QED BY <1>4, <2>2, <2>4, <2>5, <2>6 DEF ReqInv
<1>5. CASE UNCHANGED reqVars
  BY <1>5 DEF ReqInv, Origin, reqVars
<1> QED BY <1>1, <1>2, <1>3, <1>4, <1>5 DEF ReqNext, NetworkStep, Ended

\* The invariant holds in every state of the request handling.
THEOREM RequestInvariant == ReqSpec => []ReqInv
<1>1. ReqInit => ReqInv
  BY InitInv
<1>2. ReqInv /\ [ReqNext]_reqVars => ReqInv'
  BY NextInv
<1> QED BY <1>1, <1>2, PTL DEF ReqSpec
-----------------------------------------------------------------------------
(***************************************************************************)
(* What follows from it.                                                   *)
(***************************************************************************)
LEMMA ReqTypeFollows == ReqInv => ReqTypeOK
<1> SUFFICES ASSUME ReqInv PROVE ReqTypeOK
  OBVIOUS
<1>1. inNet \subseteq Request
  BY Inhabited
<1> QED BY <1>1 DEF ReqInv, ReqTypeOK, Buffers, OutReply

\* Type correctness (ReqTypeOK): what is written to the buffers and sent stays
\* within its width, the sum of device_server_main included.
THEOREM ReqTypeCorrect == ReqSpec => []ReqTypeOK
BY RequestInvariant, ReqTypeFollows, PTL

\* Only a data query that ends inside its header is ever copied past the request
\* buffer: for every size of that buffer, the 16-bit lengths of all others stay
\* within it, and no reader passes the end of what came.
THEOREM RequestStaysInside == ReqSpec => []RequestInside
<1>1. ReqInv => RequestInside
  <2> SUFFICES ASSUME ReqInv, NEW d \in overrunBy PROVE d.len < HeaderLen(d.cmd)
    BY DEF ReqInv, Buffers, RequestInside
  <2>1. d \in Request /\ ~Whole(d)
    BY DEF ReqInv
  <2>2. d.len \in Nat /\ HeaderLen(d.cmd) \in {2, 9, 14}
    BY <2>1, Lengths, Header
  <2> QED BY <2>1, <2>2 DEF Whole
<1> QED BY <1>1, RequestInvariant, PTL

\* Every reply fits the array it is put together in, header included, and a
\* peer with a buffer of the same size receives it.
THEOREM RepliesAlwaysFit == ReqSpec => []RepliesFit
<1>1. ReqInv => RepliesFit
  <2> SUFFICES ASSUME ReqInv, NEW m \in outNet
               PROVE  HeaderLen(m.cmd) + BodyLen(m.body) + 1 < BufSize
    BY DEF RepliesFit
  <2>1. m.body \in Seq(Cell) /\ Len(m.body) <= 11
    BY DEF ReqInv, OutReply
  <2>2. Len(m.body) \in Nat
    BY <2>1
  <2>3. BodyLen(m.body) \in Int /\ BodyLen(m.body) <= 42
    BY <2>1, <2>2 DEF BodyLen
  <2>4. HeaderLen(m.cmd) \in {2, 9, 14}
    BY Header
  <2>5. BufSize \in Nat /\ BufSize >= 64
    BY LongSizes
  <2> QED BY <2>3, <2>4, <2>5
<1> QED BY <1>1, RequestInvariant, PTL

\* The handlers with their shared buffers implement the service: what a reply
\* says is a function of the one request it answers.
THEOREM ServiceImplemented == ReqSpec => ImplementsService
<1>1. ReqInit => ServiceInit
  BY DEF ReqInit
<1>2. ReqInv /\ [ReqNext]_reqVars => [ServiceNext]_serviceVars
  <2> SUFFICES ASSUME ReqInv, [ReqNext]_reqVars PROVE [ServiceNext]_serviceVars
    OBVIOUS
  <2>1. ASSUME NEW d \in inNet \cup Notices, ProcessClientRequests(d)
        PROVE  Serve(d) \/ Refuse(d)
    <3>1. d \in Request /\ Formed(d)
      BY AllFormed
    <3>2. CASE Whole(d)
      BY <2>1, <3>1, <3>2, HandlerServes
    <3>3. CASE ~Whole(d)
      BY <2>1, <3>1, <3>3, CutOffOverruns DEF Overrun, Refuse
    <3> QED BY <3>2, <3>3
  <2>2. ASSUME NEW d \in inNet \cup Notices, RecvFails(d)
        PROVE  Refuse(d)
    <3>1. d \in Request
      BY AllFormed
    <3> QED BY <2>2, <3>1, RecvAgrees DEF RecvFails, Refuse
  <2>3. CASE UNCHANGED reqVars
    BY <2>3 DEF reqVars, serviceVars
  <2> QED BY <2>1, <2>2, <2>3 DEF ReqNext, NetworkStep, Ended, reqVars,
              serviceVars, ServiceNext
<1> QED BY <1>1, <1>2, RequestInvariant, PTL DEF ReqSpec, ServiceSpec, ImplementsService

\* DeviceServer, which leaves out lengths and bodies, sends replies to the same
\* endpoints, for the same clients, with the same commands.
THEOREM SameReplies ==
    ASSUME NEW d \in Request
    PROVE  {RelayMsg(m.cmd, m.to, m.client) : m \in AnswersTo(d)}
             = Replies([cmd |-> d.cmd, from |-> d.from, addr |-> d.client,
                        cs2 |-> NoPublicAddr, named |-> d.named])
<1> DEFINE r == [cmd |-> d.cmd, from |-> d.from, addr |-> d.client,
                 cs2 |-> NoPublicAddr, named |-> d.named]
           image == {RelayMsg(m.cmd, m.to, m.client) : m \in AnswersTo(d)}
<1>1. r.cmd = d.cmd /\ r.from = d.from /\ r.addr = d.client /\ r.named = d.named
  OBVIOUS
<1>2. ASSUME NEW c, NEW ep, NEW cl, NEW fd, NEW b,
             AnswersTo(d) = {Reply(c, ep, cl, fd, b)}
      PROVE  image = {RelayMsg(c, ep, cl)}
  <2> DEFINE a == Reply(c, ep, cl, fd, b)
  <2>1. a.cmd = c /\ a.to = ep /\ a.client = cl
    BY DEF Reply
  <2> HIDE DEF a
  <2>2. image = {RelayMsg(a.cmd, a.to, a.client)}
    BY <1>2 DEF a
  <2> QED BY <2>1, <2>2
<1> HIDE DEF r, image
<1>4. CASE d.cmd = "QUERY_DS_IP_TO_DNS_SERVER"
  <2>1. AnswersTo(d) = {Reply("SERVER_PUNCHING", d.client, NoPublicAddr, 0, <<>>)}
    BY <1>4 DEF AnswersTo
  <2>2. Replies(r) = {Msg("SERVER_PUNCHING", d.client)}
    BY <1>1, <1>4 DEF Replies
  <2>3. image = {RelayMsg("SERVER_PUNCHING", d.client, NoPublicAddr)}
    BY <1>2, <2>1, Zenon
  <2> QED BY <2>2, <2>3 DEF RelayMsg, Msg, r, image
<1>5. CASE d.cmd = "QUERY_DS_IP_TO_LOCAL_DS" /\ d.named
  <2>1. AnswersTo(d)
          = {Reply("QUERY_DS_IP_TO_LOCAL_DS", d.from, NoPublicAddr, 0, <<>>)}
    BY <1>5 DEF AnswersTo
  <2>2. Replies(r) = {Msg("QUERY_DS_IP_TO_LOCAL_DS", d.from)}
    BY <1>1, <1>5 DEF Replies
  <2>3. image = {RelayMsg("QUERY_DS_IP_TO_LOCAL_DS", d.from, NoPublicAddr)}
    BY <1>2, <2>1, Zenon
  <2> QED BY <2>2, <2>3 DEF RelayMsg, Msg, r, image
<1>6. CASE d.cmd \in {"QUERY_DATA_TO_REMOTE_DS", "QUERY_DATA_TO_LOCAL_DS"}
  <2>1. AnswersTo(d) = {Reply("REMOTE_DS_DATA_RESP_TO_CLIENT", d.from, NoPublicAddr,
                              0, Result(d.body))}
    BY <1>6 DEF AnswersTo
  <2>2. Replies(r) = {Msg("REMOTE_DS_DATA_RESP_TO_CLIENT", d.from)}
    BY <1>1, <1>6 DEF Replies
  <2>3. image = {RelayMsg("REMOTE_DS_DATA_RESP_TO_CLIENT", d.from, NoPublicAddr)}
    BY <1>2, <2>1, Zenon
  <2> QED BY <2>2, <2>3 DEF RelayMsg, Msg, r, image
<1>7. CASE d.cmd = "QUERY_DATA_RELAY_TO_REMOTE_DS"
  <2>1. AnswersTo(d) = {Reply("REMOTE_DS_DATA_RESP_RELAY_TO_CLIENT", d.from, d.client,
                              0, Result(d.body))}
    BY <1>7 DEF AnswersTo
  <2>2. Replies(r) = {RelayMsg("REMOTE_DS_DATA_RESP_RELAY_TO_CLIENT", d.from, d.client)}
    BY <1>1, <1>7 DEF Replies
  <2>3. image = {RelayMsg("REMOTE_DS_DATA_RESP_RELAY_TO_CLIENT", d.from, d.client)}
    BY <1>2, <2>1, Zenon
  <2> QED BY <2>2, <2>3 DEF r, image
<1>8. CASE d.cmd = "QUERY_DATA_HTTP_TO_REMOTE_DS"
  <2>1. AnswersTo(d) = {Reply("REMOTE_DS_DATA_RESP_HTTP_TO_CLIENT", d.from, d.client,
                              d.relayFd, Result(d.body))}
    BY <1>8 DEF AnswersTo
  <2>2. Replies(r) = {RelayMsg("REMOTE_DS_DATA_RESP_HTTP_TO_CLIENT", d.from, d.client)}
    BY <1>1, <1>8 DEF Replies
  <2>3. image = {RelayMsg("REMOTE_DS_DATA_RESP_HTTP_TO_CLIENT", d.from, d.client)}
    BY <1>2, <2>1, Zenon
  <2> QED BY <2>2, <2>3 DEF r, image
<1>9. CASE /\ d.cmd \notin DataQuery
           /\ d.cmd # "QUERY_DS_IP_TO_DNS_SERVER"
           /\ ~(d.cmd = "QUERY_DS_IP_TO_LOCAL_DS" /\ d.named)
  <2>1. AnswersTo(d) = {}
    BY <1>9 DEF AnswersTo, DataQuery
  <2>2. Replies(r) = {}
    BY <1>1, <1>9 DEF Replies, DataQuery
  <2> QED BY <2>1, <2>2 DEF r, image
<1> QED BY <1>4, <1>5, <1>6, <1>7, <1>8, <1>9 DEF DataQuery, r
-----------------------------------------------------------------------------
(***************************************************************************)
(* A data reply has one client it is for, who gets the sum it asked for.   *)
(***************************************************************************)
LEMMA OneAddressee ==
    ASSUME NEW c \in Client, NEW e \in Client, NEW q \in Messages[c],
           NEW m \in AnswersTo(RequestOf(c, q)), m.cmd \in DataReply
    PROVE  AddressedTo(m, c) /\ (AddressedTo(m, e) => e = c)
<1> DEFINE d == RequestOf(c, q)
<1>1. /\ d.cmd = Profile[c].cmd
      /\ d.from = IF d.cmd \in Relayed THEN CenterServer ELSE Profile[c].addr
      /\ d.client = IF d.cmd \in Relayed THEN Profile[c].addr ELSE NoPublicAddr
      /\ d.relayFd = IF d.cmd = "QUERY_DATA_HTTP_TO_REMOTE_DS" THEN Profile[c].fd ELSE 0
  BY DEF RequestOf
<1>2. Profile[c].cmd \in DataQuery
  BY ServiceAssumption
<1> HIDE DEF d
<1>3. CASE d.cmd \in {"QUERY_DATA_TO_REMOTE_DS", "QUERY_DATA_TO_LOCAL_DS"}
  <2>1. m.cmd = "REMOTE_DS_DATA_RESP_TO_CLIENT" /\ m.to = d.from
    BY <1>3 DEF AnswersTo, Reply, d
  <2>2. d.cmd \notin Relayed
    BY <1>3 DEF Relayed
  <2>3. AddressedTo(m, c)
    BY <1>1, <2>1, <2>2 DEF AddressedTo
  <2>4. ASSUME AddressedTo(m, e) PROVE e = c
    <3>1. Profile[e].cmd \notin Relayed /\ Profile[e].addr = Profile[c].addr
      BY <1>1, <2>1, <2>2, <2>4 DEF AddressedTo
    <3>2. "QUERY_DATA_HTTP_TO_REMOTE_DS" \in Relayed
      BY DEF Relayed
    <3> QED BY <1>1, <2>2, <3>1, <3>2, ProfileAssumption
  <2> QED BY <2>3, <2>4
<1>4. CASE d.cmd = "QUERY_DATA_RELAY_TO_REMOTE_DS"
  <2>1. m.cmd = "REMOTE_DS_DATA_RESP_RELAY_TO_CLIENT" /\ m.client = d.client
    BY <1>4 DEF AnswersTo, Reply, d
  <2>2. d.cmd \in Relayed
    BY <1>4 DEF Relayed
  <2>3. AddressedTo(m, c)
    BY <1>1, <1>4, <2>1, <2>2 DEF AddressedTo
  <2>4. ASSUME AddressedTo(m, e) PROVE e = c
    <3>1. /\ Profile[e].cmd = "QUERY_DATA_RELAY_TO_REMOTE_DS"
          /\ Profile[e].addr = Profile[c].addr
      BY <1>1, <2>1, <2>2, <2>4 DEF AddressedTo
    <3> QED BY <1>1, <1>4, <3>1, ProfileAssumption
  <2> QED BY <2>3, <2>4
<1>5. CASE d.cmd = "QUERY_DATA_HTTP_TO_REMOTE_DS"
  <2>1. /\ m.cmd = "REMOTE_DS_DATA_RESP_HTTP_TO_CLIENT" /\ m.client = d.client
        /\ m.relayFd = d.relayFd
    BY <1>5 DEF AnswersTo, Reply, d
  <2>2. d.cmd \in Relayed
    BY <1>5 DEF Relayed
  <2>3. AddressedTo(m, c)
    BY <1>1, <1>5, <2>1, <2>2 DEF AddressedTo
  <2>4. ASSUME AddressedTo(m, e) PROVE e = c
    <3>1. /\ Profile[e].cmd = "QUERY_DATA_HTTP_TO_REMOTE_DS"
          /\ Profile[e].addr = Profile[c].addr
          /\ Profile[e].fd = Profile[c].fd
      BY <1>1, <1>5, <2>1, <2>2, <2>4 DEF AddressedTo
    <3> QED BY <1>1, <1>5, <3>1, ProfileAssumption
  <2> QED BY <2>3, <2>4
<1> QED BY <1>1, <1>2, <1>3, <1>4, <1>5 DEF DataQuery

\* A sender with the same unsigned long puts each parameter where it is read.
LEMMA ParamIsGiven ==
    ASSUME NEW c \in Client, NEW q \in Messages[c], NEW k \in {1, 2},
           Profile[c].words = LongWords
    PROVE  Param(RequestOf(c, q).body, k) = Given(q, k)
<1> DEFINE L == LongWords
           ps == q.params
           w == Wire(L, ps)
           b == <<q.id>> \o w
<1>1. L \in {1, 2} /\ ps \in Seq(Value) /\ q.id \in Value
  BY LongSizes, MessageType
<1>2. w \in Seq(Value) /\ Len(w) = L * Len(ps) /\ Len(ps) \in Nat
  <2> HIDE DEF L, ps
  <2>1. Len(ps) \in Nat
    BY <1>1
  <2>2. Wire(L, ps) \in Seq(Value) /\ Len(Wire(L, ps)) = L * Len(ps)
    BY <1>1, WireType, Zenon
  <2> QED BY <2>1, <2>2
<1>3. w = [i \in 1 .. L * Len(ps) |->
             IF L = 1 THEN ps[i] ELSE IF i % 2 = 1 THEN ps[(i + 1) \div 2] ELSE 0]
  BY DEF Wire
<1>4. DOMAIN ps = 1 .. Len(ps)
  BY <1>1
<1> DEFINE id == q.id
<1> HIDE DEF L, w, ps, id
<1>5. <<id>> \in Seq(Value) /\ Len(<<id>>) = 1
  BY <1>1 DEF id
<1> DEFINE s == <<id>>
<1> HIDE DEF s
<1>6. s \in Seq(Value) /\ Len(s) = 1 /\ b = s \o w
  BY <1>5 DEF s, id
<1> HIDE DEF b
<1>7. Len(b) = 1 + Len(w)
  BY <1>2, <1>6, CatLen
<1>8. ASSUME NEW i \in 1 .. Len(w) PROVE b[1 + i] = w[i]
  <2>0. s \in Seq(Value) /\ w \in Seq(Value)
    BY <1>2, <1>6
  <2>1. (s \o w)[Len(s) + i] = w[i]
    BY <2>0, CatRight
  <2> QED BY <1>6, <2>1, Zenon
<1>9. Param(b, k) = Given(q, k)
  <2>1. CASE k <= Len(ps)
    <3>1. 1 + k * L <= Len(b) /\ 1 + (k - 1) * L \in 1 .. Len(w)
      BY <1>1, <1>2, <1>7, <2>1
    <3>2. 1 + (1 + (k - 1) * L) = 2 + (k - 1) * L
      BY <1>1
    <3>3. b[2 + (k - 1) * L] = w[1 + (k - 1) * L]
      BY <1>8, <3>1, <3>2
    <3>4. w[1 + (k - 1) * L] = ps[k]
      <4>1. CASE L = 1
        BY <1>2, <1>3, <3>1, <4>1
      <4>2. CASE L = 2
        <5>1. /\ (1 + (k - 1) * L) % 2 = 1
              /\ ((1 + (k - 1) * L) + 1) \div 2 = k
          BY <4>2
        <5> QED BY <1>2, <1>3, <3>1, <4>2, <5>1
      <4> QED BY <1>1, <4>1, <4>2
    <3>5. Given(q, k) = ps[k]
      BY <1>4, <2>1 DEF Given, ps
    <3> QED BY <3>1, <3>3, <3>4, <3>5 DEF Param, L
  <2>2. CASE ~(k <= Len(ps))
    <3>1. ~(1 + k * L <= Len(b))
      BY <1>1, <1>2, <1>7, <2>2
    <3>2. Given(q, k) = 0
      BY <1>4, <2>2 DEF Given, ps
    <3> QED BY <3>1, <3>2 DEF Param, L
  <2> QED BY <1>2, <2>1, <2>2
<1>10. RequestOf(c, q).body = b
  BY RequestTypes DEF b, w, L, ps
<1> QED BY <1>9, <1>10

LEMMA AnswerSums ==
    ASSUME NEW c \in Client, NEW q \in Messages[c], Profile[c].words = LongWords,
           NEW m \in AnswersTo(RequestOf(c, q)), m.cmd \in DataReply
    PROVE  Sums(LongWords, m, q)
<1> DEFINE b == RequestOf(c, q).body
           L == LongWords
           at(i) == IF 2 + i * L \in DOMAIN m.body THEN m.body[2 + i * L] ELSE 0
<1>1. RequestOf(c, q) \in Request /\ b \in Seq(Value) /\ b # <<>> /\ Id(b) = q.id
  <2>1. RequestOf(c, q) \in Request /\ b = <<q.id>> \o Wire(Profile[c].words, q.params)
        /\ b # <<>>
    BY RequestTypes
  <2>2. b \in Seq(Value)
    BY <2>1, Lengths
  <2>3. b[1] = q.id
    <3> DEFINE s == <<q.id>>
               w == Wire(Profile[c].words, q.params)
    <3>1. w \in Seq(Value)
      BY MessageType, ServiceAssumption, WireType
    <3>2. s \in Seq(Value) /\ Len(s) = 1 /\ s[1] = q.id
      BY MessageType
    <3>3. b = s \o w
      BY <2>1
    <3> HIDE DEF s, w
    <3>4. 1 \in 1 .. Len(s)
      BY <3>2
    <3>5. (s \o w)[1] = s[1]
      BY <3>1, <3>2, <3>4, CatLeft, Zenon
    <3> QED BY <3>2, <3>3, <3>5, Zenon
  <2> QED BY <2>1, <2>2, <2>3 DEF Id
<1>2. m.body = Result(b)
  BY DEF AnswersTo, Reply, DataReply
<1> HIDE DEF b
<1>3. /\ Result(b) \in Seq(Cell) /\ Len(Result(b)) \in 1 .. 11 /\ Result(b)[1] = Id(b)
      /\ Id(b) = 1 => /\ Result(b)[2] = Param(b, 1)
                      /\ Result(b)[2 + L] = Param(b, 2)
                      /\ Result(b)[2 + 2 * L] = Plus(Param(b, 1), Param(b, 2))
                      /\ Len(Result(b)) = 5 + 3 * L
  BY <1>1, ResultShape
<1>4. Id(m.body) = q.id
  <2>1. Result(b) # <<>>
    BY <1>3
  <2> QED BY <1>1, <1>2, <1>3, <2>1 DEF Id
<1>5. ASSUME q.id = 1
      PROVE  /\ at(0) = Given(q, 1) /\ at(1) = Given(q, 2)
             /\ at(2) = Plus(at(0), at(1))
  <2>1. L \in {1, 2}
    BY LongSizes
  <2> HIDE DEF L
  <2>2. DOMAIN m.body = 1 .. 5 + 3 * L
    BY <1>1, <1>2, <1>3, <1>5
  <2>3. /\ 2 + 0 * L = 2 /\ 2 + 1 * L = 2 + L
        /\ 2 \in 1 .. 5 + 3 * L /\ 2 + L \in 1 .. 5 + 3 * L /\ 2 + 2 * L \in 1 .. 5 + 3 * L
    BY <2>1
  <2>4. at(0) = Param(b, 1) /\ at(1) = Param(b, 2)
        /\ at(2) = Plus(Param(b, 1), Param(b, 2))
    BY <1>1, <1>2, <1>3, <1>5, <2>2, <2>3
  <2>5. Param(b, 1) = Given(q, 1) /\ Param(b, 2) = Given(q, 2)
    BY ParamIsGiven DEF b
  <2> QED BY <2>4, <2>5
<1>6. CResponse_index_unpack(L, m)
        = [id |-> Id(m.body), d1 |-> at(0), d2 |-> at(1), r1 |-> at(2)]
  BY DEF CResponse_index_unpack
<1> HIDE DEF at, L
<1>7. Sums(L, m, q)
  BY <1>4, <1>5, <1>6 DEF Sums
<1> QED BY <1>7 DEF L

\* Every data reply under way is for exactly one client, and shows it the sum
\* of the two parameters of something it asked.
THEOREM AnswersAlwaysReach == ReqSpec => []AnswersReach
<1>1. ReqInv => AnswersReach
  <2> SUFFICES ASSUME ReqInv, NEW m \in outNet, m.cmd \in DataReply
               PROVE  /\ \E c \in Client : AddressedTo(m, c)
                      /\ \A e \in Client :
                           AddressedTo(m, e) /\ Profile[e].words = LongWords
                             => \E q \in asked[e] : Sums(LongWords, m, q)
    BY DEF AnswersReach
  <2>1. PICK c \in Client : \E q \in asked[c] : m \in AnswersTo(RequestOf(c, q))
    BY DEF ReqInv, Origin
  <2>2. PICK q \in asked[c] : m \in AnswersTo(RequestOf(c, q))
    BY <2>1
  <2>3. q \in Messages[c]
    BY DEF ReqInv
  <2>4. AddressedTo(m, c)
    BY <2>2, <2>3, OneAddressee
  <2>5. ASSUME NEW e \in Client, AddressedTo(m, e), Profile[e].words = LongWords
        PROVE  \E p \in asked[e] : Sums(LongWords, m, p)
    <3>1. e = c
      BY <2>2, <2>3, <2>5, OneAddressee
    <3>2. Sums(LongWords, m, q)
      BY <2>2, <2>3, <2>5, <3>1, AnswerSums
    <3> QED BY <3>1, <3>2
  <2> QED BY <2>4, <2>5
<1> QED BY <1>1, RequestInvariant, PTL
=============================================================================
