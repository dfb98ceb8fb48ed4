------------------------------- MODULE Codec -------------------------------
(***************************************************************************)
(* The message codec of dtplink_util.c and dtplink_buffer.c.  A sender     *)
(* packs the fields of a message one after the other with WRITE_* into its *)
(* response buffer, the bytes counted in length travel in one datagram,    *)
(* and the receiver, built from the same library, unpacks fields of the    *)
(* same kinds in the same order with READ_* from its request buffer, as    *)
(* the generated CResponse_index_packup and _unpack of dsapp.c do.  Both   *)
(* ignore what the calls return.                                           *)
(*                                                                         *)
(* The bytes of a value are left out: a field is its kind and its size,    *)
(* and it is read back correctly iff it is read from the offset it was     *)
(* written at and its size is found there.                                 *)
(***************************************************************************)
EXTENDS Integers, Sequences

CONSTANTS
    BufSize,    \* MAX_RTP_MSG_SIZE, 256
    WordSizes,  \* sizes of BYTE, WORD, DWORD and FLOAT: {1, 2, 4}, and 8
                \* where ULong32, an unsigned long, has eight bytes
    Lens,       \* the lengths that strings and raw data may have
    Header,     \* bytes before the message in its datagram: 2, 9 or 14
    FieldsMax   \* bound on the fields of a message

ASSUME CodecAssumption ==
    /\ BufSize \in Nat
    /\ WordSizes \subseteq Nat \ {0}
    /\ Lens \subseteq Nat
    /\ Header \in Nat \ {0}
    /\ FieldsMax \in Nat

Field ==
    [kind : {"fixed"}, size : WordSizes] \cup [kind : {"string", "raw"}, size : Lens]

\* A raw field is preceded by its length in two bytes, a string followed by
\* a zero byte.
Width(f) ==
    CASE f.kind = "fixed"  -> f.size
      [] f.kind = "string" -> f.size + 1
      [] f.kind = "raw"    -> f.size + 2

\* A packed or unpacked field and its offset in the buffer; a call that
\* returned -1 has the offset Failed.
Failed == -1

VARIABLES
    phase,      \* "pack", "unpack", "lost" if the datagram is not received, or
                \* "overrun" if the message was too long to be put together
    tail,       \* RESPONSE_INFO.tail
    length,     \* RESPONSE_INFO.length
    zeroFrom,   \* RESPONSE_INFO.buffer holds zeros from here on, or from
                \* tail on where that is larger
    packed,     \* the WRITE_* calls so far: the field, its offset and, for a
                \* string, whether a zero byte ends it
    reqLength,  \* REQUEST_INFO.length of the receiver
    head,       \* REQUEST_INFO.head of the receiver
    unpacked    \* the READ_* calls so far: the offset read and the size found

codecVars == <<phase, tail, length, zeroFrom, packed, reqLength, head, unpacked>>

CodecTypeOK ==
    /\ phase \in {"pack", "unpack", "lost", "overrun"}
    /\ tail \in Nat
    /\ length \in 0 .. tail
    /\ zeroFrom \in Nat
    /\ packed \in Seq([field : Field, at : Nat \cup {Failed}, ended : BOOLEAN])
    /\ reqLength \in Nat
    /\ head \in Nat
    /\ unpacked \in Seq([at : Nat \cup {Failed}, size : Nat])

CodecInit ==
    /\ phase = "pack"
    /\ tail = 0
    /\ length = 0
    /\ zeroFrom = 0
    /\ packed = <<>>
    /\ reqLength = 0
    /\ head = 0
    /\ unpacked = <<>>
-----------------------------------------------------------------------------
(***************************************************************************)
(* Packing.  Once tail is beyond the array, what the program does next is  *)
(* undefined, and the model stops.                                         *)
(***************************************************************************)
Packing == phase = "pack" /\ tail <= BufSize /\ Len(packed) < FieldsMax

Fits(n) == length + n <= BufSize

Written(f) ==
    packed' = Append(packed, [field |-> f, at |-> tail,
                              ended |-> tail + f.size >= zeroFrom])

Refused(f) ==
    /\ packed' = Append(packed, [field |-> f, at |-> Failed, ended |-> FALSE])
    /\ UNCHANGED <<tail, length>>

\* WRITE_WORD, WRITE_DWORD, WRITE_FLOAT and WRITE_BYTE.
WRITE_FIXED(f) ==
    /\ Packing
    /\ f.kind = "fixed"
    /\ \/ /\ Fits(f.size)
          /\ tail' = tail + f.size
          /\ length' = tail'
          /\ Written(f)
       \/ ~Fits(f.size) /\ Refused(f)
    /\ UNCHANGED <<phase, zeroFrom, reqLength, head, unpacked>>

\* Mutant: the check forgets the byte that ends the string.
WRITE_STRINGUnterminated(f) ==
    /\ Packing
    /\ f.kind = "string"
    /\ \/ /\ Fits(f.size)
          /\ tail' = tail + f.size + 1
          /\ length' = tail'
          /\ Written(f)
       \/ ~Fits(f.size) /\ Refused(f)
    /\ UNCHANGED <<phase, zeroFrom, reqLength, head, unpacked>>

\* The byte that ends the string is skipped, not written.
WRITE_STRING(f) ==
    /\ Packing
    /\ f.kind = "string"
    /\ \/ /\ Fits(f.size + 1)
          /\ tail' = tail + f.size + 1
          /\ length' = tail'
          /\ Written(f)
       \/ ~Fits(f.size + 1) /\ Refused(f)
    /\ UNCHANGED <<phase, zeroFrom, reqLength, head, unpacked>>

\* The two bytes of the length are not in the check, and the length of the
\* buffer is not moved.
WRITE_RAW(f) ==
    /\ Packing
    /\ f.kind = "raw"
    /\ \/ /\ Fits(f.size)
          /\ tail' = tail + 2 + f.size
          /\ Written(f)
          /\ UNCHANGED length
       \/ ~Fits(f.size) /\ Refused(f)
    /\ UNCHANGED <<phase, zeroFrom, reqLength, head, unpacked>>
-----------------------------------------------------------------------------
(***************************************************************************)
(* From the response buffer of one side to the request buffer of the other.*)
(***************************************************************************)
\* Mutant: the header is taken off the length twice.
CarryShort ==
    /\ phase = "pack"
    /\ tail <= BufSize
    /\ Header + length + 1 < BufSize
    /\ phase' = "unpack"
    /\ reqLength' = length - Header
    /\ UNCHANGED <<tail, length, zeroFrom, packed, head, unpacked>>

Carry ==
    /\ phase = "pack"
    /\ tail <= BufSize
    /\ Header + length + 1 < BufSize
    /\ phase' = "unpack"
    /\ reqLength' = length
    /\ UNCHANGED <<tail, length, zeroFrom, packed, head, unpacked>>

\* DTPLink_Recv refuses a datagram of BufSize - 1 bytes or more.
CarryTooLarge ==
    /\ phase = "pack"
    /\ tail <= BufSize
    /\ Header + length <= BufSize
    /\ Header + length + 1 >= BufSize
    /\ phase' = "lost"
    /\ UNCHANGED <<tail, length, zeroFrom, packed, reqLength, head, unpacked>>

\* The array in which header and message are put together is no larger than the
\* response buffer, and nothing checks the copy into it.  What the program does
\* from there on is undefined, and the model stops.
CarryOverrun ==
    /\ phase = "pack"
    /\ tail <= BufSize
    /\ Header + length > BufSize
    /\ phase' = "overrun"
    /\ UNCHANGED <<tail, length, zeroFrom, packed, reqLength, head, unpacked>>

Delivered ==
    \/ phase = "lost"
    \/ phase = "unpack" /\ Len(unpacked) = Len(packed)

\* Mutant: the bytes of the previous message stay in the buffer.
ResetBuffersKeepingBytes ==
    /\ Delivered
    /\ phase' = "pack"
    /\ tail' = 0
    /\ length' = 0
    /\ zeroFrom' = IF tail > zeroFrom THEN tail ELSE zeroFrom
    /\ packed' = <<>>
    /\ reqLength' = 0
    /\ head' = 0
    /\ unpacked' = <<>>

\* DTPLink_ResetBuffers on both sides, before the next message.
ResetBuffers ==
    /\ Delivered
    /\ phase' = "pack"
    /\ tail' = 0
    /\ length' = 0
    /\ zeroFrom' = 0
    /\ packed' = <<>>
    /\ reqLength' = 0
    /\ head' = 0
    /\ unpacked' = <<>>
-----------------------------------------------------------------------------
(***************************************************************************)
(* Unpacking.                                                              *)
(***************************************************************************)
\* The kind of field the receiver asks for next.
Wants(k) ==
    /\ phase = "unpack"
    /\ Len(unpacked) < Len(packed)
    /\ packed[Len(unpacked) + 1].field.kind = k

WantedSize == packed[Len(unpacked) + 1].field.size

Got(n) == unpacked' = Append(unpacked, [at |-> head, size |-> n])

GotNothing ==
    /\ unpacked' = Append(unpacked, [at |-> Failed, size |-> 0])
    /\ UNCHANGED head

\* The sizes found at head by a reader of fields of kind k: the size of such
\* a field written there and, for a string, properly ended.
SizesHere(k) ==
    {packed[i].field.size :
        i \in {j \in DOMAIN packed : /\ packed[j].at = head
                                     /\ packed[j].field.kind = k
                                     /\ k = "string" => packed[j].ended}}

\* Mutant: the check is made for one byte, whatever the size.
READ_FIXEDUnchecked ==
    /\ Wants("fixed")
    /\ \/ /\ head + 1 <= reqLength
          /\ Got(WantedSize)
          /\ head' = head + WantedSize
       \/ head + 1 > reqLength /\ GotNothing
    /\ UNCHANGED <<phase, tail, length, zeroFrom, packed, reqLength>>

\* READ_WORD, READ_DWORD, READ_FLOAT and READ_BYTE.
READ_FIXED ==
    /\ Wants("fixed")
    /\ \/ /\ head + WantedSize <= reqLength
          /\ Got(WantedSize)
          /\ head' = head + WantedSize
       \/ head + WantedSize > reqLength /\ GotNothing
    /\ UNCHANGED <<phase, tail, length, zeroFrom, packed, reqLength>>

\* The destination is cleared, as device_server_main does, so the length of
\* what is in it after the copy is the length of the string at head.  At any
\* other place than a string's start the copy ends at the next zero byte:
\* after reqLength at the latest, for the request buffer was cleared.
READ_STRING ==
    /\ Wants("string")
    /\ \/ /\ head + 1 <= reqLength
          /\ \E n \in IF SizesHere("string") # {} THEN SizesHere("string")
                      ELSE 0 .. reqLength - head :
                 Got(n) /\ head' = head + n + 1
       \/ head + 1 > reqLength /\ GotNothing
    /\ UNCHANGED <<phase, tail, length, zeroFrom, packed, reqLength>>

\* At any other place than a raw field's start the length may be anything;
\* beyond BufSize the copy is undefined.
READ_RAW ==
    /\ Wants("raw")
    /\ \/ /\ head + 1 <= reqLength
          /\ \E n \in IF SizesHere("raw") # {} THEN SizesHere("raw")
                      ELSE 0 .. BufSize :
                 Got(n) /\ head' = head + 2 + n
       \/ head + 1 > reqLength /\ GotNothing
    /\ UNCHANGED <<phase, tail, length, zeroFrom, packed, reqLength>>
-----------------------------------------------------------------------------
Pack == \E f \in Field : WRITE_FIXED(f) \/ WRITE_STRING(f) \/ WRITE_RAW(f)

Unpack == READ_FIXED \/ READ_STRING \/ READ_RAW

CodecNext ==
    Pack \/ Carry \/ CarryTooLarge \/ CarryOverrun \/ Unpack \/ ResetBuffers

CodecSpec == CodecInit /\ [][CodecNext]_codecVars
-----------------------------------------------------------------------------
(***************************************************************************)
(* Properties.                                                             *)
(***************************************************************************)
WrittenFields == {i \in DOMAIN packed : packed[i].at # Failed}

End(i) == packed[i].at + Width(packed[i].field)

RawPacked == \E i \in WrittenFields : packed[i].field.kind = "raw"

\* As long as no raw data is packed, the WRITE_* functions never leave the
\* array and count every byte they write, whichever of them are refused in
\* between (each checks the space on its own).
OnlyRawOverruns == ~RawPacked => tail <= BufSize /\ length = tail

\* A field reached through fields that were all written and sent is read back
\* from where it was written and with its size, the terminator of a string
\* included, which nobody wrote: it relies on the buffer having been cleared
\* since the previous message.
ReadsBack ==
    \A i \in DOMAIN unpacked :
        (\A j \in 1 .. i : j \in WrittenFields /\ End(j) <= reqLength)
            => unpacked[i] = [at |-> packed[i].at, size |-> packed[i].field.size]

\* In a message without raw data the receiver never goes beyond the bytes that
\* came but for the zero byte after them, even if a refused field makes it read
\* the others from wrong places.
ReadsStayInside ==
    phase = "unpack" /\ (\A i \in DOMAIN packed : packed[i].field.kind # "raw")
        => head <= reqLength + 1 /\ head < BufSize

\* The reply is a copy of the response buffer: every field that was accepted
\* travels in it.
WrittenIsSent == phase = "unpack" => \A i \in WrittenFields : End(i) <= reqLength
=============================================================================
