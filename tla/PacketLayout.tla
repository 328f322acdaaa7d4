----------------------------- MODULE PacketLayout -----------------------------
(***************************************************************************)
(* The data of one Packet: how appendData lays values out, how sendPacket  *)
(* encrypts and serialises them, and how recvPacket takes a datagram apart *)
(* again.                                                                  *)
(*                                                                         *)
(* A byte is named by what it is the at-th byte of: a value, a metadata    *)
(* entry or the cipher of a block.  Sender and receiver have one key.      *)
(***************************************************************************)
EXTENDS Naturals, SequencesExt

CONSTANTS
    StringSizes,  \* lengths of the strings that are appended
    MaxAppends,   \* bound on the number of appendData calls
    MaxSends,     \* bound on the number of sendPacket calls
    BlockLen,     \* the cipher's block length, 16
    BufferLen     \* RECEIVE_BUFFER_LEN

(* A packet of NTPacket's has at least one value. *)
ASSUME PacketAssumption ==
    /\ StringSizes \subseteq Nat
    /\ MaxAppends \in Nat \ {0}
    /\ BlockLen \in Nat \ {0}

HeaderLen == 26
ChunkSize == 7    \* metaDataChunkSize: startIndex, variableSize, variableType

VARIABLES
    packet,    \* the sender's Packet
    appended,  \* history: the calls of appendData
    wire,      \* the datagrams sent, in order; each may arrive at any time
    incoming   \* the last datagram received and what recvPacket made of it

vars == <<packet, appended, wire, incoming>>

(* Packet(), with which recvPacket answers what it cannot read. *)
Unspecified == [send |-> 0, data |-> <<>>, variables |-> <<>>]

(* Packet(multicastable, encrypted, awaitACK, typeId, packetNum). *)
EmptyPacket(encrypted) ==
    [encrypted |-> encrypted, data |-> <<>>, meta |-> <<>>, appendedBytes |-> 0]

Init ==
    /\ \E encrypted \in BOOLEAN : packet = EmptyPacket(encrypted)
    /\ appended = <<>>
    /\ wire = <<>>
    /\ incoming = Unspecified

-----------------------------------------------------------------------------
(* The calls appendData has overloads for: the length of the value, and the
   size and type handed to appendData(uint8_t[], size, type).  The one for
   double passes PACKET_DOUBLE as the size. *)
Overloads ==
    {[len |-> 4, size |-> 4, type |-> 1],    \* float
     [len |-> 8, size |-> 2, type |-> 0],    \* double
     [len |-> 1, size |-> 1, type |-> 3],    \* uint8_t
     [len |-> 2, size |-> 2, type |-> 4],    \* uint16_t
     [len |-> 4, size |-> 4, type |-> 5],    \* uint32_t
     [len |-> 8, size |-> 8, type |-> 6]}    \* uint64_t
    \cup {[len |-> n, size |-> n, type |-> 7] : n \in StringSizes}

(* The n bytes of x. *)
Bytes(kind, x, n) == [i \in 1 .. n |-> [kind |-> kind, of |-> x, at |-> i]]

(* Mutant: the metadata points to the value's end. *)
AppendedToEnd(pkt, v, call) ==
    LET entry == [startIndex |-> pkt.appendedBytes + call.size,
                  variableSize |-> call.size, variableType |-> call.type]
    IN  [pkt EXCEPT !.appendedBytes = @ + call.size,
                    !.data = @ \o Bytes("value", v, call.size),
                    !.meta = @ \o Bytes("meta", entry, ChunkSize)]

(* Mutant: the type's byte is not appended to the metadata. *)
AppendedUntyped(pkt, v, call) ==
    LET entry == [startIndex |-> pkt.appendedBytes, variableSize |-> call.size,
                  variableType |-> call.type]
    IN  [pkt EXCEPT !.appendedBytes = @ + call.size,
                    !.data = @ \o Bytes("value", v, call.size),
                    !.meta = @ \o Bytes("meta", entry, ChunkSize - 1)]

(* What appendData makes of the Packet pkt, for the v-th value appended. *)
AppendedTo(pkt, v, call) ==
    LET entry == [startIndex |-> pkt.appendedBytes, variableSize |-> call.size,
                  variableType |-> call.type]
    IN  [pkt EXCEPT !.appendedBytes = @ + call.size,
                    !.data = @ \o Bytes("value", v, call.size),
                    !.meta = @ \o Bytes("meta", entry, ChunkSize)]

(* Its record in appended: the call and the index it returned. *)
Record(pkt, call) ==
    [len |-> call.len, size |-> call.size, type |-> call.type,
     index |-> pkt.appendedBytes]

appendData(call) ==
    /\ Len(appended) < MaxAppends
    /\ packet' = AppendedTo(packet, Len(appended) + 1, call)
    /\ appended' = Append(appended, Record(packet, call))
    /\ UNCHANGED <<wire, incoming>>

-----------------------------------------------------------------------------
(* aes_encrypt and aes_decrypt work on whole blocks; a last, shorter one is
   filled with zeros and comes out whole. *)
Zero == [kind |-> "zero"]

(* Mutant: one block more when the length is a multiple of BlockLen. *)
BlocksOneMore(s) == Len(s) \div BlockLen + 1

Blocks(s) == (Len(s) + BlockLen - 1) \div BlockLen
Block(s, b) == [i \in 1 .. BlockLen |->
                  LET k == (b - 1) * BlockLen + i IN IF k <= Len(s) THEN s[k] ELSE Zero]

(* The k-th byte is in block BlockOf(k), at InBlock(k). *)
BlockOf(k) == ((k - 1) \div BlockLen) + 1
InBlock(k) == ((k - 1) % BlockLen) + 1

aes_encrypt(s) ==
    [k \in 1 .. Blocks(s) * BlockLen |->
        [kind |-> "cipher", of |-> Block(s, BlockOf(k)), at |-> InBlock(k)]]

(* A whole cipher block gives its plain block back, anything else garbage. *)
Deciphered(block) ==
    IF \A i \in 1 .. BlockLen :
         block[i].kind = "cipher" /\ block[i].of = block[1].of /\ block[i].at = i
    THEN block[1].of
    ELSE [i \in 1 .. BlockLen |-> [kind |-> "garbage"]]

aes_decrypt(s) ==
    [k \in 1 .. Blocks(s) * BlockLen |-> Deciphered(Block(s, BlockOf(k)))[InBlock(k)]]

(* getFullPacket: the header's offsets and lengths, then data and metadata. *)
getFullPacket(pkt) ==
    [encrypted |-> pkt.encrypted,
     dataLen   |-> Len(pkt.data),
     metaStart |-> Len(pkt.data) + HeaderLen,
     metaLen   |-> Len(pkt.meta),
     bytes     |-> pkt.data \o pkt.meta]

(* sendPacket encrypts the Packet in place, then serialises it. *)
sendPacket ==
    /\ Len(wire) < MaxSends
    /\ packet' = IF packet.encrypted
                 THEN [packet EXCEPT !.data = aes_encrypt(@)]
                 ELSE packet
    /\ wire' = Append(wire, getFullPacket(packet'))
    /\ UNCHANGED <<appended, incoming>>

(* setCompleteData reads a variable from every ChunkSize metadata bytes. *)
Variables(meta) ==
    [i \in 1 .. Len(meta) \div ChunkSize |-> meta[(i - 1) * ChunkSize + 1].of]

(* recvPacket cuts the k-th datagram up by the offsets and lengths of its
   header.  A datagram that does not fit in recvBuffer is an error of recvfrom. *)
Parsed(k) ==
    LET first == wire[k].metaStart - HeaderLen
        payload == SubSeq(wire[k].bytes, 1, wire[k].dataLen)
    IN  [send |-> k,
         data |-> IF wire[k].encrypted THEN aes_decrypt(payload) ELSE payload,
         variables |-> Variables(SubSeq(wire[k].bytes, first + 1,
                                        first + wire[k].metaLen))]

recvPacket(k) ==
    /\ incoming' = IF HeaderLen + Len(wire[k].bytes) <= BufferLen
                   THEN Parsed(k)
                   ELSE Unspecified
    /\ UNCHANGED <<packet, appended, wire>>

Next ==
    \/ \E call \in Overloads : appendData(call)
    \/ sendPacket
    \/ \E k \in DOMAIN wire : recvPacket(k)

Spec == Init /\ [][Next]_vars

-----------------------------------------------------------------------------
Entry == [startIndex : Nat, variableSize : Nat, variableType : 0 .. 255]

TypeOK ==
    /\ packet.encrypted \in BOOLEAN
    /\ packet.appendedBytes \in Nat
    /\ \A i \in DOMAIN packet.data : packet.data[i].kind \in {"value", "cipher"}
    /\ \A i \in DOMAIN packet.meta : packet.meta[i].of \in Entry
    /\ Len(packet.meta) = ChunkSize * Len(appended)
    /\ Len(appended) <= MaxAppends
    /\ incoming.send \in 0 .. Len(wire)
    /\ incoming.variables \in Seq(Entry)

(* The first n bytes of the v-th value appended are in data from index on. *)
ReadsBack(data, index, v, n) ==
    \A i \in 1 .. n :
        /\ index + i <= Len(data)
        /\ data[index + i] = [kind |-> "value", of |-> v, at |-> i]

(* What was received went through the cipher at most once. *)
OneCipher == incoming.send = 1 \/ ~packet.encrypted

(* Whatever values were appended, and whether or not the packet is encrypted,
   the v-th variable of the receiver's metadata points to the bytes appendData
   took from the v-th value.  (sendPacket encrypts in place, so of an encrypted
   packet this is the first datagram; that no value is missing at the end is
   OnlyPadding's part.) *)
VariablesReadBack ==
    OneCipher => \A v \in DOMAIN incoming.variables :
        /\ incoming.variables[v].startIndex = appended[v].index
        /\ ReadsBack(incoming.data, incoming.variables[v].startIndex, v,
                     incoming.variables[v].variableSize)

(* Nothing follows the last variable in the data of a received packet but the
   zeros that fill up an encrypted packet's last block. *)
OnlyPadding ==
    OneCipher /\ incoming.send # 0 =>
        LET n == Len(incoming.variables)
            end == IF n = 0 THEN 0
                   ELSE incoming.variables[n].startIndex + incoming.variables[n].variableSize
        IN  /\ Len(incoming.data) < end + (IF packet.encrypted THEN BlockLen ELSE 1)
            /\ \A i \in end + 1 .. Len(incoming.data) : incoming.data[i] = Zero
=============================================================================
