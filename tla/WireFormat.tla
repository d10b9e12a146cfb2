----------------------------- MODULE WireFormat -----------------------------
(***************************************************************************)
(* The bytes of the packets.  The Windows programs and the macOS client    *)
(* send C structures as they lie in memory; the iOS client appends fields  *)
(* one by one and reads them back at fixed offsets.  The server lays its   *)
(* own structures over a receive buffer that keeps the bytes of earlier    *)
(* datagrams beyond the length of the last one.                            *)
(*                                                                         *)
(* A byte is the field it belongs to and its place in it, so that a field  *)
(* is understood when its bytes are read, in order, from where they are.   *)
(***************************************************************************)
EXTENDS Naturals, Sequences

CONSTANTS
    BufferSize,     \* of recv_buf, cut to what packets can reach
    WindowsNames,   \* the lengths of "JH_computer_<idx>" for the indices in use
    IosNames        \* the lengths of names given to UDPClient(name:)

ASSUME WireAssumption ==
    /\ BufferSize \in Nat /\ BufferSize >= 48
    /\ WindowsNames \subseteq 13 .. 32      \* an index has 1 to 20 digits
    /\ IosNames \subseteq 0 .. BufferSize - 4

VARIABLES
    buf,            \* recv_buf of a slot of the server: a sequence of bytes
    recv_len,       \* the length of the last datagram
    sender,         \* the program that sent it ...
    packet,         \* ... the kind of packet ...
    name_len        \* ... and the length of the name in it

vars == <<buf, recv_len, sender, packet, name_len>>

-----------------------------------------------------------------------------
(* Layouts.                                                                *)

Member(f, n) == [field |-> f, size |-> n]

Byte(f, k) == [field |-> f, at |-> k, fresh |-> TRUE]

Padding == Byte("padding", 0)

Bytes(m) == [k \in 1 .. m.size |-> Byte(m.field, k)]

Pad(n) == [k \in 1 .. n |-> Padding]

\* The padding that brings n bytes to a multiple of a.
Gap(n, a) == (a - (n % a)) % a

\* The offsets of the members: each lies behind the one before it, in a structure
\* at the next multiple of its size.
Offsets(members, packed) ==
    LET start[i \in 1 .. Len(members)] ==
            IF i = 1 THEN 0
            ELSE LET behind == start[i - 1] + members[i - 1].size
                 IN  IF packed THEN behind ELSE behind + Gap(behind, members[i].size)
    IN  [i \in 1 .. Len(members) |-> start[i]]

\* The bytes of the members at their offsets, and padding between them.
Lay(members, start, length) ==
    [k \in 1 .. length |->
        IF \E i \in 1 .. Len(members) : k \in start[i] + 1 .. start[i] + members[i].size
        THEN LET i == CHOOSE j \in 1 .. Len(members) : k \in start[j] + 1 .. start[j] + members[j].size
             IN  Byte(members[i].field, k - start[i])
        ELSE Padding]

Behind(members, start) == start[Len(members)] + members[Len(members)].size

Largest(members) ==
    CHOOSE a \in {members[i].size : i \in 1 .. Len(members)} : \A i \in 1 .. Len(members) : members[i].size <= a

\* A structure in memory, filled up to a multiple of its largest member.
Struct(members) ==
    LET start  == Offsets(members, FALSE)
        behind == Behind(members, start)
    IN  Lay(members, start, behind + Gap(behind, Largest(members)))

\* Data with the fields appended, as toData() builds it.
Appended(members) ==
    LET start == Offsets(members, TRUE) IN Lay(members, start, Behind(members, start))

packet_1 == <<Member("type", 2), Member("res", 1), Member("client_id", 4)>>

packet_2 == <<Member("type", 2), Member("res", 1), Member("client_id", 4)>>

Packet_2 == <<Member("type", 2), Member("client_id", 4), Member("res", 1)>>

packet_3 ==
    <<Member("type", 2), Member("client_id", 4), Member("seq_num", 4),
      Member("time_client_send", 8), Member("time_server_recv", 8),
      Member("time_server_send", 8), Member("time_client_recv", 8)>>

packet_6 == <<Member("type", 2), Member("client_id", 4), Member("seq_num", 4), Member("delay", 8)>>

\* The two zero bytes that toData() of the iOS client appends.
IosPadding == <<Member("padding", 2)>>

IosTypeFirst(members) == <<Head(members)>> \o IosPadding \o Tail(members)

-----------------------------------------------------------------------------
(* What the programs send.                                                 *)

Program == {"windows", "mac", "ios"}

Kind == {0, 2, 3, 6}

\* Names: the Windows client's with the index of the session behind it; exactly
\* ten bytes on macOS; any on iOS.
NameLengths(p) ==
    CASE p = "windows" -> WindowsNames
      [] p = "mac"     -> {10}
      [] p = "ios"     -> IosNames

\* Packet0.toData(): a name shorter than the ten bytes of the field is padded.
IosHello(n) ==
    Appended(<<Member("type", 2), Member("name_len", 2), Member("name", n)>>)
    \o Pad(IF n < 10 THEN 10 - n ELSE 0)

Hello(p, n) ==
    IF p = "ios" THEN IosHello(n)
    ELSE Appended(<<Member("type", 2), Member("name_len", 2), Member("name", n)>>)

\* toData() and the structures themselves: packets whose length is fixed.
Data ==
    [p \in Program |-> [k \in {2, 3, 6} |->
        LET members == CASE k = 2 -> IF p = "windows" THEN packet_2 ELSE Packet_2
                         [] k = 3 -> packet_3
                         [] k = 6 -> packet_6
        IN  IF p = "ios" THEN Appended(IosTypeFirst(members)) ELSE Struct(members)]]

Encode(p, k, n) == IF k = 0 THEN Hello(p, n) ELSE Data[p][k]

-----------------------------------------------------------------------------
(* The server's receive buffer.                                            *)

Stale(bytes) == [i \in 1 .. Len(bytes) |-> [bytes[i] EXCEPT !.fresh = FALSE]]

\* A datagram overwrites the front of the buffer.
Overlay(bytes) == bytes \o Stale(SubSeq(buf, Len(bytes) + 1, BufferSize))

Init ==
    /\ buf = Stale(Pad(BufferSize))
    /\ recv_len = 0 /\ sender = "nobody" /\ packet = 0 /\ name_len = 0

Receive(p, k, n) ==
    LET bytes == Encode(p, k, n) IN
    /\ buf' = Overlay(bytes)
    /\ recv_len' = Len(bytes)
    /\ sender' = p /\ packet' = k /\ name_len' = n

Next == \E p \in Program, k \in Kind : \E n \in NameLengths(p) : Receive(p, k, n)

Spec == Init /\ [][Next]_vars

-----------------------------------------------------------------------------
(* What the server reads of the buffer.                                    *)

\* A read of n bytes at an offset gives the field f as it was sent.
Reads(bytes, offset, f, n) ==
    /\ offset + n <= Len(bytes)
    /\ SubSeq(bytes, offset + 1, offset + n) = Bytes(Member(f, n))

Place(members, f) == CHOOSE i \in 1 .. Len(members) : members[i].field = f

\* Where a structure of the reader has a member.
OffsetIn(members, f) == Offsets(members, FALSE)[Place(members, f)]

SizeIn(members, f) == members[Place(members, f)].size

ReadsMember(bytes, members, f) == Reads(bytes, OffsetIn(members, f), f, SizeIn(members, f))

\* What the server can take for the length of the name: that of the datagram if
\* its two bytes are where the server reads them, else any uint16.
NameLenRead == IF Reads(buf, 2, "name_len", 2) THEN {name_len} ELSE 0 .. 65535

\* case 0: recv_len == sizeof(uint16) * 2 + name_len
Accepts(len) == recv_len = 4 + len

\* The members handle_packet reads of a packet.
UsedMembers(k) ==
    CASE k = 2 -> {"client_id"}
      [] k = 3 -> {"client_id", "seq_num", "time_client_send"}
      [] k = 6 -> {"seq_num", "delay"}

\* Mutant: a packet 6 of the server that has the delay before the number.
ServerStructDelayFirst(k) ==
    CASE k = 2 -> packet_2
      [] k = 3 -> packet_3
      [] k = 6 -> <<packet_6[1], packet_6[2], packet_6[4], packet_6[3]>>

ServerStruct(k) == CASE k = 2 -> packet_2 [] k = 3 -> packet_3 [] k = 6 -> packet_6

NewPacket_3 == Struct(packet_3)

\* Mutant: time_client_send is not copied.
EchoNoSendTime ==
    [i \in 1 .. Len(NewPacket_3) |->
        IF NewPacket_3[i].field \in {"client_id", "time_client_send"} THEN Padding ELSE NewPacket_3[i]]

\* The answer to a packet 3: all but client_id is assigned, and time_client_send
\* holds what the server took for it.
Echo ==
    LET from == OffsetIn(packet_3, "time_client_send")
    IN  [i \in 1 .. Len(NewPacket_3) |->
            IF i \in from + 1 .. from + 8 THEN buf[i]
            ELSE IF NewPacket_3[i].field = "client_id" THEN Padding
            ELSE NewPacket_3[i]]

-----------------------------------------------------------------------------
(* What the clients read of the answers.                                   *)

\* handle() and Packet3.init?(data:) of the iOS client: offsets and sizes.
IosOffset(f) ==
    CASE f = "res" -> 2
      [] f = "client_id" -> 4
      [] f = "seq_num" -> 8
      [] f = "time_client_send" -> 16
      [] f = "time_server_recv" -> 24
      [] f = "time_server_send" -> 32
      [] f = "time_client_recv" -> 40

ClientReads(p, bytes, members, f) ==
    IF p = "ios" THEN Reads(bytes, IosOffset(f), f, SizeIn(members, f))
    ELSE ReadsMember(bytes, members, f)

-----------------------------------------------------------------------------
(* Properties.                                                             *)

TypeOK ==
    /\ Len(buf) = BufferSize
    /\ recv_len \in 0 .. BufferSize
    /\ sender \in Program \union {"nobody"} /\ packet \in Kind

\* A packet 0 of the Windows and macOS clients is accepted; and whoever sent it,
\* the name of a packet 0 that is accepted is the one sent.
HelloIsRead ==
    sender \in Program /\ packet = 0 =>
        \A len \in NameLenRead :
            /\ sender # "ios" => Accepts(len)
            /\ Accepts(len) => Reads(buf, 4, "name", len)

\* Whatever the slot held before, the server reads the id of a packet 2 from
\* every program, and every field it uses of a packet 3 and 6 from the programs
\* that send structures, out of the datagram just received.
ServerReadsWhatWasSent ==
    /\ TypeOK
    /\ HelloIsRead
    /\ sender \in Program /\ packet # 0 =>
        \A f \in UsedMembers(packet) :
            sender # "ios" \/ f \in {"client_id", "seq_num"} => ReadsMember(buf, ServerStruct(packet), f)

\* Every client reads out of a packet 1 what the server put in, and out of an
\* echo of its own probe the sequence number and the times the server added;
\* the Windows and macOS clients also get their own sending time back, on which
\* the delay they report depends.
ClientsReadAnswers ==
    \A p \in Program :
        /\ \A f \in {"res", "client_id"} : ClientReads(p, Struct(packet_1), packet_1, f)
        /\ sender = p /\ packet = 3 =>
            \A f \in {"seq_num", "time_server_recv", "time_server_send"}
                      \union (IF p = "ios" THEN {} ELSE {"time_client_send"}) :
                ClientReads(p, Echo, packet_3, f)
=============================================================================
