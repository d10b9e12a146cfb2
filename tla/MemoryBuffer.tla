---------------------------- MODULE MemoryBuffer ----------------------------
(***************************************************************************)
(* memory_buffer of Server/server.cpp: frames, each a size and its bytes,  *)
(* are written at end and read at begin; clean() makes room by moving the  *)
(* unread bytes to the front.                                              *)
(*                                                                         *)
(* A byte is known by the frame it belongs to and its place in it.  The    *)
(* caller writes a frame only when it fits beside the unread ones and      *)
(* reads only when one is unread.  A failing assertion ends the program.   *)
(*                                                                         *)
(* Bounds: frames of MaxAmount bytes at most, MaxWrites of them.           *)
(***************************************************************************)
EXTENDS Integers, Sequences, SequencesExt

CONSTANTS
    BUF_SIZE,
    Width,      \* how many values begin and end, of type uint32, have
    Header,     \* sizeof(buf_size_t)
    MaxAmount, MaxWrites

ASSUME MemoryBufferAssumption ==
    /\ Header \in Nat \ {0} /\ MaxAmount \in Nat /\ MaxAmount >= Header
    /\ BUF_SIZE \in Nat /\ BUF_SIZE >= MaxAmount
    /\ Width \in Nat /\ Width > BUF_SIZE + MaxAmount
    /\ MaxWrites \in Nat

VARIABLES
    buf, begin, end,
    written,    \* the sizes of the frames written
    reads,      \* what the reads returned: the number of a frame, 0 for none
    cleaned,    \* clean() has been called
    aborted     \* an assertion has failed

vars == <<buf, begin, end, written, reads, cleaned, aborted>>

Index == 0 .. BUF_SIZE - 1
NoByte == [frame |-> 0, at |-> 0]

Unread == SubSeq(written, Len(reads) + 1, Len(written))

Init ==
    /\ buf = [i \in Index |-> NoByte] /\ begin = 0 /\ end = 0
    /\ written = <<>> /\ reads = <<>>
    /\ cleaned = FALSE /\ aborted = FALSE

\* clean(): the size bytes from begin go to the front; begin and end are
\* moved down by size, modulo the range of a uint32.
Clean(b) ==
    LET size == (b.end - b.begin) % Width IN
    [bytes |-> [i \in Index |-> IF i < size /\ b.begin + i \in Index
                                THEN b.bytes[b.begin + i] ELSE b.bytes[i]],
     begin |-> (b.begin - size) % Width,
     end   |-> (b.end - size) % Width]

Current == [bytes |-> buf, begin |-> begin, end |-> end]

\* write(amount, write_func), where write_func writes the next frame.
Write(amount) ==
    /\ ~aborted /\ Len(written) < MaxWrites
    /\ FoldSeq(+, 0, Unread) + amount <= BUF_SIZE
    /\ LET full == end + amount > BUF_SIZE
           b    == IF full THEN Clean(Current) ELSE Current
           fits == b.end + amount <= BUF_SIZE
           new  == Len(written) + 1
       IN
       /\ cleaned' = (cleaned \/ full)
       /\ aborted' = ~fits
       /\ begin' = b.begin
       /\ end' = IF fits THEN (b.end + amount) % Width ELSE b.end
       /\ buf' = IF fits
                 THEN [i \in Index |-> IF i \in b.end .. b.end + amount - 1
                                       THEN [frame |-> new, at |-> i - b.end] ELSE b.bytes[i]]
                 ELSE b.bytes
       /\ written' = Append(written, amount)
    /\ UNCHANGED reads

\* The lengths the bytes at begin may stand for: that of a frame where one
\* starts, otherwise whatever the bytes are.
Amounts(byte) == IF byte.frame # 0 /\ byte.at = 0 THEN {written[byte.frame]} ELSE Header .. MaxAmount

\* Mutant: the size of the frame is added without the size of its header.
ReadSkipsHeader ==
    /\ ~aborted /\ Unread # <<>>
    /\ IF begin + Header <= end
       THEN \E amount \in Amounts(buf[begin]) :
              LET next == (begin + amount - Header) % Width IN
              /\ reads' = Append(reads, IF buf[begin].at = 0 THEN buf[begin].frame ELSE 0)
              /\ begin' = IF next = end THEN 0 ELSE next
              /\ end'   = IF next = end THEN 0 ELSE end
              /\ UNCHANGED aborted
       ELSE aborted' = TRUE /\ UNCHANGED <<begin, end, reads>>
    /\ UNCHANGED <<buf, written, cleaned>>

\* read()
Read ==
    /\ ~aborted /\ Unread # <<>>
    /\ IF begin + Header <= end
       THEN \E amount \in Amounts(buf[begin]) :
              LET next == (begin + amount) % Width IN
              /\ reads' = Append(reads, IF buf[begin].at = 0 THEN buf[begin].frame ELSE 0)
              /\ begin' = IF next = end THEN 0 ELSE next
              /\ end'   = IF next = end THEN 0 ELSE end
              /\ UNCHANGED aborted
       ELSE aborted' = TRUE /\ UNCHANGED <<begin, end, reads>>
    /\ UNCHANGED <<buf, written, cleaned>>

Next == (\E amount \in Header .. MaxAmount : Write(amount)) \/ Read

Spec == Init /\ [][Next]_vars

-----------------------------------------------------------------------------
(* Properties.                                                             *)

\* Until clean() is called the frames are read whole and in the order they
\* were written, and no assertion fails, whatever the pattern of writes, reads
\* and resets to an empty buffer.
FramesInOrderUntilClean ==
    ~cleaned => ~aborted /\ \A n \in 1 .. Len(reads) : reads[n] = n
=============================================================================
