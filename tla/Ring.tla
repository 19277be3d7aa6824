-------------------------------- MODULE Ring --------------------------------
(***************************************************************************)
(* The circular buffer of the host's USB driver                            *)
(* (src/avr-experiments/ch34x/ch34x.c, struct ch34x_buf).  The pointers    *)
(* buf_get and buf_put are kept as distances from buf_buf.  Equal pointers *)
(* mean an empty buffer, so it never holds more than BUF_SIZE - 1 bytes.   *)
(***************************************************************************)
EXTENDS Integers, Sequences

CONSTANT BUF_SIZE   \* CH34x_BUF_SIZE

ASSUME RingAssumption == BUF_SIZE \in Nat \ {0}

Index == 0 .. BUF_SIZE - 1

\* Buffers of bytes out of B.
Buffers(B) == [buf : [Index -> B], get : Index, put : Index]

\* ch34x_buf_alloc; memory is whatever kmalloc returned.
Alloc(memory) == [buf |-> memory, get |-> 0, put |-> 0]

Clear(pb) == [buf |-> pb.buf, get |-> pb.put, put |-> pb.put]

DataAvail(pb) == (BUF_SIZE + pb.put - pb.get) % BUF_SIZE

\* A slip would be to count the byte that keeps full and empty apart.
SpaceAvailFull(pb) == BUF_SIZE - DataAvail(pb)
SpaceAvail(pb) == (BUF_SIZE + pb.get - pb.put - 1) % BUF_SIZE

\* The number of bytes that are moved when count are asked for.
Moved(count, len) == IF count > len THEN len ELSE count

\* A pointer after count bytes have been copied from where it was: at most to
\* the end of the memory, or on from its start.  (A slip would be to
\* forget the second piece.)
AdvancedOnce(p, count) == IF count < BUF_SIZE - p THEN p + count ELSE 0
AdvancedPast(p, count) ==
    IF count > BUF_SIZE - p THEN count - (BUF_SIZE - p) ELSE p + count
Advanced(p, count) ==
    LET len == BUF_SIZE - p IN
    IF count > len THEN count - len
    ELSE IF count < len THEN p + count ELSE 0

\* ch34x_buf_put of the bytes s, in one or two pieces.
Put(pb, s) ==
    LET count == Moved(Len(s), SpaceAvail(pb))
        len   == BUF_SIZE - pb.put
    IN  [buf |-> [i \in Index |->
                    IF i >= pb.put /\ i < pb.put + count
                    THEN s[i - pb.put + 1]
                    ELSE IF i < count - len THEN s[len + i + 1]
                    ELSE pb.buf[i]],
         get |-> pb.get,
         put |-> Advanced(pb.put, count)]

\* ch34x_buf_get of up to count bytes: what is copied, and the buffer after.
Got(pb, count) ==
    LET len == BUF_SIZE - pb.get IN
    [i \in 1 .. Moved(count, DataAvail(pb)) |->
        IF i <= len THEN pb.buf[pb.get + i - 1] ELSE pb.buf[i - len - 1]]

Get(pb, count) ==
    [buf |-> pb.buf,
     get |-> Advanced(pb.get, Moved(count, DataAvail(pb))),
     put |-> pb.put]

\* The bytes in the buffer, oldest first.
Contents(pb) == Got(pb, DataAvail(pb))

=============================================================================
