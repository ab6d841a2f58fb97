--------------------------------- MODULE Bits ---------------------------------
(***************************************************************************)
(* Fields narrower than a byte, or across bytes (bits.c, and its callers   *)
(* field.c, protocol_field.c, layer.c and the IPv6 accessors).             *)
(*                                                                         *)
(* A bit is the set of what was or-ed into it: {} is 0, {x} is the bit x   *)
(* itself, and a bit in which two meet holds both names.  So one           *)
(* evaluation says what happens for all the values of the bits.  Bit 0 of  *)
(* a byte is its most significant one.  Bytes are a function on integers.  *)
(***************************************************************************)
EXTENDS Integers, Sequences, FiniteSetsExt

Places == 0 .. 7
Zero   == [k \in Places |-> {}]

SmallerOf(a, b) == IF a < b THEN a ELSE b
LargerOf(a, b)  == IF a < b THEN b ELSE a

(* make_msb_mask, make_lsb_mask and the loop give the same bits as long as *)
(* they stay within the byte, which is all their callers ask for.          *)
Mask(offset, n) == {k \in Places : offset <= k /\ k < offset + n}

Masked(byte, mask) == [k \in Places |-> IF k \in mask THEN byte[k] ELSE {}]
Shifted(byte, d)   == [k \in Places |-> IF k - d \in Places THEN byte[k - d] ELSE {}]
Or(a, b)           == [k \in Places |-> a[k] \cup b[k]]

ByteExtract(byte, offset, n, offsetOut) == Shifted(Masked(byte, Mask(offset, n)), offsetOut - offset)

(* byte_write_bits, for what it accepts. *)
ByteAccepts(offsetIn, n) == n = 0 \/ offsetIn + n <= 8

ByteWriteBits(out, offsetOut, in, offsetIn, n) ==
    IF n = 0 THEN out
    ELSE Or(Masked(out, Places \ Mask(offsetOut, n)), ByteExtract(in, offsetIn, n, offsetOut))

-----------------------------------------------------------------------------
(* bits_extract: the odd bits first, then each byte from the end of the    *)
(* byte before and the start of its own.  "bytes" includes what precedes   *)
(* the first byte, which is read when there are no odd bits.               *)
BitsExtract(bytes, offset, length) ==
    LET odd      == length % 8
        first    == IF odd = 0 THEN 0 ELSE 1
        start    == offset \div 8
        turn     == (offset + odd) % 8
        aligned  == offset + odd = 0
        whole(i) == IF aligned THEN bytes[i]
                    ELSE Or(ByteExtract(bytes[i - 1], turn, 8 - turn, 0),
                            ByteExtract(bytes[i], 0, turn, 8 - turn))
    IN  [d \in 0 .. length \div 8 + first - 1 |->
            IF d < first THEN ByteExtract(bytes[start], offset, odd, 8 - odd)
            ELSE whole(start + d)]

-----------------------------------------------------------------------------
(* bits_write, a step after the other: where it writes, where it reads,    *)
(* and how many bits are left.  A count is unsigned: one below 0 is larger *)
(* than what is left.                                                      *)

AtMost(n, left) == IF n < 0 THEN left ELSE SmallerOf(n, left)

(* What byte_write_bits refuses fails an assertion of bits_write. *)
Put(s, n) ==
    IF s.end = "aborted" \/ ~ByteAccepts(s.oi, n) THEN [s EXCEPT !.end = "aborted"]
    ELSE [s EXCEPT !.out[s.po] = ByteWriteBits(@, s.oo, s.in[s.pi], s.oi, n), !.left = @ - n]

(* BITS_MOVE of both pointers. *)
Move(s, n) == [s EXCEPT !.po = @ + (s.oo + n) \div 8, !.oo = (@ + n) % 8,
                        !.pi = @ + (s.oi + n) \div 8, !.oi = (@ + n) % 8]

PutMove(s, n) == Move(Put(s, n), n)

(* Mutant: the first part is measured without its place in the output. *)
MutFirstByte(s) ==
    IF s.oo = 0 THEN s
    ELSE PutMove(s, SmallerOf(8 - s.oi, s.left))

(* The end of the first byte of the output, in two parts if the input has  *)
(* to be read across two bytes.                                            *)
FirstByte(s) ==
    IF s.oo = 0 THEN s
    ELSE LET n == SmallerOf(8 - LargerOf(s.oi, s.oo), s.left)
             t == PutMove(s, n)
         IN  IF t.oo = 0 THEN t ELSE PutMove(t, AtMost(8 - n - t.oo, t.left))

(* The whole bytes of the output: copied when the input is aligned too,    *)
(* which moves no pointer, in two parts each otherwise.                    *)
WholeBytes(s) ==
    LET num    == s.left \div 8
        one(t) == LET n == 8 - t.oi IN PutMove(PutMove(t, n), 8 - n)
        bytes[k \in 0 .. num] == IF k = 0 THEN s ELSE one(bytes[k - 1])
    IN  IF s.oi = 0
        THEN [s EXCEPT !.left = @ % 8,
                       !.out = [i \in DOMAIN @ |-> IF i - s.po \in 0 .. num - 1
                                                  THEN s.in[i - s.po + s.pi] ELSE @[i]]]
        ELSE bytes[num]

(* What is left, in two parts; the second does not move first. *)
LastByte(s) ==
    IF s.left = 0 THEN s
    ELSE LET t == Put(s, SmallerOf(8 - s.oi, s.left))
         IN  IF t.left = 0 THEN t ELSE Put(t, t.left)

(* The end of the first byte must have been reached: an assertion says so, *)
(* and it fails when there were too few bits to.                           *)
BitsWrite(out, offsetOut, in, offsetIn, length) ==
    LET start == [out |-> out, po |-> 0, oo |-> offsetOut, in |-> in, pi |-> 0,
                  oi |-> offsetIn, left |-> length, end |-> "done"]
        s     == FirstByte(start)
        t     == LastByte(WholeBytes(s))
    IN  IF offsetIn >= 8 \/ offsetOut >= 8 THEN [end |-> "refused", out |-> out]
        ELSE IF s.oo # 0 THEN [end |-> "aborted", out |-> s.out]
        ELSE [end |-> t.end, out |-> t.out]

-----------------------------------------------------------------------------
(* Fields of bits *)

NumBytes(n) == n \div 8 + (IF n % 8 = 0 THEN 0 ELSE 1)

(* field_create_bits: the bits are kept at the end of as many bytes. *)
FieldCreateBits(in, offsetIn, n) ==
    LET bytes  == NumBytes(n)
        offset == 8 * bytes - n
        w      == BitsWrite([i \in 0 .. bytes - 1 |-> Zero], offset, in, offsetIn, n)
    IN  [end |-> w.end, bits |-> w.out, offset |-> offset, size |-> n]

(* A field as it is in a header: IPV6_GET, and IPV6_SET or what            *)
(* protocol_field_set does with a field of bits.                           *)
GetBits(bytes, f) == FieldCreateBits(bytes, f.offset, f.size)

SetBits(bytes, f, field) == BitsWrite(bytes, f.offset, field.bits, field.offset, f.size)

(* The fields of bits of ipv4.c, ipv6.c and tcp.c, from their first byte. *)
Ipv6BitFields == {[offset |-> 0, size |-> 4],    (* version       *)
                  [offset |-> 4, size |-> 8],    (* traffic class *)
                  [offset |-> 4, size |-> 20]}   (* flow label    *)

TcpFlags == [cwr |-> 0, ece |-> 1, urg |-> 2, ack |-> 3, psh |-> 4, rst |-> 5, syn |-> 6,
             fin |-> 7]

TcpBitFields == {[offset |-> 0, size |-> 4],     (* data offset   *)
                 [offset |-> 4, size |-> 3],     (* reserved      *)
                 [offset |-> 7, size |-> 1]}     (* NS            *)
                \cup {[offset |-> TcpFlags[flag], size |-> 1] : flag \in DOMAIN TcpFlags}

(* The version of an IP header and the length of an IPv4 one, which        *)
(* bits_extract reads.                                                     *)
ExtractedFields == [offset : {0, 4}, size : {4}]

(* BITS("syn", 1, &value) and the like: the macro takes the size of a      *)
(* pointer less that of the field for the offset in the value.             *)
BitsOf(value, size) == FieldCreateBits(value, 8 - size, size)

-----------------------------------------------------------------------------
(* Reference: bit j of some bytes, byte after byte. *)
BitAt(bytes, j) == bytes[j \div 8][j % 8]

Named(name, first, last) == [i \in first .. last |-> [k \in Places |-> {<<name, 8 * i + k>>}]]

(* The bits "in" from offsetIn on are those of "w" from offsetOut on, and  *)
(* no other bit of "out" was touched.                                      *)
Moved(w, out, offsetOut, in, offsetIn, n) ==
    \A j \in 0 .. 31 :
        BitAt(w, j) = IF j \in offsetOut .. offsetOut + n - 1
                      THEN BitAt(in, j - offsetOut + offsetIn) ELSE BitAt(out, j)

(* A value read in a header and put in another one: it arrives and nothing *)
(* else of the header changes, or the program stops, when the field is     *)
(* within a byte, at neither end.                                          *)
TravelsRight(f) ==
    LET in    == Named("in", 0, 3)
        out   == Named("out", 0, 3)
        field == GetBits(in, f)
        w     == SetBits(out, f, field)
    IN  IF f.offset # 0 /\ f.offset + f.size < 8 THEN w.end = "aborted"
        ELSE field.end = "done" /\ w.end = "done" /\ Moved(w.out, out, f.offset, in, f.offset, f.size)

(* The bits extracted end the result, after zeros. *)
ExtractsRight(offset, n) ==
    LET in  == Named("in", -1, 3)
        d   == BitsExtract(in, offset, n)
        pad == 8 * NumBytes(n) - n
    IN  \A j \in 0 .. 8 * NumBytes(n) - 1 :
            BitAt(d, j) = IF j < pad THEN {} ELSE BitAt(in, j - pad + offset)

(* Nothing but what it is asked for keeps bits_extract right: for          *)
(* these offsets and sizes it is not.                                      *)
ExtractsWrong ==
    {p \in (0 .. 7) \X (8 .. 24) : p[1] + (p[2] % 8) <= 8 /\ ~ExtractsRight(p[1], p[2])}

AllBitsRight ==
    /\ \A f \in Ipv6BitFields \cup TcpBitFields : TravelsRight(f)
    /\ \A f \in ExtractedFields : ExtractsRight(f.offset, f.size)
    /\ ExtractsWrong =
           {p \in (0 .. 7) \X (8 .. 24) :
               /\ p[1] + (p[2] % 8) <= 8
               /\ IF p[2] % 8 = 0 THEN p[1] # 0 ELSE (p[1] + p[2]) % 8 = 0}

=============================================================================
