------------------------------ MODULE DeltaCodec ------------------------------
(***************************************************************************)
(* The compression of a batch of records, byte by byte: compressDelta on   *)
(* the device (Compression.cpp) and decompress_delta on the server         *)
(* (telemetry.py).  A record has a time stamp and the value of each        *)
(* register it was built with.  The decoder is given only what the encoder *)
(* made (messages are authenticated), so its paths for a truncated buffer  *)
(* are left out.                                                           *)
(***************************************************************************)
EXTENDS Integers, Sequences, SequencesExt

\* Registers the wire format knows; a byte, and the 16 bits of a register.
Reg == 0..9
Byte == {x \in Nat : x < 256}
Word == {x \in Nat : x < 65536}

\* The values of some registers, and a record.
Values == UNION {[S -> Word] : S \in SUBSET Reg}
Record == [ts : Nat, regs : Values]

Bit(m, reg) == (m \div 2^reg) % 2 = 1

\* The registers a mask selects.
Selected(m) == {reg \in Reg : Bit(m, reg)}

\* What remains of x when its last k digits in a base are cut off, for k up to n.
Shifted(base, n, x) ==
  LET rest[k \in 0..n] == IF k = 0 THEN x ELSE rest[k - 1] \div base IN rest

\* The number with these digits in a base, the least one first.
Number(base, digits) ==
  LET high[k \in 0..Len(digits)] ==  \* of the last k digits
        IF k = 0 THEN 0 ELSE digits[Len(digits) - k + 1] + base * high[k - 1]
  IN high[Len(digits)]

\* A reader returns what it read and the bytes after it.
Read(val, buf, n) == [val |-> val, rest |-> SubSeq(buf, n + 1, Len(buf))]

\* put16_le, put64_le, and the readers.
LittleEndian(n, x) ==
  LET rest == Shifted(256, n, x) IN [i \in 1..n |-> rest[i - 1] % 256]

FromLittleEndian(n, buf) == Read(Number(256, SubSeq(buf, 1, n)), buf, n)

\* putVarUint32 and _get_varuint32: seven bits in a byte, the eighth says that more
\* follow.  An unsigned number of 32 bits takes at most five bytes.
Varint(v) ==
  LET rest == Shifted(128, 5, v)
      n == CHOOSE k \in 1..5 : rest[k] = 0 /\ (k > 1 => rest[k - 1] # 0)
  IN [i \in 1..n |-> IF i < n THEN 128 + (rest[i - 1] % 128) ELSE rest[i - 1]]

GetVarint(buf) ==
  LET n == CHOOSE j \in 1..Len(buf) : buf[j] < 128 /\ \A k \in 1..j - 1 : buf[k] >= 128
  IN Read(Number(128, [i \in 1..n |-> buf[i] % 128]), buf, n)

\* Mutant: a negative difference takes the code of the positive one.
ZigzagUnsigned(v) == IF v >= 0 THEN 2 * v ELSE -2 * v

Zigzag(v) == IF v >= 0 THEN 2 * v ELSE -2 * v - 1
Unzigzag(u) == IF u % 2 = 0 THEN u \div 2 ELSE -(u \div 2) - 1

Int16(x) == IF x < 32768 THEN x ELSE x - 65536

-----------------------------------------------------------------------------
(* compressDelta.                                                          *)

\* curr[reg] after each record: a register a record lacks keeps its value.
Current(recs, reg) ==
  LET curr[i \in 0..Len(recs)] ==
        IF i = 0 THEN 0
        ELSE IF reg \in DOMAIN recs[i].regs THEN recs[i].regs[reg] ELSE curr[i - 1]
  IN curr

\* Time does not run back on the wire.
Elapsed(recs, i) ==
  IF i > 1 /\ recs[i].ts >= recs[i - 1].ts THEN recs[i].ts - recs[i - 1].ts ELSE 0

Delta(recs, i, reg) ==
  LET curr == Current(recs, reg) IN Int16(curr[i]) - Int16(curr[i - 1])

\* Ten bits of a mask are kept, one for a register.
RegBits(m) == m % 1024

CompressRecord(recs, i, m) ==
  LET mask == RegBits(m)
      bytes(reg) == IF reg \in Selected(mask) THEN Varint(Zigzag(Delta(recs, i, reg))) ELSE <<>>
  IN Varint(Elapsed(recs, i)) \o LittleEndian(2, mask) \o FlattenSeq([k \in 1..10 |-> bytes(k - 1)])

CompressDelta(recs, m) ==
  LittleEndian(8, recs[1].ts) \o LittleEndian(2, Len(recs))
    \o FlattenSeq([i \in 1..Len(recs) |-> CompressRecord(recs, i, m)])

-----------------------------------------------------------------------------
(* decompress_delta.                                                       *)

Clamp(v) == IF v < 0 THEN 0 ELSE IF v > 65535 THEN 65535 ELSE v

\* One register: the next difference, added to the last value.
DecodeRegister(st, reg) ==
  LET enc == GetVarint(st.rest)
  IN [rest |-> enc.rest,
      last |-> [st.last EXCEPT ![reg] = Clamp(@ + Unzigzag(enc.val))]]

\* The selected registers of a record, one after the other.
DecodeRegisters(st, regs) ==
  LET read[n \in 0..10] ==
        IF n = 0 THEN st
        ELSE IF n - 1 \in regs THEN DecodeRegister(read[n - 1], n - 1) ELSE read[n - 1]
  IN read[10]

\* One record; one without registers is left out.
DecodeRecord(st) ==
  LET dt == GetVarint(st.rest)
      mask == FromLittleEndian(2, dt.rest)
      regs == Selected(mask.val)
      ts == st.ts + dt.val
      read == DecodeRegisters([rest |-> mask.rest, last |-> st.last], regs)
      rec == [ts |-> ts, regs |-> [reg \in regs |-> read.last[reg]]]
  IN [rest |-> read.rest, last |-> read.last, ts |-> ts,
      out |-> IF regs = {} THEN st.out ELSE Append(st.out, rec)]

DecompressDelta(buf) ==
  LET base == FromLittleEndian(8, buf)
      nrecs == FromLittleEndian(2, base.rest)
      start == [rest |-> nrecs.rest, last |-> [reg \in Reg |-> 0], ts |-> base.val, out |-> <<>>]
      read[k \in 0..nrecs.val] == IF k = 0 THEN start ELSE DecodeRecord(read[k - 1])
  IN read[nrecs.val].out

=============================================================================
