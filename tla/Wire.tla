-------------------------------- MODULE Wire --------------------------------
(***************************************************************************)
(* How values become bytes and bytes values again: VarInt,                 *)
(* NulsOutputStreamBuffer, NulsByteBuffer, SerializeUtils, BaseNulsData.   *)
(*                                                                         *)
(* A byte array is a sequence of bytes or Null, a string the sequence of   *)
(* its UTF-8 bytes or Null, an integer a natural number.  A data class is  *)
(* a record: type, the types of its fields; sized, written and parsed, the *)
(* order in which size() adds them up, serializeToStream() writes them and *)
(* parse() reads them.                                                     *)
(***************************************************************************)
EXTENDS ContractTx, SequencesExt

CONSTANT Null   \* null, and the value of an expression that throws

Byte == 0..255

ASSUME NullAssumption == Null \notin Int /\ Null \notin Seq(Byte)

\* All elements of a sequence, combined by a function of two; base stands for none.
\* In halves: recursion stays shallow even for hundreds of them.
Combined(seq, op, base) ==
  LET part[x \in (0..Len(seq)) \X (0..Len(seq))] ==
        LET lo == x[1]
            hi == x[2]
            mid == (lo + hi) \div 2
        IN IF hi <= lo THEN base
           ELSE IF hi = lo + 1 THEN seq[hi]
           ELSE op[<<part[<<lo, mid>>], part[<<mid, hi>>]>>]
  IN part[<<0, Len(seq)>>]

Joined(seqs) == Combined(seqs, [x \in Seq(Byte) \X Seq(Byte) |-> x[1] \o x[2]], <<>>)

SumOf(sizes) == Combined(sizes, [x \in Nat \X Nat |-> x[1] + x[2]], 0)

\* Numbers and the bytes they take.
Width == [uint16 |-> 2, uint32 |-> 4, uint48 |-> 6, int64 |-> 8, BigInteger |-> 32]

\* What is left of a number without its lower bytes.
Left(n, bytes) ==
  LET left[i \in 0..bytes] == IF i = 0 THEN n ELSE left[i - 1] \div 256
  IN left[bytes]

\* The lower bytes of a number, least significant first.
LittleEndian(n, width) == [i \in 1..width |-> Left(n, i - 1) % 256]

\* The number in the last bytes is found first.
Number(bytes) ==
  LET last[k \in 0..Len(bytes)] ==
        IF k = 0 THEN 0 ELSE bytes[Len(bytes) + 1 - k] + 256 * last[k - 1]
  IN last[Len(bytes)]

\* An int that is not negative: the length of an array, say.
IsInt(n) == n \in Nat /\ Left(n, 3) < 128

\* A byte, as Java reads it.
Signed(b) == IF b < 128 THEN b ELSE b - 256

-----------------------------------------------------------------------------
(***************************************************************************)
(* Writing                                                                 *)
(***************************************************************************)
\* For lengths and counts, which are ints.
VarInt(n) ==
  IF n < 253 THEN <<n>>
  ELSE IF n <= 65535 THEN <<253>> \o LittleEndian(n, 2)
  ELSE <<254>> \o LittleEndian(n, 4)

WriteBytes(b) == IF b = Null \/ b = <<>> THEN VarInt(0) ELSE VarInt(Len(b)) \o b

\* StringUtils.isBlank: nothing, or only characters that trim() removes.
IsBlank(s) == s = Null \/ \A i \in DOMAIN s : s[i] <= 32

WriteString(s) == IF IsBlank(s) THEN VarInt(0) ELSE WriteBytes(s)

\* Any items behind one byte that counts them.
WriteCounted(items) == <<Len(items) % 256>> \o Joined(items)

WriteArg(arg) == WriteCounted([k \in DOMAIN arg |-> WriteString(arg[k])])

WriteArgs(args) ==
  IF args = Null THEN <<0>> ELSE WriteCounted([i \in DOMAIN args |-> WriteArg(args[i])])

WriteField(type, v) ==
  CASE type \in DOMAIN Width -> LittleEndian(v, Width[type])
    [] type = "byte" -> <<v % 256>>
    [] type = "address" -> v
    [] type = "key" -> <<Len(v)>> \o v
    [] type = "bytes" -> WriteBytes(v)
    [] type = "string" -> WriteString(v)
    [] type = "args" -> WriteArgs(v)

\* serializeToStream
Write(class, d) ==
  Joined([i \in DOMAIN class.written |->
                WriteField(class.type[class.written[i]], d[class.written[i]])])

-----------------------------------------------------------------------------
(***************************************************************************)
(* Sizes.  A blank string that is not empty is given the size of its       *)
(* characters, though none of them is written.                             *)
(***************************************************************************)
SizeOfArray(b) == IF b = Null THEN 1 ELSE SizeOfBytes(Len(b))
SizeOfString(s) == SizeOfArray(s)

SizeOfArg(arg) == 1 + SumOf([k \in DOMAIN arg |-> SizeOfString(arg[k])])

\* (First a slip: the byte that counts the values is forgotten.)
SizeOfArgsWithoutCounts(args) ==
  1 + (IF args = Null THEN 0
       ELSE SumOf([i \in DOMAIN args |-> SizeOfArg(args[i]) - 1]))

SizeOfArgs(args) ==
  1 + (IF args = Null THEN 0 ELSE SumOf([i \in DOMAIN args |-> SizeOfArg(args[i])]))

SizeOfField(type, v) ==
  CASE type \in DOMAIN Width -> Width[type]
    [] type = "byte" -> 1
    [] type = "address" -> 23
    [] type = "key" -> 1 + Len(v)
    [] type = "bytes" -> SizeOfArray(v)
    [] type = "string" -> SizeOfString(v)
    [] type = "args" -> SizeOfArgs(v)

Size(class, d) ==
  SumOf([i \in DOMAIN class.sized |->
              SizeOfField(class.type[class.sized[i]], d[class.sized[i]])])

\* BaseNulsData.serialize: what was written must be as long as was announced,
\* so that data without a size are never serialized at all.
PlaceHolder == <<255, 255, 255, 255>>

Serialized(size, written) ==
  LET out == IF size = 0 THEN PlaceHolder ELSE written
  IN IF Len(out) = size THEN out ELSE Null

Serialize(class, d) == Serialized(Size(class, d), Write(class, d))

-----------------------------------------------------------------------------
(***************************************************************************)
(* Reading.  at is the cursor: the number of bytes already read.           *)
(***************************************************************************)
Got(v, at) == [ok |-> TRUE, val |-> v, at |-> at]
Fails == [ok |-> FALSE, val |-> Null, at |-> 0]

\* What Next makes of what was read before it and where that ended.
Then(r, Next(_, _)) == IF r.ok THEN Next(r.val, r.at) ELSE Fails

ReadBytes(in, at, n) ==
  IF n >= 0 /\ at + n <= Len(in) THEN Got(SubSeq(in, at + 1, at + n), at + n) ELSE Fails

ReadNumber(in, at, width) ==
  Then(ReadBytes(in, at, width), LAMBDA b, p : Got(Number(b), p))

\* All bits set stand for no time.
NoTime == <<255, 255, 255, 255, 255, 255>>

ReadTime(in, at) ==
  Then(ReadBytes(in, at, 6), LAMBDA b, p : Got(IF b = NoTime THEN -1 ELSE Number(b), p))

\* copyOfRange fills what is missing at the end with zeros.
ReadBigInteger(in, at) ==
  IF at > Len(in) THEN Fails
  ELSE Got(Number(SubSeq(in, at + 1, IF at + 32 < Len(in) THEN at + 32 ELSE Len(in))), at + 32)

\* VarInt(buf, offset), for a value that fits in an int.
ReadVarInt(in, at) ==
  IF at >= Len(in) THEN Fails
  ELSE IF in[at + 1] < 253 THEN Got(in[at + 1], at + 1)
  ELSE ReadNumber(in, at + 1, CASE in[at + 1] = 253 -> 2
                                [] in[at + 1] = 254 -> 4
                                [] in[at + 1] = 255 -> 8)

\* readByLengthByte: an empty array comes back as null.
ReadByLengthByte(in, at) ==
  Then(ReadVarInt(in, at),
       LAMBDA n, p : IF n = 0 THEN Got(Null, p) ELSE ReadBytes(in, p, n))

\* readString: null comes back as the empty string.
ReadString(in, at) ==
  Then(ReadByLengthByte(in, at), LAMBDA b, p : Got(IF b = Null THEN <<>> ELSE b, p))

ReadByte(in, at) == IF at < Len(in) THEN Got(Signed(in[at + 1]), at + 1) ELSE Fails

\* The length of a public key, in a byte.
ReadKey(in, at) == Then(ReadByte(in, at), LAMBDA n, p : ReadBytes(in, p, n))

\* A reader is a function: where it begins |-> what it gets.  Readers one after the
\* other get the sequence of their values, again in halves.
InTurn(readers, at) ==
  LET part[x \in (0..Len(readers)) \X (0..Len(readers))] ==
        LET lo == x[1]
            hi == x[2]
            mid == (lo + hi) \div 2
        IN [p \in Nat |->
              IF hi <= lo THEN Got(<<>>, p)
              ELSE IF hi = lo + 1 THEN Then(readers[hi][p], LAMBDA v, q : Got(<<v>>, q))
              ELSE Then(part[<<lo, mid>>][p],
                        LAMBDA v, q : Then(part[<<mid, hi>>][q],
                                           LAMBDA w, r : Got(v \o w, r)))]
  IN part[<<0, Len(readers)>>][at]

\* A negative count is a NegativeArraySizeException.
ReadCounted(in, at, reader) ==
  Then(ReadByte(in, at),
       LAMBDA n, p : IF n >= 0 THEN InTurn([i \in 1..n |-> reader], p) ELSE Fails)

ReadArg(in, at) == ReadCounted(in, at, [p \in Nat |-> ReadString(in, p)])
ReadArgs(in, at) == ReadCounted(in, at, [p \in Nat |-> ReadArg(in, p)])

ReadField(type, in, at) ==
  CASE type = "BigInteger" -> ReadBigInteger(in, at)
    [] type = "uint48" -> ReadTime(in, at)
    [] type \in {"uint16", "uint32", "int64"} -> ReadNumber(in, at, Width[type])
    [] type = "byte" -> ReadByte(in, at)
    [] type = "address" -> ReadBytes(in, at, 23)
    [] type = "key" -> ReadKey(in, at)
    [] type = "bytes" -> ReadByLengthByte(in, at)
    [] type = "string" -> ReadString(in, at)
    [] type = "args" -> ReadArgs(in, at)

\* parse: the field at each place gets the value read there.
Parse(class, in, at) ==
  Then(InTurn([i \in DOMAIN class.parsed |->
                 [p \in Nat |-> ReadField(class.type[class.parsed[i]], in, p)]], at),
       LAMBDA vals, p :
         Got([field \in DOMAIN class.type |->
                vals[CHOOSE i \in DOMAIN class.parsed : class.parsed[i] = field]], p))

\* readNulsData: nothing left, or a place holder, is null.
ReadNulsData(class, in, at) ==
  IF at >= Len(in) THEN Got(Null, at)
  ELSE IF at + 4 <= Len(in) /\ SubSeq(in, at + 1, at + 4) = PlaceHolder THEN Got(Null, at + 4)
  ELSE Parse(class, in, at)

-----------------------------------------------------------------------------
(***************************************************************************)
(* The values a field may have: numbers in the range of their Java type    *)
(* and not negative, arrays and strings no longer than an int can say.     *)
(***************************************************************************)
IsArray(b) == b \in Seq(Byte) /\ IsInt(Len(b))

Fits(type, v) ==
  CASE type \in {"uint16", "uint32"} -> v \in Nat /\ Left(v, Width[type]) = 0
    [] type = "uint48" -> v \in Nat /\ Left(v, 6) = 0 /\ LittleEndian(v, 6) # NoTime
    [] type \in {"int64", "BigInteger"} -> v \in Nat /\ Left(v, Width[type] - 1) < 128
    [] type = "byte" -> v \in 0..127
    [] type = "address" -> v \in Seq(Byte) /\ Len(v) = 23
    [] type = "key" -> v \in Seq(Byte) /\ Len(v) < 128
    [] type \in {"bytes", "string"} -> v = Null \/ IsArray(v)
    [] type = "args" ->
         v = Null \/ /\ v \in Seq(Seq(Seq(Byte) \union {Null}))
                     /\ \A i \in DOMAIN v : \A k \in DOMAIN v[i] : v[i][k] = Null \/ IsArray(v[i][k])

FieldsFit(class, d) == \A field \in DOMAIN class.type : Fits(class.type[field], d[field])

-----------------------------------------------------------------------------
(***************************************************************************)
(* What may come back                                                      *)
(***************************************************************************)
\* A text of blanks is counted by size() and then not written.
BlankText(s) == s # Null /\ s # <<>> /\ IsBlank(s)

BlankValue(args) ==
  args # Null /\ \E i \in DOMAIN args : \E k \in DOMAIN args[i] : BlankText(args[i][k])

\* Counts are written as a byte and read as a signed one.
Countable(args) ==
  args # Null => Len(args) <= 127 /\ \A i \in DOMAIN args : Len(args[i]) <= 127

\* null comes back as an empty string or an empty list, an empty array as null.
Normal(type, v) ==
  CASE type \in {"string", "args"} /\ v = Null -> <<>>
    [] type = "args" /\ v # Null -> [i \in DOMAIN v |->
                                       [k \in DOMAIN v[i] |-> IF v[i][k] = Null THEN <<>> ELSE v[i][k]]]
    [] type = "bytes" /\ v = <<>> -> Null
    [] OTHER -> v

Reproduced(class, d) == [field \in DOMAIN class.type |-> Normal(class.type[field], d[field])]
=============================================================================
