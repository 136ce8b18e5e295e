------------------------ MODULE TransactionLogProofs ------------------------
(***************************************************************************)
(* Proofs about TransactionLog, for logs of any length: what the loader    *)
(* returns, wherever the file is cut off and whatever is appended to it.   *)
(***************************************************************************)
EXTENDS TransactionLog, TablesProofs

-----------------------------------------------------------------------------
\* The writer.

LEMMA SizeType ==
    ASSUME NEW n \in Nat
    PROVE  LittleEndian(n, 8) \in Seq(Nat) /\ Len(LittleEndian(n, 8)) = 8
<1>1. n % 256 \in Nat /\ n \div 256 \in Nat
  OBVIOUS
<1> QED
  BY <1>1 DEF LittleEndian

LEMMA SizeBytes ==
    ASSUME NEW n \in Nat
    PROVE  /\ LittleEndian(n, 8)[1] = n % 256 /\ LittleEndian(n, 8)[2] = n \div 256
           /\ \A i \in 3 .. 8 : LittleEndian(n, 8)[i] = 0
<1>1. LittleEndian(n, 8)[1] = n % 256 /\ LittleEndian(n, 8)[2] = n \div 256
  BY DEF LittleEndian
<1>2. \A i \in 3 .. 8 : LittleEndian(n, 8)[i] = 0
  BY DEF LittleEndian
<1> QED
  BY <1>1, <1>2

LEMMA EnumIsWritten ==
    ASSUME NEW n \in Nat, n \in {SET, REMOVE}
    PROVE  Integer32(n) \in Seq(Nat) /\ Len(Integer32(n)) = 4 /\ Integer32(n)[1] = n
<1>1. n \in {1, 2}
  BY DEF SET, REMOVE
<1>2. n % 256 \in Nat /\ n \div 256 \in Nat
  OBVIOUS
<1>3. Integer32(n) \in Seq(Nat) /\ Len(Integer32(n)) = 4
  BY <1>2 DEF Integer32, LittleEndian
<1>4. Integer32(n)[1] = n
  BY <1>1 DEF Integer32, LittleEndian
<1> QED
  BY <1>3, <1>4

LEMMA StringType ==
    ASSUME NEW s \in Seq(Nat)
    PROVE  String(s) \in Seq(Nat) /\ Len(String(s)) = 8 + Len(s)
<1>1. PICK n \in Nat : n = Len(s)
  OBVIOUS
<1>2. PICK z \in Seq(Nat) : z = LittleEndian(n, 8) /\ Len(z) = 8
  <2>1. LittleEndian(n, 8) \in Seq(Nat) /\ Len(LittleEndian(n, 8)) = 8
    BY SizeType
  <2> QED
    BY <2>1
<1>3. z \o s \in Seq(Nat) /\ Len(z \o s) = Len(z) + Len(s)
  OBVIOUS
<1> QED
  BY <1>1, <1>2, <1>3 DEF String

LEMMA EntryTypes ==
    ASSUME NEW r \in Records
    PROVE  /\ r.key \in Seq(Nat)
           /\ r.value = Tombstone \/ r.value \in Seq(Nat)
<1>1. ASSUME NEW s \in Keys \cup Values PROVE s \in Seq(Nat)
  <2>1. PICK Byte : Byte = 0 .. 255
    OBVIOUS
  <2>2. s \in Seq(Byte)
    BY <2>1, LogAssumption
  <2>3. Len(s) \in Nat /\ DOMAIN s = 1 .. Len(s) /\ s = [i \in 1 .. Len(s) |-> s[i]]
    BY <2>2
  <2>4. \A i \in 1 .. Len(s) : s[i] \in Byte
    BY <2>2
  <2>5. Byte \subseteq Nat
    BY <2>1
  <2> QED
    BY <2>3, <2>4, <2>5
<1> QED
  BY <1>1 DEF Records, Entries

LEMMA IntegerType ==
    /\ Integer32(SET) \in Seq(Nat) /\ Len(Integer32(SET)) = 4 /\ Integer32(SET)[1] = 1
    /\ Integer32(REMOVE) \in Seq(Nat) /\ Len(Integer32(REMOVE)) = 4 /\ Integer32(REMOVE)[1] = 2
<1>1. SET \in Nat /\ REMOVE \in Nat
  BY DEF SET, REMOVE
<1> QED
  BY <1>1, EnumIsWritten DEF SET, REMOVE

LEMMA FrontIsFirst ==
    ASSUME NEW s \in Seq(Nat), NEW t \in Seq(Nat), NEW u, u = s \o t, 1 \in DOMAIN s
    PROVE  u[1] = s[1]
<1>1. \A i \in 1 .. Len(s) : (s \o t)[i] = s[i]
  OBVIOUS
<1> QED
  BY <1>1

\* A record begins with its type.
LEMMA EncodeType ==
    ASSUME NEW r \in Records
    PROVE  /\ Encode(r) \in Seq(Nat) /\ Len(Encode(r)) > 4
           /\ Encode(r)[1] # 0
<1> DEFINE k == String(r.key)
           v == String(r.value)
<1>1. k \in Seq(Nat) /\ Len(k) >= 8
  BY EntryTypes, StringType
<1>2. ASSUME NEW t \in {Integer32(SET), Integer32(REMOVE)}
      PROVE  t \in Seq(Nat) /\ Len(t) = 4 /\ t[1] # 0
  BY IntegerType
<1> HIDE DEF k, v
<1>3. CASE r.value = Tombstone
  <2>1. PICK t \in Seq(Nat) : t = Integer32(REMOVE) /\ Len(t) = 4 /\ t[1] # 0
    BY <1>2
  <2>2. Encode(r) = t \o k
    BY <1>3, <2>1 DEF Encode, k
  <2>3. t \o k \in Seq(Nat) /\ Len(t \o k) > 4 /\ 1 \in DOMAIN t
    BY <1>1, <2>1
  <2>4. PICK tk \in Seq(Nat) : tk = t \o k
    BY <2>3
  <2>5. tk[1] = t[1]
    BY <1>1, <2>3, <2>4, FrontIsFirst
  <2> QED
    BY <2>1, <2>2, <2>3, <2>4, <2>5
<1>4. CASE r.value # Tombstone
  <2>1. PICK t \in Seq(Nat) : t = Integer32(SET) /\ Len(t) = 4 /\ t[1] # 0
    BY <1>2
  <2>2. v \in Seq(Nat) /\ Len(v) >= 8
    BY <1>4, EntryTypes, StringType DEF v
  <2>3. Encode(r) = t \o k \o v
    BY <1>4, <2>1 DEF Encode, k, v
  <2>4. t \o k \in Seq(Nat) /\ Len(t \o k) > 4 /\ 1 \in DOMAIN t
    BY <1>1, <2>1
  <2>5. PICK tk \in Seq(Nat) : tk = t \o k
    BY <2>4
  <2>6. Len(tk) > 4 /\ 1 \in DOMAIN tk
    BY <2>4, <2>5
  <2>7. tk \o v \in Seq(Nat) /\ Len(tk \o v) > 4
    BY <2>2, <2>6
  <2>8. PICK tkv \in Seq(Nat) : tkv = tk \o v
    BY <2>7
  <2>9. tk[1] = t[1] /\ tkv[1] = tk[1]
    BY <1>1, <2>2, <2>4, <2>5, <2>6, <2>8, FrontIsFirst
  <2> QED
    BY <2>1, <2>3, <2>5, <2>7, <2>8, <2>9
<1> QED
  BY <1>3, <1>4

-----------------------------------------------------------------------------
\* What a read makes of what was written.

LEMMA HasAtParts ==
    ASSUME NEW file \in Seq(Nat), NEW p \in Nat, p >= 1, NEW s \in Seq(Nat), NEW t \in Seq(Nat),
           NEW q \in Nat, q = p + Len(s),
           HasAt(file, p, s \o t)
    PROVE  HasAt(file, p, s) /\ HasAt(file, q, t)
<1>1. PICK st \in Seq(Nat) : st = s \o t
  <2>1. s \o t \in Seq(Nat)
    OBVIOUS
  <2> QED
    BY <2>1
<1>2. PICK m \in Nat : m = Len(s)
  OBVIOUS
<1>3. PICK n \in Nat : n = Len(t)
  OBVIOUS
<1>4. /\ DOMAIN st = 1 .. m + n /\ DOMAIN s = 1 .. m /\ DOMAIN t = 1 .. n
      /\ \A i \in 1 .. m : st[i] = s[i]
      /\ \A i \in 1 .. n : st[m + i] = t[i]
  BY <1>1, <1>2, <1>3
<1>5. \A j \in DOMAIN st : p + j - 1 <= Len(file) => file[p + j - 1] = st[j]
  BY <1>1 DEF HasAt
<1>6. ASSUME NEW j \in 1 .. m, p + j - 1 <= Len(file)
      PROVE  file[p + j - 1] = s[j]
  <2>1. j \in DOMAIN st
    BY <1>4
  <2>2. st[j] = s[j]
    BY <1>4
  <2> QED
    BY <1>5, <1>6, <2>1, <2>2
<1>7. ASSUME NEW j \in 1 .. n, q + j - 1 <= Len(file)
      PROVE  file[q + j - 1] = t[j]
  <2>1. PICK i \in Nat : i = m + j
    OBVIOUS
  <2>2. p + i - 1 = q + j - 1
    BY <1>2, <2>1
  <2>3. i \in DOMAIN st /\ st[i] = t[j]
    BY <1>4, <2>1
  <2>4. p + i - 1 <= Len(file)
    BY <1>7, <2>2
  <2>5. file[p + i - 1] = st[i]
    BY <1>5, <2>3, <2>4
  <2> QED
    BY <2>2, <2>3, <2>5
<1> QED
  BY <1>4, <1>6, <1>7 DEF HasAt

\* Bytes that are there to the last one are read as they were written.
LEMMA SubSeqIs ==
    ASSUME NEW file \in Seq(Nat), NEW p \in Nat, p >= 1, NEW s \in Seq(Nat),
           NEW e \in Nat, e = p + Len(s) - 1, e <= Len(file), HasAt(file, p, s)
    PROVE  SubSeq(file, p, e) = s
<1> DEFINE u == SubSeq(file, p, e)
<1>1. PICK n \in Nat : n = Len(s)
  OBVIOUS
<1>2. p <= e + 1 /\ p >= 1 /\ e + 1 - p = n
  BY <1>1
<1>3. /\ u \in Seq(Nat) /\ Len(u) = e + 1 - p
      /\ \A i \in 1 .. e + 1 - p : u[i] = file[p + i - 1]
  BY <1>2, Subsequence
<1>4. ASSUME NEW i \in 1 .. n PROVE s[i] = file[p + i - 1]
  <2>1. i \in DOMAIN s /\ p + i - 1 <= Len(file)
    BY <1>1, <1>2
  <2> QED
    BY <2>1 DEF HasAt
<1> HIDE DEF u
<1>5. \A i \in 1 .. n : u[i] = s[i]
  BY <1>2, <1>3, <1>4
<1>6. u = [i \in 1 .. n |-> u[i]] /\ s = [i \in 1 .. n |-> s[i]]
  BY <1>1, <1>2, <1>3
<1>7. u = s
  BY <1>5, <1>6
<1> QED
  BY <1>7 DEF u

LEMMA EnumIsRead ==
    ASSUME NEW file \in Seq(Nat), NEW p \in Nat, p >= 1, NEW e \in Seq(Nat), Len(e) = 4,
           HasAt(file, p, e)
    PROVE  IF p + 3 > Len(file) THEN ReadEnum(file, p) = EndOfFile
           ELSE ReadEnum(file, p) = [ok |-> TRUE, value |-> e, next |-> p + 4]
<1>1. CASE p + 3 > Len(file)
  BY <1>1 DEF ReadEnum
<1>2. CASE ~(p + 3 > Len(file))
  <2>1. PICK q \in Nat : q = p + 3
    OBVIOUS
  <2>2. q = p + Len(e) - 1 /\ q <= Len(file)
    BY <1>2, <2>1
  <2>3. SubSeq(file, p, q) = e
    BY <2>2, SubSeqIs
  <2> QED
    BY <1>2, <2>1, <2>3 DEF ReadEnum
<1> QED
  BY <1>1, <1>2

\* The size in front of a string, when it is less than 2^16.
SizeAt(file, at, n) ==
    /\ file[at] + 256 * file[at + 1] = n
    /\ \A i \in at + 2 .. at + 7 : file[i] = 0

LEMMA StringAt ==
    ASSUME NEW file \in Seq(Nat), NEW at \in Nat, at >= 1, NEW n \in Nat, SizeAt(file, at, n),
           NEW a \in Nat, a = at + 8, NEW b \in Nat, b = at + 7 + n, b <= Len(file)
    PROVE  ReadString(file, at) = [ok |-> TRUE, value |-> SubSeq(file, a, b), next |-> b + 1]
<1>1. at + 7 <= Len(file)
  OBVIOUS
<1>2. ~ \E i \in at + 2 .. at + 7 : file[i] # 0
  BY DEF SizeAt
<1>3. file[at] + 256 * file[at + 1] = n
  BY DEF SizeAt
<1>4. ~(at + 7 + (file[at] + 256 * file[at + 1]) > Len(file))
  BY <1>3
<1>5. ReadString(file, at) =
          [ok |-> TRUE,
           value |-> SubSeq(file, at + 8, at + 7 + (file[at] + 256 * file[at + 1])),
           next |-> at + 8 + (file[at] + 256 * file[at + 1])]
  BY <1>1, <1>2, <1>4 DEF ReadString
<1>6. ReadString(file, at) =
          [ok |-> TRUE, value |-> SubSeq(file, at + 8, at + 7 + n), next |-> at + 8 + n]
  BY <1>3, <1>5
<1>7. at + 8 + n = b + 1
  OBVIOUS
<1> QED
  BY <1>6, <1>7

LEMMA StringIsReadOrCut ==
    ASSUME NEW file \in Seq(Nat), NEW p \in Nat, p >= 1, NEW s \in Seq(Nat),
           NEW e \in Nat, e = p + 8 + Len(s), HasAt(file, p, String(s))
    PROVE  IF e > Len(file) + 1 THEN ReadString(file, p) = EndOfFile
           ELSE ReadString(file, p) = [ok |-> TRUE, value |-> s, next |-> e]
<1>1. PICK n \in Nat : n = Len(s)
  OBVIOUS
<1>2. PICK z \in Seq(Nat) : z = LittleEndian(n, 8) /\ Len(z) = 8
  <2>1. LittleEndian(n, 8) \in Seq(Nat) /\ Len(LittleEndian(n, 8)) = 8
    BY SizeType
  <2> QED
    BY <2>1
<1>3. z[1] = n % 256 /\ z[2] = n \div 256 /\ \A i \in 3 .. 8 : z[i] = 0
  <2>1. /\ LittleEndian(n, 8)[1] = n % 256 /\ LittleEndian(n, 8)[2] = n \div 256
        /\ \A i \in 3 .. 8 : LittleEndian(n, 8)[i] = 0
    BY SizeBytes
  <2> QED
    BY <1>2, <2>1
<1>4. PICK q \in Nat : q = p + 8
  OBVIOUS
<1>5. HasAt(file, p, z) /\ HasAt(file, q, s)
  <2>1. HasAt(file, p, z \o s)
    BY <1>1, <1>2 DEF String
  <2>2. q = p + Len(z)
    BY <1>2, <1>4
  <2> QED
    BY <2>1, <2>2, HasAtParts
<1>6. CASE p + 7 > Len(file)
  <2>1. e > Len(file) + 1
    BY <1>1, <1>6
  <2>2. ReadString(file, p) = EndOfFile
    BY <1>6 DEF ReadString
  <2> QED
    BY <2>1, <2>2
<1>7. CASE p + 7 <= Len(file)
  <2>1. ASSUME NEW j \in 1 .. 8 PROVE file[p + j - 1] = z[j]
    <3>1. j \in DOMAIN z
      BY <1>2
    <3>2. p + j - 1 <= Len(file)
      BY <1>7
    <3> QED
      BY <1>5, <3>1, <3>2 DEF HasAt
  <2>2. file[p] = n % 256 /\ file[p + 1] = n \div 256
    <3>1. file[p + 1 - 1] = z[1] /\ file[p + 2 - 1] = z[2]
      BY <2>1
    <3>2. p + 1 - 1 = p /\ p + 2 - 1 = p + 1
      OBVIOUS
    <3> QED
      BY <1>3, <3>1, <3>2
  <2>3. ASSUME NEW i \in p + 2 .. p + 7 PROVE file[i] = 0
    <3>1. PICK j \in 3 .. 8 : p + j - 1 = i
      <4>1. i - p + 1 \in 3 .. 8 /\ p + (i - p + 1) - 1 = i
        OBVIOUS
      <4> QED
        BY <4>1
    <3>2. j \in 1 .. 8
      BY <3>1
    <3>3. file[i] = z[j]
      BY <2>1, <3>1, <3>2
    <3> QED
      BY <1>3, <3>3
  <2>4. (n % 256) + 256 * (n \div 256) = n
    OBVIOUS
  <2>5. file[p] + 256 * file[p + 1] = n
    BY <2>2, <2>4
  <2>6. CASE p + 7 + n > Len(file)
    <3>1. ReadString(file, p) = EndOfFile
      BY <2>5, <2>6 DEF ReadString
    <3>2. e > Len(file) + 1
      BY <1>1, <2>6
    <3> QED
      BY <3>1, <3>2
  <2>7. CASE ~(p + 7 + n > Len(file))
    <3>1. PICK b \in Nat : b = p + 7 + n
      OBVIOUS
    <3>2. b = q + Len(s) - 1 /\ b <= Len(file) /\ q >= 1
      BY <1>1, <1>4, <2>7, <3>1
    <3>3. SubSeq(file, q, b) = s
      BY <1>5, <3>2, SubSeqIs
    <3>4. SizeAt(file, p, n)
      BY <2>3, <2>5 DEF SizeAt
    <3>5. b <= Len(file)
      BY <2>7, <3>1
    <3>6. ReadString(file, p) = [ok |-> TRUE, value |-> SubSeq(file, q, b), next |-> b + 1]
      BY <1>4, <3>1, <3>4, <3>5, StringAt
    <3>7. b + 1 = e /\ ~(e > Len(file) + 1)
      BY <1>1, <2>7, <3>1
    <3> QED
      BY <3>3, <3>6, <3>7
  <2> QED
    BY <2>6, <2>7
<1> QED
  BY <1>6, <1>7

LEMMA StringIsRead ==
    ASSUME NEW file \in Seq(Nat), NEW p \in Nat, p >= 1, NEW s \in Seq(Nat),
           NEW e \in Nat, e = p + 8 + Len(s), HasAt(file, p, String(s)), e <= Len(file) + 1
    PROVE  ReadString(file, p) = [ok |-> TRUE, value |-> s, next |-> e]
<1>1. ~(e > Len(file) + 1)
  OBVIOUS
<1> QED
  BY <1>1, StringIsReadOrCut

LEMMA StringIsCut ==
    ASSUME NEW file \in Seq(Nat), NEW p \in Nat, p >= 1, NEW s \in Seq(Nat),
           NEW e \in Nat, e = p + 8 + Len(s), HasAt(file, p, String(s)), e > Len(file) + 1
    PROVE  ReadString(file, p) = EndOfFile
BY StringIsReadOrCut

\* The type and the upper half of the size in front of a value are read as a size,
\* and then the first bytes of the value as its upper half.
LEMMA ValueEnds ==
    ASSUME NEW file \in Seq(Nat), NEW p \in Nat, p >= 1, NEW v \in Seq(Nat),
           HasAt(file, p, String(v)),
           ~(Len(v) >= 4 /\ \A i \in 1 .. 4 : v[i] = 0),
           p + 8 + Len(v) <= Len(file) => file[p + 8 + Len(v)] # 0
    PROVE  ReadValue(file, p) = EndOfFile
<1>1. CASE p + 3 > Len(file)
  <2>1. ReadEnum(file, p) = EndOfFile
    BY <1>1 DEF ReadEnum
  <2> QED
    BY <2>1 DEF ReadValue, EndOfFile
<1>2. CASE p + 3 <= Len(file)
  <2>1. ReadEnum(file, p).next = p + 4
    BY <1>2 DEF ReadEnum
  <2>2. PICK q \in Nat : q = p + 4
    OBVIOUS
  <2>3. CASE q + 7 > Len(file)
    <3>1. ReadString(file, q) = EndOfFile
      BY <2>3 DEF ReadString
    <3> QED
      BY <2>1, <2>2, <3>1 DEF ReadValue, EndOfFile
  <2>4. CASE q + 7 <= Len(file)
    <3>1. PICK n \in Nat : n = Len(v)
      OBVIOUS
    <3>2. PICK z \in Seq(Nat) : z = LittleEndian(n, 8) /\ Len(z) = 8
      <4>1. LittleEndian(n, 8) \in Seq(Nat) /\ Len(LittleEndian(n, 8)) = 8
        BY SizeType
      <4> QED
        BY <4>1
    <3>3. PICK b \in Nat : b = p + 8
      OBVIOUS
    <3>4. HasAt(file, b, v)
      <4>1. HasAt(file, p, z \o v)
        BY <3>1, <3>2 DEF String
      <4>2. b = p + Len(z)
        BY <3>2, <3>3
      <4> QED
        BY <4>1, <4>2, HasAtParts
    <3>5. \E i \in q + 2 .. q + 7 : file[i] # 0
      <4>1. CASE n >= 4
        <5>1. PICK j \in 1 .. 4 : v[j] # 0
          BY <3>1, <4>1
        <5>2. PICK i \in Nat : i = b + j - 1
          BY <3>3
        <5>3. j \in DOMAIN v /\ i <= Len(file) /\ i \in q + 2 .. q + 7
          BY <2>2, <2>4, <3>1, <3>3, <4>1, <5>2
        <5>4. file[i] = v[j]
          BY <3>4, <5>2, <5>3 DEF HasAt
        <5> QED
          BY <5>1, <5>3, <5>4
      <4>2. CASE n < 4
        <5>1. PICK i \in Nat : i = p + 8 + n
          OBVIOUS
        <5>2. i <= Len(file) /\ i \in q + 2 .. q + 7
          BY <2>2, <2>4, <4>2, <5>1
        <5>3. file[i] # 0
          BY <3>1, <5>1, <5>2
        <5> QED
          BY <5>2, <5>3
      <4> QED
        BY <4>1, <4>2
    <3>6. ReadString(file, q) = EndOfFile
      BY <3>5 DEF ReadString
    <3> QED
      BY <2>1, <2>2, <3>6 DEF ReadValue, EndOfFile
  <2> QED
    BY <2>2, <2>3, <2>4
<1> QED
  BY <1>1, <1>2

-----------------------------------------------------------------------------
\* What a turn of the loop makes of a record.

LEMMA RemovalIsRead ==
    ASSUME NEW file \in Seq(Nat), NEW p \in Nat, p >= 1, NEW r \in Records,
           r.value = Tombstone, HasAt(file, p, Encode(r)),
           NEW n \in Nat, n = Len(Encode(r))
    PROVE  IF p + n > Len(file) + 1 THEN ReadRecord(file, p) = [outcome |-> "end"]
           ELSE ReadRecord(file, p) = [outcome |-> "record", next |-> p + n, record |-> r]
<1>1. PICK t \in Seq(Nat) : t = Integer32(REMOVE) /\ Len(t) = 4
  BY IntegerType
<1>2. PICK k \in Seq(Nat) : k = r.key
  BY EntryTypes
<1>3. PICK s \in Seq(Nat) : s = String(k) /\ Len(s) = 8 + Len(k)
  BY StringType
<1>4. Encode(r) = t \o s
  BY <1>1, <1>2, <1>3 DEF Encode
<1>5. PICK q \in Nat : q = p + 4 /\ q >= 1
  OBVIOUS
<1>6. HasAt(file, p, t) /\ HasAt(file, q, String(k))
  <2>1. HasAt(file, p, t \o s) /\ q = p + Len(t)
    BY <1>1, <1>4, <1>5
  <2>2. HasAt(file, p, t) /\ HasAt(file, q, s)
    BY <2>1, HasAtParts
  <2> QED
    BY <1>3, <2>2
<1>7. n = 12 + Len(k)
  <2>1. Len(t \o s) = Len(t) + Len(s)
    OBVIOUS
  <2> QED
    BY <1>1, <1>3, <1>4, <2>1
<1>8. r = [key |-> k, value |-> Tombstone]
  BY <1>2 DEF Records
<1>9. CASE p + 3 > Len(file)
  <2>1. ReadEnum(file, p) = EndOfFile
    BY <1>9 DEF ReadEnum
  <2>2. ReadRecord(file, p) = [outcome |-> "end"]
    BY <2>1 DEF ReadRecord, EndOfFile
  <2>3. p + n > Len(file) + 1
    BY <1>7, <1>9
  <2> QED
    BY <2>2, <2>3
<1>10. CASE p + 3 <= Len(file)
  <2>1. ReadEnum(file, p) = [ok |-> TRUE, value |-> t, next |-> p + 4]
    BY <1>1, <1>6, <1>10, EnumIsRead
  <2>2. ReadEnum(file, p) = [ok |-> TRUE, value |-> t, next |-> q]
    BY <1>5, <2>1
  <2>3. CASE p + n > Len(file) + 1
    <3>1. PICK e \in Nat : e = q + 8 + Len(k) /\ e > Len(file) + 1
      BY <1>5, <1>7, <2>3
    <3>2. ReadString(file, q) = EndOfFile
      BY <1>5, <1>6, <3>1, StringIsCut
    <3>3. ReadRecord(file, p) = [outcome |-> "end"]
      BY <1>1, <2>2, <3>2 DEF ReadRecord, EndOfFile
    <3> QED
      BY <2>3, <3>3
  <2>4. CASE ~(p + n > Len(file) + 1)
    <3>1. PICK e \in Nat : e = p + n
      OBVIOUS
    <3>2. e = q + 8 + Len(k) /\ e <= Len(file) + 1
      BY <1>5, <1>7, <2>4, <3>1
    <3>3. ReadString(file, q) = [ok |-> TRUE, value |-> k, next |-> e]
      <4>1. q >= 1 /\ HasAt(file, q, String(k))
        BY <1>5, <1>6
      <4> QED
        BY <3>2, <4>1, StringIsRead
    <3>4. ReadRecord(file, p) = [outcome |-> "record", next |-> e,
                                 record |-> [key |-> k, value |-> Tombstone]]
      BY <1>1, <2>2, <3>3 DEF ReadRecord
    <3> QED
      BY <1>8, <2>4, <3>1, <3>4
  <2> QED
    BY <2>3, <2>4
<1> QED
  BY <1>9, <1>10

LEMMA SetEnds ==
    ASSUME NEW file \in Seq(Nat), NEW p \in Nat, p >= 1, NEW r \in Records,
           r.value # Tombstone, ~BeginsWithZeros(r.value), HasAt(file, p, Encode(r)),
           NEW e \in Nat, e = p + Len(Encode(r)), e <= Len(file) => file[e] # 0
    PROVE  ReadRecord(file, p) = [outcome |-> "end"]
<1>1. PICK t \in Seq(Nat) : t = Integer32(SET) /\ Len(t) = 4
  BY IntegerType
<1>2. PICK k \in Seq(Nat) : k = r.key
  BY EntryTypes
<1>3. PICK v \in Seq(Nat) : v = r.value
  BY EntryTypes
<1>4. PICK s \in Seq(Nat) : s = String(k) /\ Len(s) = 8 + Len(k)
  BY StringType
<1>5. PICK w \in Seq(Nat) : w = String(v) /\ Len(w) = 8 + Len(v)
  BY StringType
<1>6. PICK ts \in Seq(Nat) : ts = t \o s /\ Len(ts) = Len(t) + Len(s)
  <2>1. t \o s \in Seq(Nat) /\ Len(t \o s) = Len(t) + Len(s)
    OBVIOUS
  <2> QED
    BY <2>1
<1>7. Encode(r) = ts \o w
  BY <1>1, <1>2, <1>3, <1>4, <1>5, <1>6 DEF Encode
<1>8. PICK q \in Nat : q = p + 4 /\ q >= 1
  OBVIOUS
<1>9. PICK b \in Nat : b = q + 8 + Len(k) /\ b >= 1
  OBVIOUS
<1>10. HasAt(file, p, t) /\ HasAt(file, q, String(k)) /\ HasAt(file, b, String(v))
  <2>1. HasAt(file, p, ts \o w) /\ b = p + Len(ts) /\ q = p + Len(t)
    BY <1>1, <1>4, <1>6, <1>7, <1>8, <1>9
  <2>2. HasAt(file, p, ts) /\ HasAt(file, b, w)
    BY <2>1, HasAtParts
  <2>3. HasAt(file, p, t \o s)
    BY <1>6, <2>2
  <2>4. HasAt(file, p, t) /\ HasAt(file, q, s)
    BY <2>1, <2>3, HasAtParts
  <2> QED
    BY <1>4, <1>5, <2>2, <2>4
<1>11. e = b + 8 + Len(v)
  <2>1. Len(ts \o w) = Len(ts) + Len(w)
    OBVIOUS
  <2> QED
    BY <1>1, <1>4, <1>5, <1>6, <1>7, <1>8, <1>9, <2>1
<1>12. ReadValue(file, b) = EndOfFile
  <2>1. ~(Len(v) >= 4 /\ \A i \in 1 .. 4 : v[i] = 0)
    BY <1>3 DEF BeginsWithZeros
  <2>2. b + 8 + Len(v) <= Len(file) => file[b + 8 + Len(v)] # 0
    BY <1>11
  <2> QED
    BY <1>9, <1>10, <2>1, <2>2, ValueEnds
<1>13. CASE p + 3 > Len(file)
  <2>1. ReadEnum(file, p) = EndOfFile
    BY <1>13 DEF ReadEnum
  <2> QED
    BY <2>1 DEF ReadRecord, EndOfFile
<1>14. CASE p + 3 <= Len(file)
  <2>1. ReadEnum(file, p) = [ok |-> TRUE, value |-> t, next |-> p + 4]
    BY <1>1, <1>10, <1>14, EnumIsRead
  <2>2. ReadEnum(file, p) = [ok |-> TRUE, value |-> t, next |-> q]
    BY <1>8, <2>1
  <2>3. t # Integer32(REMOVE)
    BY <1>1, IntegerType
  <2>4. CASE b > Len(file) + 1
    <3>1. ReadString(file, q) = EndOfFile
      BY <1>8, <1>9, <1>10, <2>4, StringIsCut
    <3> QED
      BY <1>1, <2>2, <3>1 DEF ReadRecord, EndOfFile
  <2>5. CASE b <= Len(file) + 1
    <3>1. ReadString(file, q) = [ok |-> TRUE, value |-> k, next |-> b]
      <4>1. /\ q >= 1 /\ HasAt(file, q, String(k))
            /\ b = q + 8 + Len(k) /\ b <= Len(file) + 1
        BY <1>8, <1>9, <1>10, <2>5
      <4> QED
        BY <4>1, StringIsRead
    <3> QED
      BY <1>1, <1>12, <2>2, <2>3, <3>1 DEF ReadRecord, EndOfFile
  <2> QED
    BY <2>4, <2>5
<1> QED
  BY <1>13, <1>14

-----------------------------------------------------------------------------
(***************************************************************************)
(* A read that succeeds ends behind its beginning and in the file, and     *)
(* does the same in every file that continues this one.                    *)
(***************************************************************************)
LEMMA PrefixIs ==
    ASSUME NEW S, NEW q \in Seq(S), NEW r \in Seq(S)
    PROVE  IsPrefix(q, r) <=> Len(q) <= Len(r) /\ \A i \in 1 .. Len(q) : r[i] = q[i]
<1>1. PICK n \in Nat : n = Len(q)
  OBVIOUS
<1>2. CASE n <= Len(r)
  <2>1. PICK u \in Seq(S) : u = SubSeq(q, 1, n) /\ Len(u) = n /\ \A i \in 1 .. n : u[i] = q[i]
    <3>1. /\ SubSeq(q, 1, n) \in Seq(S) /\ Len(SubSeq(q, 1, n)) = n
          /\ \A i \in 1 .. n : SubSeq(q, 1, n)[i] = q[i]
      BY <1>1
    <3> QED
      BY <3>1
  <2>2. PICK v \in Seq(S) : v = SubSeq(r, 1, n) /\ Len(v) = n /\ \A i \in 1 .. n : v[i] = r[i]
    <3>1. /\ SubSeq(r, 1, n) \in Seq(S) /\ Len(SubSeq(r, 1, n)) = n
          /\ \A i \in 1 .. n : SubSeq(r, 1, n)[i] = r[i]
      BY <1>2
    <3> QED
      BY <3>1
  <2>3. u = [i \in 1 .. n |-> u[i]] /\ v = [i \in 1 .. n |-> v[i]]
    BY <2>1, <2>2
  <2>4. (\A i \in 1 .. n : r[i] = q[i]) => u = v
    BY <2>1, <2>2, <2>3
  <2>5. u = v => \A i \in 1 .. n : r[i] = q[i]
    BY <2>1, <2>2
  <2> QED
    BY <1>1, <1>2, <2>1, <2>2, <2>4, <2>5 DEF IsPrefix
<1>3. CASE ~(n <= Len(r))
  BY <1>1, <1>3 DEF IsPrefix
<1> QED
  BY <1>2, <1>3

LEMMA SubSeqStays ==
    ASSUME NEW file \in Seq(Nat), NEW longer \in Seq(Nat), IsPrefix(file, longer),
           NEW a \in Nat, NEW b \in Nat, 1 <= a, a <= b + 1, b <= Len(file)
    PROVE  SubSeq(longer, a, b) = SubSeq(file, a, b)
<1>1. \A i \in 1 .. Len(file) : longer[i] = file[i]
  BY PrefixIs
<1>2. b <= Len(longer)
  BY PrefixIs
<1> DEFINE u == SubSeq(file, a, b)
           v == SubSeq(longer, a, b)
<1>3. PICK n \in Nat : n = b + 1 - a
  <2>1. b + 1 - a \in Nat
    OBVIOUS
  <2> QED
    BY <2>1
<1>4. ASSUME NEW q \in Seq(Nat), b <= Len(q)
      PROVE  /\ SubSeq(q, a, b) \in Seq(Nat) /\ Len(SubSeq(q, a, b)) = b + 1 - a
             /\ \A i \in 1 .. b + 1 - a : SubSeq(q, a, b)[i] = q[a + i - 1]
  BY <1>4, Subsequence
<1>5. /\ u \in Seq(Nat) /\ Len(u) = b + 1 - a
      /\ \A i \in 1 .. b + 1 - a : u[i] = file[a + i - 1]
  BY <1>4
<1>6. /\ v \in Seq(Nat) /\ Len(v) = b + 1 - a
      /\ \A i \in 1 .. b + 1 - a : v[i] = longer[a + i - 1]
  BY <1>2, <1>4
<1> HIDE DEF u, v
<1>7. ASSUME NEW i \in 1 .. n PROVE v[i] = u[i]
  <2>1. a + i - 1 \in 1 .. Len(file)
    BY <1>3
  <2> QED
    BY <1>1, <1>3, <1>5, <1>6, <2>1
<1>8. u = [i \in 1 .. n |-> u[i]] /\ v = [i \in 1 .. n |-> v[i]]
  BY <1>3, <1>5, <1>6
<1>9. u = v
  BY <1>7, <1>8
<1> QED
  BY <1>9 DEF u, v

LEMMA EnumStays ==
    ASSUME NEW file \in Seq(Nat), NEW longer \in Seq(Nat), IsPrefix(file, longer),
           NEW at \in Nat, at >= 1, ReadEnum(file, at) # EndOfFile
    PROVE  /\ ReadEnum(longer, at) = ReadEnum(file, at)
           /\ ReadEnum(file, at).ok /\ ReadEnum(file, at).next = at + 4
<1>1. at + 3 <= Len(file)
  BY DEF ReadEnum
<1>2. PICK b \in Nat : b = at + 3
  OBVIOUS
<1>3. b <= Len(file) /\ b <= Len(longer) /\ at <= b + 1
  <2>1. Len(file) <= Len(longer)
    BY PrefixIs
  <2> QED
    BY <1>1, <1>2, <2>1
<1>4. SubSeq(longer, at, b) = SubSeq(file, at, b)
  BY <1>3, SubSeqStays
<1>5. ReadEnum(file, at) = [ok |-> TRUE, value |-> SubSeq(file, at, b), next |-> at + 4]
  BY <1>2, <1>3 DEF ReadEnum
<1>6. ReadEnum(longer, at) = [ok |-> TRUE, value |-> SubSeq(longer, at, b), next |-> at + 4]
  BY <1>2, <1>3 DEF ReadEnum
<1> QED
  BY <1>4, <1>5, <1>6

LEMMA StringStays ==
    ASSUME NEW file \in Seq(Nat), NEW longer \in Seq(Nat), IsPrefix(file, longer),
           NEW at \in Nat, at >= 1, ReadString(file, at) # EndOfFile
    PROVE  /\ ReadString(longer, at) = ReadString(file, at)
           /\ ReadString(file, at).ok
           /\ ReadString(file, at).next \in Nat
           /\ ReadString(file, at).next > at
           /\ ReadString(file, at).next <= Len(file) + 1
<1>1. at + 7 <= Len(file)
  BY DEF ReadString
<1>2. \A i \in at + 2 .. at + 7 : file[i] = 0
  <2> SUFFICES ASSUME NEW j \in at + 2 .. at + 7, file[j] # 0 PROVE FALSE
    OBVIOUS
  <2>1. \E i \in at + 2 .. at + 7 : file[i] # 0
    OBVIOUS
  <2> QED
    BY <2>1 DEF ReadString
<1>3. \A i \in 1 .. Len(file) : longer[i] = file[i]
  BY PrefixIs
<1>4. PICK n \in Nat : n = file[at] + 256 * file[at + 1]
  <2>1. file[at] \in Nat /\ file[at + 1] \in Nat
    BY <1>1
  <2> QED
    BY <2>1
<1>5. PICK a \in Nat, b \in Nat : a = at + 8 /\ b = at + 7 + n
  OBVIOUS
<1>6. b <= Len(file)
  <2> SUFFICES ASSUME b > Len(file) PROVE FALSE
    BY <1>5
  <2>1. at + 7 + (file[at] + 256 * file[at + 1]) > Len(file)
    BY <1>4, <1>5
  <2> QED
    BY <2>1 DEF ReadString
<1>7. b <= Len(longer)
  <2>1. Len(file) <= Len(longer)
    BY PrefixIs
  <2> QED
    BY <1>5, <1>6, <2>1
<1>8. longer[at] = file[at] /\ longer[at + 1] = file[at + 1]
  BY <1>1, <1>3
<1>9. \A i \in at + 2 .. at + 7 : longer[i] = 0
  <2> SUFFICES ASSUME NEW i \in at + 2 .. at + 7 PROVE longer[i] = 0
    OBVIOUS
  <2>1. i \in 1 .. Len(file)
    BY <1>1
  <2> QED
    BY <1>2, <1>3, <2>1
<1>10. SizeAt(file, at, n) /\ SizeAt(longer, at, n)
  BY <1>2, <1>4, <1>8, <1>9 DEF SizeAt
<1>11. ReadString(file, at) = [ok |-> TRUE, value |-> SubSeq(file, a, b), next |-> b + 1]
  BY <1>5, <1>6, <1>10, StringAt
<1>12. ReadString(longer, at) = [ok |-> TRUE, value |-> SubSeq(longer, a, b), next |-> b + 1]
  BY <1>5, <1>7, <1>10, StringAt
<1>13. 1 <= a /\ a <= b + 1
  BY <1>5
<1>14. SubSeq(longer, a, b) = SubSeq(file, a, b)
  BY <1>6, <1>13, SubSeqStays
<1>15. b + 1 \in Nat /\ b + 1 > at /\ b + 1 <= Len(file) + 1
  BY <1>5, <1>6
<1> QED
  BY <1>11, <1>12, <1>14, <1>15

LEMMA ValueStays ==
    ASSUME NEW file \in Seq(Nat), NEW longer \in Seq(Nat), IsPrefix(file, longer),
           NEW at \in Nat, at >= 1, ReadValue(file, at) # EndOfFile
    PROVE  /\ ReadValue(longer, at) = ReadValue(file, at)
           /\ ReadValue(file, at).ok
           /\ ReadValue(file, at).next \in Nat
           /\ ReadValue(file, at).next > at
           /\ ReadValue(file, at).next <= Len(file) + 1
<1>1. ReadEnum(file, at) # EndOfFile
  BY DEF ReadValue, EndOfFile
<1>2. /\ ReadEnum(longer, at) = ReadEnum(file, at)
      /\ ReadEnum(file, at).ok /\ ReadEnum(file, at).next = at + 4
  BY <1>1, EnumStays
<1>3. PICK q \in Nat : q = at + 4
  OBVIOUS
<1>4. ReadEnum(file, at).next = q /\ q >= 1 /\ q > at
  BY <1>2, <1>3
<1>5. ReadString(file, q) # EndOfFile
  BY <1>4 DEF ReadValue, EndOfFile
<1>6. /\ ReadString(longer, q) = ReadString(file, q)
      /\ ReadString(file, q).ok
      /\ ReadString(file, q).next \in Nat
      /\ ReadString(file, q).next > q
      /\ ReadString(file, q).next <= Len(file) + 1
  BY <1>4, <1>5, StringStays
<1>7. /\ ReadValue(file, at).ok
      /\ ReadValue(file, at).next = ReadString(file, q).next
  BY <1>2, <1>4, <1>6 DEF ReadValue
<1>8. ReadValue(longer, at) = ReadValue(file, at)
  BY <1>2, <1>4, <1>6 DEF ReadValue
<1>9. PICK next \in Nat : next = ReadString(file, q).next
  BY <1>6
<1>10. next > at /\ next <= Len(file) + 1
  BY <1>4, <1>6, <1>9
<1> QED
  BY <1>7, <1>8, <1>9, <1>10

LEMMA RecordStays ==
    ASSUME NEW file \in Seq(Nat), NEW longer \in Seq(Nat), IsPrefix(file, longer),
           NEW at \in Nat, at >= 1, ReadRecord(file, at) # [outcome |-> "end"]
    PROVE  /\ ReadRecord(longer, at) = ReadRecord(file, at)
           /\ \/ ReadRecord(file, at) = [outcome |-> "thrown"]
              \/ /\ ReadRecord(file, at).outcome = "record"
                 /\ ReadRecord(file, at).next \in Nat
                 /\ ReadRecord(file, at).next > at
                 /\ ReadRecord(file, at).next <= Len(file) + 1
<1>1. ReadEnum(file, at) # EndOfFile
  BY DEF ReadRecord, EndOfFile
<1>2. /\ ReadEnum(longer, at) = ReadEnum(file, at)
      /\ ReadEnum(file, at).ok /\ ReadEnum(file, at).next = at + 4
  BY <1>1, EnumStays
<1>3. PICK type : type = ReadEnum(file, at).value
  OBVIOUS
<1>4. PICK q \in Nat : q = at + 4
  OBVIOUS
<1>5. ReadEnum(file, at).next = q /\ q >= 1 /\ q > at
  BY <1>2, <1>4
<1>6. CASE type \notin {Integer32(SET), Integer32(REMOVE)}
  BY <1>2, <1>3, <1>6 DEF ReadRecord
<1>7. CASE type \in {Integer32(SET), Integer32(REMOVE)}
  <2>1. ReadString(file, q) # EndOfFile
    BY <1>2, <1>3, <1>5, <1>7 DEF ReadRecord, EndOfFile
  <2>2. /\ ReadString(longer, q) = ReadString(file, q)
        /\ ReadString(file, q).ok
        /\ ReadString(file, q).next \in Nat
        /\ ReadString(file, q).next > q
        /\ ReadString(file, q).next <= Len(file) + 1
    BY <1>5, <2>1, StringStays
  <2>3. PICK b \in Nat : b = ReadString(file, q).next
    BY <2>2
  <2>4. b > at /\ b >= 1 /\ b <= Len(file) + 1
    BY <1>5, <2>2, <2>3
  <2>5. CASE type = Integer32(REMOVE)
    <3>1. /\ ReadRecord(longer, at) = ReadRecord(file, at)
          /\ ReadRecord(file, at).outcome = "record" /\ ReadRecord(file, at).next = b
      BY <1>2, <1>3, <1>5, <1>7, <2>2, <2>3, <2>5 DEF ReadRecord
    <3> QED
      BY <2>4, <3>1
  <2>6. CASE type # Integer32(REMOVE)
    <3>1. ReadValue(file, b) # EndOfFile
      BY <1>2, <1>3, <1>5, <1>7, <2>2, <2>3, <2>6 DEF ReadRecord, EndOfFile
    <3>2. /\ ReadValue(longer, b) = ReadValue(file, b)
          /\ ReadValue(file, b).ok
          /\ ReadValue(file, b).next \in Nat
          /\ ReadValue(file, b).next > b
          /\ ReadValue(file, b).next <= Len(file) + 1
      BY <2>4, <3>1, ValueStays
    <3>3. PICK c \in Nat : c = ReadValue(file, b).next
      BY <3>2
    <3>4. c > at /\ c <= Len(file) + 1
      BY <2>4, <3>2, <3>3
    <3>5. /\ ReadRecord(longer, at) = ReadRecord(file, at)
          /\ ReadRecord(file, at).outcome = "record" /\ ReadRecord(file, at).next = c
      BY <1>2, <1>3, <1>5, <1>7, <2>2, <2>3, <2>6, <3>2, <3>3 DEF ReadRecord
    <3> QED
      BY <3>4, <3>5
  <2> QED
    BY <2>5, <2>6
<1> QED
  BY <1>6, <1>7

-----------------------------------------------------------------------------
(***************************************************************************)
(* The loop of load.  What it returns from a position is determined by     *)
(* what it returns from the later ones, so that a claim about all          *)
(* positions has no last exception.                                        *)
(***************************************************************************)

\* What load returns from a position, given what it returns from the later ones.
From(file, f, at) ==
    LET read == ReadRecord(file, at)
    IN  IF read.outcome = "record"
        THEN [loaded |-> <<read.record>> \o f[read.next].loaded, failed |-> f[read.next].failed]
        ELSE [loaded |-> <<>>, failed |-> read.outcome = "thrown"]

LoadsFrom(file, n, f) == f = [at \in n .. Len(file) + 1 |-> From(file, f, at)]

LEMMA NextIsLater ==
    ASSUME NEW file \in Seq(Nat), NEW at \in Nat, at >= 1,
           ReadRecord(file, at).outcome = "record"
    PROVE  /\ ReadRecord(file, at).next \in Nat
           /\ ReadRecord(file, at).next > at
           /\ ReadRecord(file, at).next <= Len(file) + 1
<1>1. IsPrefix(file, file)
  BY PrefixIs
<1>2. ReadRecord(file, at) # [outcome |-> "end"] /\ ReadRecord(file, at) # [outcome |-> "thrown"]
  OBVIOUS
<1> QED
  BY <1>1, <1>2, RecordStays

LEMMA EarlierLoad ==
    ASSUME NEW file \in Seq(Nat), NEW n \in Nat, n >= 1, n <= Len(file) + 1,
           NEW n1 \in Nat, n1 = n + 1, NEW f, LoadsFrom(file, n1, f)
    PROVE  \E g : LoadsFrom(file, n, g)
<1> DEFINE g == [at \in n .. Len(file) + 1 |-> IF at = n THEN From(file, f, n) ELSE f[at]]
<1>1. PICK L \in Nat : L = Len(file) + 1
  OBVIOUS
<1>2. ASSUME NEW at \in Nat, at >= n, at <= L PROVE g[at] = From(file, g, at)
  <2>1. g[at] = From(file, f, at)
    <3>1. CASE at = n
      BY <1>1, <1>2, <3>1
    <3>2. CASE at # n
      <4>1. at \in n1 .. L /\ at \in n .. L
        BY <1>1, <1>2, <3>2
      <4>2. f[at] = From(file, f, at)
        BY <1>1, <4>1 DEF LoadsFrom
      <4> QED
        BY <1>1, <3>2, <4>1, <4>2
    <3> QED
      BY <3>1, <3>2
  <2>2. CASE ReadRecord(file, at).outcome = "record"
    <3>1. at >= 1
      BY <1>2
    <3>2. PICK next \in Nat : next = ReadRecord(file, at).next
      BY <2>2, <3>1, NextIsLater
    <3>3. next > at /\ next <= L
      BY <1>1, <2>2, <3>1, <3>2, NextIsLater
    <3>4. next \in n .. L /\ next # n
      BY <1>1, <1>2, <3>3
    <3>5. g[next] = f[next]
      BY <1>1, <3>4
    <3> QED
      BY <2>1, <2>2, <3>2, <3>5 DEF From
  <2>3. CASE ReadRecord(file, at).outcome # "record"
    BY <2>1, <2>3 DEF From
  <2> QED
    BY <2>2, <2>3
<1> HIDE DEF g
<1>3. g = [at \in n .. L |-> g[at]]
  BY <1>1 DEF g
<1>4. \A at \in n .. L : g[at] = From(file, g, at)
  BY <1>1, <1>2
<1>5. g = [at \in n .. L |-> From(file, g, at)]
  BY <1>3, <1>4
<1> QED
  BY <1>1, <1>5 DEF LoadsFrom

LEMMA LoadExists ==
    ASSUME NEW file \in Seq(Nat)
    PROVE  \E f : LoadsFrom(file, 1, f)
<1>1. PICK L \in Nat : L = Len(file) + 1
  OBVIOUS
<1> DEFINE S == {m \in 0 .. L : ~ \E n \in Nat : m + n = L + 1 /\ \E f : LoadsFrom(file, n, f)}
<1>2. ASSUME S # {} PROVE FALSE
  <2>1. S \subseteq Nat
    OBVIOUS
  <2>2. PICK m \in S : \A y \in S : m <= y
    BY <1>2, <2>1, MinInNat
  <2>3. m \in 0 .. L /\ ~ \E n \in Nat : m + n = L + 1 /\ \E f : LoadsFrom(file, n, f)
    BY <2>2
  <2>4. CASE m = 0
    <3>1. PICK n \in Nat : n = L + 1
      OBVIOUS
    <3>2. n .. Len(file) + 1 = {}
      BY <1>1, <3>1
    <3>3. PICK f : f = [at \in {} |-> From(file, <<>>, at)]
      OBVIOUS
    <3>4. f = [at \in {} |-> From(file, f, at)]
      BY <3>3
    <3>5. LoadsFrom(file, n, f)
      BY <3>2, <3>4 DEF LoadsFrom
    <3> QED
      BY <2>3, <2>4, <3>1, <3>5
  <2>5. CASE m # 0
    <3>1. PICK k \in Nat : m = k + 1 /\ k \in 0 .. L
      <4>1. m - 1 \in 0 .. L /\ m = (m - 1) + 1
        BY <2>3, <2>5
      <4> QED
        BY <4>1
    <3>2. k \notin S
      BY <2>2, <3>1
    <3>3. PICK n1 \in Nat : k + n1 = L + 1 /\ \E f : LoadsFrom(file, n1, f)
      BY <3>1, <3>2
    <3>4. PICK n \in Nat : n1 = n + 1 /\ n >= 1 /\ n <= Len(file) + 1 /\ m + n = L + 1
      <4>1. n1 - 1 \in Nat /\ n1 - 1 >= 1 /\ n1 - 1 <= L /\ m + (n1 - 1) = L + 1
        BY <2>3, <3>1, <3>3
      <4> QED
        BY <1>1, <4>1
    <3>5. PICK f : LoadsFrom(file, n1, f)
      BY <3>3
    <3>6. PICK g : LoadsFrom(file, n, g)
      BY <3>4, <3>5, EarlierLoad
    <3> QED
      BY <2>3, <3>4, <3>6
  <2> QED
    BY <2>4, <2>5
<1>3. L \notin S
  BY <1>2
<1>4. PICK n \in Nat : L + n = L + 1 /\ \E f : LoadsFrom(file, n, f)
  BY <1>3
<1>5. n = 1
  BY <1>4
<1> QED
  BY <1>4, <1>5

LEMMA LoadEquation ==
    ASSUME NEW file \in Seq(Nat)
    PROVE  \E f : LoadsFrom(file, 1, f) /\ LoadFile(file) = f[1]
<1> DEFINE from == CHOOSE f : LoadsFrom(file, 1, f)
<1>1. LoadsFrom(file, 1, from)
  BY LoadExists
<1>2. LoadFile(file) = from[1]
  BY DEF LoadFile, LoadsFrom, From
<1> QED
  BY <1>1, <1>2

\* A record in front of what is loaded from the next position, or nothing.
LEMMA LoadAt ==
    ASSUME NEW file \in Seq(Nat), NEW f, LoadsFrom(file, 1, f),
           NEW at \in Nat, at >= 1, at <= Len(file) + 1
    PROVE  f[at] = From(file, f, at)
BY DEF LoadsFrom

LEMMA LoadType ==
    ASSUME NEW file \in Seq(Nat), NEW f, LoadsFrom(file, 1, f), NEW S,
           \A at \in 1 .. Len(file) + 1 :
               ReadRecord(file, at).outcome = "record" => ReadRecord(file, at).record \in S
    PROVE  \A at \in 1 .. Len(file) + 1 : f[at] \in [loaded : Seq(S), failed : BOOLEAN]
<1>1. PICK L \in Nat : L = Len(file) + 1
  OBVIOUS
<1> DEFINE Bad == {at \in 1 .. L : f[at] \notin [loaded : Seq(S), failed : BOOLEAN]}
<1>2. ASSUME Bad # {} PROVE FALSE
  <2>1. PICK at \in Bad : \A y \in Bad : at >= y
    <3>1. Bad \subseteq 1 .. L
      OBVIOUS
    <3>2. Max(Bad) \in Bad /\ \A y \in Bad : Max(Bad) >= y
      BY <1>2, <3>1, MaxInRange
    <3> QED
      BY <3>2
  <2>2. at \in Nat /\ at >= 1 /\ at <= Len(file) + 1
    BY <1>1
  <2>3. f[at] = From(file, f, at)
    BY <2>2, LoadAt
  <2>4. CASE ReadRecord(file, at).outcome = "record"
    <3>1. PICK next \in Nat : next = ReadRecord(file, at).next
      BY <2>2, <2>4, NextIsLater
    <3>2. next > at /\ next <= L
      BY <1>1, <2>2, <2>4, <3>1, NextIsLater
    <3>3. next \in 1 .. L /\ next \notin Bad
      BY <2>1, <2>2, <3>2
    <3>4. f[next] \in [loaded : Seq(S), failed : BOOLEAN]
      BY <3>3
    <3>5. PICK r \in S : r = ReadRecord(file, at).record
      BY <2>2, <2>4
    <3>6. f[at] = [loaded |-> <<r>> \o f[next].loaded, failed |-> f[next].failed]
      BY <2>3, <2>4, <3>1, <3>5 DEF From
    <3>7. PICK q \in Seq(S), c \in BOOLEAN : q = f[next].loaded /\ c = f[next].failed
      BY <3>4
    <3>8. <<r>> \o q \in Seq(S)
      OBVIOUS
    <3>9. f[at] \in [loaded : Seq(S), failed : BOOLEAN]
      BY <3>6, <3>7, <3>8
    <3> QED
      BY <2>1, <3>9
  <2>5. CASE ReadRecord(file, at).outcome # "record"
    <3>1. PICK c \in BOOLEAN : c = (ReadRecord(file, at).outcome = "thrown")
      OBVIOUS
    <3>2. f[at] = [loaded |-> <<>>, failed |-> c]
      BY <2>3, <2>5, <3>1 DEF From
    <3>3. <<>> \in Seq(S)
      OBVIOUS
    <3>4. f[at] \in [loaded : Seq(S), failed : BOOLEAN]
      BY <3>1, <3>2, <3>3
    <3> QED
      BY <2>1, <3>4
  <2> QED
    BY <2>4, <2>5
<1> QED
  BY <1>1, <1>2

LEMMA EmptyIsPrefix ==
    ASSUME NEW S, NEW q \in Seq(S)
    PROVE  IsPrefix(<<>>, q)
<1>1. <<>> \in Seq(S) /\ Len(<<>>) = 0
  OBVIOUS
<1>2. PICK none \in Seq(S) : none = <<>> /\ Len(none) = 0
  BY <1>1
<1>3. Len(none) <= Len(q) /\ \A i \in 1 .. Len(none) : q[i] = none[i]
  BY <1>2
<1>4. IsPrefix(none, q)
  BY <1>3, PrefixIs
<1> QED
  BY <1>2, <1>4

LEMMA PrefixBehind ==
    ASSUME NEW S, NEW r \in S, NEW q \in Seq(S), NEW u \in Seq(S), IsPrefix(q, u)
    PROVE  IsPrefix(<<r>> \o q, <<r>> \o u)
<1>1. PICK n \in Nat : n = Len(q)
  OBVIOUS
<1>2. n <= Len(u) /\ \A i \in 1 .. n : u[i] = q[i]
  BY <1>1, PrefixIs
<1>3. PICK rq \in Seq(S) : /\ rq = <<r>> \o q /\ Len(rq) = n + 1
                           /\ \A i \in 1 .. n + 1 : rq[i] = IF i = 1 THEN r ELSE q[i - 1]
  <2>1. /\ <<r>> \o q \in Seq(S) /\ Len(<<r>> \o q) = n + 1
        /\ \A i \in 1 .. n + 1 : (<<r>> \o q)[i] = IF i = 1 THEN r ELSE q[i - 1]
    BY <1>1
  <2> QED
    BY <2>1
<1>4. PICK ru \in Seq(S) : /\ ru = <<r>> \o u /\ Len(ru) = Len(u) + 1
                           /\ \A i \in 1 .. n + 1 : ru[i] = IF i = 1 THEN r ELSE u[i - 1]
  <2>1. /\ <<r>> \o u \in Seq(S) /\ Len(<<r>> \o u) = Len(u) + 1
        /\ \A i \in 1 .. n + 1 : (<<r>> \o u)[i] = IF i = 1 THEN r ELSE u[i - 1]
    BY <1>2
  <2> QED
    BY <2>1
<1>5. \A i \in 1 .. n + 1 : ru[i] = rq[i]
  BY <1>2, <1>3, <1>4
<1>6. Len(rq) <= Len(ru)
  BY <1>2, <1>3, <1>4
<1>7. IsPrefix(rq, ru)
  BY <1>3, <1>5, <1>6, PrefixIs
<1> QED
  BY <1>3, <1>4, <1>7

\* What is loaded of a file is loaded of every file that continues it.
LEMMA LongerLoadKeeps ==
    ASSUME NEW file \in Seq(Nat), NEW longer \in Seq(Nat), IsPrefix(file, longer)
    PROVE  LoadFile(longer).failed \/ IsPrefix(LoadFile(file).loaded, LoadFile(longer).loaded)
<1>1. PICK L \in Nat : L = Len(file) + 1 /\ L <= Len(longer) + 1
  <2>1. Len(file) <= Len(longer)
    BY PrefixIs
  <2> QED
    BY <2>1
<1>2. PICK f : LoadsFrom(file, 1, f) /\ LoadFile(file) = f[1]
  BY LoadEquation
<1>3. PICK g : LoadsFrom(longer, 1, g) /\ LoadFile(longer) = g[1]
  BY LoadEquation
<1> DEFINE S == {ReadRecord(longer, at).record : at \in 1 .. Len(longer) + 1}
           Loaded == [loaded : Seq(S), failed : BOOLEAN]
<1>4. \A at \in 1 .. Len(longer) + 1 : g[at] \in Loaded
  <2>1. \A at \in 1 .. Len(longer) + 1 :
            ReadRecord(longer, at).outcome = "record" => ReadRecord(longer, at).record \in S
    OBVIOUS
  <2> HIDE DEF S
  <2> QED
    BY <1>3, <2>1, LoadType
<1>5. \A at \in 1 .. L : f[at] \in Loaded
  <2>1. ASSUME NEW at \in 1 .. Len(file) + 1, ReadRecord(file, at).outcome = "record"
        PROVE  ReadRecord(file, at).record \in S
    <3>1. at \in Nat /\ at >= 1 /\ at \in 1 .. Len(longer) + 1
      BY <1>1
    <3>2. ReadRecord(file, at) # [outcome |-> "end"]
      BY <2>1
    <3>3. ReadRecord(longer, at) = ReadRecord(file, at)
      BY <3>1, <3>2, RecordStays
    <3> QED
      BY <3>1, <3>3
  <2> HIDE DEF S
  <2> QED
    BY <1>1, <1>2, <2>1, LoadType
<1> HIDE DEF S
<1> DEFINE Bad == {at \in 1 .. L : ~(g[at].failed \/ IsPrefix(f[at].loaded, g[at].loaded))}
<1>6. ASSUME Bad # {} PROVE FALSE
  <2>1. PICK at \in Bad : \A y \in Bad : at >= y
    <3>1. Bad \subseteq 1 .. L
      OBVIOUS
    <3>2. Max(Bad) \in Bad /\ \A y \in Bad : Max(Bad) >= y
      BY <1>6, <3>1, MaxInRange
    <3> QED
      BY <3>2
  <2>2. /\ at \in Nat /\ at >= 1 /\ at <= Len(file) + 1 /\ at <= Len(longer) + 1
        /\ at \in 1 .. L /\ at \in 1 .. Len(longer) + 1
    BY <1>1
  <2>3. f[at] = From(file, f, at) /\ g[at] = From(longer, g, at)
    BY <1>2, <1>3, <2>2, LoadAt
  <2>4. CASE ReadRecord(file, at) = [outcome |-> "end"]
    <3>1. f[at].loaded = <<>>
      BY <2>3, <2>4 DEF From
    <3>2. PICK q \in Seq(S) : q = g[at].loaded
      BY <1>4, <2>2
    <3>3. IsPrefix(<<>>, q)
      BY EmptyIsPrefix
    <3> QED
      BY <2>1, <3>1, <3>2, <3>3
  <2>5. CASE ReadRecord(file, at) = [outcome |-> "thrown"]
    <3>1. ReadRecord(longer, at) = [outcome |-> "thrown"]
      BY <2>2, <2>5, RecordStays
    <3>2. ReadRecord(longer, at).outcome = "thrown"
      BY <3>1
    <3>3. g[at] = [loaded |-> <<>>, failed |-> TRUE]
      BY <2>3, <3>2 DEF From
    <3> QED
      BY <2>1, <3>3
  <2>6. CASE ReadRecord(file, at).outcome = "record"
    <3>1. ReadRecord(longer, at) = ReadRecord(file, at)
      <4>1. ReadRecord(file, at) # [outcome |-> "end"]
        BY <2>6
      <4> QED
        BY <2>2, <4>1, RecordStays
    <3>2. PICK next \in Nat : next = ReadRecord(file, at).next
      BY <2>2, <2>6, NextIsLater
    <3>3. next > at /\ next <= L
      BY <1>1, <2>2, <2>6, <3>2, NextIsLater
    <3>4. next \in 1 .. L /\ next \in 1 .. Len(longer) + 1 /\ next \notin Bad
      BY <1>1, <2>1, <2>2, <3>3
    <3>5. g[next].failed \/ IsPrefix(f[next].loaded, g[next].loaded)
      BY <3>4
    <3>6. PICK r \in S : r = ReadRecord(file, at).record
      BY <2>2, <3>1 DEF S
    <3>7. /\ f[at] = [loaded |-> <<r>> \o f[next].loaded, failed |-> f[next].failed]
          /\ g[at] = [loaded |-> <<r>> \o g[next].loaded, failed |-> g[next].failed]
      BY <2>3, <2>6, <3>1, <3>2, <3>6 DEF From
    <3>8. f[next] \in Loaded /\ g[next] \in Loaded
      BY <1>4, <1>5, <3>4
    <3>9. PICK q \in Seq(S), u \in Seq(S) : q = f[next].loaded /\ u = g[next].loaded
      BY <3>8
    <3>10. /\ f[at].loaded = <<r>> \o q
           /\ g[at].loaded = <<r>> \o u /\ g[at].failed = g[next].failed
      BY <3>7, <3>8, <3>9
    <3>11. g[next].failed \/ IsPrefix(<<r>> \o q, <<r>> \o u)
      BY <3>5, <3>9, PrefixBehind
    <3> QED
      BY <2>1, <3>10, <3>11
  <2>7. \/ ReadRecord(file, at) = [outcome |-> "end"]
        \/ ReadRecord(file, at) = [outcome |-> "thrown"]
        \/ ReadRecord(file, at).outcome = "record"
    <3>1. IsPrefix(file, file)
      BY PrefixIs
    <3> QED
      BY <2>2, <3>1, RecordStays
  <2> QED
    BY <2>4, <2>5, <2>6, <2>7
<1>7. 1 \in 1 .. L /\ 1 \notin Bad
  BY <1>1, <1>6
<1> QED
  BY <1>2, <1>3, <1>7

-----------------------------------------------------------------------------
\* The file while records are added to it.

LEMMA HasAtLonger ==
    ASSUME NEW file \in Seq(Nat), NEW x \in Seq(Nat), NEW p \in Nat, p >= 1, NEW s \in Seq(Nat),
           HasAt(file, p, s), p + Len(s) <= Len(file) + 1
    PROVE  HasAt(file \o x, p, s)
<1>1. PICK longer \in Seq(Nat) : longer = file \o x /\ \A i \in 1 .. Len(file) : longer[i] = file[i]
  <2>1. file \o x \in Seq(Nat) /\ \A i \in 1 .. Len(file) : (file \o x)[i] = file[i]
    OBVIOUS
  <2> QED
    BY <2>1
<1>2. PICK L \in Nat : L = Len(file)
  OBVIOUS
<1>3. PICK n \in Nat : n = Len(s)
  OBVIOUS
<1>4. ASSUME NEW j \in 1 .. n PROVE longer[p + j - 1] = s[j]
  <2>1. PICK i \in Nat : i = p + j - 1
    OBVIOUS
  <2>2. p + n <= L + 1
    BY <1>2, <1>3
  <2>3. i \in 1 .. L
    BY <2>1, <2>2
  <2>4. \A h \in DOMAIN s : p + h - 1 <= Len(file) => file[p + h - 1] = s[h]
    BY DEF HasAt
  <2>5. j \in DOMAIN s /\ p + j - 1 <= Len(file)
    BY <1>2, <1>3, <2>1, <2>3
  <2>6. file[i] = s[j]
    BY <2>1, <2>4, <2>5
  <2> QED
    BY <1>1, <1>2, <2>1, <2>3, <2>6
<1>5. \A j \in DOMAIN s : p + j - 1 <= Len(longer) => longer[p + j - 1] = s[j]
  <2>1. DOMAIN s = 1 .. n
    BY <1>3
  <2> QED
    BY <1>4, <2>1
<1>6. HasAt(longer, p, s)
  BY <1>5 DEF HasAt
<1> QED
  BY <1>1, <1>6

LEMMA HasAtEnd ==
    ASSUME NEW file \in Seq(Nat), NEW x \in Seq(Nat), NEW p \in Nat, p = Len(file) + 1,
           NEW s \in Seq(Nat), IsPrefix(x, s)
    PROVE  HasAt(file \o x, p, s)
<1>1. PICK m \in Nat, n \in Nat, l \in Nat : m = Len(file) /\ n = Len(x) /\ l = Len(s)
  OBVIOUS
<1>2. PICK longer \in Seq(Nat) : /\ longer = file \o x /\ Len(longer) = m + n
                                 /\ \A i \in 1 .. n : longer[m + i] = x[i]
  <2>1. file \o x \in Seq(Nat) /\ Len(file \o x) = m + n
    BY <1>1
  <2>2. \A i \in 1 .. n : (file \o x)[m + i] = x[i]
    BY <1>1
  <2> QED
    BY <2>1, <2>2
<1>3. \A i \in 1 .. n : s[i] = x[i]
  BY <1>1, PrefixIs
<1>4. ASSUME NEW j \in 1 .. l, p + j - 1 <= Len(longer) PROVE longer[p + j - 1] = s[j]
  <2>1. p = m + 1 /\ p + j - 1 = m + j
    BY <1>1
  <2>2. j \in 1 .. n
    BY <1>1, <1>2, <1>4, <2>1
  <2> QED
    BY <1>2, <1>3, <2>1, <2>2
<1>5. \A j \in DOMAIN s : p + j - 1 <= Len(longer) => longer[p + j - 1] = s[j]
  <2>1. DOMAIN s = 1 .. l
    BY <1>1
  <2> QED
    BY <1>4, <2>1
<1>6. HasAt(longer, p, s)
  BY <1>5 DEF HasAt
<1> QED
  BY <1>2, <1>6

\* Both ways to write a record: to its end, or not.
LEMMA RecordIsAdded ==
    ASSUME LogTypeOK, FileIsRecords, ~cut, NEW r \in Records,
           NEW x \in Seq(Nat), IsPrefix(x, Encode(r)),
           records' = Append(records, r), bytes' = bytes \o x,
           starts' = Append(starts, Len(bytes) + 1),
           cut' \in BOOLEAN, cut' <=> Len(x) < Len(Encode(r))
    PROVE  FileIsRecords'
<1>0. /\ records \in Seq(Records) /\ bytes \in Seq(Nat) /\ starts \in Seq(Nat \ {0})
      /\ Len(starts) = Len(records) /\ Encode(r) \in Seq(Nat)
  BY EncodeType DEF LogTypeOK
<1>1. PICK n \in Nat, L \in Nat, k \in Nat, M \in Nat :
          n = Len(records) /\ L = Len(bytes) /\ k = Len(x) /\ M = Len(Encode(r))
  <2>1. PICK n \in Nat : n = Len(records)
    BY <1>0
  <2>2. PICK L \in Nat : L = Len(bytes)
    BY <1>0
  <2>3. PICK k \in Nat : k = Len(x)
    OBVIOUS
  <2>4. PICK M \in Nat : M = Len(Encode(r))
    BY <1>0
  <2> QED
    BY <2>1, <2>2, <2>3, <2>4
<1>2. bytes' \in Seq(Nat) /\ Len(bytes') = L + k /\ k <= M
  <2>1. Len(x) <= Len(Encode(r))
    BY <1>0, PrefixIs
  <2> QED
    BY <1>0, <1>1, <2>1
<1>3. /\ DOMAIN records = 1 .. n /\ DOMAIN records' = 1 .. n + 1 /\ Len(records') = n + 1
      /\ records'[n + 1] = r /\ starts'[n + 1] = L + 1
      /\ \A i \in 1 .. n : records'[i] = records[i] /\ starts'[i] = starts[i]
  BY <1>0, <1>1
<1>4. \A i \in 1 .. n : RecordEnd(i)' = RecordEnd(i)
  BY <1>3 DEF RecordEnd
<1>5. ASSUME NEW i \in 1 .. n
      PROVE  /\ HasAt(bytes', starts'[i], Encode(records'[i]))
             /\ starts'[i] = IF i = 1 THEN 1 ELSE RecordEnd(i - 1)'
             /\ starts'[i] <= Len(bytes') + 1
             /\ RecordEnd(i)' <= Len(bytes') + 1
  <2>1. records[i] \in Records /\ starts[i] \in Nat /\ starts[i] >= 1
    BY <1>1, <1>3 DEF LogTypeOK
  <2>2. PICK p \in Nat, s \in Seq(Nat), e \in Nat :
            p = starts[i] /\ s = Encode(records[i]) /\ e = p + Len(s)
    <3>1. PICK p \in Nat : p = starts[i]
      BY <2>1
    <3>2. PICK s \in Seq(Nat) : s = Encode(records[i])
      BY <2>1, EncodeType
    <3>3. p + Len(s) \in Nat
      OBVIOUS
    <3> QED
      BY <3>1, <3>2, <3>3
  <2>3. RecordEnd(i) = e
    BY <2>2 DEF RecordEnd
  <2>4. HasAt(bytes, p, s) /\ p <= L + 1 /\ e <= L + 1
    <3>1. /\ HasAt(bytes, starts[i], Encode(records[i]))
          /\ starts[i] <= Len(bytes) + 1
          /\ IF i < Len(records) THEN RecordEnd(i) <= Len(bytes) + 1
             ELSE IF cut THEN RecordEnd(i) > Len(bytes) + 1
             ELSE RecordEnd(i) = Len(bytes) + 1
      BY <1>3 DEF FileIsRecords
    <3>2. IF i < n THEN e <= L + 1 ELSE e = L + 1
      BY <1>1, <2>3, <3>1
    <3> QED
      BY <1>1, <2>2, <3>1, <3>2
  <2>5. HasAt(bytes', p, s)
    BY <1>1, <2>1, <2>2, <2>4, HasAtLonger DEF LogTypeOK
  <2>6. starts[i] = IF i = 1 THEN 1 ELSE RecordEnd(i - 1)
    BY <1>3 DEF FileIsRecords
  <2>7. i # 1 => i - 1 \in 1 .. n
    OBVIOUS
  <2>8. i # 1 => RecordEnd(i - 1)' = RecordEnd(i - 1)
    BY <1>4, <2>7
  <2>9. p <= Len(bytes') + 1 /\ e <= Len(bytes') + 1
    BY <1>2, <2>4
  <2> QED
    BY <1>3, <1>4, <2>2, <2>3, <2>5, <2>6, <2>8, <2>9
<1>6. PICK last \in Nat, p \in Nat : last = n + 1 /\ p = L + 1
  OBVIOUS
<1>7. HasAt(bytes', starts'[last], Encode(records'[last]))
  <2>1. HasAt(bytes', p, Encode(r))
    <3>1. bytes \in Seq(Nat) /\ Encode(r) \in Seq(Nat)
      BY EncodeType DEF LogTypeOK
    <3> QED
      BY <1>1, <1>6, <3>1, HasAtEnd
  <2> QED
    BY <1>3, <1>6, <2>1
<1>8. starts'[last] = IF last = 1 THEN 1 ELSE RecordEnd(last - 1)'
  <2>1. CASE n = 0
    <3>1. records = <<>>
      <4>1. records \in Seq(Records) /\ Len(records) = 0
        BY <1>0, <1>1, <2>1
      <4> QED
        BY <4>1
    <3>2. L = 0
      BY <1>1, <3>1 DEF FileIsRecords
    <3> QED
      BY <1>3, <1>6, <2>1, <3>2
  <2>2. CASE n # 0
    <3>1. n \in 1 .. n /\ last - 1 = n /\ last # 1
      BY <1>6, <2>2
    <3>2. RecordEnd(n) = L + 1
      <4>1. n \in DOMAIN records /\ ~(n < Len(records))
        BY <1>1, <1>3, <3>1
      <4>2. RecordEnd(n) = Len(bytes) + 1
        BY <4>1 DEF FileIsRecords
      <4> QED
        BY <1>1, <4>2
    <3>3. RecordEnd(n)' = L + 1
      BY <1>4, <3>1, <3>2
    <3> QED
      BY <1>3, <1>6, <3>1, <3>3
  <2> QED
    BY <2>1, <2>2
<1>9. starts'[last] <= Len(bytes') + 1
  <2>1. starts'[last] = p
    BY <1>3, <1>6
  <2>2. p <= L + k + 1
    BY <1>6
  <2> QED
    BY <1>2, <2>1, <2>2
<1>10. IF cut' THEN RecordEnd(last)' > Len(bytes') + 1 ELSE RecordEnd(last)' = Len(bytes') + 1
  <2>1. RecordEnd(last)' = L + 1 + M
    BY <1>1, <1>3, <1>6 DEF RecordEnd
  <2>2. cut' <=> k < M
    BY <1>1
  <2> QED
    BY <1>2, <2>1, <2>2
<1>11. records' # <<>>
  BY <1>3
<1>12. ASSUME NEW i \in DOMAIN records'
       PROVE  /\ HasAt(bytes', starts'[i], Encode(records'[i]))
              /\ starts'[i] = IF i = 1 THEN 1 ELSE RecordEnd(i - 1)'
              /\ starts'[i] <= Len(bytes') + 1
              /\ IF i < Len(records') THEN RecordEnd(i)' <= Len(bytes') + 1
                 ELSE IF cut' THEN RecordEnd(i)' > Len(bytes') + 1
                 ELSE RecordEnd(i)' = Len(bytes') + 1
  <2>1. CASE i \in 1 .. n
    <3>1. i < Len(records')
      BY <1>3, <2>1
    <3> QED
      BY <1>5, <2>1, <3>1
  <2>2. CASE i = last
    <3>1. ~(last < Len(records'))
      BY <1>3, <1>6
    <3> QED
      BY <1>7, <1>8, <1>9, <1>10, <2>2, <3>1
  <2>3. i \in 1 .. n \/ i = last
    <3>1. i \in 1 .. n + 1
      BY <1>3
    <3> QED
      BY <1>6, <3>1
  <2> QED
    BY <2>1, <2>2, <2>3
<1> QED
  BY <1>11, <1>12 DEF FileIsRecords

LEMMA WriteKeepsFile ==
    ASSUME LogFileInv, NEW r \in Records, WriteRecord(r)
    PROVE  LogFileInv'
<1>1. Encode(r) \in Seq(Nat)
  BY EncodeType
<1>2. LogTypeOK'
  <2>1. /\ records \in Seq(Records) /\ bytes \in Seq(Nat) /\ starts \in Seq(Nat \ {0})
        /\ Len(starts) = Len(records) /\ cut \in BOOLEAN /\ torn \in BOOLEAN
    BY DEF LogFileInv, LogTypeOK
  <2>2. PICK p \in Nat \ {0} : p = Len(bytes) + 1
    BY <2>1
  <2>3. /\ records' = Append(records, r) /\ bytes' = bytes \o Encode(r)
        /\ starts' = Append(starts, p) /\ cut' = cut /\ torn' = torn
    BY <2>2 DEF WriteRecord
  <2>4. records' \in Seq(Records) /\ Len(records') = Len(records) + 1
    BY <2>1, <2>3
  <2>5. starts' \in Seq(Nat \ {0}) /\ Len(starts') = Len(starts) + 1
    BY <2>1, <2>2, <2>3
  <2>6. bytes' \in Seq(Nat)
    BY <1>1, <2>1, <2>3
  <2> QED
    BY <2>1, <2>3, <2>4, <2>5, <2>6 DEF LogTypeOK
<1>3. CASE torn
  <2>1. torn'
    BY <1>3 DEF WriteRecord
  <2> QED
    BY <1>2, <2>1 DEF LogFileInv
<1>4. CASE ~torn
  <2>1. LogTypeOK /\ FileIsRecords /\ ~cut
    BY <1>4 DEF LogFileInv, WriteRecord
  <2>2. PICK x \in Seq(Nat) : x = Encode(r)
    BY <1>1
  <2>3. IsPrefix(x, x)
    BY PrefixIs
  <2>4. /\ records' = Append(records, r) /\ bytes' = bytes \o x
        /\ starts' = Append(starts, Len(bytes) + 1) /\ cut' = FALSE
    BY <2>1, <2>2 DEF WriteRecord, LogTypeOK
  <2>5. ~(Len(x) < Len(Encode(r)))
    BY <2>2
  <2>6. FileIsRecords'
    BY <2>1, <2>2, <2>3, <2>4, <2>5, RecordIsAdded
  <2> QED
    BY <1>2, <2>6 DEF LogFileInv
<1> QED
  BY <1>3, <1>4

LEMMA StopKeepsFile ==
    ASSUME LogFileInv, NEW r \in Records, StopInside(r)
    PROVE  LogFileInv'
<1>1. PICK s \in Seq(Nat) : s = Encode(r)
  BY EncodeType
<1>2. LogTypeOK /\ FileIsRecords /\ ~cut
  BY DEF LogFileInv, StopInside
<1>3. PICK x \in Seq(Nat) : IsPrefix(x, s) /\ Len(x) < Len(s) /\ bytes' = bytes \o x
  <2>1. PICK n \in Nat : n < Len(s) /\ bytes' = bytes \o SubSeq(s, 1, n)
    <3>1. PICK n \in 0 .. Len(s) - 1 : bytes' = bytes \o SubSeq(s, 1, n)
      BY <1>1 DEF StopInside
    <3>2. n \in Nat /\ n < Len(s)
      OBVIOUS
    <3> QED
      BY <3>1, <3>2
  <2>2. /\ SubSeq(s, 1, n) \in Seq(Nat) /\ Len(SubSeq(s, 1, n)) = n
        /\ \A i \in 1 .. n : SubSeq(s, 1, n)[i] = s[i]
    BY <2>1
  <2>3. PICK x \in Seq(Nat) : /\ x = SubSeq(s, 1, n) /\ Len(x) = n
                              /\ \A i \in 1 .. n : x[i] = s[i]
    BY <2>2
  <2>4. Len(x) <= Len(s) /\ Len(x) < Len(s)
    BY <2>1, <2>3
  <2>5. IsPrefix(x, s)
    BY <2>3, <2>4, PrefixIs
  <2> QED
    BY <2>1, <2>3, <2>4, <2>5
<1>4. /\ records' = Append(records, r) /\ starts' = Append(starts, Len(bytes) + 1)
      /\ cut' = TRUE /\ torn' = torn
  BY DEF StopInside
<1>5. FileIsRecords'
  BY <1>1, <1>2, <1>3, <1>4, RecordIsAdded
<1>6. LogTypeOK'
  <2>1. /\ records \in Seq(Records) /\ bytes \in Seq(Nat) /\ starts \in Seq(Nat \ {0})
        /\ Len(starts) = Len(records) /\ torn \in BOOLEAN
    BY <1>2 DEF LogTypeOK
  <2>2. PICK p \in Nat \ {0} : p = Len(bytes) + 1
    BY <2>1
  <2>3. records' \in Seq(Records) /\ Len(records') = Len(records) + 1
    BY <1>4, <2>1
  <2>4. starts' \in Seq(Nat \ {0}) /\ Len(starts') = Len(starts) + 1
    BY <1>4, <2>1, <2>2
  <2>5. bytes' \in Seq(Nat)
    BY <1>3, <2>1
  <2> QED
    BY <1>4, <2>1, <2>3, <2>4, <2>5 DEF LogTypeOK
<1> QED
  BY <1>5, <1>6 DEF LogFileInv

LEMMA LogFileStep == LogFileInv /\ [LogNext]_logVars => LogFileInv'
<1> SUFFICES ASSUME LogFileInv, [LogNext]_logVars PROVE LogFileInv'
  OBVIOUS
<1>1. ASSUME NEW k \in Keys, NEW e \in Entries, WriteRecord([key |-> k, value |-> e])
      PROVE  LogFileInv'
  <2>1. PICK r \in Records : r = [key |-> k, value |-> e]
    BY DEF Records
  <2> QED
    BY <1>1, <2>1, WriteKeepsFile
<1>2. ASSUME NEW k \in Keys, NEW e \in Entries, StopInside([key |-> k, value |-> e])
      PROVE  LogFileInv'
  <2>1. PICK r \in Records : r = [key |-> k, value |-> e]
    BY DEF Records
  <2> QED
    BY <1>2, <2>1, StopKeepsFile
<1>3. CASE Reopen
  BY <1>3 DEF Reopen, LogFileInv, LogTypeOK
<1>4. CASE UNCHANGED logVars
  BY <1>4 DEF logVars, LogFileInv, LogTypeOK, FileIsRecords, RecordEnd
<1> QED
  BY <1>1, <1>2, <1>3, <1>4 DEF LogNext

-----------------------------------------------------------------------------
\* The theorems.

\* At every moment the file of a log to which nothing was appended after a stop is
\* its records, one behind the other.
THEOREM LogFileInvariance == LogSpec => []LogFileInv
<1>1. LogInit => LogFileInv
  <2> SUFFICES ASSUME LogInit PROVE LogFileInv
    OBVIOUS
  <2>1. records = <<>> /\ bytes = <<>> /\ starts = <<>> /\ cut = FALSE /\ torn = FALSE
    BY DEF LogInit
  <2>2. LogTypeOK
    <3>1. <<>> \in Seq(Records) /\ <<>> \in Seq(Nat) /\ <<>> \in Seq(Nat \ {0})
      OBVIOUS
    <3> QED
      BY <2>1, <3>1 DEF LogTypeOK
  <2>3. DOMAIN records = {}
    BY <2>1
  <2>4. FileIsRecords
    BY <2>1, <2>3 DEF FileIsRecords
  <2> QED
    BY <2>2, <2>4 DEF LogFileInv
<1> QED
  BY <1>1, LogFileStep, PTL DEF LogSpec

\* Whatever is written, a start reads back what earlier ones read back, unless
\* the loader throws.
THEOREM LaterLoadsKeep == LogSpec => LaterLoadsKeepRecords
<1>1. LogFileInv /\ [LogNext]_logVars =>
          [torn => LET before == LoadFile(bytes)
                       after == LoadFile(bytes')
                   IN  after.failed \/ IsPrefix(before.loaded, after.loaded)]_logVars
  <2> SUFFICES ASSUME LogFileInv, LogNext, torn
               PROVE  LoadFile(bytes').failed
                      \/ IsPrefix(LoadFile(bytes).loaded, LoadFile(bytes').loaded)
    OBVIOUS
  <2>1. bytes \in Seq(Nat) /\ bytes' \in Seq(Nat)
    BY LogFileStep DEF LogFileInv, LogTypeOK
  <2>2. IsPrefix(bytes, bytes')
    <3>1. PICK x \in Seq(Nat) : bytes' = bytes \o x
      <4>1. ASSUME NEW k \in Keys, NEW e \in Entries, WriteRecord([key |-> k, value |-> e])
            PROVE  \E x \in Seq(Nat) : bytes' = bytes \o x
        <5>1. PICK r \in Records : r = [key |-> k, value |-> e]
          BY DEF Records
        <5> QED
          BY <4>1, <5>1, EncodeType DEF WriteRecord
      <4>2. ~ \E k \in Keys, e \in Entries : StopInside([key |-> k, value |-> e])
        BY DEF StopInside
      <4>3. CASE Reopen
        <5>1. <<>> \in Seq(Nat) /\ bytes = bytes \o <<>>
          BY <2>1
        <5> QED
          BY <4>3, <5>1 DEF Reopen
      <4> QED
        BY <4>1, <4>2, <4>3 DEF LogNext
    <3>2. Len(bytes) <= Len(bytes') /\ \A i \in 1 .. Len(bytes) : bytes'[i] = bytes[i]
      <4>1. /\ Len(bytes \o x) = Len(bytes) + Len(x)
            /\ \A i \in 1 .. Len(bytes) : (bytes \o x)[i] = bytes[i]
        BY <2>1
      <4> QED
        BY <2>1, <3>1, <4>1
    <3> QED
      BY <2>1, <3>2, PrefixIs
  <2> QED
    BY <2>1, <2>2, LongerLoadKeeps
<1> QED
  BY <1>1, LogFileInvariance, PTL DEF LogSpec, LaterLoadsKeepRecords

\* What is readable are removals, up to the first SET.
LEMMA ReadableIs ==
    ASSUME NEW log \in Seq(Records)
    PROVE  /\ Readable(log) \in Seq(Records)
           /\ Len(Readable(log)) <= Len(log)
           /\ \A i \in 1 .. Len(Readable(log)) :
                  Readable(log)[i] = log[i] /\ log[i].value = Tombstone
           /\ \A i \in DOMAIN log : i = Len(Readable(log)) + 1 => log[i].value # Tombstone
<1> DEFINE Sets == {i \in DOMAIN log : log[i].value # Tombstone}
<1>1. Readable(log) \in Seq(Records)
  BY ReadableType
<1>2. PICK n \in Nat : n = Len(log)
  OBVIOUS
<1>3. CASE Sets = {}
  <2>1. Readable(log) = log
    BY <1>3 DEF Readable
  <2>2. \A i \in 1 .. n : log[i].value = Tombstone
    BY <1>2, <1>3
  <2>3. \A i \in DOMAIN log : i # Len(log) + 1
    OBVIOUS
  <2> QED
    BY <1>2, <2>1, <2>2, <2>3
<1>4. CASE Sets # {}
  <2>1. Sets \subseteq Nat
    OBVIOUS
  <2> HIDE DEF Sets
  <2>2. PICK s \in Sets : s = Min(Sets) /\ \A y \in Sets : s <= y
    BY <1>4, <2>1, MinInNat
  <2>3. PICK m \in Nat : m = s - 1 /\ m < n
    <3>1. s \in 1 .. n
      BY <1>2 DEF Sets
    <3> QED
      BY <3>1
  <2>4. Readable(log) = SubSeq(log, 1, m)
    BY <1>4, <2>2, <2>3 DEF Readable, Sets
  <2>5. /\ Len(SubSeq(log, 1, m)) = m
        /\ \A i \in 1 .. m : SubSeq(log, 1, m)[i] = log[i]
    BY <1>2, <2>3
  <2>6. s = m + 1 /\ log[s].value # Tombstone
    <3>1. s \in Nat
      BY <2>1
    <3> QED
      BY <2>3, <3>1 DEF Sets
  <2>7. ASSUME NEW i \in 1 .. m PROVE log[i].value = Tombstone
    <3>1. i \in DOMAIN log /\ ~(s <= i)
      BY <1>2, <2>3, <2>6
    <3> QED
      BY <2>2, <3>1 DEF Sets
  <2> QED
    BY <1>1, <1>2, <2>3, <2>4, <2>5, <2>6, <2>7
<1> QED
  BY <1>3, <1>4

LEMMA SubSeqBehind ==
    ASSUME NEW S, NEW q \in Seq(S), NEW m \in Nat, m = Len(q),
           NEW i \in Nat, 1 <= i, i <= m, NEW j \in Nat, j = i + 1
    PROVE  SubSeq(q, i, m) = <<q[i]>> \o SubSeq(q, j, m)
<1>1. PICK r \in S : r = q[i]
  <2>1. i \in DOMAIN q
    OBVIOUS
  <2> QED
    BY <2>1
<1>2. PICK k \in Nat : k = m - i
  <2>1. m - i \in Nat
    OBVIOUS
  <2> QED
    BY <2>1
<1>3. PICK u \in Seq(S) : /\ u = SubSeq(q, i, m) /\ Len(u) = k + 1
                          /\ \A h \in 1 .. k + 1 : u[h] = q[i + h - 1]
  <2>1. i <= m + 1
    OBVIOUS
  <2>2. /\ SubSeq(q, i, m) \in Seq(S) /\ Len(SubSeq(q, i, m)) = m + 1 - i
        /\ \A h \in 1 .. m + 1 - i : SubSeq(q, i, m)[h] = q[i + h - 1]
    BY <2>1, Subsequence
  <2>3. m + 1 - i = k + 1
    BY <1>2
  <2> QED
    BY <2>2, <2>3
<1>4. PICK v \in Seq(S) : /\ v = SubSeq(q, j, m) /\ Len(v) = k
                          /\ \A h \in 1 .. k : v[h] = q[i + h]
  <2>1. j <= m + 1 /\ 1 <= j
    OBVIOUS
  <2>2. /\ SubSeq(q, j, m) \in Seq(S) /\ Len(SubSeq(q, j, m)) = m + 1 - j
        /\ \A h \in 1 .. m + 1 - j : SubSeq(q, j, m)[h] = q[j + h - 1]
    BY <2>1, Subsequence
  <2>3. m + 1 - j = k
    BY <1>2
  <2>4. ASSUME NEW h \in 1 .. k PROVE SubSeq(q, j, m)[h] = q[i + h]
    <3>1. SubSeq(q, j, m)[h] = q[j + h - 1]
      BY <2>2, <2>3
    <3>2. j + h - 1 = i + h
      OBVIOUS
    <3> QED
      BY <3>1, <3>2
  <2> QED
    BY <2>2, <2>3, <2>4
<1>5. PICK w \in Seq(S) : /\ w = <<r>> \o v /\ Len(w) = k + 1
                          /\ \A h \in 1 .. k + 1 : w[h] = IF h = 1 THEN r ELSE v[h - 1]
  <2>1. /\ <<r>> \o v \in Seq(S) /\ Len(<<r>> \o v) = k + 1
        /\ \A h \in 1 .. k + 1 : (<<r>> \o v)[h] = IF h = 1 THEN r ELSE v[h - 1]
    BY <1>4
  <2> QED
    BY <2>1
<1>6. ASSUME NEW h \in 1 .. k + 1 PROVE u[h] = w[h]
  <2>1. CASE h = 1
    <3>1. u[h] = q[i]
      BY <1>3, <2>1
    <3> QED
      BY <1>1, <1>5, <2>1, <3>1
  <2>2. CASE h # 1
    <3>1. PICK g \in 1 .. k : g = h - 1
      BY <2>2
    <3>2. w[h] = v[g] /\ v[g] = q[i + g]
      BY <1>4, <1>5, <2>2, <3>1
    <3>3. i + g = i + h - 1
      BY <3>1
    <3> QED
      BY <1>3, <3>2, <3>3
  <2> QED
    BY <2>1, <2>2
<1>7. u = [h \in 1 .. k + 1 |-> u[h]] /\ w = [h \in 1 .. k + 1 |-> w[h]]
  BY <1>3, <1>5
<1>8. u = w
  BY <1>6, <1>7
<1> QED
  BY <1>1, <1>3, <1>4, <1>5, <1>8

\* What the loop makes of a record where it begins: a removal that is there to its
\* end is read, anything else ends the loop.
LEMMA RecordTurn ==
    ASSUME LogTypeOK, FileIsRecords, NEW i \in DOMAIN records,
           ~BeginsWithZeros(records[i].value)
    PROVE  IF records[i].value = Tombstone /\ ~(cut /\ i = Len(records))
           THEN ReadRecord(bytes, starts[i]) =
                    [outcome |-> "record", next |-> RecordEnd(i), record |-> records[i]]
           ELSE ReadRecord(bytes, starts[i]) = [outcome |-> "end"]
<1>1. /\ records \in Seq(Records) /\ bytes \in Seq(Nat) /\ starts \in Seq(Nat \ {0})
      /\ Len(starts) = Len(records)
  BY DEF LogTypeOK
<1>2. PICK n \in Nat : n = Len(records)
  BY <1>1
<1>3. i \in 1 .. n
  BY <1>1, <1>2
<1>4. PICK r \in Records : r = records[i]
  BY <1>1
<1>5. PICK p \in Nat : p = starts[i] /\ p >= 1
  BY <1>1, <1>2, <1>3
<1>6. PICK l \in Nat : l = Len(Encode(r))
  BY EncodeType
<1>7. PICK e \in Nat : e = p + l /\ RecordEnd(i) = e
  <2>1. p + l \in Nat
    OBVIOUS
  <2> QED
    BY <1>4, <1>5, <1>6, <2>1 DEF RecordEnd
<1>8. /\ HasAt(bytes, p, Encode(r))
      /\ IF i < n THEN e <= Len(bytes) + 1
         ELSE IF cut THEN e > Len(bytes) + 1
         ELSE e = Len(bytes) + 1
  BY <1>2, <1>4, <1>5, <1>7 DEF FileIsRecords
<1>9. CASE r.value = Tombstone
  <2>1. IF p + l > Len(bytes) + 1 THEN ReadRecord(bytes, p) = [outcome |-> "end"]
        ELSE ReadRecord(bytes, p) = [outcome |-> "record", next |-> p + l, record |-> r]
    BY <1>1, <1>5, <1>6, <1>8, <1>9, RemovalIsRead
  <2>2. IF e > Len(bytes) + 1 THEN ReadRecord(bytes, p) = [outcome |-> "end"]
        ELSE ReadRecord(bytes, p) = [outcome |-> "record", next |-> e, record |-> r]
    BY <1>7, <2>1
  <2>3. e > Len(bytes) + 1 <=> cut /\ i = n
    <3>1. Len(bytes) \in Nat
      BY <1>1
    <3> QED
      BY <1>3, <1>8, <3>1
  <2> QED
    BY <1>2, <1>4, <1>5, <1>7, <1>9, <2>2, <2>3
<1>10. CASE r.value # Tombstone
  <2>1. e <= Len(bytes) => bytes[e] # 0
    <3> SUFFICES ASSUME e <= Len(bytes) PROVE bytes[e] # 0
      OBVIOUS
    <3>1. PICK h \in Nat : h = i + 1 /\ h \in 1 .. n
      <4>1. Len(bytes) \in Nat
        BY <1>1
      <4>2. i < n
        BY <1>3, <1>8, <4>1
      <4>3. i + 1 \in 1 .. n
        BY <1>3, <4>2
      <4> QED
        BY <4>3
    <3>2. h \in DOMAIN records /\ h # 1 /\ h - 1 = i
      BY <1>1, <1>2, <1>3, <3>1
    <3>3. starts[h] = e
      BY <1>7, <3>2 DEF FileIsRecords
    <3>4. HasAt(bytes, e, Encode(records[h]))
      BY <3>2, <3>3 DEF FileIsRecords
    <3>5. records[h] \in Records
      BY <1>1, <3>2
    <3>6. PICK s \in Seq(Nat) : s = Encode(records[h]) /\ Len(s) > 4 /\ s[1] # 0
      BY <3>5, EncodeType
    <3>7. 1 \in DOMAIN s /\ e + 1 - 1 = e
      BY <3>6
    <3>8. bytes[e + 1 - 1] = s[1]
      BY <3>4, <3>6, <3>7 DEF HasAt
    <3> QED
      BY <3>6, <3>7, <3>8
  <2>2. e = p + Len(Encode(r))
    BY <1>6, <1>7
  <2>3. ReadRecord(bytes, p) = [outcome |-> "end"]
    BY <1>1, <1>4, <1>5, <1>8, <1>10, <2>1, <2>2, SetEnds
  <2> QED
    BY <1>4, <1>5, <1>10, <2>3
<1> QED
  BY <1>9, <1>10

\* What the other modules say of load is what it does, for logs of any length and
\* wherever a stop cuts off the last record.
THEOREM LoadIsWhatIsReadable == LogSpec => []LoadIsReadable
<1>1. LogFileInv => LoadIsReadable
  <2> SUFFICES ASSUME LogFileInv, ~torn,
                      \A i \in DOMAIN records : ~BeginsWithZeros(records[i].value)
               PROVE  Load = [loaded |-> Readable(Complete), failed |-> FALSE]
    BY DEF LoadIsReadable
  <2>1. LogTypeOK /\ FileIsRecords
    BY DEF LogFileInv
  <2>2. /\ records \in Seq(Records) /\ bytes \in Seq(Nat) /\ starts \in Seq(Nat \ {0})
        /\ Len(starts) = Len(records)
    BY <2>1 DEF LogTypeOK
  <2>3. PICK n \in Nat, L \in Nat : n = Len(records) /\ L = Len(bytes) + 1
    <3>1. PICK n \in Nat : n = Len(records)
      BY <2>2
    <3>2. Len(bytes) + 1 \in Nat
      BY <2>2
    <3> QED
      BY <3>1, <3>2
  <2>4. cut => n >= 1
    <3>1. records # <<>> => n >= 1
      BY <2>2, <2>3
    <3> QED
      BY <2>1, <3>1 DEF FileIsRecords
  <2>5. PICK c \in Nat : c = (IF cut THEN n - 1 ELSE n)
    <3>1. (IF cut THEN n - 1 ELSE n) \in Nat
      BY <2>4
    <3> QED
      BY <3>1
  <2>6. PICK C \in Seq(Records) : /\ C = Complete /\ Len(C) = c
                                  /\ \A i \in 1 .. c : C[i] = records[i]
    <3>1. CASE cut
      <4>1. c = Len(records) - 1 /\ c <= Len(records)
        BY <2>3, <2>5, <3>1
      <4>2. /\ SubSeq(records, 1, c) \in Seq(Records) /\ Len(SubSeq(records, 1, c)) = c
            /\ \A i \in 1 .. c : SubSeq(records, 1, c)[i] = records[i]
        BY <2>2, <4>1
      <4>3. Complete = SubSeq(records, 1, c)
        BY <3>1, <4>1 DEF Complete
      <4> QED
        BY <4>2, <4>3
    <3>2. CASE ~cut
      BY <2>2, <2>3, <2>5, <3>2 DEF Complete
    <3> QED
      BY <3>1, <3>2
  <2>7. PICK R \in Seq(Records) : R = Readable(C)
    BY ReadableIs
  <2>8. PICK m \in Nat : m = Len(R)
    OBVIOUS
  <2>9. /\ m <= c
        /\ \A i \in 1 .. m : R[i] = C[i] /\ C[i].value = Tombstone
        /\ \A i \in DOMAIN C : i = m + 1 => C[i].value # Tombstone
    BY <2>6, <2>7, <2>8, ReadableIs
  <2>10. PICK f : LoadsFrom(bytes, 1, f) /\ LoadFile(bytes) = f[1]
    BY <2>2, LoadEquation
  <2> DEFINE Position(i) == IF i <= n THEN starts[i] ELSE L
             Bad == {i \in 1 .. m + 1 :
                        f[Position(i)] # [loaded |-> SubSeq(R, i, m), failed |-> FALSE]}
  <2>11. ASSUME NEW i \in Nat, i >= 1
         PROVE  Position(i) \in Nat /\ Position(i) >= 1 /\ Position(i) <= L
    <3>1. CASE i <= n
      <4>1. i \in DOMAIN records /\ i \in DOMAIN starts
        BY <2>2, <2>3, <2>11, <3>1
      <4>2. starts[i] \in Nat \ {0}
        BY <2>2, <4>1
      <4>3. starts[i] <= Len(bytes) + 1
        BY <2>1, <4>1 DEF FileIsRecords
      <4> QED
        BY <2>3, <3>1, <4>2, <4>3
    <3>2. CASE ~(i <= n)
      BY <2>2, <2>3, <3>2
    <3> QED
      BY <3>1, <3>2
  <2>12. ASSUME NEW i \in Nat, i >= 1 PROVE f[Position(i)] = From(bytes, f, Position(i))
    <3>1. PICK p \in Nat : p = Position(i) /\ p >= 1 /\ p <= Len(bytes) + 1
      BY <2>3, <2>11, <2>12
    <3> HIDE DEF Position
    <3> QED
      BY <2>2, <2>10, <3>1, LoadAt
  <2>13. ASSUME NEW i \in 1 .. m, NEW j \in Nat, j = i + 1
         PROVE  ReadRecord(bytes, Position(i)) =
                    [outcome |-> "record", next |-> Position(j), record |-> R[i]]
    <3>1. i \in 1 .. n /\ i \in 1 .. c /\ ~(cut /\ i = n)
      BY <2>5, <2>9
    <3>2. i \in DOMAIN records /\ records[i] = R[i] /\ records[i].value = Tombstone
      BY <2>2, <2>3, <2>6, <2>9, <3>1
    <3>3. ReadRecord(bytes, starts[i]) =
              [outcome |-> "record", next |-> RecordEnd(i), record |-> records[i]]
      BY <2>1, <2>3, <3>1, <3>2, RecordTurn
    <3>4. Position(i) = starts[i]
      BY <3>1
    <3>5. RecordEnd(i) = Position(j)
      <4>1. CASE i < n
        <5>1. j \in DOMAIN records /\ j # 1 /\ j - 1 = i /\ j <= n
          BY <2>2, <2>3, <2>13, <4>1
        <5>2. starts[j] = RecordEnd(i)
          BY <2>1, <5>1 DEF FileIsRecords
        <5> QED
          BY <5>1, <5>2
      <4>2. CASE ~(i < n)
        <5>1. i = n /\ ~(j <= n) /\ ~cut
          BY <2>13, <3>1, <4>2
        <5>2. RecordEnd(i) = L
          BY <2>1, <2>3, <3>2, <4>2, <5>1 DEF FileIsRecords
        <5> QED
          BY <5>1, <5>2
      <4> QED
        BY <4>1, <4>2
    <3> HIDE DEF Position
    <3> QED
      BY <3>2, <3>3, <3>4, <3>5
  <2>14. ASSUME NEW j \in Nat, j = m + 1
         PROVE  ReadRecord(bytes, Position(j)) = [outcome |-> "end"]
    <3>1. CASE j <= n
      <4>1. j \in DOMAIN records
        BY <2>2, <2>3, <2>14, <3>1
      <4>2. ~(records[j].value = Tombstone /\ ~(cut /\ j = n))
        <5>1. CASE j <= c
          <6>1. j \in 1 .. c /\ j \in DOMAIN C
            BY <2>6, <2>14, <5>1
          <6> QED
            BY <2>6, <2>9, <2>14, <6>1
        <5>2. CASE ~(j <= c)
          BY <2>5, <2>14, <3>1, <5>2
        <5> QED
          BY <5>1, <5>2
      <4>3. ReadRecord(bytes, starts[j]) = [outcome |-> "end"]
        BY <2>1, <2>3, <4>1, <4>2, RecordTurn
      <4> QED
        BY <3>1, <4>3
    <3>2. CASE ~(j <= n)
      <4>1. Position(j) = L
        BY <3>2
      <4>2. L + 3 > Len(bytes)
        BY <2>2, <2>3
      <4>3. ReadEnum(bytes, L) = EndOfFile
        BY <4>2 DEF ReadEnum
      <4>4. ReadRecord(bytes, L) = [outcome |-> "end"]
        BY <4>3 DEF ReadRecord, EndOfFile
      <4> QED
        BY <4>1, <4>4
    <3> QED
      BY <3>1, <3>2
  <2> HIDE DEF Position
  <2>15. ASSUME Bad # {} PROVE FALSE
    <3>1. PICK i \in Bad : \A y \in Bad : i >= y
      <4>1. PICK k \in Nat : k = m + 1
        OBVIOUS
      <4>2. Bad \subseteq 1 .. k
        BY <4>1
      <4>3. Max(Bad) \in Bad /\ \A y \in Bad : Max(Bad) >= y
        BY <2>15, <4>2, MaxInRange
      <4> QED
        BY <4>3
    <3>2. i \in Nat /\ i >= 1 /\ i <= m + 1
      OBVIOUS
    <3>3. f[Position(i)] = From(bytes, f, Position(i))
      BY <2>12, <3>2
    <3>4. CASE i = m + 1
      <4>1. ReadRecord(bytes, Position(i)) = [outcome |-> "end"]
        BY <2>14, <3>2, <3>4
      <4>2. ReadRecord(bytes, Position(i)).outcome = "end"
        BY <4>1
      <4>3. f[Position(i)] = [loaded |-> <<>>, failed |-> FALSE]
        BY <3>3, <4>2 DEF From
      <4>4. SubSeq(R, i, m) = <<>>
        BY <2>8, <3>4
      <4> QED
        BY <3>1, <4>3, <4>4
    <3>5. CASE i # m + 1
      <4>1. PICK j \in Nat : j = i + 1
        BY <3>2
      <4>2. i \in 1 .. m /\ i <= m /\ j \in 1 .. m + 1 /\ ~(i >= j)
        BY <3>2, <3>5, <4>1
      <4>3. f[Position(j)] = [loaded |-> SubSeq(R, j, m), failed |-> FALSE]
        BY <3>1, <4>2
      <4>4. ReadRecord(bytes, Position(i)) =
                [outcome |-> "record", next |-> Position(j), record |-> R[i]]
        BY <2>13, <4>1, <4>2
      <4>5. f[Position(i)] = [loaded |-> <<R[i]>> \o f[Position(j)].loaded,
                              failed |-> f[Position(j)].failed]
        BY <3>3, <4>4 DEF From
      <4>6. f[Position(i)] = [loaded |-> <<R[i]>> \o SubSeq(R, j, m), failed |-> FALSE]
        <5>1. f[Position(j)].loaded = SubSeq(R, j, m) /\ f[Position(j)].failed = FALSE
          BY <4>3
        <5> QED
          BY <4>5, <5>1
      <4>7. SubSeq(R, i, m) = <<R[i]>> \o SubSeq(R, j, m)
        BY <2>8, <3>2, <4>1, <4>2, SubSeqBehind
      <4> QED
        BY <3>1, <4>6, <4>7
    <3> QED
      BY <3>4, <3>5
  <2>16. f[Position(1)] = [loaded |-> SubSeq(R, 1, m), failed |-> FALSE]
    <3>1. 1 \in 1 .. m + 1
      OBVIOUS
    <3> QED
      BY <2>15, <3>1
  <2>17. Position(1) = 1
    <3>1. CASE n = 0
      <4>1. records = <<>>
        <5>1. records \in Seq(Records) /\ Len(records) = 0
          BY <2>2, <2>3, <3>1
        <5> QED
          BY <5>1
      <4>2. L = 1
        BY <2>1, <2>3, <4>1 DEF FileIsRecords
      <4> QED
        BY <3>1, <4>2 DEF Position
    <3>2. CASE n # 0
      <4>1. 1 \in DOMAIN records /\ 1 <= n
        BY <2>2, <2>3, <3>2
      <4>2. starts[1] = 1
        BY <2>1, <4>1 DEF FileIsRecords
      <4> QED
        BY <4>1, <4>2 DEF Position
    <3> QED
      BY <3>1, <3>2
  <2>18. SubSeq(R, 1, m) = R
    BY <2>8
  <2> QED
    BY <2>6, <2>7, <2>10, <2>16, <2>17, <2>18 DEF Load
<1> QED
  BY <1>1, LogFileInvariance, PTL DEF LogSpec
=============================================================================
