------------------------ MODULE LogBackendIot_proofs ------------------------
(***************************************************************************)
(* Proofs about LogBackendIot with one drainer, for every size of the ring *)
(* and of the buffers and every number of records.  (With two drainers the *)
(* properties fail; TLC shows it.)                                         *)
(*                                                                         *)
(* WholeEntries is not inductive: it must be known what is in the ring     *)
(* between the front the drainer takes from and the back the logging       *)
(* thread appends to.  IInv says that: the ring is framed - one whole      *)
(* entry after another, numbered consecutively -, its back agrees with     *)
(* where the logging thread is, and its front with where the drainer is.   *)
(***************************************************************************)
EXTENDS LogBackendIot, SequenceTheorems, TLAPS

Byte == [msg : Nat, idx : Nat, len : Nat]

\* In s, the bytes after any byte are the rest of its entry, and what comes
\* after the entry is the first byte of the next message's entry.
Framed(s) ==
    \A i \in 1 .. Len(s) :
        /\ s[i].len >= 1 /\ s[i].idx <= s[i].len + 2
        /\ \A j \in i .. Len(s) :
             /\ s[i].idx + (j - i) <= s[i].len + 2 =>
                  /\ s[j].msg = s[i].msg /\ s[j].len = s[i].len
                  /\ s[j].idx = s[i].idx + (j - i)
             /\ s[i].idx + (j - i) = s[i].len + 3 =>
                  s[j].idx = 0 /\ s[j].msg = s[i].msg + 1

\* The back of the ring: the last entry is whole, or its header is there and
\* its text is what the logging thread puts next.
Back ==
    /\ logger # "idle" => cur >= 1
    /\ logger = "header" =>
          /\ Len(ring) > 0 /\ Len(ring) + cur <= RingSize
          /\ ring[Len(ring)].msg = stats["queued"] + 1
          /\ ring[Len(ring)].idx = 2 /\ ring[Len(ring)].len = cur
    /\ logger # "header" /\ Len(ring) > 0 =>
          /\ ring[Len(ring)].msg = stats["queued"]
          /\ ring[Len(ring)].idx = ring[Len(ring)].len + 2
    /\ \A i \in 1 .. Len(ring) :
          /\ ring[i].len < BufSize
          /\ \/ ring[i].msg <= stats["queued"]
             \/ logger = "header" /\ ring[i].msg = stats["queued"] + 1 /\ ring[i].idx <= 2

\* The ring starts with the first byte of message m, or is empty and m is the
\* next message to be queued.
StartsWith(m) ==
    IF Len(ring) = 0
    THEN logger # "header" /\ stats["queued"] + 1 = m
    ELSE ring[1].msg = m /\ ring[1].idx = 0

\* The front of the ring, by where drainer d is.
Front(d) ==
    /\ handed \in Nat
    /\ pc[d] \in {"out", "top", "peeked"} => StartsWith(handed + 1)
    /\ pc[d] = "peeked" =>
          /\ Len(ring) >= HeaderSize + hdr[d] /\ ring[1].len = hdr[d]
          /\ handed < stats["queued"]
    /\ pc[d] = "payload" =>
          /\ Len(ring) >= hdr[d] /\ hdr[d] >= 1
          /\ ring[1].msg = handed + 1 /\ ring[1].idx = 3 /\ ring[1].len = hdr[d]
          /\ handed < stats["queued"]
    /\ pc[d] = "send" =>
          /\ got[d] = handed + 1 /\ handed < stats["queued"]
          /\ StartsWith(handed + 2)

IInv(d) == TypeOK /\ Framed(ring) /\ Back /\ Front(d)

-----------------------------------------------------------------------------
(***************************************************************************)
(* Sequences of bytes: what a put and a get do to them.                    *)
(***************************************************************************)

\* What is left of a sequence when its first n elements are taken.
LEMMA DropFacts ==
    ASSUME NEW S, NEW s \in Seq(S), NEW n \in Nat, n <= Len(s)
    PROVE  LET t == SubSeq(s, n + 1, Len(s))
           IN  /\ t \in Seq(S) /\ Len(t) = Len(s) - n
               /\ \A i \in 1 .. Len(t) : t[i] = s[i + n]
  <1>1. CASE n = Len(s)
    <2>1. SubSeq(s, n + 1, Len(s)) = << >>
      BY <1>1, SubSeqEmpty
    <2> QED  BY <1>1, <2>1
  <1>2. CASE n < Len(s)
    <2>1. n + 1 \in 1 .. Len(s) + 1 /\ Len(s) \in n .. Len(s)
      BY <1>2
    <2> QED  BY <1>2, <2>1, SubSeqProperties
  <1> QED  BY <1>1, <1>2

\* e is the sequence of the bytes a..b of the entry of message m.
IsBytes(e, m, n, a, b) ==
    /\ e \in Seq(Byte) /\ Len(e) = b - a + 1
    /\ \A k \in 1 .. b - a + 1 :
          e[k].msg = m /\ e[k].len = n /\ e[k].idx = a + k - 1

LEMMA BytesFacts ==
    ASSUME NEW m \in Nat, NEW n \in Nat, NEW a \in Nat, NEW b \in Nat, a <= b + 1
    PROVE  IsBytes(Bytes(m, n, a, b), m, n, a, b)
  <1> DEFINE e(k) == [msg |-> m, idx |-> a + k - 1, len |-> n]
  <1>1. \A k \in 1 .. b - a + 1 : e(k) \in Byte
    BY DEF Byte
  <1>2. b - a + 1 \in Nat
    OBVIOUS
  <1>3. [k \in 1 .. b - a + 1 |-> e(k)] \in Seq(Byte)
    BY <1>1, <1>2
  <1> QED  BY <1>2, <1>3 DEF Bytes, IsBytes

\* A framed ring stays framed when bytes are taken from its front.
LEMMA FramedDrop ==
    ASSUME NEW s \in Seq(Byte), NEW n \in Nat, n <= Len(s), Framed(s)
    PROVE  Framed(SubSeq(s, n + 1, Len(s)))
  <1> DEFINE t == SubSeq(s, n + 1, Len(s))
  <1>1. Len(t) = Len(s) - n /\ \A i \in 1 .. Len(t) : t[i] = s[i + n]
    BY DropFacts
  <1> HIDE DEF t
  <1> SUFFICES Framed(t)
    BY DEF t
  <1>2. ASSUME NEW i \in 1 .. Len(t), NEW j \in i .. Len(t)
        PROVE  /\ t[i].len >= 1 /\ t[i].idx <= t[i].len + 2
               /\ t[i].idx + (j - i) <= t[i].len + 2 =>
                    /\ t[j].msg = t[i].msg /\ t[j].len = t[i].len
                    /\ t[j].idx = t[i].idx + (j - i)
               /\ t[i].idx + (j - i) = t[i].len + 3 =>
                    t[j].idx = 0 /\ t[j].msg = t[i].msg + 1
    <2> DEFINE p == i + n   q == j + n
    <2>1. p \in 1 .. Len(s) /\ q \in p .. Len(s) /\ q - p = j - i
      BY <1>1
    <2>2. t[i] = s[p] /\ t[j] = s[q]
      BY <1>1
    <2> QED  BY <2>1, <2>2 DEF Framed
  <1>3. \A i \in 1 .. Len(t) : i \in i .. Len(t)
    OBVIOUS
  <1> QED  BY <1>2, <1>3 DEF Framed

\* The byte before the end tells how far every entry in the ring reaches.
LEMMA FramedLast ==
    ASSUME NEW s \in Seq(Byte), Framed(s), NEW i \in 1 .. Len(s)
    PROVE  s[i].idx + (Len(s) - i) <= s[i].len + 2 =>
             /\ s[Len(s)].msg = s[i].msg /\ s[Len(s)].len = s[i].len
             /\ s[Len(s)].idx = s[i].idx + (Len(s) - i)
  <1>1. Len(s) \in i .. Len(s)
    OBVIOUS
  <1> QED  BY <1>1 DEF Framed

\* t is s followed by the bytes a..b of the entry of message m.
Appended(t, s, m, n, a, b) ==
    /\ t \in Seq(Byte) /\ Len(t) = Len(s) + (b - a + 1)
    /\ \A i \in 1 .. Len(s) : t[i] = s[i] /\ s[i] \in Byte
    /\ \A i \in Len(s) + 1 .. Len(t) :
          t[i].msg = m /\ t[i].len = n /\ t[i].idx = a + (i - Len(s)) - 1

LEMMA AppendFacts ==
    ASSUME NEW s \in Seq(Byte), NEW m \in Nat, NEW n \in Nat, NEW a \in Nat, NEW b \in Nat,
           a <= b + 1
    PROVE  Appended(s \o Bytes(m, n, a, b), s, m, n, a, b)
  <1> DEFINE e == Bytes(m, n, a, b)
  <1>0. IsBytes(e, m, n, a, b)
    BY BytesFacts
  <1> HIDE DEF e
  <1>1. e \in Seq(Byte)
    BY <1>0 DEF IsBytes
  <1>2. Len(e) = b - a + 1
    BY <1>0 DEF IsBytes
  <1>3. \A k \in 1 .. b - a + 1 : e[k].msg = m /\ e[k].len = n /\ e[k].idx = a + k - 1
    BY <1>0 DEF IsBytes
  <1> DEFINE t == s \o e
  <1>4. t \in Seq(Byte) /\ Len(t) = Len(s) + (b - a + 1)
    <2>1. t \in Seq(Byte)
      BY <1>1
    <2>2. Len(t) = Len(s) + Len(e)
      BY <1>1
    <2> QED  BY <1>2, <2>1, <2>2
  <1>5. \A i \in 1 .. Len(s) : t[i] = s[i] /\ s[i] \in Byte
    BY <1>1
  <1>6. ASSUME NEW i \in Len(s) + 1 .. Len(t)
        PROVE  t[i].msg = m /\ t[i].len = n /\ t[i].idx = a + (i - Len(s)) - 1
    <2> DEFINE k == i - Len(s)
    <2>1. k \in 1 .. b - a + 1
      BY <1>4
    <2>2. t[i] = e[k]
      BY <2>1, <1>1, <1>2
    <2> QED  BY <2>1, <2>2, <1>3
  <1> QED  BY <1>4, <1>5, <1>6 DEF e, Appended

\* A framed ring stays framed when bytes a..b of an entry are put, if its last
\* byte is the one before them: the end of the entry before (a = 0), or byte
\* a - 1 of the same entry.
LEMMA FramedAppend ==
    ASSUME NEW s \in Seq(Byte), NEW m \in Nat, NEW n \in Nat, NEW a \in Nat, NEW b \in Nat,
           a <= b + 1, n >= 1, b <= n + 2, Framed(s),
           Len(s) > 0 =>
             \/ a = 0 /\ s[Len(s)].msg + 1 = m /\ s[Len(s)].idx = s[Len(s)].len + 2
             \/ s[Len(s)].msg = m /\ s[Len(s)].idx + 1 = a /\ s[Len(s)].len = n,
           Len(s) = 0 => a = 0
    PROVE  Framed(s \o Bytes(m, n, a, b))
  <1> DEFINE t == s \o Bytes(m, n, a, b)
             L == Len(s)
  <1>6. Appended(t, s, m, n, a, b)
    BY AppendFacts
  <1> HIDE DEF t
  <1>1. /\ t \in Seq(Byte) /\ Len(t) = L + (b - a + 1)
        /\ \A i \in 1 .. L : t[i] = s[i] /\ s[i] \in Byte
        /\ \A i \in L + 1 .. Len(t) :
             t[i].msg = m /\ t[i].len = n /\ t[i].idx = a + (i - L) - 1
    BY <1>6 DEF Appended
  <1>2. L \in Nat /\ L = Len(s)
    OBVIOUS
  <1> HIDE DEF t, L
  <1>3. ASSUME NEW i \in 1 .. Len(t), NEW j \in i .. Len(t)
        PROVE  /\ t[i].len >= 1 /\ t[i].idx <= t[i].len + 2
               /\ t[i].idx + (j - i) <= t[i].len + 2 =>
                    /\ t[j].msg = t[i].msg /\ t[j].len = t[i].len
                    /\ t[j].idx = t[i].idx + (j - i)
               /\ t[i].idx + (j - i) = t[i].len + 3 =>
                    t[j].idx = 0 /\ t[j].msg = t[i].msg + 1
    <2>1. CASE j <= L
      <3>1. i \in 1 .. L /\ j \in i .. L /\ t[i] = s[i] /\ t[j] = s[j]
        BY <2>1, <1>1, <1>2
      <3> QED  BY <3>1, <1>2 DEF Framed
    <2>2. CASE i > L
      <3>1. i \in L + 1 .. Len(t) /\ j \in L + 1 .. Len(t)
        BY <2>2, <1>1, <1>2
      <3>2. /\ t[i].msg = m /\ t[i].len = n /\ t[i].idx = a + (i - L) - 1
            /\ t[j].msg = m /\ t[j].len = n /\ t[j].idx = a + (j - L) - 1
        BY <3>1, <1>1
      <3>3. i - L <= b - a + 1 /\ j - L <= b - a + 1
        <4>1. Len(t) = L + (b - a + 1) /\ L \in Nat
          BY <1>1, <1>2
        <4> QED  BY <3>1, <4>1
      <3>4. i \in Nat /\ j \in Nat /\ i <= j
        BY <3>1, <1>1, <1>2
      <3>5. /\ a + (i - L) - 1 <= n + 2 /\ a + (j - L) - 1 <= n + 2
            /\ a + (i - L) - 1 + (j - i) = a + (j - L) - 1
        BY <3>3, <3>4, <1>2
      <3> QED  BY <3>2, <3>5, <1>2
    <2>3. CASE i <= L /\ j > L
      <3>1. i \in 1 .. L /\ t[i] = s[i] /\ s[i] \in Byte /\ s[L] \in Byte /\ L > 0
        BY <2>3, <1>1, <1>2
      <3>2. s[i].len >= 1 /\ s[i].idx <= s[i].len + 2
        BY <3>1, <1>2 DEF Framed
      <3>3. s[i].idx + (L - i) <= s[i].len + 2 =>
               s[L].msg = s[i].msg /\ s[L].idx = s[i].idx + (L - i) /\ s[L].len = s[i].len
        BY <3>1, <1>2, FramedLast
      <3>4. s[i].idx \in Nat /\ s[i].len \in Nat /\ s[i].msg \in Nat
        BY <3>1 DEF Byte
      <3>5. j \in L + 1 .. Len(t) /\ j - L <= b - a + 1
        BY <2>3, <1>1, <1>2
      <3>6. t[j].msg = m /\ t[j].len = n /\ t[j].idx = a + (j - L) - 1
        BY <3>5, <1>1
      <3> DEFINE x == s[i].idx   y == s[i].len   z == s[i].msg
                 zx == s[L].idx  zy == s[L].len  zz == s[L].msg
      <3>7. x \in Nat /\ y \in Nat /\ z \in Nat /\ zx \in Nat /\ zy \in Nat /\ zz \in Nat
        BY <3>1, <3>4 DEF Byte
      <3>8. i \in Nat /\ j \in Nat /\ L \in Nat /\ i <= L /\ j >= L + 1 /\ j - L <= b - a + 1
        BY <3>1, <3>5, <1>2
      <3>9. x + (L - i) <= y + 2 => zz = z /\ zx = x + (L - i) /\ zy = y
        BY <3>3
      <3>10. \/ a = 0 /\ zz + 1 = m /\ zx = zy + 2
             \/ zz = m /\ zx + 1 = a /\ zy = n
        BY <3>1, <1>2
      <3>11. t[i].idx = x /\ t[i].len = y /\ t[i].msg = z /\ y >= 1 /\ x <= y + 2
        BY <3>1, <3>2
      <3> HIDE DEF x, y, z, zx, zy, zz
      <3>12. x + (j - i) <= y + 2 => z = m /\ y = n /\ x + (j - i) = a + (j - L) - 1
        BY <3>7, <3>8, <3>9, <3>10
      <3>13. x + (j - i) = y + 3 => a + (j - L) - 1 = 0 /\ m = z + 1
        BY <3>7, <3>8, <3>9, <3>10
      <3> QED  BY <3>6, <3>11, <3>12, <3>13
    <2> QED  BY <2>1, <2>2, <2>3, <1>1, <1>2
  <1>4. \A i \in 1 .. Len(t) : i \in i .. Len(t)
    BY <1>1, <1>2
  <1>5. Framed(t)
    BY <1>3, <1>4 DEF Framed
  <1> QED  BY <1>5 DEF t

\* A put for which there is space stores all of its bytes.
LEMMA PutWhole ==
    ASSUME ring \in Seq(Byte), NEW e \in Seq(Byte), Len(e) <= RingSize - Len(ring), Put(e)
    PROVE  ring' = ring \o e
  <1>1. Least(Len(e), Space) = Len(e)
    BY RingAssumption DEF Least, Space
  <1>2. SubSeq(e, 1, Len(e)) = e
    BY SubSeqFull
  <1> QED  BY <1>1, <1>2 DEF Put

\* A get of no more than what is there takes all of it.
LEMMA GetWhole ==
    ASSUME ring \in Seq(Byte), NEW n \in Nat, n <= Len(ring), Get(n)
    PROVE  /\ ring' = SubSeq(ring, n + 1, Len(ring)) /\ Least(n, Len(ring)) = n
           /\ ring' \in Seq(Byte) /\ Len(ring') = Len(ring) - n
           /\ \A i \in 1 .. Len(ring') : ring'[i] = ring[i + n]
  <1>1. Least(n, Len(ring)) = n
    BY DEF Least
  <1>2. ring' = SubSeq(ring, n + 1, Len(ring))
    BY <1>1 DEF Get
  <1> QED  BY <1>1, <1>2, DropFacts

-----------------------------------------------------------------------------
(***************************************************************************)
(* Type correctness.  It holds for any set of drainers.                    *)
(***************************************************************************)

\* A put leaves the ring a sequence of bytes that is no longer than the ring.
LEMMA PutType ==
    ASSUME ring \in Seq(Byte), Len(ring) <= RingSize, NEW e \in Seq(Byte), Put(e)
    PROVE  ring' \in Seq(Byte) /\ Len(ring') <= RingSize
  <1> DEFINE k == Least(Len(e), Space)
             p == SubSeq(e, 1, k)
  <1>1. k \in 0 .. Len(e) /\ k <= RingSize - Len(ring)
    BY RingAssumption DEF Least, Space
  <1>2. p \in Seq(Byte) /\ Len(p) = k
    BY <1>1
  <1>3. ring' = ring \o p
    BY DEF Put
  <1> HIDE DEF p, k
  <1>4. ring' \in Seq(Byte) /\ Len(ring') = Len(ring) + k
    BY <1>1, <1>2, <1>3, ConcatProperties
  <1> QED  BY <1>1, <1>4, RingAssumption

\* A get leaves a sequence of bytes that is no longer than before.
LEMMA GetType ==
    ASSUME ring \in Seq(Byte), NEW n \in Nat, Get(n)
    PROVE  ring' \in Seq(Byte) /\ Len(ring') <= Len(ring)
  <1> DEFINE k == Least(n, Len(ring))
  <1>1. k \in Nat /\ k <= Len(ring)
    BY DEF Least
  <1> HIDE DEF k
  <1>2. ring' = SubSeq(ring, k + 1, Len(ring))
    BY DEF Get, k
  <1> QED  BY <1>1, <1>2, DropFacts

LEMMA MsgPosType ==
    ASSUME NEW f \in FormattedLens
    PROVE  MsgPos(f) \in 0 .. BufSize - 1
  BY RingAssumption DEF MsgPos, Least

\* What a peek may decode from a ring is a length.
LEMMA DecodedType ==
    ASSUME ring \in Seq(Byte), Len(ring) >= HeaderSize
    PROVE  DecodedLens \subseteq Nat
  <1>1. ring[1] \in Byte
    BY DEF HeaderSize
  <1> QED  BY <1>1, RingAssumption DEF DecodedLens, Byte

\* The bytes process() puts.
LEMMA EntryBytes ==
    ASSUME TypeOK
    PROVE  /\ stats["queued"] \in Nat /\ cur \in Nat
           /\ IsBytes(Bytes(stats["queued"] + 1, cur, 0, 2), stats["queued"] + 1, cur, 0, 2)
           /\ IsBytes(Bytes(stats["queued"] + 1, cur, 3, cur + 2),
                      stats["queued"] + 1, cur, 3, cur + 2)
  <1>1. stats["queued"] \in Nat /\ cur \in Nat
    BY RingAssumption DEF TypeOK, Counters
  <1>2. IsBytes(Bytes(stats["queued"] + 1, cur, 0, 2), stats["queued"] + 1, cur, 0, 2)
    BY <1>1, BytesFacts
  <1>3. cur + 2 \in Nat /\ 3 <= (cur + 2) + 1
    BY <1>1
  <1>4. IsBytes(Bytes(stats["queued"] + 1, cur, 3, cur + 2),
                stats["queued"] + 1, cur, 3, cur + 2)
    BY <1>1, <1>3, BytesFacts
  <1> QED  BY <1>1, <1>2, <1>4

LEMMA TypeInit ==
    ASSUME Init
    PROVE  TypeOK
  BY RingAssumption DEF Init, TypeOK, None

LEMMA TypeNext ==
    ASSUME TypeOK, [Next]_vars
    PROVE  TypeOK'
  <1> USE DEF TypeOK
  <1>0. ring \in Seq(Byte) /\ Len(ring) <= RingSize
    BY DEF Byte
  <1>1. ASSUME NEW kind \in Kinds, Record(kind), NEW c \in Counters, Bail(c)
        PROVE  TypeOK'
    <2>1. complaints' \in Nat
      BY <1>1 DEF Record
    <2>2. stats' \in [Counters -> Nat]
      BY <1>1 DEF Bail
    <2> QED  BY <1>1, <2>1, <2>2 DEF Bail, drainVars
  <1>2. ASSUME NEW kind \in Kinds, BailInactive(kind) \/ BailNoFmt(kind)
        PROVE  TypeOK'
    <2>1. Record(kind) /\ \E c \in Counters : Bail(c)
      BY <1>2 DEF BailInactive, BailNoFmt, Counters
    <2> QED  BY <2>1, <1>1
  <1>14. ASSUME NEW kind \in Kinds, NEW f \in FormattedLens,
                BailSelf(kind, f) \/ BailZeroLen(kind, f)
         PROVE  TypeOK'
    <2>1. Record(kind) /\ \E c \in Counters : Bail(c)
      BY <1>14 DEF BailSelf, BailZeroLen, Counters
    <2> QED  BY <2>1, <1>1
  <1>3. CASE \E kind \in Kinds, f \in FormattedLens : Format(kind, f)
    <2>1. PICK kind \in Kinds, f \in FormattedLens : Format(kind, f)
      BY <1>3
    <2>2. cur' \in 0 .. BufSize - 1
      BY <2>1, MsgPosType DEF Format
    <2>3. complaints' \in Nat
      BY <2>1 DEF Format, Record
    <2> QED  BY <2>1, <2>2, <2>3 DEF Format, Counters, drainVars
  <1>4. CASE PutHeader
    <2>1. Bytes(stats["queued"] + 1, cur, 0, 2) \in Seq(Byte)
      BY EntryBytes DEF IsBytes
    <2>2. ring' \in Seq(Byte) /\ Len(ring') <= RingSize
      BY <1>0, <1>4, <2>1, PutType DEF PutHeader
    <2>3. /\ logger' = "header" /\ UNCHANGED drainVars
          /\ UNCHANGED <<active, textFormatter, complaints, cur, stats>>
      BY <1>4 DEF PutHeader
    <2> QED  BY <2>2, <2>3 DEF drainVars, Byte
  <1>5. CASE PutPayload
    <2>1. Bytes(stats["queued"] + 1, cur, 3, cur + 2) \in Seq(Byte)
      BY EntryBytes DEF IsBytes
    <2>2. ring' \in Seq(Byte) /\ Len(ring') <= RingSize
      BY <1>0, <1>5, <2>1, PutType DEF PutPayload
    <2>3. /\ stats' \in [Counters -> Nat] /\ logger' = "idle" /\ UNCHANGED drainVars
          /\ UNCHANGED <<active, textFormatter, complaints, cur>>
      BY <1>5 DEF PutPayload, Counters
    <2> QED  BY <2>2, <2>3 DEF drainVars, Byte
  <1>6. CASE RingFull
    BY <1>6 DEF RingFull, drainVars, Counters
  <1>7. CASE SetActive
    BY <1>7 DEF SetActive, loggerVars, drainVars
  <1>8. ASSUME NEW d \in Drainers, Enter(d) \/ Leave(d)
        PROVE  TypeOK'
    BY <1>8 DEF Enter, Leave, Goto, loggerVars
  <1>13. ASSUME NEW d \in Drainers, SendRaw(d)
         PROVE  TypeOK'
    <2>1. complaints' \in Nat /\ handed' \in Nat \cup {None}
      BY <1>13 DEF SendRaw
    <2> QED  BY <1>13, <2>1 DEF SendRaw, Goto, loggerVars
  <1>9. ASSUME NEW d \in Drainers, Peek(d)
        PROVE  TypeOK'
    <2>1. PICK n \in DecodedLens : hdr' = [hdr EXCEPT ![d] = n]
      BY <1>9 DEF Peek
    <2>2. n \in Nat
      BY <1>0, <1>9, DecodedType DEF Peek
    <2> QED  BY <1>9, <2>1, <2>2 DEF Peek, Goto, loggerVars
  <1>10. ASSUME NEW d \in Drainers, GetHeader(d)
         PROVE  TypeOK'
    <2>1. ring' \in Seq(Byte) /\ Len(ring') <= RingSize
      BY <1>0, <1>10, GetType, RingAssumption DEF GetHeader, HeaderSize
    <2> QED  BY <1>10, <2>1 DEF GetHeader, Goto, loggerVars, Byte
  <1>11. ASSUME NEW d \in Drainers, GetPayload(d)
         PROVE  TypeOK'
    <2>1. ring' \in Seq(Byte) /\ Len(ring') <= RingSize
      BY <1>0, <1>11, GetType, RingAssumption DEF GetPayload
    <2> DEFINE e == SubSeq(ring, 1, Least(hdr[d], Len(ring)))
    <2>2. e \in Seq(Byte)
      BY <1>0 DEF Least
    <2> HIDE DEF e
    <2>3. TextOf(e, hdr[d]) \in Nat \cup {None}
      <3>1. CASE TextOf(e, hdr[d]) = None
        BY <3>1
      <3>2. CASE TextOf(e, hdr[d]) # None
        <4>1. TextOf(e, hdr[d]) = e[1].msg /\ Len(e) = hdr[d] /\ hdr[d] > 0
          BY <3>2 DEF TextOf
        <4>2. e[1] \in Byte
          BY <2>2, <4>1
        <4> QED  BY <4>1, <4>2 DEF Byte
      <3> QED  BY <3>1, <3>2
    <2>4. got' \in [Drainers -> Nat \cup {None}]
      BY <1>11, <2>3 DEF GetPayload, e
    <2> QED  BY <1>11, <2>1, <2>4 DEF GetPayload, Goto, loggerVars, Byte
  <1>12. CASE UNCHANGED vars
    BY <1>12 DEF vars
  <1> QED
    BY <1>2, <1>3, <1>4, <1>5, <1>6, <1>7, <1>8, <1>9, <1>10, <1>11, <1>12, <1>13, <1>14
    DEF Next, Logger, FinishEntry, Drain

\* Every variable keeps its type, and the ring its size, whoever drains it.
THEOREM TypeCorrect == Spec => []TypeOK
  <1>1. Init => TypeOK
    BY TypeInit
  <1>2. TypeOK /\ [Next]_vars => TypeOK'
    BY TypeNext
  <1> QED  BY <1>1, <1>2, PTL DEF Spec

-----------------------------------------------------------------------------
(***************************************************************************)
(* The inductive invariant, for one drainer d.                             *)
(***************************************************************************)
LEMMA IInvInit ==
    ASSUME NEW d \in Drainers, Init
    PROVE  IInv(d)
  <1>1. TypeOK
    BY TypeInit
  <1>2. Len(ring) = 0 /\ logger = "idle" /\ stats["queued"] = 0 /\ pc[d] = "out" /\ handed = 0
    BY DEF Init, Counters
  <1>3. Framed(ring)
    BY <1>2 DEF Framed
  <1>4. Back /\ Front(d)
    BY <1>2 DEF Back, Front, StartsWith
  <1> QED  BY <1>1, <1>3, <1>4 DEF IInv

\* The logging thread puts the header of the next entry.
LEMMA IInvPutHeader ==
    ASSUME NEW d \in Drainers, IInv(d), PutHeader
    PROVE  Framed(ring)' /\ Back' /\ Front(d)'
  <1> DEFINE q == stats["queued"]
             e == Bytes(q + 1, cur, 0, 2)
  <1>1. /\ ring \in Seq(Byte) /\ Len(ring) \in Nat /\ q \in Nat /\ cur \in Nat
        /\ cur >= 1 /\ cur < BufSize /\ IsBytes(e, q + 1, cur, 0, 2)
    BY EntryBytes, RingAssumption DEF IInv, TypeOK, Byte, Back, PutHeader
  <1>2. Len(ring) + cur + 3 <= RingSize
    BY <1>1, RingAssumption DEF PutHeader, Space, Needed, HeaderSize
  <1>3. ring' = ring \o e
    <2> HIDE DEF e
    <2>1. e \in Seq(Byte) /\ Len(e) = 3
      BY <1>1 DEF IsBytes
    <2>2. Len(e) <= RingSize - Len(ring)
      BY <1>1, <1>2, <2>1, RingAssumption
    <2>3. Put(e)
      BY DEF PutHeader, e
    <2> QED  BY <1>1, <2>1, <2>2, <2>3, PutWhole
  <1>4. Appended(ring', ring, q + 1, cur, 0, 2)
    BY <1>1, <1>3, AppendFacts
  <1>5. Len(ring) > 0 => ring[Len(ring)].msg = q /\ ring[Len(ring)].idx = ring[Len(ring)].len + 2
    BY DEF IInv, Back, PutHeader
  <1>6. Framed(ring')
    <2>1. Framed(ring) /\ q + 1 \in Nat /\ 0 <= 2 + 1 /\ 2 <= cur + 2
      BY <1>1 DEF IInv
    <2>2. Framed(ring \o e)
      BY <1>1, <1>5, <2>1, FramedAppend
    <2> QED  BY <1>3, <2>2
  <1>7. stats' = stats /\ cur' = cur /\ logger' = "header" /\ logger = "formatted"
        /\ pc' = pc /\ hdr' = hdr /\ got' = got /\ handed' = handed
    BY DEF PutHeader, drainVars
  <1> HIDE DEF e
  <1>8. /\ Len(ring') = Len(ring) + 3
        /\ \A i \in 1 .. Len(ring) : ring'[i] = ring[i] /\ ring[i] \in Byte
        /\ \A i \in Len(ring) + 1 .. Len(ring) + 3 :
              ring'[i].msg = q + 1 /\ ring'[i].len = cur /\ ring'[i].idx = i - Len(ring) - 1
        /\ ring' \in Seq(Byte)
    BY <1>1, <1>4 DEF Appended
  <1>9. Back'
    <2>1. ring'[Len(ring')].msg = q + 1 /\ ring'[Len(ring')].idx = 2
          /\ ring'[Len(ring')].len = cur
      <3>1. Len(ring') \in Len(ring) + 1 .. Len(ring) + 3 /\ Len(ring') - Len(ring) - 1 = 2
        BY <1>1, <1>8
      <3>2. \A i \in Len(ring) + 1 .. Len(ring) + 3 :
              ring'[i].msg = q + 1 /\ ring'[i].len = cur /\ ring'[i].idx = i - Len(ring) - 1
        BY <1>8
      <3> QED  BY <3>1, <3>2
    <2>2. ASSUME NEW i \in 1 .. Len(ring')
          PROVE  /\ ring'[i].len < BufSize
                 /\ \/ ring'[i].msg <= q
                    \/ ring'[i].msg = q + 1 /\ ring'[i].idx <= 2
      <3>1. CASE i \in 1 .. Len(ring)
        BY <3>1, <1>7, <1>8 DEF IInv, Back
      <3>2. CASE i \in Len(ring) + 1 .. Len(ring) + 3
        BY <3>2, <1>1, <1>8
      <3>3. Len(ring') = Len(ring) + 3
        BY <1>8
      <3> QED  BY <3>1, <3>2, <3>3, <1>1
    <2>3. Len(ring') > 0 /\ Len(ring') + cur <= RingSize
      <3>1. Len(ring') = Len(ring) + 3
        BY <1>8
      <3> QED  BY <3>1, <1>1, <1>2
    <2> QED  BY <2>1, <2>2, <2>3, <1>1, <1>7 DEF Back
  <1>10. Front(d)'
    <2>1. Len(ring) > 0 => ring'[1] = ring[1]
      BY <1>1, <1>8
    <2>2. Len(ring) = 0 => ring'[1].msg = q + 1 /\ ring'[1].idx = 0
      BY <1>1, <1>8
    <2>3. Len(ring') >= Len(ring) /\ Len(ring') # 0
      BY <1>1, <1>8
    <2>4. ASSUME NEW m \in Nat, StartsWith(m)
          PROVE  ring'[1].msg = m /\ ring'[1].idx = 0
      BY <1>1, <2>1, <2>2, <2>4 DEF StartsWith
    <2>5. handed \in Nat /\ Front(d)
      BY DEF IInv, Front
    <2>6. ASSUME StartsWith(handed + 1) PROVE StartsWith(handed + 1)'
      <3>1. ring'[1].msg = handed + 1 /\ ring'[1].idx = 0
        BY <2>4, <2>5, <2>6
      <3> QED  BY <3>1, <2>3, <1>7 DEF StartsWith
    <2>7. ASSUME StartsWith(handed + 2) PROVE StartsWith(handed + 2)'
      <3>1. ring'[1].msg = handed + 2 /\ ring'[1].idx = 0
        BY <2>4, <2>5, <2>7
      <3> QED  BY <3>1, <2>3, <1>7 DEF StartsWith
    <2>8. hdr[d] \in Nat /\ Len(ring) \in Nat /\ Len(ring') \in Nat
      BY <1>1, <1>8 DEF IInv, TypeOK
    <2>9. Len(ring) >= HeaderSize + hdr[d] \/ (Len(ring) >= hdr[d] /\ hdr[d] >= 1)
            => ring'[1] = ring[1]
      BY <2>1, <2>8 DEF HeaderSize
    <2> HIDE DEF q
    <2> QED  BY <1>7, <2>3, <2>5, <2>6, <2>7, <2>8, <2>9 DEF Front, HeaderSize
  <1> QED  BY <1>6, <1>9, <1>10

\* The logging thread puts the text of that entry.
LEMMA IInvPutPayload ==
    ASSUME NEW d \in Drainers, IInv(d), PutPayload
    PROVE  Framed(ring)' /\ Back' /\ Front(d)'
  <1> DEFINE q == stats["queued"]
             e == Bytes(q + 1, cur, 3, cur + 2)
  <1>1. /\ ring \in Seq(Byte) /\ Len(ring) \in Nat /\ q \in Nat /\ cur \in Nat
        /\ cur >= 1 /\ cur < BufSize /\ IsBytes(e, q + 1, cur, 3, cur + 2)
    <2>1. q \in Nat /\ cur \in Nat /\ IsBytes(e, q + 1, cur, 3, cur + 2)
      BY EntryBytes DEF IInv
    <2>2. ring \in Seq(Byte)
      BY DEF IInv, TypeOK, Byte
    <2>3. cur >= 1
      BY DEF IInv, Back, PutPayload
    <2>4. cur < BufSize
      <3>1. cur \in 0 .. BufSize - 1
        BY DEF IInv, TypeOK
      <3> QED  BY <3>1, RingAssumption
    <2> HIDE DEF e
    <2> QED  BY <2>1, <2>2, <2>3, <2>4
  <1>2. /\ Len(ring) > 0 /\ Len(ring) + cur <= RingSize
        /\ ring[Len(ring)].msg = q + 1
        /\ ring[Len(ring)].idx = 2 /\ ring[Len(ring)].len = cur
    BY DEF IInv, Back, PutPayload
  <1>3. ring' = ring \o e
    <2> HIDE DEF e
    <2>1. e \in Seq(Byte) /\ Len(e) = cur
      BY <1>1 DEF IsBytes
    <2>2. Len(e) <= RingSize - Len(ring)
      BY <1>1, <1>2, <2>1, RingAssumption
    <2>3. Put(e)
      BY DEF PutPayload, e
    <2> QED  BY <1>1, <2>1, <2>2, <2>3, PutWhole
  <1>4. cur + 2 \in Nat /\ 3 <= (cur + 2) + 1 /\ q + 1 \in Nat
    BY <1>1
  <1>5. Appended(ring', ring, q + 1, cur, 3, cur + 2)
    BY <1>1, <1>3, <1>4, AppendFacts
  <1>6. Framed(ring')
    <2>1. Framed(ring) /\ cur + 2 <= cur + 2
      BY <1>1 DEF IInv
    <2>2. /\ q + 1 \in Nat /\ 3 \in Nat /\ cur + 2 \in Nat /\ 3 <= (cur + 2) + 1
          /\ cur \in Nat /\ cur >= 1 /\ ring \in Seq(Byte)
          /\ Len(ring) # 0
          /\ ring[Len(ring)].msg = q + 1 /\ ring[Len(ring)].idx + 1 = 3
          /\ ring[Len(ring)].len = cur
      BY <1>1, <1>2, <1>4
    <2>3. Framed(ring \o e)
      BY <2>1, <2>2, FramedAppend
    <2> QED  BY <1>3, <2>3
  <1>7. /\ stats'["queued"] = q + 1 /\ logger' = "idle" /\ logger = "header"
        /\ pc' = pc /\ hdr' = hdr /\ got' = got /\ handed' = handed
    BY DEF PutPayload, drainVars, IInv, TypeOK, Counters
  <1> HIDE DEF e
  <1>8. /\ Len(ring') = Len(ring) + cur
        /\ \A i \in 1 .. Len(ring) : ring'[i] = ring[i] /\ ring[i] \in Byte
        /\ \A i \in Len(ring) + 1 .. Len(ring) + cur :
              ring'[i].msg = q + 1 /\ ring'[i].len = cur /\ ring'[i].idx = i - Len(ring) + 2
    BY <1>1, <1>5 DEF Appended
  <1>9. Back'
    <2>1. ring'[Len(ring')].msg = q + 1 /\ ring'[Len(ring')].idx = ring'[Len(ring')].len + 2
      <3>1. Len(ring') \in Len(ring) + 1 .. Len(ring) + cur
        BY <1>1, <1>8
      <3> QED  BY <1>1, <1>8, <3>1
    <2>2. ASSUME NEW i \in 1 .. Len(ring')
          PROVE  ring'[i].len < BufSize /\ ring'[i].msg <= q + 1
      <3>1. CASE i \in 1 .. Len(ring)
        <4>1. ring[i].msg \in Nat
          BY <3>1, <1>8 DEF Byte
        <4>2. ring[i].len < BufSize /\ (ring[i].msg <= q \/ ring[i].msg = q + 1)
          BY <3>1 DEF IInv, Back
        <4> QED  BY <3>1, <4>1, <4>2, <1>1, <1>8
      <3>2. CASE i \in Len(ring) + 1 .. Len(ring) + cur
        BY <3>2, <1>1, <1>8
      <3> QED  BY <3>1, <3>2, <1>1, <1>8
    <2> QED  BY <2>1, <2>2, <1>7 DEF Back
  <1>10. Front(d)'
    <2>1. ring'[1] = ring[1] /\ Len(ring') >= Len(ring) /\ Len(ring') # 0
      BY <1>1, <1>2, <1>8
    <2>2. \A m \in Nat : StartsWith(m) => StartsWith(m)'
      BY <2>1, <1>1, <1>2 DEF StartsWith
    <2>3. handed \in Nat /\ Front(d) /\ hdr[d] \in Nat
      BY DEF IInv, Front, TypeOK
    <2> QED  BY <1>1, <1>7, <2>1, <2>2, <2>3 DEF Front, HeaderSize
  <1> QED  BY <1>6, <1>9, <1>10

\* Where the front of the ring is, the whole of the entry there is known.
LEMMA FrontEntry ==
    ASSUME NEW d \in Drainers, IInv(d), NEW n \in Nat, Len(ring) > 0, ring[1].len = n
    PROVE  /\ n >= 1 /\ n < BufSize /\ ring[1] \in Byte
           /\ \A k \in 1 .. Len(ring) :
                /\ ring[1].idx + (k - 1) <= n + 2 =>
                     /\ ring[k].msg = ring[1].msg /\ ring[k].len = n
                     /\ ring[k].idx = ring[1].idx + (k - 1)
                /\ ring[1].idx + (k - 1) = n + 3 =>
                     ring[k].idx = 0 /\ ring[k].msg = ring[1].msg + 1
  <1>1. ring \in Seq(Byte) /\ Framed(ring)
    BY DEF IInv, TypeOK, Byte
  <1>2. 1 \in 1 .. Len(ring) /\ ring[1] \in Byte
    BY <1>1
  <1>3. n < BufSize
    BY <1>2 DEF IInv, Back
  <1> QED  BY <1>1, <1>2, <1>3 DEF Framed

\* The drainer sees a whole entry in front of it.
LEMMA IInvPeek ==
    ASSUME NEW d \in Drainers, IInv(d), Peek(d)
    PROVE  Framed(ring)' /\ Back' /\ Front(d)'
  <1>1. /\ ring' = ring /\ logger' = logger /\ cur' = cur /\ stats' = stats
        /\ got' = got /\ handed' = handed
        /\ pc[d] = "top" /\ pc'[d] = "peeked" /\ Len(ring) >= 3 /\ handed \in Nat
    BY DEF Peek, loggerVars, Goto, At, HeaderSize, IInv, TypeOK, Front
  <1>2. Framed(ring)' /\ Back'
    BY <1>1 DEF IInv, Back
  <1>3. ring[1].msg = handed + 1 /\ ring[1].idx = 0 /\ ring \in Seq(Byte)
    BY <1>1 DEF IInv, Front, StartsWith, TypeOK, Byte
  <1> DEFINE n == ring[1].len
  <1>4. n \in Nat /\ ring[1] \in Byte
    <2>1. ring[1] \in Byte
      BY <1>1, <1>3
    <2> QED  BY <2>1 DEF Byte
  <1>5. n >= 1 /\ \A k \in 1 .. Len(ring) : k - 1 <= n + 2 =>
          ring[k].msg = handed + 1 /\ ring[k].len = n /\ ring[k].idx = k - 1
    BY <1>1, <1>3, <1>4, FrontEntry
  <1>6. DecodedLens = {n}
    <2>1. ASSUME NEW k \in 1 .. 3
          PROVE  ring[k] = [ring[1] EXCEPT !.idx = k - 1]
      <3>1. ring[k].msg = handed + 1 /\ ring[k].len = n /\ ring[k].idx = k - 1
        BY <1>1, <1>4, <1>5
      <3>2. ring[k] \in Byte
        BY <1>1, <1>3
      <3> QED  BY <3>1, <3>2, <1>3, <1>4 DEF Byte
    <2> QED  BY <2>1 DEF DecodedLens, HeaderInFront
  <1>7. hdr'[d] = n /\ Len(ring) >= 3 + n
    BY <1>6 DEF Peek, HeaderSize, IInv, TypeOK
  <1>8. handed < stats["queued"]
    <2> DEFINE z == n + 3
    <2>1. z \in 1 .. Len(ring) /\ ring[z].msg = handed + 1 /\ ring[z].idx = n + 2
      BY <1>1, <1>4, <1>5, <1>7
    <2>2. stats["queued"] \in Nat
      BY EntryBytes DEF IInv
    <2>3. ring[z].msg <= stats["queued"]
      BY <2>1, <1>4, <1>5 DEF IInv, Back
    <2> QED  BY <1>1, <2>1, <2>2, <2>3
  <1>9. Front(d)'
    BY <1>1, <1>3, <1>7, <1>8 DEF Front, StartsWith, HeaderSize
  <1> QED  BY <1>2, <1>9

\* What is left of the ring after a get from its front agrees with the logging
\* thread as before, if anything is left.
LEMMA BackAfterGet ==
    ASSUME NEW d \in Drainers, IInv(d), NEW n \in Nat, n <= Len(ring), Get(n),
           UNCHANGED loggerVars, n < Len(ring) \/ logger # "header"
    PROVE  /\ Framed(ring)' /\ Back'
           /\ Len(ring') = Len(ring) - n /\ \A i \in 1 .. Len(ring') : ring'[i] = ring[i + n]
  <1>1. ring \in Seq(Byte) /\ Framed(ring) /\ Len(ring) \in Nat
    BY DEF IInv, TypeOK, Byte
  <1>2. /\ ring' = SubSeq(ring, n + 1, Len(ring)) /\ Len(ring') = Len(ring) - n
        /\ \A i \in 1 .. Len(ring') : ring'[i] = ring[i + n]
    BY <1>1, GetWhole
  <1>3. Framed(ring')
    BY <1>1, <1>2, FramedDrop
  <1>4. logger' = logger /\ cur' = cur /\ stats' = stats
    BY DEF loggerVars
  <1>5. Len(ring') > 0 => ring'[Len(ring')] = ring[Len(ring)]
    <2>1. Len(ring') + n = Len(ring) /\ Len(ring') \in Nat
      BY <1>1, <1>2
    <2>2. Len(ring') > 0 => Len(ring') \in 1 .. Len(ring')
      BY <2>1
    <2> QED  BY <2>1, <2>2, <1>2
  <1>6. ASSUME NEW i \in 1 .. Len(ring')
        PROVE  i + n \in 1 .. Len(ring) /\ ring'[i] = ring[i + n]
    BY <1>1, <1>2
  <1>7. Back'
    <2>1. logger = "header" => Len(ring') > 0 /\ Len(ring') + cur <= RingSize
      <3>1. SUFFICES ASSUME logger = "header"
                     PROVE  Len(ring') > 0 /\ Len(ring') + cur <= RingSize
        OBVIOUS
      <3>2. Len(ring) + cur <= RingSize /\ cur \in Nat
        BY <3>1, EntryBytes DEF IInv, Back
      <3> QED  BY <3>1, <3>2, <1>1, <1>2, RingAssumption
    <2>2. Len(ring') > 0 => Len(ring) > 0
      BY <1>1, <1>2
    <2> QED  BY <1>4, <1>5, <1>6, <2>1, <2>2 DEF IInv, Back
  <1> QED  BY <1>2, <1>3, <1>7

LEMMA IInvGetHeader ==
    ASSUME NEW d \in Drainers, IInv(d), GetHeader(d)
    PROVE  Framed(ring)' /\ Back' /\ Front(d)'
  <1> DEFINE n == hdr[d]
  <1>1. /\ UNCHANGED loggerVars /\ Get(3) /\ hdr' = hdr /\ handed' = handed /\ got' = got
        /\ pc[d] = "peeked" /\ pc'[d] = "payload" /\ handed \in Nat /\ n \in Nat
    BY DEF GetHeader, Goto, At, HeaderSize, IInv, TypeOK, Front
  <1>2. /\ Len(ring) >= 3 + n /\ Len(ring) > 0 /\ Len(ring) \in Nat
        /\ ring[1].msg = handed + 1 /\ ring[1].idx = 0 /\ ring[1].len = n
        /\ handed < stats["queued"]
    <2>1. Front(d) /\ ring \in Seq(Byte)
      BY DEF IInv, TypeOK, Byte
    <2> QED  BY <1>1, <2>1 DEF Front, StartsWith, HeaderSize
  <1>3. n >= 1 /\ 4 \in 1 .. Len(ring)
        /\ ring[4].msg = handed + 1 /\ ring[4].idx = 3 /\ ring[4].len = n
    BY <1>1, <1>2, FrontEntry
  <1>4. /\ Framed(ring)' /\ Back' /\ Len(ring') = Len(ring) - 3
        /\ \A i \in 1 .. Len(ring') : ring'[i] = ring[i + 3]
    BY <1>1, <1>2, <1>3, BackAfterGet
  <1>5. ring'[1] = ring[4] /\ Len(ring') >= n
    BY <1>1, <1>2, <1>3, <1>4
  <1>6. stats' = stats
    BY <1>1 DEF loggerVars
  <1> HIDE DEF n
  <1>7. Front(d)'
    BY <1>1, <1>2, <1>3, <1>5, <1>6 DEF Front, n
  <1> QED  BY <1>4, <1>7

\* The text that is read is the text of the entry: TextOf finds it whole.
LEMMA WholeText ==
    ASSUME NEW d \in Drainers, IInv(d), pc[d] = "payload"
    PROVE  LET n == hdr[d]
           IN  /\ n >= 1 /\ n <= Len(ring) /\ Least(n, Len(ring)) = n
               /\ TextOf(SubSeq(ring, 1, n), n) = handed + 1
  <1> DEFINE n == hdr[d]
             e == SubSeq(ring, 1, n)
  <1>1. /\ ring \in Seq(Byte) /\ n \in Nat /\ handed \in Nat
        /\ Len(ring) >= n /\ n >= 1 /\ Len(ring) \in Nat
        /\ ring[1].msg = handed + 1 /\ ring[1].idx = 3 /\ ring[1].len = n
    BY DEF IInv, TypeOK, Front, Byte
  <1> HIDE DEF n
  <1>2. /\ n < BufSize
        /\ \A k \in 1 .. n : ring[k].msg = handed + 1 /\ ring[k].idx = k + 2 /\ ring[k].len = n
    BY <1>1, FrontEntry
  <1>3. e \in Seq(Byte) /\ Len(e) = n /\ \A k \in 1 .. n : e[k] = ring[k]
    BY <1>1
  <1> HIDE DEF e
  <1>4. e[1].msg = handed + 1
    BY <1>1, <1>2, <1>3
  <1> DEFINE b == Bytes(handed + 1, n, 3, n + 2)
  <1>5. IsBytes(b, handed + 1, n, 3, n + 2)
    <2>1. n + 2 \in Nat /\ 3 <= (n + 2) + 1 /\ handed + 1 \in Nat
      BY <1>1
    <2> QED  BY <1>1, <2>1, BytesFacts
  <1> HIDE DEF b
  <1>6. b \in Seq(Byte) /\ Len(b) = n
        /\ \A k \in 1 .. n : b[k].msg = handed + 1 /\ b[k].idx = k + 2 /\ b[k].len = n
    BY <1>1, <1>5 DEF IsBytes
  <1>7. \A k \in 1 .. n : e[k] = b[k]
    <2>1. SUFFICES ASSUME NEW k \in 1 .. n PROVE e[k] = b[k]
      OBVIOUS
    <2>2. e[k] \in Byte /\ b[k] \in Byte
      BY <1>1, <1>3, <1>6
    <2>3. e[k].msg = b[k].msg /\ e[k].idx = b[k].idx /\ e[k].len = b[k].len
      BY <1>2, <1>3, <1>6
    <2> QED  BY <2>2, <2>3 DEF Byte
  <1>8. e = b
    BY <1>1, <1>3, <1>6, <1>7
  <1>9. TextOf(e, n) = handed + 1
    <2>1. e = Bytes(e[1].msg, n, 3, n + 2)
      BY <1>4, <1>8 DEF b
    <2>2. n > 0 /\ n <= BufSize
      BY <1>1, <1>2, RingAssumption
    <2> QED  BY <1>3, <1>4, <2>1, <2>2 DEF TextOf
  <1> QED  BY <1>1, <1>9 DEF Least, n, e

LEMMA IInvGetPayload ==
    ASSUME NEW d \in Drainers, IInv(d), GetPayload(d)
    PROVE  Framed(ring)' /\ Back' /\ Front(d)'
  <1> DEFINE n == hdr[d]
  <1>1. /\ UNCHANGED loggerVars /\ Get(n) /\ handed' = handed
        /\ pc[d] = "payload" /\ pc'[d] = "send" /\ handed \in Nat /\ n \in Nat
        /\ stats["queued"] \in Nat
    <2>1. UNCHANGED loggerVars /\ Get(n) /\ handed' = handed /\ pc[d] = "payload"
      BY DEF GetPayload, At
    <2>2. pc'[d] = "send"
      BY DEF GetPayload, Goto, IInv, TypeOK
    <2>3. handed \in Nat /\ n \in Nat
      BY DEF IInv, TypeOK, Front
    <2>4. stats["queued"] \in Nat
      BY EntryBytes DEF IInv
    <2> QED  BY <2>1, <2>2, <2>3, <2>4
  <1>2. n >= 1 /\ n <= Len(ring) /\ got'[d] = handed + 1
    BY <1>1, WholeText DEF GetPayload, IInv, TypeOK
  <1>3. /\ ring[1].msg = handed + 1 /\ ring[1].idx = 3 /\ ring[1].len = n
        /\ handed < stats["queued"] /\ Len(ring) \in Nat
    BY <1>1 DEF Front, IInv, TypeOK, Byte
  <1> HIDE DEF n
  <1>4. /\ ring[n].msg = handed + 1 /\ ring[n].idx = n + 2 /\ ring[n].len = n
        /\ n < Len(ring) => ring[n + 1].idx = 0 /\ ring[n + 1].msg = handed + 2
    BY <1>1, <1>2, <1>3, FrontEntry
  <1>5. Len(ring) = n => logger # "header" /\ stats["queued"] = handed + 1
    BY <1>1, <1>2, <1>3, <1>4 DEF IInv, Back
  <1>6. /\ Framed(ring)' /\ Back' /\ Len(ring') = Len(ring) - n
        /\ \A i \in 1 .. Len(ring') : ring'[i] = ring[i + n]
    <2>1. n < Len(ring) \/ logger # "header"
      BY <1>1, <1>2, <1>3, <1>5
    <2> QED  BY <1>1, <1>2, <2>1, BackAfterGet
  <1>7. StartsWith(handed + 2)'
    <2>1. CASE n < Len(ring)
      <3>1. Len(ring') # 0 /\ ring'[1] = ring[n + 1]
        <4>1. Len(ring') = Len(ring) - n /\ \A i \in 1 .. Len(ring') : ring'[i] = ring[i + n]
          BY <1>6
        <4>2. Len(ring') >= 1 /\ Len(ring') \in Nat
          BY <4>1, <2>1, <1>1, <1>3
        <4> QED  BY <4>1, <4>2, <1>1
      <3> QED  BY <3>1, <2>1, <1>1, <1>4 DEF StartsWith
    <2>2. CASE n = Len(ring)
      <3>1. Len(ring') = 0 /\ logger' # "header" /\ stats'["queued"] + 1 = handed + 2
        BY <2>2, <1>1, <1>3, <1>5, <1>6 DEF loggerVars
      <3> QED  BY <3>1, <1>1 DEF StartsWith
    <2> QED  BY <2>1, <2>2, <1>1, <1>2, <1>3
  <1>8. Front(d)'
    BY <1>1, <1>2, <1>3, <1>7 DEF Front, loggerVars
  <1> QED  BY <1>6, <1>8

LEMMA IInvSendRaw ==
    ASSUME NEW d \in Drainers, IInv(d), SendRaw(d)
    PROVE  Framed(ring)' /\ Back' /\ Front(d)' /\ handed' = handed + 1 /\ handed < stats["queued"]
  <1>1. /\ ring' = ring /\ logger' = logger /\ cur' = cur /\ stats' = stats
        /\ pc[d] = "send" /\ pc'[d] = "top" /\ handed' = got[d] /\ handed \in Nat
    BY DEF SendRaw, loggerVars, Goto, At, IInv, TypeOK, Front
  <1>2. got[d] = handed + 1 /\ handed < stats["queued"] /\ StartsWith(handed + 2)
    BY <1>1 DEF IInv, Front
  <1>3. StartsWith(handed + 1)'
    <2>1. handed' + 1 = handed + 2
      BY <1>1, <1>2
    <2> QED  BY <1>1, <1>2, <2>1 DEF StartsWith
  <1>4. Framed(ring)' /\ Back'
    BY <1>1 DEF IInv, Back
  <1>5. Front(d)'
    BY <1>1, <1>2, <1>3 DEF Front
  <1> QED  BY <1>1, <1>2, <1>4, <1>5

\* Every other step leaves the ring alone.
LEMMA IInvOther ==
    ASSUME NEW d \in Drainers, IInv(d), ring' = ring, stats'["queued"] = stats["queued"],
           \/ UNCHANGED <<logger, cur>>
           \/ logger = "idle" /\ logger' = "formatted" /\ cur' >= 1
           \/ logger = "formatted" /\ logger' = "idle",
           UNCHANGED <<hdr, got, handed>>,
           \/ UNCHANGED pc
           \/ pc[d] \in {"out", "top"} /\ pc'[d] \in {"out", "top"}
    PROVE  Framed(ring)' /\ Back' /\ Front(d)'
  <1>1. Framed(ring)' /\ Back'
    BY DEF IInv, Back
  <1>2. \A m \in Nat : StartsWith(m) => StartsWith(m)'
    BY DEF StartsWith
  <1>3. handed \in Nat /\ Front(d)
    BY DEF IInv, Front
  <1> QED  BY <1>1, <1>2, <1>3 DEF Front

LEMMA IInvNext ==
    ASSUME NEW d, Drainers = {d}, IInv(d), [Next]_vars
    PROVE  IInv(d)'
  <1>1. TypeOK /\ TypeOK' /\ d \in Drainers
    BY TypeNext DEF IInv
  <1> SUFFICES Framed(ring)' /\ Back' /\ Front(d)'
    BY <1>1 DEF IInv
  <1>2. ASSUME NEW c \in {"bail_inactive", "bail_self", "bail_no_fmt", "bail_zero_len"}, Bail(c)
        PROVE  Framed(ring)' /\ Back' /\ Front(d)'
    <2>1. stats'["queued"] = stats["queued"]
      BY <1>2 DEF Bail, Counters
    <2> QED  BY <1>1, <1>2, <2>1, IInvOther DEF Bail, drainVars
  <1>3. CASE \E kind \in Kinds : BailInactive(kind) \/ BailNoFmt(kind)
    BY <1>2, <1>3 DEF BailInactive, BailNoFmt
  <1>4. CASE \E kind \in Kinds, f \in FormattedLens : BailSelf(kind, f) \/ BailZeroLen(kind, f)
    BY <1>2, <1>4 DEF BailSelf, BailZeroLen
  <1>5. CASE \E kind \in Kinds, f \in FormattedLens : Format(kind, f)
    <2>1. PICK kind \in Kinds, f \in FormattedLens : Format(kind, f)
      BY <1>5
    <2>2. stats'["queued"] = stats["queued"]
      BY <1>1, <2>1 DEF Format, TypeOK, Counters
    <2>3. cur' >= 1
      BY <2>1, MsgPosType DEF Format
    <2> QED  BY <1>1, <2>1, <2>2, <2>3, IInvOther DEF Format, Record, drainVars
  <1>6. CASE PutHeader
    BY <1>1, <1>6, IInvPutHeader
  <1>7. CASE PutPayload
    BY <1>1, <1>7, IInvPutPayload
  <1>8. CASE RingFull
    <2>1. stats'["queued"] = stats["queued"]
      BY <1>1, <1>8 DEF RingFull, TypeOK, Counters
    <2> QED  BY <1>1, <1>8, <2>1, IInvOther DEF RingFull, drainVars
  <1>9. CASE SetActive \/ UNCHANGED vars
    BY <1>1, <1>9, IInvOther DEF SetActive, vars, loggerVars, drainVars
  <1>10. CASE Enter(d) \/ Leave(d)
    <2>1. pc[d] \in {"out", "top"} /\ pc'[d] \in {"out", "top"}
      BY <1>1, <1>10 DEF Enter, Leave, At, Goto, TypeOK
    <2> QED  BY <1>1, <1>10, <2>1, IInvOther DEF Enter, Leave, loggerVars
  <1>11. CASE Peek(d)
    BY <1>1, <1>11, IInvPeek
  <1>12. CASE GetHeader(d)
    BY <1>1, <1>12, IInvGetHeader
  <1>13. CASE GetPayload(d)
    BY <1>1, <1>13, IInvGetPayload
  <1>14. CASE SendRaw(d)
    BY <1>1, <1>14, IInvSendRaw
  <1> QED
    BY <1>3, <1>4, <1>5, <1>6, <1>7, <1>8, <1>9, <1>10, <1>11, <1>12, <1>13, <1>14
    DEF Next, Logger, FinishEntry, Drain

THEOREM Inductive ==
    ASSUME NEW d, Drainers = {d}
    PROVE  Spec => []IInv(d)
  <1>1. Init => IInv(d)
    BY IInvInit
  <1>2. IInv(d) /\ [Next]_vars => IInv(d)'
    BY IInvNext
  <1> QED  BY <1>1, <1>2, PTL DEF Spec

\* With one drainer nothing but whole texts is ever sent, for every size of
\* the ring and of the buffers.
THEOREM OneDrainerWholeEntries ==
    ASSUME NEW d, Drainers = {d}
    PROVE  Spec => []WholeEntries
  <1>1. IInv(d) => WholeEntries
    BY DEF IInv, Front, WholeEntries, At, None
  <1> QED  BY <1>1, Inductive, PTL

\* The text of an entry whose header was put always finds its space.
THEOREM OneDrainerRoomForText ==
    ASSUME NEW d, Drainers = {d}
    PROVE  Spec => []RoomForText
  <1>1. IInv(d) => RoomForText
    BY EntryBytes, RingAssumption DEF IInv, Back, RoomForText, Space, TypeOK, Byte
  <1> QED  BY <1>1, Inductive, PTL

\* With one drainer the ring implements the pipe: order, no loss, no repetition.
THEOREM OneDrainerIsPipe ==
    ASSUME NEW d, Drainers = {d}
    PROVE  Spec => PipeSpec
  <1>1. Init => Pipe!Init
    BY DEF Init, Pipe!Init, Counters
  <1>2. IInv(d) /\ [Next]_vars => [Pipe!Next]_(Pipe!vars)
    <2> SUFFICES ASSUME IInv(d), [Next]_vars
                 PROVE  Pipe!Next \/ UNCHANGED Pipe!vars
      OBVIOUS
    <2> USE DEF Pipe!vars
    <2>1. TypeOK /\ d \in Drainers
      BY DEF IInv
    <2>2. CASE PutPayload
      BY <2>1, <2>2 DEF PutPayload, drainVars, TypeOK, Counters, Pipe!Next, Pipe!Accept
    <2>3. CASE SendRaw(d)
      <3>1. handed' = handed + 1 /\ handed < stats["queued"]
        BY <2>1, <2>3, IInvSendRaw
      <3> QED  BY <3>1, <2>3 DEF SendRaw, loggerVars, Pipe!Next, Pipe!Deliver
    <2>4. CASE \E c \in {"bail_inactive", "bail_self", "bail_no_fmt", "bail_zero_len"} : Bail(c)
      BY <2>4 DEF Bail, drainVars, Counters
    <2>5. CASE \E kind \in Kinds, f \in FormattedLens : Format(kind, f)
      BY <2>1, <2>5 DEF Format, drainVars, TypeOK, Counters
    <2>6. CASE PutHeader \/ SetActive \/ UNCHANGED vars
      BY <2>6 DEF PutHeader, SetActive, vars, drainVars, loggerVars
    <2>7. CASE RingFull
      BY <2>1, <2>7 DEF RingFull, drainVars, TypeOK, Counters
    <2>8. CASE Enter(d) \/ Peek(d) \/ Leave(d) \/ GetHeader(d) \/ GetPayload(d)
      BY <2>8 DEF Enter, Peek, Leave, GetHeader, GetPayload, loggerVars
    <2>9. CASE \E kind \in Kinds : BailInactive(kind) \/ BailNoFmt(kind)
      BY <2>4, <2>9 DEF BailInactive, BailNoFmt
    <2>10. CASE \E kind \in Kinds, f \in FormattedLens : BailSelf(kind, f) \/ BailZeroLen(kind, f)
      BY <2>4, <2>10 DEF BailSelf, BailZeroLen
    <2> QED
      BY <2>2, <2>3, <2>5, <2>6, <2>7, <2>8, <2>9, <2>10
      DEF Next, Logger, FinishEntry, Drain
  <1> QED  BY <1>1, <1>2, Inductive, PTL DEF Spec, PipeSpec, Pipe!Spec
=============================================================================
