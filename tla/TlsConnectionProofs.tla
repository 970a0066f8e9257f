------------------------ MODULE TlsConnectionProofs -------------------------
(***************************************************************************)
(* Proofs about TlsConnection, for every number of records, writes and     *)
(* pieces: what is sent and what is received is in order and complete, and *)
(* the receiving side implements TlsStream.                                *)
(***************************************************************************)
EXTENDS TlsConnection, SequenceTheorems, TLAPS

USE TlsAssumption

-----------------------------------------------------------------------------
(* Sequences.                                                              *)

(* A sequence cut after k elements, as packets and frames cut it.          *)
LEMMA Cut ==
    ASSUME NEW S, NEW s \in Seq(S), NEW k \in 0..Len(s)
    PROVE  /\ SubSeq(s, 1, k) \in Seq(S) /\ Len(SubSeq(s, 1, k)) = k
           /\ \A i \in 1..k : SubSeq(s, 1, k)[i] = s[i]
           /\ SubSeq(s, k + 1, Len(s)) \in Seq(S)
           /\ Len(SubSeq(s, k + 1, Len(s))) = Len(s) - k
           /\ \A i \in 1..(Len(s) - k) : SubSeq(s, k + 1, Len(s))[i] = s[k + i]
           /\ SubSeq(s, 1, k) \o SubSeq(s, k + 1, Len(s)) = s
<1>1. Len(s) \in Nat /\ k \in Nat /\ k <= Len(s) /\ \A i \in 1..Len(s) : s[i] \in S
    BY LenProperties, ElementOfSeq
<1>2. /\ SubSeq(s, 1, k) \in Seq(S) /\ Len(SubSeq(s, 1, k)) = k
      /\ \A i \in 1..k : SubSeq(s, 1, k)[i] = s[i]
    BY <1>1, SubSeqProperties
<1>3. /\ SubSeq(s, k + 1, Len(s)) \in Seq(S)
      /\ Len(SubSeq(s, k + 1, Len(s))) = Len(s) - k
      /\ \A i \in 1..(Len(s) - k) : SubSeq(s, k + 1, Len(s))[i] = s[k + i]
    <2>1. \A i \in (k + 1)..Len(s) : s[i] \in S
        BY <1>1
    <2>2. /\ SubSeq(s, k + 1, Len(s)) \in Seq(S)
          /\ Len(SubSeq(s, k + 1, Len(s))) = IF k + 1 <= Len(s) THEN Len(s) - (k + 1) + 1 ELSE 0
          /\ \A i \in 1..(Len(s) - (k + 1) + 1) : SubSeq(s, k + 1, Len(s))[i] = s[(k + 1) + i - 1]
        BY <1>1, <2>1, SubSeqProperties
    <2>. QED  BY <1>1, <2>2
<1>4. SubSeq(s, 1, k) \o SubSeq(s, k + 1, Len(s)) = SubSeq(s, 1, Len(s))
    <2>1. 1 \in 1..(Len(s) + 1) /\ k \in (1 - 1)..Len(s) /\ Len(s) \in k..Len(s)
        BY <1>1
    <2>. QED  BY <2>1, ConcatAdjacentSubSeq
<1>. QED  BY <1>2, <1>3, <1>4, SubSeqFull

(* The numbered writes, one more at a time.                                *)
LEMMA NumbersGrow ==
    ASSUME NEW n \in Nat
    PROVE  /\ Numbers(n) \in Seq(1..n) /\ Len(Numbers(n)) = n
           /\ Numbers(n + 1) = Append(Numbers(n), n + 1)
<1>1. Numbers(n) \in Seq(1..n) /\ Len(Numbers(n)) = n
    BY DEF Numbers
<1>2. /\ Numbers(n) \in Seq(1..(n + 1)) /\ Numbers(n + 1) \in Seq(1..(n + 1))
      /\ Len(Numbers(n + 1)) = n + 1
    BY DEF Numbers
<1>3. Numbers(n + 1) = Append(Numbers(n), n + 1)
    BY <1>1, <1>2, AppendProperties, SeqEqual DEF Numbers
<1>. QED  BY <1>1, <1>3

-----------------------------------------------------------------------------
(* Records.                                                                *)

(* One more record at the end of the ciphertext.                           *)
LEMMA RecordArrives ==
    ASSUME NEW s \in Seq(Pieces), NEW kind \in Kinds, NEW unit \in Nat
    PROVE  LET t == s \o Record(kind, unit) IN
           /\ t \in Seq(Pieces)
           /\ \A i \in 1..Len(s) : t[i] = s[i]
           /\ t[Len(s) + 1].unit = unit
           /\ \A k, i : Begins(t, i, k) <=> Begins(s, i, k) \/ (i = Len(s) + 1 /\ k = kind)
           /\ Framed(s) => Framed(t)
<1>. DEFINE r == Record(kind, unit)
            t == s \o r
<1>1. /\ r \in Seq(Pieces) /\ Len(r) = 2
      /\ r[1] = [kind |-> kind, part |-> 1, unit |-> unit]
      /\ r[2] = [kind |-> kind, part |-> 2, unit |-> unit]
    BY DEF Record, Pieces
<1>. HIDE DEF r
<1>2. /\ t \in Seq(Pieces) /\ Len(t) = Len(s) + 2 /\ Len(s) \in Nat
      /\ DOMAIN t = 1..(Len(s) + 2) /\ DOMAIN s = 1..Len(s)
      /\ \A i \in 1..(Len(s) + 2) : t[i] = IF i <= Len(s) THEN s[i] ELSE r[i - Len(s)]
    <2>1. /\ t \in Seq(Pieces) /\ Len(t) = Len(s) + Len(r)
          /\ \A i \in 1..(Len(s) + Len(r)) : t[i] = IF i <= Len(s) THEN s[i] ELSE r[i - Len(s)]
        BY <1>1, ConcatProperties
    <2>2. DOMAIN t = 1..Len(t) /\ DOMAIN s = 1..Len(s) /\ Len(s) \in Nat
        BY <2>1, LenProperties
    <2>. HIDE DEF t
    <2>. QED  BY <1>1, <2>1, <2>2
<1>3. /\ \A i \in 1..Len(s) : t[i] = s[i]
      /\ t[Len(s) + 1] = r[1] /\ t[Len(s) + 2] = r[2]
    BY <1>2
<1>. HIDE DEF t
<1>4. \A k, i : Begins(t, i, k) <=> Begins(s, i, k) \/ (i = Len(s) + 1 /\ k = kind)
    BY <1>1, <1>2, <1>3 DEF Begins
<1>5. ASSUME Framed(s) PROVE Framed(t)
    <2>1. t[1].part = 1
        <3>1. CASE s = <<>>
            BY <1>1, <1>2, <1>3, <3>1
        <3>2. CASE s # <<>>
            BY <1>2, <1>3, <1>5, <3>2, EmptySeq DEF Framed
        <3>. QED  BY <3>1, <3>2
    <2>2. t[Len(t)].part = 2
        BY <1>1, <1>2, <1>3
    <2>3. ASSUME NEW i \in 1..(Len(t) - 1) PROVE t[i].part # t[i + 1].part
        <3>1. CASE i < Len(s)
            <4>1. /\ t[i] = s[i] /\ t[i + 1] = s[i + 1] /\ i \in 1..(Len(s) - 1) /\ s # <<>>
                BY <1>2, <1>3, <3>1, EmptySeq
            <4>. QED  BY <1>5, <4>1 DEF Framed
        <3>2. CASE i = Len(s)
            <4>1. s # <<>> /\ t[i] = s[Len(s)] /\ t[i + 1] = r[1]
                BY <1>2, <1>3, <3>2, EmptySeq
            <4>. QED  BY <1>1, <1>5, <4>1 DEF Framed
        <3>3. CASE i = Len(s) + 1
            BY <1>1, <1>2, <1>3, <3>3
        <3>. QED  BY <1>2, <3>1, <3>2, <3>3
    <2>. QED  BY <2>1, <2>2, <2>3 DEF Framed
<1>. QED  BY <1>1, <1>2, <1>3, <1>4, <1>5 DEF t, r

(* The first record leaves: a whole one, so that a record is first again.  *)
LEMMA RecordLeaves ==
    ASSUME NEW s \in Seq(Pieces), Len(s) > 1, Framed(s)
    PROVE  LET t == SubSeq(s, 3, Len(s)) IN
           /\ t \in Seq(Pieces)
           /\ Begins(s, 1, s[1].kind)
           /\ \A i \in DOMAIN t : t[i] = s[i + 2] /\ i + 2 \in DOMAIN s
           /\ \A k, i : Begins(t, i, k) => Begins(s, i + 2, k)
           /\ \A i \in DOMAIN s : \A k : Begins(s, i, k) => i = 1 \/ Begins(t, i - 2, k)
           /\ Framed(t)
<1>. DEFINE t == SubSeq(s, 3, Len(s))
<1>1. Len(s) \in Nat /\ DOMAIN s = 1..Len(s) /\ 2 \in 0..Len(s) /\ s # <<>>
    BY LenProperties, EmptySeq
<1>2. /\ t \in Seq(Pieces) /\ Len(t) = Len(s) - 2 /\ DOMAIN t = 1..(Len(s) - 2)
      /\ \A i \in 1..(Len(s) - 2) : t[i] = s[2 + i]
    BY <1>1, Cut, LenProperties
<1>. HIDE DEF t
<1>3. \A i \in DOMAIN t : t[i] = s[i + 2] /\ i + 2 \in DOMAIN s
    BY <1>1, <1>2
<1>4. s[1].part = 1 /\ s[2].part # s[1].part
    BY <1>1 DEF Framed
<1>5. Begins(s, 1, s[1].kind)
    BY <1>1, <1>4 DEF Begins
<1>6. \A k, i : Begins(t, i, k) => Begins(s, i + 2, k)
    BY <1>3 DEF Begins
<1>7. ASSUME NEW i \in DOMAIN s, NEW k, Begins(s, i, k), i # 1 PROVE Begins(t, i - 2, k)
    <2>1. i # 2
        BY <1>4, <1>7 DEF Begins
    <2>2. i - 2 \in DOMAIN t /\ t[i - 2] = s[i]
        BY <1>1, <1>2, <1>7, <2>1
    <2>. QED  BY <1>7, <2>2 DEF Begins
<1>8. Framed(t)
    <2>. SUFFICES ASSUME t # <<>> PROVE Framed(t)
        BY DEF Framed
    <2>1. Len(t) \in Nat \ {0}
        BY <1>2, EmptySeq
    <2>2. t[Len(t)] = s[Len(s)] /\ t[1] = s[3] /\ 1 \in 1..(Len(s) - 1) /\ 2 \in 1..(Len(s) - 1)
        BY <1>1, <1>2, <2>1
    <2>3. s[1].part \in {1, 2} /\ s[2].part \in {1, 2} /\ s[3].part \in {1, 2}
        <3>1. 1 \in 1..Len(s) /\ 2 \in 1..Len(s) /\ 3 \in 1..Len(s)
            BY <1>1, <1>2, <2>1
        <3>2. \A i \in 1..Len(s) : s[i] \in Pieces
            BY ElementOfSeq
        <3>3. \A piece \in Pieces : piece.part \in {1, 2}
            BY DEF Pieces
        <3>. QED  BY <3>1, <3>2, <3>3
    <2>4. s[2].part # s[2 + 1].part /\ s[Len(s)].part = 2
        BY <1>1, <2>2 DEF Framed
    <2>5. t[1].part = 1 /\ t[Len(t)].part = 2
        BY <1>4, <2>2, <2>3, <2>4
    <2>6. ASSUME NEW i \in 1..(Len(t) - 1) PROVE t[i].part # t[i + 1].part
        <3>1. t[i] = s[i + 2] /\ t[i + 1] = s[(i + 2) + 1] /\ i + 2 \in 1..(Len(s) - 1)
            BY <1>1, <1>2, <2>1
        <3>. QED  BY <1>1, <3>1 DEF Framed
    <2>. QED  BY <2>5, <2>6 DEF Framed
<1>. QED  BY <1>2, <1>3, <1>5, <1>6, <1>7, <1>8 DEF t

(* The units of pieces are numbers.                                        *)
LEMMA PieceTypes ==
    ASSUME NEW s \in Seq(Pieces), NEW i \in DOMAIN s
    PROVE  s[i] \in Pieces /\ s[i].unit \in Nat /\ s[i].kind \in Kinds /\ i \in Nat \ {0} /\ i <= Len(s)
<1>1. DOMAIN s = 1..Len(s) /\ Len(s) \in Nat
    BY LenProperties
<1>2. s[i] \in Pieces
    BY <1>1, ElementOfSeq
<1>3. \A piece \in Pieces : piece.unit \in Nat /\ piece.kind \in Kinds
    BY DEF Pieces
<1>. QED  BY <1>1, <1>2, <1>3

(* Order when a record arrives: the next unit of data, before any close;   *)
(* or a record without data.                                               *)
LEMMA OrderArrives ==
    ASSUME NEW s \in Seq(Pieces), NEW kind \in Kinds, NEW unit \in Nat,
           NEW from \in Nat, NEW to \in Nat, from <= to, Ordered(s, from, to)
    PROVE  LET t == s \o Record(kind, unit) IN
           /\ kind # "data" => Ordered(t, from, to)
           /\ kind = "data" /\ unit = to + 1 /\ (\A i \in DOMAIN s : ~Begins(s, i, "close"))
                 => Ordered(t, from, to + 1)
<1>. DEFINE t == s \o Record(kind, unit)
<1>1. /\ t \in Seq(Pieces)
      /\ \A i \in 1..Len(s) : t[i] = s[i]
      /\ t[Len(s) + 1].unit = unit
      /\ \A k, i : Begins(t, i, k) <=> Begins(s, i, k) \/ (i = Len(s) + 1 /\ k = kind)
    BY RecordArrives
<1>. HIDE DEF t
<1>2. /\ Len(s) \in Nat /\ DOMAIN s = 1..Len(s)
      /\ \A i \in DOMAIN s : i \in Nat /\ i <= Len(s) /\ s[i].unit \in Nat /\ t[i] = s[i]
    BY <1>1, LenProperties, PieceTypes
<1>3. /\ \A i \in DOMAIN s : Begins(s, i, "data") => s[i].unit \in (from + 1)..to
      /\ \A i, j \in DOMAIN s :
            Begins(s, i, "data") /\ Begins(s, j, "data") /\ i < j => s[i].unit < s[j].unit
      /\ \A u \in (from + 1)..to : \E i \in DOMAIN s : Begins(s, i, "data") /\ s[i].unit = u
      /\ \A i, j \in DOMAIN s : Begins(s, i, "data") /\ Begins(s, j, "close") => i < j
    BY DEF Ordered
<1>4. \A i, k : Begins(s, i, k) => i \in DOMAIN s
    BY DEF Begins
<1>5. \A i, k : Begins(t, i, k) => i \in DOMAIN t
    BY DEF Begins
<1>6. ASSUME kind # "data" PROVE Ordered(t, from, to)
    <2>1. \A i : Begins(t, i, "data") <=> Begins(s, i, "data")
        BY <1>1, <1>6
    <2>2. \A i \in DOMAIN t : Begins(t, i, "data") => t[i].unit \in (from + 1)..to
        BY <1>2, <1>3, <1>4, <2>1
    <2>3. \A i, j \in DOMAIN t :
            Begins(t, i, "data") /\ Begins(t, j, "data") /\ i < j => t[i].unit < t[j].unit
        BY <1>2, <1>3, <1>4, <2>1
    <2>4. \A u \in (from + 1)..to : \E i \in DOMAIN t : Begins(t, i, "data") /\ t[i].unit = u
        BY <1>2, <1>3, <1>4, <1>5, <2>1
    <2>5. \A i, j \in DOMAIN t : Begins(t, i, "data") /\ Begins(t, j, "close") => i < j
        BY <1>1, <1>2, <1>3, <1>4, <2>1
    <2>. QED  BY <2>2, <2>3, <2>4, <2>5 DEF Ordered
<1>7. ASSUME kind = "data", unit = to + 1, \A i \in DOMAIN s : ~Begins(s, i, "close")
      PROVE  Ordered(t, from, to + 1)
    <2>1. \A i : ~Begins(t, i, "close")
        BY <1>1, <1>4, <1>7
    <2>2. ASSUME NEW i \in DOMAIN t, Begins(t, i, "data")
          PROVE  \/ i = Len(s) + 1 /\ t[i].unit = to + 1
                 \/ /\ i \in DOMAIN s /\ Begins(s, i, "data") /\ i <= Len(s) /\ i \in Nat
                    /\ t[i] = s[i] /\ t[i].unit \in (from + 1)..to
        BY <1>1, <1>2, <1>3, <1>4, <1>7, <2>2
    <2>3. \A i \in DOMAIN t : Begins(t, i, "data") => t[i].unit \in (from + 1)..(to + 1)
        BY <2>2
    <2>4. ASSUME NEW i \in DOMAIN t, NEW j \in DOMAIN t,
                 Begins(t, i, "data"), Begins(t, j, "data"), i < j
          PROVE  t[i].unit < t[j].unit
        <3>1. i # Len(s) + 1
            BY <1>2, <2>2, <2>4
        <3>2. CASE j = Len(s) + 1
            <4>1. t[j].unit = to + 1
                BY <1>1, <1>7, <3>2
            <4>. QED  BY <2>2, <2>4, <3>1, <4>1
        <3>3. CASE j # Len(s) + 1
            BY <1>3, <2>2, <2>4, <3>1, <3>3
        <3>. QED  BY <3>2, <3>3
    <2>5. ASSUME NEW u \in (from + 1)..(to + 1)
          PROVE  \E i \in DOMAIN t : Begins(t, i, "data") /\ t[i].unit = u
        <3>1. CASE u = to + 1
            <4>1. Begins(t, Len(s) + 1, "data") /\ t[Len(s) + 1].unit = u
                BY <1>1, <1>7, <3>1
            <4>. QED  BY <1>5, <4>1
        <3>2. CASE u \in (from + 1)..to
            BY <1>1, <1>2, <1>3, <1>5, <3>2
        <3>. QED  BY <3>1, <3>2
    <2>. QED  BY <2>1, <2>3, <2>4, <2>5 DEF Ordered
<1>. QED  BY <1>6, <1>7 DEF t

(* Order when the first record leaves: data is the next unit due, a close  *)
(* has no data behind it, and other records change nothing.                *)
LEMMA OrderLeaves ==
    ASSUME NEW s \in Seq(Pieces), Len(s) > 1, Framed(s),
           NEW from \in Nat, NEW to \in Nat, from <= to, Ordered(s, from, to)
    PROVE  LET t == SubSeq(s, 3, Len(s)) IN
           /\ s[1].kind = "data" => s[1].unit = from + 1 /\ from < to /\ Ordered(t, from + 1, to)
           /\ s[1].kind = "close" => from = to
           /\ s[1].kind # "data" => Ordered(t, from, to)
<1>. DEFINE t == SubSeq(s, 3, Len(s))
<1>1. /\ t \in Seq(Pieces)
      /\ Begins(s, 1, s[1].kind)
      /\ \A i \in DOMAIN t : t[i] = s[i + 2] /\ i + 2 \in DOMAIN s
      /\ \A k, i : Begins(t, i, k) => Begins(s, i + 2, k)
      /\ \A i \in DOMAIN s : \A k : Begins(s, i, k) => i = 1 \/ Begins(t, i - 2, k)
    BY RecordLeaves
<1>. HIDE DEF t
<1>2. /\ \A i \in DOMAIN s : i \in Nat \ {0} /\ s[i].unit \in Nat
      /\ \A i \in DOMAIN t : i \in Nat \ {0} /\ t[i].unit \in Nat
    BY <1>1, PieceTypes
<1>3. /\ \A i \in DOMAIN s : Begins(s, i, "data") => s[i].unit \in (from + 1)..to
      /\ \A i, j \in DOMAIN s :
            Begins(s, i, "data") /\ Begins(s, j, "data") /\ i < j => s[i].unit < s[j].unit
      /\ \A u \in (from + 1)..to : \E i \in DOMAIN s : Begins(s, i, "data") /\ s[i].unit = u
      /\ \A i, j \in DOMAIN s : Begins(s, i, "data") /\ Begins(s, j, "close") => i < j
    BY DEF Ordered
<1>4. /\ \A i, k : Begins(s, i, k) => i \in DOMAIN s
      /\ \A i, k : Begins(t, i, k) => i \in DOMAIN t
      /\ 1 \in DOMAIN s
    BY <1>1 DEF Begins
<1>5. ASSUME NEW i \in DOMAIN t, NEW j \in DOMAIN t, Begins(t, i, "data"), Begins(t, j, "data"), i < j
      PROVE  t[i].unit < t[j].unit
    <2>1. Begins(s, i + 2, "data") /\ Begins(s, j + 2, "data") /\ i + 2 < j + 2
        BY <1>1, <1>2, <1>5
    <2>. QED  BY <1>1, <1>3, <2>1
<1>6. ASSUME NEW i \in DOMAIN t, NEW j \in DOMAIN t, Begins(t, i, "data"), Begins(t, j, "close")
      PROVE  i < j
    <2>1. i + 2 < j + 2
        BY <1>1, <1>3, <1>6
    <2>. QED  BY <1>2, <2>1
<1>7. ASSUME NEW i \in DOMAIN s, Begins(s, i, "data"), i # 1
      PROVE  Begins(t, i - 2, "data") /\ i - 2 \in DOMAIN t /\ t[i - 2].unit = s[i].unit
    <2>1. Begins(t, i - 2, "data") /\ i - 2 \in DOMAIN t
        BY <1>1, <1>4, <1>7
    <2>2. t[i - 2] = s[(i - 2) + 2]
        BY <1>1, <2>1
    <2>3. (i - 2) + 2 = i
        BY <1>2
    <2>. QED  BY <2>1, <2>2, <2>3
<1>8. ASSUME s[1].kind = "data"
      PROVE  s[1].unit = from + 1 /\ from < to /\ Ordered(t, from + 1, to)
    <2>1. s[1].unit \in (from + 1)..to
        BY <1>1, <1>3, <1>4, <1>8
    <2>2. from < to /\ from + 1 \in (from + 1)..to
        BY <2>1
    <2>3. PICK m \in DOMAIN s : Begins(s, m, "data") /\ s[m].unit = from + 1
        BY <1>3, <2>2
    <2>4. s[1].unit = from + 1
        <3>1. CASE m = 1
            BY <2>3, <3>1
        <3>2. CASE 1 < m
            <4>1. s[1].unit < s[m].unit
                BY <1>1, <1>3, <1>4, <1>8, <2>3, <3>2
            <4>. QED  BY <2>1, <2>3, <4>1
        <3>. QED  BY <1>2, <3>1, <3>2
    <2>5. ASSUME NEW i \in DOMAIN t, Begins(t, i, "data") PROVE t[i].unit \in ((from + 1) + 1)..to
        <3>1. Begins(s, i + 2, "data") /\ t[i] = s[i + 2] /\ i + 2 \in DOMAIN s /\ 1 < i + 2
            BY <1>1, <1>2, <2>5
        <3>2. s[i + 2].unit \in (from + 1)..to /\ s[1].unit < s[i + 2].unit
            BY <1>1, <1>3, <1>4, <1>8, <3>1
        <3>3. s[i + 2].unit \in ((from + 1) + 1)..to
            BY <2>4, <3>2
        <3>. QED  BY <3>1, <3>3
    <2>6. ASSUME NEW u \in ((from + 1) + 1)..to
          PROVE  \E i \in DOMAIN t : Begins(t, i, "data") /\ t[i].unit = u
        <3>1. u \in (from + 1)..to /\ u # from + 1
            OBVIOUS
        <3>2. PICK i \in DOMAIN s : Begins(s, i, "data") /\ s[i].unit = u
            BY <1>3, <3>1
        <3>3. i # 1
            BY <2>4, <3>1, <3>2
        <3>. QED  BY <1>7, <3>2, <3>3
    <2>7. Ordered(t, from + 1, to)
        BY <1>5, <1>6, <2>5, <2>6 DEF Ordered
    <2>. QED  BY <2>2, <2>4, <2>7
<1>9. ASSUME s[1].kind = "close" PROVE from = to
    <2>. SUFFICES ASSUME from < to PROVE FALSE
        OBVIOUS
    <2>1. from + 1 \in (from + 1)..to
        OBVIOUS
    <2>2. PICK m \in DOMAIN s : Begins(s, m, "data")
        BY <1>3, <2>1
    <2>3. m < 1
        BY <1>1, <1>3, <1>4, <1>9, <2>2
    <2>. QED  BY <1>2, <2>3
<1>10. ASSUME s[1].kind # "data" PROVE Ordered(t, from, to)
    <2>1. ~Begins(s, 1, "data")
        BY <1>10 DEF Begins
    <2>2. ASSUME NEW i \in DOMAIN t, Begins(t, i, "data") PROVE t[i].unit \in (from + 1)..to
        BY <1>1, <1>3, <2>2
    <2>3. ASSUME NEW u \in (from + 1)..to
          PROVE  \E i \in DOMAIN t : Begins(t, i, "data") /\ t[i].unit = u
        <3>1. PICK i \in DOMAIN s : Begins(s, i, "data") /\ s[i].unit = u
            BY <1>3
        <3>. QED  BY <1>7, <2>1, <3>1
    <2>. QED  BY <1>5, <1>6, <2>2, <2>3 DEF Ordered
<1>. QED  BY <1>8, <1>9, <1>10 DEF t

-----------------------------------------------------------------------------
(* The invariant.                                                          *)

(* The whole of what is sent, in the four places it passes through.        *)
LEMMA OutTypes ==
    /\ Hello \in Out /\ Finished \in Out
    /\ \A n \in 0..MaxOut : Numbers(n) \in Seq(1..MaxOut) /\ Numbers(n) \in Seq(Out)
    /\ \A n \in 1..MaxOut : n \in Out
<1>1. Hello \in Out /\ Finished \in Out /\ 1..MaxOut \subseteq Out
    BY DEF Out
<1>2. ASSUME NEW n \in 0..MaxOut
      PROVE  Numbers(n) \in Seq(1..MaxOut) /\ Numbers(n) \in Seq(Out)
    <2>1. n \in Nat /\ 1..n \subseteq 1..MaxOut
        BY TlsAssumption
    <2>2. Numbers(n) \in Seq(1..n)
        BY <2>1, NumbersGrow
    <2>3. Numbers(n) \in Seq(1..MaxOut)
        BY <2>1, <2>2, SeqMonotonic
    <2>. QED  BY <1>1, <2>3, SeqMonotonic
<1>. QED  BY <1>1, <1>2

(* ClientHello and the last flight, one after the other.                   *)
LEMMA HelloFinished == <<Hello>> \o <<Finished>> = <<Hello, Finished>>
<1>. DEFINE x == <<Hello>> \o <<Finished>>
            y == <<Hello, Finished>>
<1>1. <<Hello>> \in Seq(Int) /\ <<Finished>> \in Seq(Int) /\ y \in Seq(Int)
    BY DEF Hello, Finished
<1>2. Len(x) = 2 /\ x[1] = Hello /\ x[2] = Finished /\ x \in Seq(Int)
    BY <1>1
<1>3. Len(y) = 2 /\ y[1] = Hello /\ y[2] = Finished
    OBVIOUS
<1>. HIDE DEF x, y
<1>4. \A i \in 1..2 : x[i] = y[i]
    BY <1>2, <1>3
<1>5. x = y
    BY <1>1, <1>2, <1>3, <1>4, SeqEqual
<1>. QED  BY <1>5 DEF x, y

(* Only ClientHello is on its way.                                         *)
LEMMA TlsInitInv == TlsInit => TlsInv
<1>. SUFFICES ASSUME TlsInit PROVE TlsInv
    OBVIOUS
<1>. USE DEF TlsInit
<1>1. TlsTypeOK
    <2>1. sendable \in Seq(Out)
        BY OutTypes
    <2>2. /\ <<>> \in Seq(Pieces) /\ <<>> \in Seq(Nat) /\ <<>> \in Seq(Out)
          /\ <<>> \in Seq(1..MaxOut)
        BY EmptySeq
    <2>3. peer \in [records : 0..MaxIn, units : 0..MaxIn, closed : BOOLEAN]
        OBVIOUS
    <2>4. plaintext_ready \in Nat /\ written \in 0..MaxOut
        OBVIOUS
    <2>. QED  BY <2>1, <2>2, <2>3, <2>4, Zenon DEF TlsTypeOK
<1>2. coming = <<>> /\ decrypted = 0 /\ DOMAIN coming = {}
    BY DEF coming, decrypted
<1>3. ComingInv
    BY <1>2 DEF ComingInv, Framed, Ordered
<1>4. SendInv
    <2>1. Numbers(0) = <<>>
        BY DEF Numbers
    <2>2. <<>> \o <<>> \o <<Hello>> = <<Hello>>
        OBVIOUS
    <2>. QED  BY <2>1, <2>2 DEF SendInv
<1>5. ReceivedInv
    BY <1>2 DEF ReceivedInv
<1>. QED  BY <1>1, <1>3, <1>4, <1>5 DEF TlsInv, ReadyExact, CallsInv, Callable

(* What is sent does not change when nothing is written and the handshake  *)
(* stands.                                                                 *)
LEMMA SendKept ==
    ASSUME SendInv, UNCHANGED <<handshaking, net, ciphertext, sendable, buffered, written>>
    PROVE  SendInv'
BY DEF SendInv, Numbers

(* Neither does what is received, when no record comes, leaves or is read. *)
LEMMA ComingKept ==
    ASSUME ComingInv, coming' = coming, decrypted' = decrypted, UNCHANGED <<peer, handshaking>>,
           Live' => Live, call' # "sign", call' = "idle" \/ call' = call \/ peer.records # 0
    PROVE  ComingInv'
<1>. SUFFICES ASSUME Live' PROVE ComingInv'
    BY DEF ComingInv
<1>1. Live /\ peer' = peer /\ handshaking' = handshaking
    OBVIOUS
<1>2. /\ Framed(coming) /\ Ordered(coming, decrypted, peer.units)
      /\ \A i \in DOMAIN coming : Begins(coming, i, "close") => peer.closed
      /\ \A i \in DOMAIN coming : Begins(coming, i, "flight") => i = 1 /\ handshaking
      /\ peer.records = 0 => coming = <<>> /\ handshaking /\ call = "idle"
    BY <1>1 DEF ComingInv
<1>. HIDE DEF coming, decrypted, Live
<1>. QED  BY <1>1, <1>2 DEF ComingInv

(* A record is due: rustls takes it from the front of what is coming.      *)
LEMMA RecordTaken ==
    ASSUME TlsInv, NEW kind \in Kinds, RecordDue(kind)
    PROVE  /\ Live /\ handle = "open" /\ ~close_received /\ call = "process_new_packets"
           /\ coming \in Seq(Pieces) /\ Len(coming) > 1 /\ coming[1] = Head(deframer)
           /\ coming[1].kind = kind /\ Head(deframer).unit \in Nat
           /\ Framed(coming) /\ Ordered(coming, decrypted, peer.units)
           /\ RestOfDeframer \in Seq(Pieces)
           /\ RestOfDeframer \o wire = SubSeq(coming, 3, Len(coming))
           /\ peer.records # 0
<1>1. deframer \in Seq(Pieces) /\ wire \in Seq(Pieces)
    BY DEF TlsInv, TlsTypeOK
<1>2. /\ Len(deframer) \in Nat /\ Len(wire) \in Nat /\ Len(deframer) > 1
      /\ Head(deframer).kind = kind /\ call = "process_new_packets" /\ deframer # <<>>
    BY <1>1, EmptySeq, LenProperties DEF RecordDue, Processing
<1>3. Live /\ handle = "open" /\ ~close_received
    BY <1>2 DEF TlsInv, CallsInv, Live
<1>4. /\ coming \in Seq(Pieces) /\ Len(coming) = Len(deframer) + Len(wire)
      /\ \A i \in 1..(Len(deframer) + Len(wire)) :
            coming[i] = IF i <= Len(deframer) THEN deframer[i] ELSE wire[i - Len(deframer)]
    BY <1>1, ConcatProperties DEF coming
<1>. HIDE DEF coming
<1>5. coming[1] = deframer[1] /\ Len(coming) > 1
    BY <1>2, <1>4
<1>6. Head(deframer) = deframer[1] /\ Head(deframer) \in Pieces
    BY <1>1, <1>2, HeadTailProperties
<1>7. \A piece \in Pieces : piece.unit \in Nat
    BY DEF Pieces
<1>8. Framed(coming) /\ Ordered(coming, decrypted, peer.units) /\ peer.records # 0
    BY <1>2, <1>3 DEF TlsInv, ComingInv
<1>9. /\ RestOfDeframer \in Seq(Pieces) /\ Len(RestOfDeframer) = Len(deframer) - 2
      /\ \A i \in 1..(Len(deframer) - 2) : RestOfDeframer[i] = deframer[2 + i]
    <2>1. 2 \in 0..Len(deframer)
        BY <1>2
    <2>2. 2 + 1 = 3
        OBVIOUS
    <2>3. /\ SubSeq(deframer, 2 + 1, Len(deframer)) \in Seq(Pieces)
          /\ Len(SubSeq(deframer, 2 + 1, Len(deframer))) = Len(deframer) - 2
          /\ \A i \in 1..(Len(deframer) - 2) :
                SubSeq(deframer, 2 + 1, Len(deframer))[i] = deframer[2 + i]
        BY <1>1, <2>1, Cut
    <2>. QED  BY <2>2, <2>3 DEF RestOfDeframer
<1>. HIDE DEF RestOfDeframer
<1>10. RestOfDeframer \o wire = SubSeq(coming, 3, Len(coming))
    <2>. DEFINE a == RestOfDeframer \o wire
                b == SubSeq(coming, 3, Len(coming))
    <2>1. /\ a \in Seq(Pieces) /\ Len(a) = Len(RestOfDeframer) + Len(wire)
          /\ \A i \in 1..(Len(RestOfDeframer) + Len(wire)) :
                a[i] = IF i <= Len(RestOfDeframer) THEN RestOfDeframer[i]
                       ELSE wire[i - Len(RestOfDeframer)]
        BY <1>1, <1>9, ConcatProperties
    <2>2. 2 \in 0..Len(coming) /\ Len(coming) \in Nat
        BY <1>2, <1>4
    <2>3. /\ b \in Seq(Pieces) /\ Len(b) = Len(coming) - 2
          /\ \A i \in 1..(Len(coming) - 2) : b[i] = coming[2 + i]
        BY <1>4, <2>2, Cut
    <2>. HIDE DEF a, b
    <2>4. Len(a) = Len(b)
        BY <1>2, <1>4, <1>9, <2>1, <2>3
    <2>5. ASSUME NEW i \in 1..Len(a) PROVE a[i] = b[i]
        <3>1. /\ i \in Nat \ {0} /\ i <= Len(deframer) - 2 + Len(wire)
              /\ 2 + i \in 1..(Len(deframer) + Len(wire)) /\ b[i] = coming[2 + i]
            BY <1>2, <1>4, <1>9, <2>1, <2>3
        <3>2. CASE i <= Len(deframer) - 2
            <4>1. a[i] = deframer[2 + i] /\ coming[2 + i] = deframer[2 + i]
                BY <1>2, <1>4, <1>9, <2>1, <3>1, <3>2
            <4>. QED  BY <3>1, <4>1
        <3>3. CASE ~(i <= Len(deframer) - 2)
            <4>1. i - (Len(deframer) - 2) = (2 + i) - Len(deframer)
                BY <1>2, <3>1
            <4>2. a[i] = wire[i - (Len(deframer) - 2)] /\ coming[2 + i] = wire[(2 + i) - Len(deframer)]
                BY <1>2, <1>4, <1>9, <2>1, <3>1, <3>3
            <4>. QED  BY <3>1, <4>1, <4>2
        <3>. QED  BY <3>2, <3>3
    <2>6. a = b
        BY <2>1, <2>3, <2>4, <2>5, SeqEqual
    <2>. QED  BY <2>6 DEF a, b
<1>. QED  BY <1>2, <1>3, <1>4, <1>5, <1>6, <1>7, <1>8, <1>9, <1>10

(* The first record leaves and the next one is due: data is now decrypted. *)
LEMMA FrontLeaves ==
    ASSUME ComingInv, Live, coming \in Seq(Pieces), Len(coming) > 1,
           coming' = SubSeq(coming, 3, Len(coming)), decrypted \in Nat, peer.units \in Nat,
           decrypted <= peer.units,
           decrypted' = IF coming[1].kind = "data" THEN decrypted + 1 ELSE decrypted,
           UNCHANGED <<peer, handshaking>>
    PROVE  ComingInv'
<1>1. /\ Framed(coming) /\ Ordered(coming, decrypted, peer.units)
      /\ \A i \in DOMAIN coming : Begins(coming, i, "close") => peer.closed
      /\ \A i \in DOMAIN coming :
            Begins(coming, i, "flight") => i = 1 /\ handshaking /\ call # "sign"
      /\ peer.records # 0
    BY DEF ComingInv
<1>. DEFINE s == coming
            t == SubSeq(s, 3, Len(s))
            from == decrypted
            to == peer.units
<1>. HIDE DEF coming, decrypted
<1>2. s \in Seq(Pieces) /\ Len(s) > 1 /\ Framed(s) /\ Ordered(s, from, to) /\ coming' = t
    BY <1>1
<1>3. /\ t \in Seq(Pieces) /\ Framed(t)
      /\ \A i \in DOMAIN t : i + 2 \in DOMAIN s
      /\ \A k, i : Begins(t, i, k) => Begins(s, i + 2, k)
    BY <1>2, RecordLeaves
<1>4. /\ s[1].kind = "data" => Ordered(t, from + 1, to)
      /\ s[1].kind # "data" => Ordered(t, from, to)
    BY <1>2, OrderLeaves
<1>5. Ordered(t, decrypted', peer.units)
    BY <1>4
<1>6. \A i \in DOMAIN t : Begins(t, i, "close") => peer.closed
    BY <1>1, <1>3
<1>7. \A i \in DOMAIN t : ~Begins(t, i, "flight")
    <2>1. ASSUME NEW i \in DOMAIN t, Begins(t, i, "flight") PROVE FALSE
        <3>1. Begins(s, i + 2, "flight") /\ i + 2 \in DOMAIN s /\ i \in Nat \ {0}
            BY <1>3, <2>1, PieceTypes
        <3>2. i + 2 = 1
            BY <1>1, <3>1
        <3>. QED  BY <3>1, <3>2
    <2>. QED  BY <2>1
<1>8. peer' = peer /\ handshaking' = handshaking
    OBVIOUS
<1>. HIDE DEF s, t, from, to
<1>. QED  BY <1>1, <1>2, <1>3, <1>5, <1>6, <1>7, <1>8 DEF ComingInv

(* A call that fails leaves a session nobody may use.                      *)
LEMMA BrokenKept ==
    ASSUME TlsInv, handle' = "failed", call' = "idle", deframer' \in Seq(Pieces),
           deframer' = deframer \/ ~close_received,
           UNCHANGED <<wire, peer, handshaking, received, close_received, buffered,
                       sendable, ciphertext, plaintext_ready, peer_closed,
                       full_handshake_reported, authcert, got, close_reported, written, net>>
    PROVE  TlsInv'
<1>1. TlsTypeOK'
    BY DEF TlsInv, TlsTypeOK
<1>2. ReadyExact' /\ CallsInv' /\ ComingInv' /\ ReceivedInv'
    BY DEF TlsInv, ReadyExact, CallsInv, ComingInv, ReceivedInv, Callable, Live, decrypted
<1>3. SendInv'
    BY SendKept DEF TlsInv
<1>. QED  BY <1>1, <1>2, <1>3 DEF TlsInv

(* One step per action: the peer, rustls inside a call, Core's reads and   *)
(* writes, the queries and the end.                                        *)
LEMMA TlsNextInv == TlsInv /\ [TlsNext]_tlsVars => TlsInv'
<1>. SUFFICES ASSUME TlsInv, [TlsNext]_tlsVars PROVE TlsInv'
    OBVIOUS
<1>t. TlsTypeOK /\ ReadyExact /\ CallsInv /\ ComingInv /\ ReceivedInv /\ SendInv
    BY DEF TlsInv
<1>p. /\ peer.records \in 0..MaxIn /\ peer.units \in 0..MaxIn /\ peer.closed \in BOOLEAN
      /\ deframer \in Seq(Pieces) /\ wire \in Seq(Pieces) /\ got \in Seq(Nat)
      /\ received \in Seq(Nat)
    BY <1>t DEF TlsTypeOK
<1>n. /\ Len(got) \in Nat /\ Len(received) \in Nat /\ decrypted \in Nat
      /\ Len(wire) \in Nat /\ Len(deframer) \in Nat /\ coming \in Seq(Pieces)
    BY <1>p, LenProperties, ConcatProperties DEF decrypted, coming
<1>1. ASSUME NEW kind \in Kinds, PeerRecord(kind) PROVE TlsInv'
    <2>. DEFINE unit == IF kind = "data" THEN peer.units + 1 ELSE 0
                r == Record(kind, unit)
    <2>1. unit \in Nat /\ decrypted <= peer.units
        BY <1>p, <1>t DEF ReceivedInv
    <2>2. /\ wire' = wire \o r
          /\ peer' = [records |-> peer.records + 1,
                      units |-> IF kind = "data" THEN unit ELSE peer.units,
                      closed |-> peer.closed \/ kind = "close"]
          /\ peer.records < MaxIn
          /\ peer.closed => kind = "bad"
          /\ kind \in {"data", "close"} => peer.records > 0
          /\ kind = "flight" => peer.records = 0
        BY <1>1 DEF PeerRecord
    <2>3. UNCHANGED <<handle, call, deframer, handshaking, received, close_received, buffered,
                      sendable, ciphertext, plaintext_ready, peer_closed,
                      full_handshake_reported, authcert, got, close_reported, written, net>>
        BY <1>1 DEF PeerRecord, rustls, adapter, history
    <2>4. r \in Seq(Pieces)
        BY <2>1 DEF Record, Pieces
    <2>5. coming' = coming \o r /\ wire' \in Seq(Pieces)
        <3>. HIDE DEF r
        <3>1. wire \o r \in Seq(Pieces)
            BY <1>p, <2>4, ConcatProperties
        <3>2. (deframer \o wire) \o r = deframer \o (wire \o r)
            <4>1. deframer \in Seq(Pieces) /\ wire \in Seq(Pieces)
                BY <1>p
            <4>. QED  BY <2>4, <4>1, ConcatAssociative
        <3>. QED  BY <2>2, <2>3, <3>1, <3>2 DEF coming
    <2>6. /\ peer'.records = peer.records + 1 /\ peer'.closed = (peer.closed \/ kind = "close")
          /\ peer'.units = (IF kind = "data" THEN peer.units + 1 ELSE peer.units)
          /\ peer'.units \in 0..MaxIn /\ peer'.records \in 0..MaxIn /\ peer'.units <= peer'.records
          /\ peer' \in [records : 0..MaxIn, units : 0..MaxIn, closed : BOOLEAN]
        BY <1>p, <1>t, <2>2 DEF ReceivedInv
    <2>7. /\ decrypted' = decrypted /\ (Live' <=> Live)
        BY <2>3 DEF decrypted, Live
    <2>8. TlsTypeOK'
        BY <1>t, <2>3, <2>5, <2>6 DEF TlsTypeOK
    <2>9. ReadyExact' /\ CallsInv' /\ SendInv'
        BY <1>t, <2>3, SendKept DEF ReadyExact, CallsInv, Callable
    <2>10. ReceivedInv'
        <3>1. close_received => kind # "data" /\ peer'.closed /\ peer'.units = peer.units
            BY <1>t, <2>2, <2>6 DEF ReceivedInv
        <3>2. decrypted <= peer'.units
            BY <1>n, <1>p, <2>1, <2>6
        <3>. QED  BY <1>t, <2>3, <2>6, <2>7, <3>1, <3>2 DEF ReceivedInv
    <2>11. ASSUME Live PROVE ComingInv'
        <3>1. /\ Framed(coming) /\ Ordered(coming, decrypted, peer.units)
              /\ \A i \in DOMAIN coming : Begins(coming, i, "close") => peer.closed
              /\ \A i \in DOMAIN coming :
                    Begins(coming, i, "flight") => i = 1 /\ handshaking /\ call # "sign"
              /\ peer.records = 0 => coming = <<>> /\ handshaking /\ call = "idle"
            BY <1>t, <2>11 DEF ComingInv
        <3>. DEFINE s == coming
                    t == s \o r
        <3>2. s \in Seq(Pieces) /\ coming' = t
            BY <1>n, <2>5
        <3>. HIDE DEF s, unit
        <3>3. /\ t \in Seq(Pieces)
              /\ \A k, i : Begins(t, i, k) <=> Begins(s, i, k) \/ (i = Len(s) + 1 /\ k = kind)
              /\ Framed(t)
            BY <2>1, <3>1, <3>2, RecordArrives DEF s
        <3>4. Ordered(t, decrypted, peer'.units)
            <4>1. CASE kind # "data"
                BY <1>n, <1>p, <2>1, <2>6, <3>1, <3>2, <4>1, OrderArrives DEF s
            <4>2. CASE kind = "data"
                <5>1. \A i \in DOMAIN s : ~Begins(s, i, "close")
                    BY <2>2, <3>1, <4>2 DEF s
                <5>2. unit = peer.units + 1
                    BY <4>2 DEF unit
                <5>. QED  BY <1>n, <1>p, <2>1, <2>6, <3>1, <3>2, <4>2, <5>1, <5>2, OrderArrives DEF s
            <4>. QED  BY <4>1, <4>2
        <3>. HIDE DEF t, r
        <3>5. \A i \in DOMAIN t : Begins(t, i, "close") => peer'.closed
            BY <2>6, <3>1, <3>3 DEF Begins, s
        <3>6. ASSUME NEW i \in DOMAIN t, Begins(t, i, "flight")
              PROVE  i = 1 /\ handshaking /\ call # "sign"
            <4>1. CASE Begins(s, i, "flight")
                BY <3>1, <4>1 DEF Begins, s
            <4>2. CASE i = Len(s) + 1 /\ kind = "flight"
                <5>1. s = <<>> /\ handshaking /\ call = "idle"
                    BY <2>2, <3>1, <4>2 DEF s
                <5>. QED  BY <4>2, <5>1
            <4>. QED  BY <3>3, <3>6, <4>1, <4>2
        <3>7. peer'.records # 0
            BY <1>p, <2>6
        <3>8. /\ handshaking' = handshaking /\ call' = call
            BY <2>3
        <3>. HIDE DEF coming, decrypted, Live
        <3>. QED  BY <2>7, <3>2, <3>3, <3>4, <3>5, <3>6, <3>7, <3>8 DEF ComingInv
    <2>12. ComingInv'
        BY <2>7, <2>11 DEF ComingInv
    <2>. QED  BY <2>8, <2>9, <2>10, <2>12 DEF TlsInv
<1>2. ASSUME NEW k \in 1..MaxChunk, WriteCiphertext(k) PROVE TlsInv'
    <2>. DEFINE a == SubSeq(wire, 1, k)
                b == SubSeq(wire, k + 1, Len(wire))
    <2>1. /\ handle = "open" /\ call = "idle" /\ k \in 0..Len(wire) /\ k # 0 /\ wire' = b
          /\ UNCHANGED <<peer, handshaking, received, close_received, buffered, sendable,
                         ciphertext, plaintext_ready, peer_closed, full_handshake_reported,
                         authcert, got, close_reported, written, net>>
        BY <1>2 DEF WriteCiphertext, Callable, adapter, history
    <2>2. /\ a \in Seq(Pieces) /\ b \in Seq(Pieces) /\ a \o b = wire
        BY <1>p, <2>1, Cut
    <2>3. SendInv' /\ ReceivedInv' /\ decrypted' = decrypted
        BY <1>t, <2>1, SendKept DEF ReceivedInv, decrypted
    <2>4. CASE close_received
        <3>1. handle' = "failed" /\ call' = "idle" /\ deframer' = deframer
            BY <1>2, <2>4 DEF WriteCiphertext, Throws
        <3>2. TlsTypeOK'
            BY <1>t, <2>1, <2>2, <3>1 DEF TlsTypeOK
        <3>3. ReadyExact' /\ CallsInv' /\ ComingInv'
            BY <1>t, <2>1, <3>1 DEF ReadyExact, CallsInv, ComingInv, Callable, Live
        <3>. QED  BY <2>3, <3>2, <3>3 DEF TlsInv
    <2>5. CASE ~close_received
        <3>1. handle' = handle /\ call' = "process_new_packets" /\ deframer' = deframer \o a
            BY <1>2, <2>5 DEF WriteCiphertext
        <3>2. deframer' \in Seq(Pieces)
            BY <1>p, <2>2, <3>1, ConcatProperties
        <3>3. TlsTypeOK'
            BY <1>t, <2>1, <2>2, <3>1, <3>2 DEF TlsTypeOK
        <3>4. ReadyExact' /\ CallsInv'
            BY <1>t, <2>1, <2>5, <3>1 DEF ReadyExact, CallsInv, Callable
        <3>5. coming' = coming
            <4>. HIDE DEF a, b
            <4>1. (deframer \o a) \o b = deframer \o (a \o b)
                <5>1. deframer \in Seq(Pieces) /\ a \in Seq(Pieces) /\ b \in Seq(Pieces)
                    BY <1>p, <2>2
                <5>. QED  BY <5>1, ConcatAssociative
            <4>. QED  BY <2>1, <2>2, <3>1, <4>1 DEF coming
        <3>6. peer.records # 0
            <4>1. wire # <<>>
                BY <2>1, EmptySeq
            <4>2. coming # <<>>
                BY <1>p, <4>1, ConcatEqualIffEmpty DEF coming
            <4>. QED  BY <1>t, <2>1, <2>5, <4>2 DEF ComingInv, Live
        <3>7. ComingInv'
            BY <1>t, <2>1, <2>3, <2>5, <3>1, <3>5, <3>6, ComingKept DEF Live
        <3>. QED  BY <2>3, <3>3, <3>4, <3>7 DEF TlsInv
    <2>. QED  BY <2>4, <2>5
<1>3. CASE VerifyServerCert
    <2>1. RecordDue("flight") /\ call' = "sign" /\ deframer' = RestOfDeframer
        BY <1>3 DEF VerifyServerCert
    <2>2. UNCHANGED <<wire, peer, handle, handshaking, received, close_received, buffered,
                      sendable, ciphertext, plaintext_ready, peer_closed,
                      full_handshake_reported, authcert, got, close_reported, written, net>>
        BY <1>3 DEF VerifyServerCert, adapter, history
    <2>3. "flight" \in Kinds
        BY DEF Kinds
    <2>. HIDE DEF VerifyServerCert
    <2>4. /\ Live /\ handle = "open" /\ ~close_received
          /\ coming \in Seq(Pieces) /\ Len(coming) > 1 /\ coming[1].kind = "flight"
          /\ Framed(coming) /\ Ordered(coming, decrypted, peer.units)
          /\ RestOfDeframer \in Seq(Pieces) /\ peer.records # 0
          /\ RestOfDeframer \o wire = SubSeq(coming, 3, Len(coming))
        BY <2>1, <2>3, RecordTaken
    <2>5. coming' = SubSeq(coming, 3, Len(coming)) /\ decrypted' = decrypted
        BY <2>1, <2>2, <2>4 DEF coming, decrypted
    <2>6. TlsTypeOK' /\ SendInv' /\ ReceivedInv'
        BY <1>t, <2>1, <2>2, <2>4, <2>5, SendKept DEF TlsTypeOK, ReceivedInv
    <2>. HIDE DEF coming
    <2>7. handshaking
        <3>1. Begins(coming, 1, "flight")
            BY <2>4, RecordLeaves
        <3>. QED  BY <1>t, <2>4, <3>1 DEF ComingInv, Begins
    <2>8. ReadyExact' /\ CallsInv'
        BY <1>t, <2>1, <2>2, <2>4, <2>7 DEF ReadyExact, CallsInv, Callable
    <2>9. ComingInv'
        <3>1. /\ peer.units \in Nat /\ decrypted <= peer.units
              /\ decrypted' = IF coming[1].kind = "data" THEN decrypted + 1 ELSE decrypted
            BY <1>p, <1>t, <2>4, <2>5 DEF ReceivedInv
        <3>2. UNCHANGED <<peer, handshaking>>
            BY <2>2
        <3>. QED  BY <1>n, <1>t, <2>4, <2>5, <3>1, <3>2, FrontLeaves
    <2>. QED  BY <2>6, <2>8, <2>9 DEF TlsInv
<1>4. CASE SignHandshake
    <2>1. /\ call = "sign" /\ call' = "process_new_packets" /\ handshaking' = FALSE
          /\ sendable' = Append(sendable, Finished) \o buffered /\ buffered' = <<>>
          /\ UNCHANGED <<wire, peer, handle, deframer, received, close_received, ciphertext,
                         plaintext_ready, peer_closed, full_handshake_reported, authcert,
                         got, close_reported, written, net>>
        BY <1>4 DEF SignHandshake, adapter, history
    <2>. HIDE DEF SignHandshake
    <2>2. handshaking /\ handle = "open" /\ ~close_received
        BY <1>t, <2>1 DEF CallsInv
    <2>3. /\ net \in Seq(Out) /\ ciphertext \in Seq(Out) /\ sendable \in Seq(Out)
          /\ buffered \in Seq(1..MaxOut) /\ buffered \in Seq(Out) /\ <<Finished>> \in Seq(Out)
          /\ written \in 0..MaxOut
        <3>1. buffered \in Seq(1..MaxOut) /\ 1..MaxOut \subseteq Out /\ Finished \in Out
            BY <1>t, OutTypes DEF TlsTypeOK, Out
        <3>2. buffered \in Seq(Out)
            BY <3>1, SeqMonotonic
        <3>. QED  BY <1>t, <3>1, <3>2 DEF TlsTypeOK
    <2>4. sendable' = (sendable \o <<Finished>>) \o buffered /\ sendable' \in Seq(Out)
        BY <2>1, <2>3, OutTypes, AppendIsConcat, ConcatProperties
    <2>5. SendInv'
        <3>1. net \o ciphertext \o sendable = <<Hello>> /\ buffered = Numbers(written)
            BY <1>t, <2>2 DEF SendInv
        <3>. DEFINE sent == net \o ciphertext
                    fin == <<Finished>>
        <3>2. sent \in Seq(Out) /\ fin \in Seq(Out) /\ sendable \o fin \in Seq(Out)
            BY <2>3, ConcatProperties
        <3>3. <<Hello>> \o fin = <<Hello, Finished>>
            BY HelloFinished
        <3>. HIDE DEF sent, fin
        <3>4. sent \o ((sendable \o fin) \o buffered) = (sent \o (sendable \o fin)) \o buffered
            <4>. DEFINE mid == sendable \o fin
            <4>1. sent \in Seq(Out) /\ mid \in Seq(Out) /\ buffered \in Seq(Out)
                BY <2>3, <3>2
            <4>. HIDE DEF mid
            <4>2. (sent \o mid) \o buffered = sent \o (mid \o buffered)
                BY <4>1, ConcatAssociative
            <4>. QED  BY <4>2 DEF mid
        <3>5. sent \o (sendable \o fin) = (sent \o sendable) \o fin
            <4>1. sent \in Seq(Out) /\ sendable \in Seq(Out) /\ fin \in Seq(Out)
                BY <2>3, <3>2
            <4>. QED  BY <4>1, ConcatAssociative
        <3>6. sent \o sendable = <<Hello>>
            BY <3>1 DEF sent
        <3>7. sent \o sendable' = <<Hello, Finished>> \o Numbers(written)
            BY <2>4, <3>1, <3>3, <3>4, <3>5, <3>6 DEF fin
        <3>8. net' \o ciphertext' \o sendable' = <<Hello, Finished>> \o Numbers(written')
            BY <2>1, <3>7 DEF sent
        <3>. QED  BY <2>1, <3>8 DEF SendInv
    <2>6. TlsTypeOK'
        <3>1. buffered' \in Seq(1..MaxOut)
            BY <2>1, EmptySeq
        <3>. QED  BY <1>t, <2>1, <2>4, <3>1 DEF TlsTypeOK
    <2>7. ReadyExact' /\ CallsInv' /\ ReceivedInv'
        BY <1>t, <2>1, <2>2 DEF ReadyExact, CallsInv, Callable, ReceivedInv, decrypted
    <2>8. ComingInv'
        <3>1. coming' = coming /\ decrypted' = decrypted /\ (Live' <=> Live) /\ peer' = peer
            BY <2>1 DEF coming, decrypted, Live
        <3>2. ASSUME Live PROVE ComingInv'
            <4>1. /\ Framed(coming) /\ Ordered(coming, decrypted, peer.units)
                  /\ \A i \in DOMAIN coming : Begins(coming, i, "close") => peer.closed
                  /\ \A i \in DOMAIN coming : ~Begins(coming, i, "flight")
                  /\ peer.records # 0
                BY <1>t, <2>1, <3>2 DEF ComingInv
            <4>. HIDE DEF coming, decrypted, Live
            <4>. QED  BY <3>1, <4>1 DEF ComingInv
        <3>. QED  BY <3>1, <3>2 DEF ComingInv
    <2>. QED  BY <2>5, <2>6, <2>7, <2>8 DEF TlsInv
<1>5. CASE SignFails
    <2>1. /\ handle' = "failed" /\ call' = "idle"
          /\ UNCHANGED <<wire, peer, deframer, handshaking, received, close_received, buffered,
                         sendable, ciphertext, plaintext_ready, peer_closed,
                         full_handshake_reported, authcert, got, close_reported, written, net>>
        BY <1>5 DEF SignFails, Throws, rustls, adapter, history
    <2>2. deframer' \in Seq(Pieces)
        BY <1>p, <2>1
    <2>. HIDE DEF SignFails
    <2>. QED  BY <2>1, <2>2, BrokenKept
<1>6. CASE ProcessFails
    <2>1. /\ handle' = "failed" /\ call' = "idle" /\ deframer' = RestOfDeframer
          /\ \E kind \in Kinds : RecordDue(kind)
          /\ UNCHANGED <<wire, peer, handshaking, received, close_received, buffered,
                         sendable, ciphertext, plaintext_ready, peer_closed,
                         full_handshake_reported, authcert, got, close_reported, written, net>>
        BY <1>6 DEF ProcessFails, Throws, rustls, adapter, history, Kinds
    <2>2. deframer' \in Seq(Pieces) /\ ~close_received
        BY <2>1, RecordTaken
    <2>. QED  BY <1>t, <2>1, <2>2, BrokenKept
<1>7. CASE ProcessData
    <2>1. /\ RecordDue("data") /\ ~handshaking /\ deframer' = RestOfDeframer
          /\ received' = Append(received, Head(deframer).unit)
        BY <1>7 DEF ProcessData
    <2>2. UNCHANGED <<wire, peer, handle, call, handshaking, close_received, buffered, sendable,
                      ciphertext, plaintext_ready, peer_closed, full_handshake_reported,
                      authcert, got, close_reported, written, net>>
        BY <1>7 DEF ProcessData, adapter, history
    <2>3. "data" \in Kinds
        BY DEF Kinds
    <2>. HIDE DEF ProcessData
    <2>4. /\ Live /\ handle = "open" /\ ~close_received /\ call = "process_new_packets"
          /\ coming \in Seq(Pieces) /\ Len(coming) > 1 /\ coming[1] = Head(deframer)
          /\ coming[1].kind = "data" /\ Head(deframer).unit \in Nat
          /\ Framed(coming) /\ Ordered(coming, decrypted, peer.units)
          /\ RestOfDeframer \in Seq(Pieces) /\ peer.records # 0
          /\ RestOfDeframer \o wire = SubSeq(coming, 3, Len(coming))
        BY <2>1, <2>3, RecordTaken
    <2>5. /\ received' \in Seq(Nat) /\ Len(received') = Len(received) + 1
          /\ \A i \in 1..Len(received) : received'[i] = received[i]
          /\ received'[Len(received) + 1] = Head(deframer).unit
          /\ DOMAIN received' = 1..(Len(received) + 1) /\ DOMAIN received = 1..Len(received)
        BY <1>p, <2>1, <2>4, AppendProperties, LenProperties
    <2>6. coming' = SubSeq(coming, 3, Len(coming))
        BY <2>1, <2>2, <2>4 DEF coming
    <2>7. decrypted' = decrypted + 1
        BY <1>n, <2>2, <2>5 DEF decrypted
    <2>8. peer.units \in Nat /\ decrypted <= peer.units
        BY <1>p, <1>t DEF ReceivedInv
    <2>9. Head(deframer).unit = decrypted + 1 /\ decrypted < peer.units
        <3>. HIDE DEF coming
        <3>. DEFINE s == coming
                    from == decrypted
                    to == peer.units
        <3>1. s \in Seq(Pieces) /\ Len(s) > 1 /\ Framed(s) /\ Ordered(s, from, to)
              /\ from \in Nat /\ to \in Nat /\ from <= to /\ s[1].kind = "data"
            BY <1>n, <2>4, <2>8
        <3>. HIDE DEF s, from, to
        <3>2. s[1].unit = from + 1 /\ from < to
            BY <3>1, OrderLeaves
        <3>. QED  BY <2>4, <3>2 DEF s, from, to
    <2>10. TlsTypeOK' /\ SendInv'
        BY <1>t, <2>1, <2>2, <2>4, <2>5, SendKept DEF TlsTypeOK
    <2>11. ReadyExact' /\ CallsInv'
        BY <1>t, <2>2, <2>4 DEF ReadyExact, CallsInv, Callable
    <2>12. ReceivedInv'
        <3>1. ASSUME NEW i \in DOMAIN received' PROVE received'[i] = Len(got) + i
            <4>1. CASE i \in DOMAIN received
                BY <1>t, <2>5, <4>1 DEF ReceivedInv
            <4>2. CASE i = Len(received) + 1
                <5>1. decrypted + 1 = Len(got) + (Len(received) + 1)
                    BY <1>n DEF decrypted
                <5>. QED  BY <2>5, <2>9, <4>2, <5>1
            <4>. QED  BY <1>n, <2>5, <4>1, <4>2
        <3>2. decrypted' <= peer.units
            BY <1>n, <2>7, <2>8, <2>9
        <3>3. peer.units <= peer.records /\ got' = got /\ peer' = peer /\ ~close_received'
            BY <1>t, <2>2, <2>4 DEF ReceivedInv
        <3>. HIDE DEF decrypted
        <3>. QED  BY <3>1, <3>2, <3>3 DEF ReceivedInv
    <2>13. ComingInv'
        <3>1. decrypted' = IF coming[1].kind = "data" THEN decrypted + 1 ELSE decrypted
            BY <2>4, <2>7
        <3>2. UNCHANGED <<peer, handshaking>>
            BY <2>2
        <3>. QED  BY <1>n, <1>t, <2>4, <2>6, <2>8, <3>1, <3>2, FrontLeaves
    <2>. QED  BY <2>10, <2>11, <2>12, <2>13 DEF TlsInv
<1>8. CASE ProcessClose
    <2>1. /\ RecordDue("close") /\ ~handshaking /\ deframer' = <<>> /\ close_received' = TRUE
          /\ UNCHANGED <<wire, peer, handle, call, handshaking, received, buffered, sendable,
                         ciphertext, plaintext_ready, peer_closed, full_handshake_reported,
                         authcert, got, close_reported, written, net>>
        BY <1>8 DEF ProcessClose, adapter, history
    <2>2. "close" \in Kinds
        BY DEF Kinds
    <2>. HIDE DEF ProcessClose
    <2>3. /\ Live /\ handle = "open" /\ ~close_received /\ call = "process_new_packets"
          /\ coming \in Seq(Pieces) /\ Len(coming) > 1 /\ coming[1].kind = "close"
          /\ Framed(coming) /\ Ordered(coming, decrypted, peer.units)
        BY <2>1, <2>2, RecordTaken
    <2>4. peer.units \in Nat /\ decrypted <= peer.units
        BY <1>p, <1>t DEF ReceivedInv
    <2>5. decrypted = peer.units /\ Begins(coming, 1, "close")
        <3>. DEFINE s == coming
                    from == decrypted
                    to == peer.units
        <3>1. s \in Seq(Pieces) /\ Len(s) > 1 /\ Framed(s) /\ Ordered(s, from, to)
              /\ from \in Nat /\ to \in Nat /\ from <= to /\ s[1].kind = "close"
            BY <1>n, <2>3, <2>4
        <3>. HIDE DEF s, from, to
        <3>2. from = to
            BY <3>1, OrderLeaves
        <3>3. Begins(s, 1, s[1].kind)
            BY <3>1, RecordLeaves
        <3>. QED  BY <3>1, <3>2, <3>3 DEF s, from, to
    <2>6. peer.closed
        BY <1>t, <2>3, <2>5 DEF ComingInv, Begins
    <2>7. TlsTypeOK' /\ SendInv'
        BY <1>t, <2>1, EmptySeq, SendKept DEF TlsTypeOK
    <2>8. ReadyExact' /\ CallsInv' /\ ComingInv'
        BY <1>t, <2>1, <2>3 DEF ReadyExact, CallsInv, ComingInv, Callable, Live
    <2>9. ReceivedInv'
        <3>1. decrypted' = decrypted
            BY <2>1 DEF decrypted
        <3>. QED  BY <1>t, <2>1, <2>5, <2>6, <3>1 DEF ReceivedInv
    <2>. QED  BY <2>7, <2>8, <2>9 DEF TlsInv
<1>9. CASE ProcessDone
    <2>1. /\ call = "process_new_packets" /\ call' = "idle"
          /\ plaintext_ready' = Len(received) /\ peer_closed' = close_received
          /\ UNCHANGED <<wire, peer, handle, deframer, handshaking, received, close_received,
                         buffered, sendable, ciphertext, full_handshake_reported, authcert,
                         got, close_reported, written, net>>
        BY <1>9 DEF ProcessDone, Processing, rustls, history
    <2>2. TlsTypeOK' /\ SendInv'
        BY <1>n, <1>t, <2>1, SendKept DEF TlsTypeOK
    <2>3. ReadyExact' /\ CallsInv' /\ ReceivedInv'
        BY <1>t, <2>1 DEF ReadyExact, CallsInv, Callable, ReceivedInv, decrypted
    <2>4. ComingInv'
        <3>1. coming' = coming /\ decrypted' = decrypted /\ (Live' <=> Live)
            BY <2>1 DEF coming, decrypted, Live
        <3>2. UNCHANGED <<peer, handshaking>> /\ call' = "idle"
            BY <2>1
        <3>. QED  BY <1>t, <3>1, <3>2, ComingKept
    <2>. QED  BY <2>2, <2>3, <2>4 DEF TlsInv
<1>10. ASSUME NEW k \in 1..MaxChunk, ReadPlaintext(k) PROVE TlsInv'
    <2>. DEFINE n == Least(k, Len(received))
                rest == SubSeq(received, n + 1, Len(received))
    <2>1. /\ handle = "open" /\ call = "idle" /\ received # <<>>
          /\ got' = got \o SubSeq(received, 1, n) /\ received' = rest
          /\ plaintext_ready' = IF n > plaintext_ready THEN 0 ELSE plaintext_ready - n
          /\ UNCHANGED <<wire, peer, handle, call, deframer, handshaking, close_received,
                         buffered, sendable, ciphertext, peer_closed, full_handshake_reported,
                         authcert, close_reported, written, net>>
        BY <1>10 DEF ReadPlaintext, Callable
    <2>2. n \in 0..Len(received)
        BY <1>n DEF Least
    <2>. HIDE DEF n
    <2>3. /\ got' \in Seq(Nat) /\ Len(got') = Len(got) + n
          /\ received' \in Seq(Nat) /\ Len(received') = Len(received) - n
          /\ \A i \in 1..(Len(received) - n) : received'[i] = received[n + i]
        <3>1. /\ SubSeq(received, 1, n) \in Seq(Nat) /\ Len(SubSeq(received, 1, n)) = n
              /\ rest \in Seq(Nat) /\ Len(rest) = Len(received) - n
              /\ \A i \in 1..(Len(received) - n) : rest[i] = received[n + i]
            BY <1>p, <2>2, Cut
        <3>2. got' \in Seq(Nat) /\ Len(got') = Len(got) + Len(SubSeq(received, 1, n))
            BY <1>p, <2>1, <3>1, ConcatProperties
        <3>. QED  BY <2>1, <3>1, <3>2
    <2>4. plaintext_ready = Len(received) /\ peer_closed = close_received
        BY <1>t, <2>1 DEF ReadyExact, Callable
    <2>5. plaintext_ready' = Len(received') /\ plaintext_ready' \in Nat
        BY <1>n, <2>1, <2>2, <2>3, <2>4
    <2>6. decrypted' = decrypted
        BY <1>n, <2>2, <2>3 DEF decrypted
    <2>. HIDE DEF rest
    <2>7. TlsTypeOK' /\ SendInv'
        BY <1>t, <2>1, <2>3, <2>5, SendKept DEF TlsTypeOK
    <2>8. ReadyExact' /\ CallsInv'
        BY <1>t, <2>1, <2>4, <2>5 DEF ReadyExact, CallsInv, Callable
    <2>9. ComingInv'
        <3>1. coming' = coming /\ (Live' <=> Live) /\ UNCHANGED <<peer, handshaking>>
              /\ call' = "idle"
            BY <2>1 DEF coming, Live
        <3>. QED  BY <1>t, <2>6, <3>1, ComingKept
    <2>10. ReceivedInv'
        <3>1. ASSUME NEW i \in DOMAIN received' PROVE received'[i] = Len(got') + i
            <4>1. i \in 1..(Len(received) - n) /\ n + i \in 1..Len(received) /\ i \in Nat /\ n \in Nat
                <5>1. DOMAIN received' = 1..Len(received')
                    BY <2>3, LenProperties
                <5>2. i \in 1..(Len(received) - n)
                    BY <2>3, <5>1
                <5>. QED  BY <1>n, <2>2, <5>2
            <4>2. received'[i] = received[n + i] /\ received[n + i] = Len(got) + (n + i)
                BY <1>p, <1>t, <2>3, <4>1, LenProperties DEF ReceivedInv
            <4>3. Len(got) + (n + i) = (Len(got) + n) + i
                BY <1>n, <4>1
            <4>. QED  BY <2>3, <4>2, <4>3
        <3>2. /\ peer.units <= peer.records /\ decrypted <= peer.units
              /\ close_received => peer.closed /\ decrypted = peer.units
            BY <1>t DEF ReceivedInv
        <3>3. peer' = peer /\ close_received' = close_received
            BY <2>1
        <3>. QED  BY <2>6, <3>1, <3>2, <3>3 DEF ReceivedInv
    <2>. QED  BY <2>7, <2>8, <2>9, <2>10 DEF TlsInv
<1>11. CASE ReadClose
    <2>1. /\ handle = "open" /\ call = "idle" /\ received = <<>> /\ peer_closed
          /\ close_reported' = TRUE
          /\ UNCHANGED <<wire, peer, handle, call, deframer, handshaking, received,
                         close_received, buffered, sendable, ciphertext, plaintext_ready,
                         peer_closed, full_handshake_reported, authcert, got, written, net>>
        BY <1>11 DEF ReadClose, Callable, rustls, adapter
    <2>2. TlsTypeOK' /\ SendInv'
        BY <1>t, <2>1, SendKept DEF TlsTypeOK
    <2>3. ReadyExact' /\ CallsInv' /\ ReceivedInv'
        BY <1>t, <2>1 DEF ReadyExact, CallsInv, Callable, ReceivedInv, decrypted
    <2>4. ComingInv'
        <3>1. /\ coming' = coming /\ decrypted' = decrypted /\ (Live' <=> Live)
              /\ UNCHANGED <<peer, handshaking>> /\ call' = "idle"
            BY <2>1 DEF coming, decrypted, Live
        <3>. QED  BY <1>t, <3>1, ComingKept
    <2>. QED  BY <2>2, <2>3, <2>4 DEF TlsInv
<1>12. ASSUME NEW k \in 1..MaxChunk, ReadCiphertext(k) PROVE TlsInv'
    <2>. DEFINE refill == ciphertext = <<>>
                taken == IF refill THEN sendable ELSE ciphertext
                n == Least(k, Len(taken))
                a == SubSeq(taken, 1, n)
                b == SubSeq(taken, n + 1, Len(taken))
    <2>1. /\ handle = "open" /\ call = "idle"
          /\ net' = net \o a /\ ciphertext' = b
          /\ sendable' = IF refill THEN <<>> ELSE sendable
          /\ UNCHANGED <<wire, peer, handle, call, deframer, handshaking, received,
                         close_received, buffered, plaintext_ready, peer_closed,
                         full_handshake_reported, authcert, got, close_reported, written>>
        BY <1>12 DEF ReadCiphertext, Callable
    <2>2. net \in Seq(Out) /\ ciphertext \in Seq(Out) /\ sendable \in Seq(Out)
        BY <1>t DEF TlsTypeOK
    <2>3. taken \in Seq(Out) /\ Len(taken) \in Nat
        BY <2>2, LenProperties
    <2>4. n \in 0..Len(taken)
        BY <2>3 DEF Least
    <2>. HIDE DEF n
    <2>5. a \in Seq(Out) /\ b \in Seq(Out) /\ a \o b = taken
        BY <2>3, <2>4, Cut
    <2>. HIDE DEF a, b
    <2>6. net' \in Seq(Out) /\ ciphertext' \in Seq(Out) /\ sendable' \in Seq(Out)
        BY <2>1, <2>2, <2>5, ConcatProperties, EmptySeq
    <2>7. (net \o a) \o b = net \o taken
        <3>1. net \in Seq(Out) /\ a \in Seq(Out) /\ b \in Seq(Out)
            BY <2>2, <2>5
        <3>2. (net \o a) \o b = net \o (a \o b)
            BY <3>1, ConcatAssociative
        <3>. QED  BY <2>5, <3>2
    <2>8. net' \o ciphertext' \o sendable' = net \o ciphertext \o sendable
        <3>1. net' \o ciphertext' = net \o taken
            BY <2>1, <2>7
        <3>2. CASE refill
            <4>1. net \o ciphertext = net /\ (net \o sendable) \o <<>> = net \o sendable
                BY <2>2, <3>2, ConcatEmptySeq, ConcatProperties
            <4>2. taken = sendable /\ sendable' = <<>>
                BY <2>1, <3>2
            <4>. QED  BY <3>1, <4>1, <4>2
        <3>3. CASE ~refill
            <4>1. taken = ciphertext /\ sendable' = sendable
                BY <2>1, <3>3
            <4>. QED  BY <3>1, <4>1
        <3>. QED  BY <3>2, <3>3
    <2>9. SendInv'
        BY <1>t, <2>1, <2>8 DEF SendInv
    <2>10. TlsTypeOK'
        BY <1>t, <2>1, <2>6 DEF TlsTypeOK
    <2>11. ReadyExact' /\ CallsInv' /\ ReceivedInv'
        BY <1>t, <2>1 DEF ReadyExact, CallsInv, Callable, ReceivedInv, decrypted
    <2>12. ComingInv'
        <3>1. /\ coming' = coming /\ decrypted' = decrypted /\ (Live' <=> Live)
              /\ UNCHANGED <<peer, handshaking>> /\ call' = "idle"
            BY <2>1 DEF coming, decrypted, Live
        <3>. QED  BY <1>t, <3>1, ComingKept
    <2>. QED  BY <2>9, <2>10, <2>11, <2>12 DEF TlsInv
<1>13. CASE WritePlaintext
    <2>1. /\ handle = "open" /\ call = "idle" /\ written < MaxOut /\ written' = written + 1
          /\ IF handshaking
             THEN buffered' = Append(buffered, written + 1) /\ sendable' = sendable
             ELSE sendable' = Append(sendable, written + 1) /\ buffered' = buffered
          /\ UNCHANGED <<wire, peer, handle, call, deframer, handshaking, received,
                         close_received, ciphertext, plaintext_ready, peer_closed,
                         full_handshake_reported, authcert, got, close_reported, net>>
        BY <1>13 DEF WritePlaintext, Callable, adapter
    <2>2. /\ net \in Seq(Out) /\ ciphertext \in Seq(Out) /\ sendable \in Seq(Out)
          /\ buffered \in Seq(1..MaxOut) /\ written \in 0..MaxOut
        BY <1>t DEF TlsTypeOK
    <2>3. written + 1 \in 1..MaxOut /\ written + 1 \in Out /\ written \in Nat
        BY <2>1, <2>2, OutTypes
    <2>4. buffered' \in Seq(1..MaxOut) /\ sendable' \in Seq(Out) /\ written' \in 0..MaxOut
        <3>1. /\ Append(buffered, written + 1) \in Seq(1..MaxOut)
              /\ Append(sendable, written + 1) \in Seq(Out)
            BY <2>2, <2>3, AppendProperties
        <3>2. buffered' \in Seq(1..MaxOut) /\ sendable' \in Seq(Out)
            BY <2>1, <2>2, <3>1, Zenon
        <3>3. written' \in 0..MaxOut
            BY <2>1, <2>3
        <3>. QED  BY <3>2, <3>3
    <2>5. TlsTypeOK'
        BY <1>t, <2>1, <2>4 DEF TlsTypeOK
    <2>6. Numbers(written') = Append(Numbers(written), written + 1)
        BY <2>1, <2>3, NumbersGrow
    <2>7. ASSUME handshaking PROVE SendInv'
        <3>1. net \o ciphertext \o sendable = <<Hello>> /\ buffered = Numbers(written)
            BY <1>t, <2>7 DEF SendInv
        <3>. QED  BY <2>1, <2>6, <2>7, <3>1 DEF SendInv
    <2>8. ASSUME ~handshaking PROVE SendInv'
        <3>. DEFINE sent == net \o ciphertext
                    hf == <<Hello, Finished>>
                    w == Numbers(written)
                    one == <<written + 1>>
        <3>1. sent \o sendable = hf \o w /\ buffered = <<>>
            BY <1>t, <2>8 DEF SendInv
        <3>2. sent \in Seq(Out) /\ hf \in Seq(Out) /\ w \in Seq(Out) /\ one \in Seq(Out)
            BY <2>2, <2>3, ConcatProperties, OutTypes
        <3>3. sendable' = sendable \o one /\ Numbers(written') = w \o one
            BY <2>1, <2>2, <2>3, <2>6, <2>8, <3>2, AppendIsConcat
        <3>. HIDE DEF sent, hf, w, one
        <3>4. sent \o (sendable \o one) = (sent \o sendable) \o one
            <4>1. sent \in Seq(Out) /\ sendable \in Seq(Out) /\ one \in Seq(Out)
                BY <2>2, <3>2
            <4>. QED  BY <4>1, ConcatAssociative
        <3>5. (hf \o w) \o one = hf \o (w \o one)
            BY <3>2, ConcatAssociative
        <3>6. sent \o sendable' = hf \o Numbers(written')
            BY <3>1, <3>3, <3>4, <3>5
        <3>. QED  BY <2>1, <2>8, <3>1, <3>6 DEF SendInv, sent, hf
    <2>9. SendInv'
        BY <2>7, <2>8
    <2>10. ReadyExact' /\ CallsInv' /\ ReceivedInv'
        BY <1>t, <2>1 DEF ReadyExact, CallsInv, Callable, ReceivedInv, decrypted
    <2>11. ComingInv'
        <3>1. /\ coming' = coming /\ decrypted' = decrypted /\ (Live' <=> Live)
              /\ UNCHANGED <<peer, handshaking>> /\ call' = "idle"
            BY <2>1 DEF coming, decrypted, Live
        <3>. QED  BY <1>t, <3>1, ComingKept
    <2>. QED  BY <2>5, <2>9, <2>10, <2>11 DEF TlsInv
<1>14. CASE DidFullHandshake \/ AuthCert \/ FreeConnection \/ UNCHANGED tlsVars
    <2>1. /\ UNCHANGED <<wire, peer, call, deframer, handshaking, received, close_received,
                         buffered, sendable, ciphertext, plaintext_ready, peer_closed,
                         got, close_reported, written, net>>
          /\ handle' = handle \/ (handle' = "freed" /\ call = "idle")
          /\ full_handshake_reported' = TRUE \/ full_handshake_reported' = full_handshake_reported
          /\ authcert' = authcert \/ authcert' = "empty" \/ authcert' = "peer"
        BY <1>14 DEF DidFullHandshake, AuthCert, FreeConnection, tlsVars, rustls, adapter, history
    <2>2. TlsTypeOK' /\ SendInv'
        <3>1. full_handshake_reported' \in BOOLEAN /\ authcert' \in {"none", "empty", "peer"}
            BY <1>t, <2>1, Zenon DEF TlsTypeOK
        <3>2. handle' \in {"open", "failed", "freed"}
            BY <1>t, <2>1 DEF TlsTypeOK
        <3>. QED  BY <1>t, <2>1, <3>1, <3>2, SendKept DEF TlsTypeOK
    <2>3. ReadyExact' /\ CallsInv' /\ ReceivedInv'
        BY <1>t, <2>1 DEF ReadyExact, CallsInv, Callable, ReceivedInv, decrypted
    <2>4. ComingInv'
        <3>1. coming' = coming /\ decrypted' = decrypted /\ (Live' => Live)
            BY <2>1 DEF coming, decrypted, Live
        <3>2. peer' = peer /\ handshaking' = handshaking /\ call' = call
            BY <2>1
        <3>. HIDE DEF coming, decrypted, Live
        <3>. QED  BY <1>t, <3>1, <3>2 DEF ComingInv
    <2>. QED  BY <2>2, <2>3, <2>4 DEF TlsInv
<1>. QED
    BY <1>1, <1>2, <1>3, <1>4, <1>5, <1>6, <1>7, <1>8, <1>9, <1>10, <1>11, <1>12, <1>13, <1>14
    DEF TlsNext, Process, ReadLoop, SendLoop

(* Whatever the peer sends, however it is cut and however Core interleaves *)
(* its calls: the adapter's copies of rustls's state are exact between two *)
(* calls, whole records come in order, and the plaintext decrypted is the  *)
(* peer's, from the first unit on and without gaps.                        *)
THEOREM TlsInvariant == TlsSpec => []TlsInv
BY TlsInitInv, TlsNextInv, PTL DEF TlsSpec

(* What Core writes, before or after the handshake, leaves in that order,  *)
(* none of it lost or repeated between rustls and the ciphertext queue.    *)
THEOREM TlsSentInOrder == TlsSpec => []SentInOrder
<1>1. TlsInv => SentInOrder
    <2>. SUFFICES ASSUME TlsInv PROVE SentInOrder
        OBVIOUS
    <2>1. SendInv /\ written \in 0..MaxOut /\ buffered \in Seq(1..MaxOut)
          /\ net \in Seq(Out) /\ ciphertext \in Seq(Out) /\ sendable \in Seq(Out)
        BY DEF TlsInv, TlsTypeOK
    <2>2. /\ <<Hello>> \in Seq(Out) /\ Numbers(written) \in Seq(Out)
          /\ <<Hello>> \o <<>> = <<Hello>>
        <3>1. <<Hello>> \in Seq(Out)
            BY OutTypes
        <3>. QED  BY <2>1, <3>1, OutTypes, ConcatEmptySeq
    <2>3. CASE handshaking
        BY <2>1, <2>2, <2>3 DEF SendInv, SentInOrder
    <2>4. CASE ~handshaking
        <3>. DEFINE x == net \o ciphertext \o sendable
        <3>1. x \in Seq(Out)
            BY <2>1, ConcatProperties
        <3>. HIDE DEF x
        <3>2. x \o <<>> = x
            BY <3>1, ConcatEmptySeq
        <3>. QED  BY <2>1, <2>4, <3>2, HelloFinished DEF SendInv, SentInOrder, x
    <2>. QED  BY <2>3, <2>4
<1>. QED  BY <1>1, TlsInvariant, PTL

-----------------------------------------------------------------------------
(* The receiving side implements TlsStream.                                *)

(* The units after g, up to u.                                             *)
Units(g, u) == [i \in 1..(u - g) |-> g + i]

(* They are a sequence.                                                    *)
LEMMA UnitsType ==
    ASSUME NEW g \in Nat, NEW u \in Nat, g <= u
    PROVE  /\ Units(g, u) \in Seq(Nat) /\ Len(Units(g, u)) = u - g
           /\ \A i \in 1..(u - g) : Units(g, u)[i] = g + i
BY DEF Units

(* They grow at the end as the peer produces and are taken from the front  *)
(* as Core reads.                                                          *)
LEMMA UnitsMove ==
    ASSUME NEW g \in Nat, NEW u \in Nat, g <= u
    PROVE  /\ Units(g, u) \in Seq(Nat) /\ Len(Units(g, u)) = u - g
           /\ \A i \in 1..(u - g) : Units(g, u)[i] = g + i
           /\ Units(g, u + 1) = Append(Units(g, u), u + 1)
           /\ \A n \in 0..(u - g) :
                 SubSeq(Units(g, u), n + 1, Len(Units(g, u))) = Units(g + n, u)
<1>2. /\ Units(g, u) \in Seq(Nat) /\ Len(Units(g, u)) = u - g
      /\ \A i \in 1..(u - g) : Units(g, u)[i] = g + i
    BY UnitsType
<1>3. /\ Units(g, u + 1) \in Seq(Nat) /\ Len(Units(g, u + 1)) = (u + 1) - g
      /\ \A i \in 1..((u + 1) - g) : Units(g, u + 1)[i] = g + i
    <2>1. u + 1 \in Nat /\ g <= u + 1
        OBVIOUS
    <2>. QED  BY <2>1, UnitsType
<1>4. Units(g, u + 1) = Append(Units(g, u), u + 1)
    <2>. DEFINE x == Units(g, u + 1)
                y == Append(Units(g, u), u + 1)
    <2>1. /\ y \in Seq(Nat) /\ Len(y) = (u - g) + 1
          /\ \A i \in 1..(u - g) : y[i] = g + i
          /\ y[(u - g) + 1] = u + 1
        BY <1>2, AppendProperties
    <2>2. x \in Seq(Nat) /\ Len(x) = (u - g) + 1 /\ \A i \in 1..((u - g) + 1) : x[i] = g + i
        BY <1>3
    <2>. HIDE DEF x, y
    <2>3. \A i \in 1..((u - g) + 1) : x[i] = y[i]
        BY <2>1, <2>2
    <2>4. x = y
        BY <2>1, <2>2, <2>3, SeqEqual
    <2>. QED  BY <2>4 DEF x, y
<1>5. ASSUME NEW n \in 0..(u - g)
      PROVE  SubSeq(Units(g, u), n + 1, Len(Units(g, u))) = Units(g + n, u)
    <2>. DEFINE s == Units(g, u)
                x == SubSeq(s, n + 1, Len(s))
                y == Units(g + n, u)
    <2>1. n \in 0..Len(s) /\ s \in Seq(Nat)
        BY <1>2
    <2>2. /\ x \in Seq(Nat) /\ Len(x) = Len(s) - n
          /\ \A i \in 1..(Len(s) - n) : x[i] = s[n + i]
        BY <2>1, Cut
    <2>3. /\ y \in Seq(Nat) /\ Len(y) = u - (g + n)
          /\ \A i \in 1..(u - (g + n)) : y[i] = (g + n) + i
        <3>1. g + n \in Nat /\ g + n <= u
            OBVIOUS
        <3>. QED  BY <3>1, UnitsType
    <2>. HIDE DEF x, y
    <2>4. Len(x) = Len(y)
        BY <1>2, <2>2, <2>3
    <2>5. ASSUME NEW i \in 1..Len(x) PROVE x[i] = y[i]
        <3>1. n + i \in 1..(u - g) /\ i \in 1..(u - (g + n)) /\ i \in 1..(Len(s) - n)
              /\ g + (n + i) = (g + n) + i
            BY <1>2, <2>2
        <3>. QED  BY <1>2, <2>2, <2>3, <3>1
    <2>6. x = y
        BY <2>2, <2>3, <2>4, <2>5, SeqEqual
    <2>. QED  BY <2>6 DEF x, y
<1>. QED  BY <1>2, <1>4, <1>5

(* Every step of the adapter is a step of the stream, or none.             *)
LEMMA StreamStep ==
    TlsInv /\ [TlsNext]_tlsVars => [Stream!StreamNext]_(Stream!streamVars)
<1>. SUFFICES ASSUME TlsInv, [TlsNext]_tlsVars
              PROVE  Stream!StreamNext \/ UNCHANGED <<peer.units, pipe, got, ended>>
    BY DEF Stream!streamVars
<1>t. TlsTypeOK /\ ReadyExact /\ CallsInv /\ ComingInv /\ ReceivedInv /\ SendInv
    BY DEF TlsInv
<1>n. /\ peer.units \in Nat /\ got \in Seq(Nat) /\ received \in Seq(Nat) /\ Len(got) \in Nat
      /\ Len(received) \in Nat /\ Len(got) + Len(received) <= peer.units /\ Len(got) <= peer.units
      /\ peer.closed \in BOOLEAN
    <2>1. peer.units \in Nat /\ got \in Seq(Nat) /\ received \in Seq(Nat) /\ peer.closed \in BOOLEAN
        BY <1>t DEF TlsTypeOK
    <2>2. Len(got) \in Nat /\ Len(received) \in Nat
        BY <2>1, LenProperties
    <2>3. Len(got) + Len(received) <= peer.units
        BY <1>t DEF ReceivedInv, decrypted
    <2>. QED  BY <2>1, <2>2, <2>3
<1>u. unread = Units(Len(got), peer.units)
    BY DEF unread, Units
<1>c. unread \in Seq(Nat) /\ unread \o <<>> = unread
    BY <1>n, <1>u, UnitsMove, ConcatEmptySeq
<1>k. /\ handle # "open" => pipe = <<>>
      /\ close_reported => pipe = <<>> /\ ended = "closed"
      /\ handle # "open" /\ ~close_reported => ended = "broken"
      /\ handle = "open" /\ ~close_reported =>
            /\ ended = "open"
            /\ pipe = unread \o (IF peer.closed THEN <<0>> ELSE <<>>)
    BY DEF pipe, ended
<1>1. ASSUME NEW kind \in Kinds, PeerRecord(kind)
      PROVE  Stream!StreamNext \/ UNCHANGED <<peer.units, pipe, got, ended>>
    <2>1. /\ peer.closed => kind = "bad"
          /\ peer'.units = (IF kind = "data" THEN peer.units + 1 ELSE peer.units)
          /\ peer'.closed = (peer.closed \/ kind = "close")
          /\ UNCHANGED <<handle, close_reported, got>>
        BY <1>1 DEF PeerRecord, rustls, adapter, history
    <2>2. ended' = ended
        BY <2>1 DEF ended
    <2>3. ASSUME kind = "data" PROVE Stream!PeerSends
        <3>1. peer'.units = peer.units + 1 /\ ~peer.closed /\ ~peer'.closed
            BY <2>1, <2>3
        <3>2. CASE close_reported \/ handle # "open"
            <4>1. pipe' = pipe /\ ended # "open"
                BY <2>1, <3>2 DEF pipe, ended
            <4>. QED  BY <2>1, <2>2, <3>1, <4>1 DEF Stream!PeerSends, Stream!Enters, Stream!Open
        <3>3. CASE ~close_reported /\ handle = "open"
            <4>1. pipe = unread /\ ended = "open"
                BY <1>c, <1>k, <3>1, <3>3
            <4>2. unread' = Units(Len(got), peer.units + 1)
                BY <2>1, <3>1 DEF unread, Units
            <4>3. unread' \in Seq(Nat) /\ unread' = Append(unread, peer.units + 1)
                <5>. DEFINE g == Len(got)
                            u == peer.units
                <5>1. g \in Nat /\ u \in Nat /\ g <= u /\ unread = Units(g, u)
                      /\ unread' = Units(g, u + 1)
                    BY <1>n, <1>u, <4>2
                <5>. HIDE DEF g, u
                <5>2. Units(g, u + 1) = Append(Units(g, u), u + 1) /\ Units(g, u) \in Seq(Nat)
                    BY <5>1, UnitsMove
                <5>3. Append(Units(g, u), u + 1) \in Seq(Nat)
                    BY <5>1, <5>2, AppendProperties
                <5>. QED  BY <5>1, <5>2, <5>3 DEF u
            <4>4. pipe' = unread' \o <<>>
                BY <2>1, <3>1, <3>3 DEF pipe
            <4>5. unread' \o <<>> = unread'
                BY <4>3, ConcatEmptySeq
            <4>6. pipe' = Append(pipe, peer.units + 1)
                BY <4>1, <4>3, <4>4, <4>5
            <4>. QED  BY <2>1, <2>2, <3>1, <4>1, <4>6 DEF Stream!PeerSends, Stream!Enters, Stream!Open
        <3>. QED  BY <3>2, <3>3
    <2>4. ASSUME kind = "close" PROVE Stream!PeerCloses
        <3>1. peer'.units = peer.units /\ ~peer.closed /\ peer'.closed
            BY <2>1, <2>4
        <3>2. CASE close_reported \/ handle # "open"
            <4>1. pipe' = pipe /\ ended # "open"
                BY <2>1, <3>2 DEF pipe, ended
            <4>. QED  BY <2>1, <2>2, <3>1, <4>1 DEF Stream!PeerCloses, Stream!Enters, Stream!Open
        <3>3. CASE ~close_reported /\ handle = "open"
            <4>1. pipe = unread /\ ended = "open"
                BY <1>c, <1>k, <3>1, <3>3
            <4>2. unread' = unread
                BY <2>1, <3>1 DEF unread
            <4>3. pipe' = unread \o <<0>>
                BY <2>1, <3>1, <3>3, <4>2 DEF pipe
            <4>4. Append(unread, 0) = unread \o <<0>>
                BY <1>c, AppendIsConcat
            <4>5. pipe' = Append(pipe, 0)
                BY <4>1, <4>3, <4>4
            <4>. QED
                BY <2>1, <2>2, <3>1, <4>1, <4>5
                DEF Stream!PeerCloses, Stream!Enters, Stream!Open, Stream!Close
        <3>. QED  BY <3>2, <3>3
    <2>5. ASSUME kind # "data", kind # "close" PROVE UNCHANGED <<peer.units, pipe, got, ended>>
        <3>1. peer'.units = peer.units /\ peer'.closed = peer.closed
            BY <1>n, <2>1, <2>5
        <3>. QED  BY <2>1, <2>2, <3>1 DEF pipe, unread
    <2>. QED  BY <2>3, <2>4, <2>5 DEF Stream!StreamNext
<1>2. ASSUME handle = "open", handle' \in {"failed", "freed"}, UNCHANGED <<peer, got, close_reported>>
      PROVE  Stream!StreamNext \/ UNCHANGED <<peer.units, pipe, got, ended>>
    <2>1. peer.units' = peer.units /\ got' = got /\ pipe' = <<>>
        BY <1>2 DEF pipe
    <2>2. CASE close_reported
        BY <1>2, <1>k, <2>1, <2>2 DEF ended
    <2>3. CASE ~close_reported
        <3>1. ended = "open" /\ ended' = "broken"
            BY <1>2, <2>3 DEF ended
        <3>. QED  BY <2>1, <3>1 DEF Stream!StreamNext, Stream!Break, Stream!Open
    <2>. QED  BY <2>2, <2>3
<1>3. ASSUME UNCHANGED <<peer, got, close_reported>>, handle' = handle \/ (handle # "open" /\ handle' # "open")
      PROVE  UNCHANGED <<peer.units, pipe, got, ended>>
    BY <1>3 DEF pipe, ended, unread
<1>4. ASSUME NEW k \in 1..MaxChunk, ReadPlaintext(k)
      PROVE  Stream!StreamNext
    <2>. DEFINE n == Least(k, Len(received))
                g == Len(got)
                u == peer.units
                tail == IF peer.closed THEN <<0>> ELSE <<>>
    <2>1. /\ handle = "open" /\ received # <<>> /\ got' = got \o SubSeq(received, 1, n)
          /\ UNCHANGED <<peer, handle, close_reported>>
        BY <1>4 DEF ReadPlaintext, Callable
    <2>2. Len(received) # 0
        BY <1>n, <2>1, EmptySeq
    <2>3. n \in 1..Len(received)
        BY <1>n, <2>2 DEF Least
    <2>4. ~close_reported /\ ended = "open" /\ ended' = "open"
        BY <1>t, <2>1 DEF CallsInv, ended
    <2>5. g \in Nat /\ u \in Nat /\ n \in Nat /\ n # 0 /\ g + n <= u /\ g <= u /\ n \in 0..(u - g)
        BY <1>n, <2>3
    <2>. HIDE DEF n
    <2>6. SubSeq(received, 1, n) \in Seq(Nat) /\ Len(SubSeq(received, 1, n)) = n
          /\ \A i \in 1..n : SubSeq(received, 1, n)[i] = received[i]
        <3>1. n \in 0..Len(received)
            BY <1>n, <2>3
        <3>. QED  BY <1>n, <3>1, Cut
    <2>7. got' \in Seq(Nat) /\ Len(got') = g + n
        <3>1. got' \in Seq(Nat) /\ Len(got') = Len(got) + Len(SubSeq(received, 1, n))
            BY <1>n, <2>1, <2>6, ConcatProperties
        <3>. QED  BY <2>6, <3>1
    <2>8. tail \in Seq(Nat) /\ Len(tail) \in Nat
        OBVIOUS
    <2>9. pipe = Units(g, u) \o tail /\ pipe' = Units(g + n, u) \o tail
        BY <1>k, <1>u, <2>1, <2>4, <2>7 DEF pipe, unread, Units
    <2>. HIDE DEF g, u, tail
    <2>. DEFINE x == Units(g, u)
    <2>10. /\ x \in Seq(Nat) /\ Len(x) = u - g
           /\ \A i \in 1..(u - g) : x[i] = g + i
           /\ SubSeq(x, n + 1, Len(x)) = Units(g + n, u)
        BY <2>5, UnitsMove
    <2>. HIDE DEF x
    <2>11. /\ pipe \in Seq(Nat) /\ Len(pipe) = (u - g) + Len(tail)
           /\ \A i \in 1..((u - g) + Len(tail)) :
                 pipe[i] = IF i <= u - g THEN x[i] ELSE tail[i - (u - g)]
        <3>1. /\ x \o tail \in Seq(Nat) /\ Len(x \o tail) = Len(x) + Len(tail)
              /\ \A i \in 1..(Len(x) + Len(tail)) :
                    (x \o tail)[i] = IF i <= Len(x) THEN x[i] ELSE tail[i - Len(x)]
            BY <2>8, <2>10, ConcatProperties
        <3>2. pipe = x \o tail
            BY <2>9 DEF x
        <3>. QED  BY <2>10, <3>1, <3>2
    <2>12. n \in 1..Len(pipe) /\ \A i \in 1..n : pipe[i] = g + i
        <3>1. n \in 1..Len(pipe)
            BY <2>5, <2>8, <2>11
        <3>2. ASSUME NEW i \in 1..n PROVE pipe[i] = g + i
            <4>1. i \in 1..((u - g) + Len(tail)) /\ i <= u - g /\ i \in 1..(u - g)
                BY <2>5, <2>8
            <4>. QED  BY <2>10, <2>11, <4>1
        <3>. QED  BY <3>1, <3>2
    <2>13. \A i \in 1..n : pipe[i] # 0
        BY <2>5, <2>12
    <2>14. SubSeq(pipe, 1, n) = SubSeq(received, 1, n)
        <3>. DEFINE a == SubSeq(pipe, 1, n)
                    b == SubSeq(received, 1, n)
        <3>1. n \in 0..Len(pipe)
            BY <2>5, <2>8, <2>11, <2>12
        <3>2. a \in Seq(Nat) /\ Len(a) = n /\ \A i \in 1..n : a[i] = pipe[i]
            BY <2>11, <3>1, Cut
        <3>3. \A i \in 1..n : b[i] = g + i
            <4>1. \A i \in 1..n : i \in DOMAIN received
                BY <1>n, <2>3, <2>5, LenProperties
            <4>2. \A i \in DOMAIN received : received[i] = g + i
                BY <1>t DEF ReceivedInv, g
            <4>. QED  BY <2>6, <4>1, <4>2
        <3>4. b \in Seq(Nat) /\ Len(b) = n
            BY <2>6
        <3>. HIDE DEF a, b
        <3>5. a = b
            BY <2>12, <3>2, <3>3, <3>4, SeqEqual
        <3>. QED  BY <3>5 DEF a, b
    <2>15. SubSeq(pipe, n + 1, Len(pipe)) = Units(g + n, u) \o tail
        <3>. DEFINE a == SubSeq(pipe, n + 1, Len(pipe))
                    b == Units(g + n, u) \o tail
                    y == Units(g + n, u)
        <3>1. n \in 0..Len(pipe)
            BY <2>5, <2>8, <2>11, <2>12
        <3>2. a \in Seq(Nat) /\ Len(a) = Len(pipe) - n
              /\ \A i \in 1..(Len(pipe) - n) : a[i] = pipe[n + i]
            BY <2>11, <3>1, Cut
        <3>3. y \in Seq(Nat) /\ Len(y) = u - (g + n) /\ \A i \in 1..(u - (g + n)) : y[i] = (g + n) + i
            <4>1. g + n \in Nat /\ g + n <= u /\ u \in Nat
                BY <2>5
            <4>. QED  BY <4>1, UnitsType
        <3>. HIDE DEF y
        <3>4. b \in Seq(Nat) /\ Len(b) = Len(y) + Len(tail)
              /\ \A i \in 1..(Len(y) + Len(tail)) : b[i] = IF i <= Len(y) THEN y[i] ELSE tail[i - Len(y)]
            BY <2>8, <3>3, ConcatProperties DEF y
        <3>. HIDE DEF a, b
        <3>5. Len(a) = Len(b)
            BY <2>5, <2>8, <2>11, <3>2, <3>3, <3>4
        <3>6. ASSUME NEW i \in 1..Len(a) PROVE a[i] = b[i]
            <4>1. /\ i \in Nat \ {0} /\ i \in 1..(Len(pipe) - n) /\ i \in 1..(Len(y) + Len(tail))
                  /\ n + i \in 1..((u - g) + Len(tail))
                BY <2>5, <2>8, <2>11, <3>2, <3>3, <3>4, <3>5
            <4>2. a[i] = pipe[n + i]
                BY <3>2, <4>1
            <4>3. CASE i <= u - (g + n)
                <5>1. b[i] = (g + n) + i
                    BY <2>5, <3>3, <3>4, <4>1, <4>3
                <5>2. n + i <= u - g /\ n + i \in 1..(u - g)
                    BY <2>5, <4>1, <4>3
                <5>3. pipe[n + i] = g + (n + i)
                    BY <2>10, <2>11, <4>1, <5>2
                <5>4. g + (n + i) = (g + n) + i
                    BY <2>5, <4>1
                <5>. QED  BY <4>2, <5>1, <5>3, <5>4
            <4>4. CASE ~(i <= u - (g + n))
                <5>1. b[i] = tail[i - (u - (g + n))]
                    BY <2>5, <3>3, <3>4, <4>1, <4>4
                <5>2. ~(n + i <= u - g) /\ (n + i) - (u - g) = i - (u - (g + n))
                    BY <2>5, <4>1, <4>4
                <5>3. pipe[n + i] = tail[(n + i) - (u - g)]
                    BY <2>11, <4>1, <5>2
                <5>. QED  BY <4>2, <5>1, <5>2, <5>3
            <4>. QED  BY <4>3, <4>4
        <3>7. a = b
            BY <3>2, <3>4, <3>5, <3>6, SeqEqual
        <3>. QED  BY <3>7 DEF a, b
    <2>16. Stream!Receive(n)
        <3>1. got' = got \o SubSeq(pipe, 1, n) /\ pipe' = SubSeq(pipe, n + 1, Len(pipe))
            BY <2>1, <2>9, <2>14, <2>15
        <3>. QED  BY <2>1, <2>4, <2>12, <2>13, <3>1 DEF Stream!Receive, Stream!Open, Stream!Close
    <2>. QED  BY <2>12, <2>16 DEF Stream!StreamNext
<1>5. CASE ReadClose
    <2>1. /\ handle = "open" /\ received = <<>> /\ peer_closed /\ ~close_reported /\ call = "idle"
          /\ close_reported' = TRUE /\ UNCHANGED <<peer, handle, got>>
        BY <1>5 DEF ReadClose, Callable, rustls, adapter
    <2>2. peer.closed /\ Len(got) = peer.units
        <3>1. close_received /\ Len(received) = 0
            BY <1>t, <2>1 DEF CallsInv
        <3>2. peer.closed /\ Len(got) + Len(received) = peer.units
            BY <1>t, <3>1 DEF ReceivedInv, decrypted
        <3>. QED  BY <1>n, <3>1, <3>2
    <2>3. unread = <<>>
        <3>1. /\ Units(Len(got), peer.units) \in Seq(Nat)
              /\ Len(Units(Len(got), peer.units)) = peer.units - Len(got)
            BY <1>n, UnitsType
        <3>2. Len(Units(Len(got), peer.units)) = 0
            BY <1>n, <2>2, <3>1
        <3>. QED  BY <1>u, <3>1, <3>2, EmptySeq
    <2>4. pipe = <<0>> /\ ended = "open"
        <3>1. <<>> \o <<0>> = <<0>>
            OBVIOUS
        <3>. QED  BY <1>k, <2>1, <2>2, <2>3, <3>1
    <2>5. pipe' = <<>> /\ ended' = "closed" /\ peer.units' = peer.units
        BY <2>1 DEF pipe, ended
    <2>6. <<0>> # <<>> /\ Head(<<0>>) = 0
        OBVIOUS
    <2>7. Stream!ReceiveClose
        BY <2>1, <2>4, <2>5, <2>6 DEF Stream!ReceiveClose, Stream!Open, Stream!Close
    <2>. QED  BY <2>7 DEF Stream!StreamNext
<1>6. ASSUME NEW k \in 1..MaxChunk, WriteCiphertext(k)
      PROVE  Stream!StreamNext \/ UNCHANGED <<peer.units, pipe, got, ended>>
    <2>1. /\ handle = "open" /\ UNCHANGED <<peer, got, close_reported>>
          /\ handle' = "failed" \/ handle' = handle
        BY <1>6 DEF WriteCiphertext, Callable, Throws, history
    <2>. QED  BY <1>2, <1>3, <2>1
<1>7. CASE SignFails \/ ProcessFails
    <2>1. /\ call # "idle" /\ handle' = "failed" /\ UNCHANGED <<peer, got, close_reported>>
        BY <1>7 DEF SignFails, ProcessFails, RecordDue, Processing, Throws, history
    <2>2. handle = "open"
        BY <1>t, <2>1 DEF CallsInv
    <2>. QED  BY <1>2, <2>1, <2>2
<1>8. CASE FreeConnection
    <2>1. handle' = "freed" /\ UNCHANGED <<peer, got, close_reported>>
        BY <1>8 DEF FreeConnection, history
    <2>. QED  BY <1>2, <1>3, <2>1
<1>9. CASE VerifyServerCert \/ SignHandshake \/ ProcessData \/ ProcessClose \/ ProcessDone
             \/ WritePlaintext \/ DidFullHandshake \/ AuthCert \/ UNCHANGED tlsVars
    <2>1. handle' = handle /\ UNCHANGED <<peer, got, close_reported>>
        BY <1>9 DEF VerifyServerCert, SignHandshake, ProcessData, ProcessClose, ProcessDone,
            WritePlaintext, DidFullHandshake, AuthCert, tlsVars, rustls, adapter, history
    <2>. QED  BY <1>3, <2>1
<1>10. ASSUME NEW k \in 1..MaxChunk, ReadCiphertext(k)
       PROVE  UNCHANGED <<peer.units, pipe, got, ended>>
    <2>1. handle' = handle /\ UNCHANGED <<peer, got, close_reported>>
        BY <1>10 DEF ReadCiphertext
    <2>. QED  BY <1>3, <2>1
<1>. QED
    BY <1>1, <1>4, <1>5, <1>6, <1>7, <1>8, <1>9, <1>10 DEF TlsNext, Process, ReadLoop, SendLoop

(* What read_cleartext gives Core is a TlsStream: the peer's plaintext in  *)
(* order and without gaps, PEER_CLOSE_NOTIFY only after all of it, nothing *)
(* after a failure.                                                        *)
THEOREM TlsImplementsStream == TlsSpec => StreamSpec
<1>1. TlsInit => Stream!StreamInit
    <2>. SUFFICES ASSUME TlsInit PROVE Stream!StreamInit
        OBVIOUS
    <2>. USE DEF TlsInit
    <2>1. unread = <<>>
        BY DEF unread
    <2>2. pipe = <<>> /\ ended = "open"
        BY <2>1 DEF pipe, ended
    <2>. QED  BY <2>2 DEF Stream!StreamInit
<1>. QED  BY <1>1, StreamStep, TlsInvariant, PTL DEF TlsSpec, StreamSpec, Stream!StreamSpec
=============================================================================
