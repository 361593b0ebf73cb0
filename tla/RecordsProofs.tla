---------------------------- MODULE RecordsProofs ----------------------------
(***************************************************************************)
(* What parseMappings makes of a page, for every text: each record that    *)
(* stands on it as Store wrote it is read, and, as long as every entry     *)
(* names one whole CID, nothing else is.                                   *)
(***************************************************************************)
EXTENDS Records, FiniteSetTheorems, TLAPS

(* The places of the records that stand on a page as they were written.    *)
IntactPlaces(t) == {<<i, i + 3>> : i \in IntactAt(t)}

(* What SubSeq cuts out of a text.                                         *)
LEMMA PieceOfText ==
    ASSUME NEW t \in Seq(Token), NEW m \in 1 .. Len(t) + 1, NEW n \in 0 .. Len(t),
           m <= n + 1
    PROVE  /\ SubSeq(t, m, n) \in Seq(Token)
           /\ Len(SubSeq(t, m, n)) = n - m + 1
           /\ \A i \in 1 .. n - m + 1 : SubSeq(t, m, n)[i] = t[m + i - 1]
  OBVIOUS

(* Sequences of three and four elements, and such pieces of a text.        *)
LEMMA Triple ==
    ASSUME NEW S, NEW r \in Seq(S), Len(r) = 3
    PROVE  r = <<r[1], r[2], r[3]>>
  OBVIOUS

LEMMA Quadruple ==
    ASSUME NEW S, NEW r \in Seq(S), Len(r) = 4
    PROVE  r = <<r[1], r[2], r[3], r[4]>>
  OBVIOUS

LEMMA ThreeTokens ==
    ASSUME NEW t \in Seq(Token), NEW i \in 1 .. Len(t), i + 2 \in 1 .. Len(t)
    PROVE  SubSeq(t, i, i + 2) = <<t[i], t[i + 1], t[i + 2]>>
<1>1. PICK r : r = SubSeq(t, i, i + 2)
  OBVIOUS
<1>2. /\ r \in Seq(Token) /\ Len(r) = 3
      /\ \A j \in 1 .. 3 : r[j] = t[i + j - 1]
  <2>1. /\ i + 2 - i + 1 = 3 /\ i <= i + 2 + 1
        /\ i \in 1 .. Len(t) + 1 /\ i + 2 \in 0 .. Len(t)
    OBVIOUS
  <2>2. /\ r \in Seq(Token) /\ Len(r) = i + 2 - i + 1
        /\ \A j \in 1 .. i + 2 - i + 1 : r[j] = t[i + j - 1]
    BY <1>1, <2>1, PieceOfText
  <2> QED
    BY <2>1, <2>2, Zenon
<1>3. i + 1 - 1 = i /\ i + 2 - 1 = i + 1 /\ i + 3 - 1 = i + 2
  OBVIOUS
<1>4. r[1] = t[i] /\ r[2] = t[i + 1] /\ r[3] = t[i + 2]
  BY <1>2, <1>3
<1>5. r = <<r[1], r[2], r[3]>>
  BY <1>2, Triple
<1> QED
  BY <1>1, <1>4, <1>5, Zenon

LEMMA FourTokens ==
    ASSUME NEW t \in Seq(Token), NEW i \in 1 .. Len(t), i + 3 \in 1 .. Len(t)
    PROVE  SubSeq(t, i, i + 3) = <<t[i], t[i + 1], t[i + 2], t[i + 3]>>
<1>1. PICK r : r = SubSeq(t, i, i + 3)
  OBVIOUS
<1>2. /\ r \in Seq(Token) /\ Len(r) = 4
      /\ \A j \in 1 .. 4 : r[j] = t[i + j - 1]
  <2>1. /\ i + 3 - i + 1 = 4 /\ i <= i + 3 + 1
        /\ i \in 1 .. Len(t) + 1 /\ i + 3 \in 0 .. Len(t)
    OBVIOUS
  <2>2. /\ r \in Seq(Token) /\ Len(r) = i + 3 - i + 1
        /\ \A j \in 1 .. i + 3 - i + 1 : r[j] = t[i + j - 1]
    BY <1>1, <2>1, PieceOfText
  <2> QED
    BY <2>1, <2>2, Zenon
<1>3. i + 1 - 1 = i /\ i + 2 - 1 = i + 1 /\ i + 3 - 1 = i + 2 /\ i + 4 - 1 = i + 3
  OBVIOUS
<1>4. r[1] = t[i] /\ r[2] = t[i + 1] /\ r[3] = t[i + 2] /\ r[4] = t[i + 3]
  BY <1>2, <1>3
<1>5. r = <<r[1], r[2], r[3], r[4]>>
  BY <1>2, Quadruple
<1> QED
  BY <1>1, <1>4, <1>5, Zenon

(* What stands at an intact record.                                        *)
LEMMA IntactTokens ==
    ASSUME NEW t \in Seq(Token), NEW i
    PROVE  i \in IntactAt(t) <=>
              /\ i \in 1 .. Len(t) /\ i + 3 \in 1 .. Len(t)
              /\ i = 1 \/ t[i - 1] = Semicolon
              /\ t[i] \in KeyText /\ t[i + 1] = Comma
              /\ t[i + 2] \in CidText /\ t[i + 3] = Semicolon
<1>1. i \in IntactAt(t) <=>
         /\ i \in 1 .. Len(t) /\ i + 3 \in 1 .. Len(t)
         /\ i = 1 \/ t[i - 1] = Semicolon
         /\ \E key \in KeyText, cid \in CidText :
               SubSeq(t, i, i + 3) = <<key, Comma, cid, Semicolon>>
  BY DEF IntactAt, Format
<1>2. ASSUME i \in 1 .. Len(t), i + 3 \in 1 .. Len(t)
      PROVE  SubSeq(t, i, i + 3) = <<t[i], t[i + 1], t[i + 2], t[i + 3]>>
  BY <1>2, FourTokens
<1> QED
  BY <1>1, <1>2

(* A record that stands as it was written is read, whatever surrounds it.  *)
THEOREM IntactIsRead ==
    ASSUME NEW t \in Seq(Token), NEW i \in IntactAt(t)
    PROVE  <<i, i + 3>> \in parseMappings(t)
<1> DEFINE s == <<i, i + 3>>
<1>1. /\ i \in 1 .. Len(t) /\ i + 3 \in 1 .. Len(t)
      /\ i = 1 \/ t[i - 1] = Semicolon
      /\ t[i] \in KeyText /\ t[i + 1] = Comma
      /\ t[i + 2] \in CidText /\ t[i + 3] = Semicolon
  BY IntactTokens
<1>2. t[i] # Semicolon /\ t[i + 1] # Semicolon /\ t[i + 2] # Semicolon
      /\ t[i] # Comma /\ t[i + 2] # Comma
  BY <1>1, DelimiterAssumption
<1>3. s[1] = i /\ s[2] = i + 3 /\ s[2] - 1 = i + 2
  BY <1>1
<1>4. s \in Slices(t)
  <2>1. s \in (1 .. Len(t) + 1) \X Ends(t)
    BY <1>1 DEF Ends
  <2>2. \A j \in i .. i + 2 : t[j] # Semicolon
    BY <1>1, <1>2
  <2>3. i <= i + 3
    BY <1>1
  <2> HIDE DEF s
  <2> QED
    BY <1>1, <1>3, <2>1, <2>2, <2>3 DEF Slices
<1>5. Cut(t, s) = <<t[i], t[i + 1], t[i + 2]>>
  <2>1. Cut(t, s) = SubSeq(t, i, i + 2)
    BY <1>3, Zenon DEF Cut
  <2>2. i + 2 \in 1 .. Len(t)
    BY <1>1
  <2> QED
    BY <1>1, <2>1, <2>2, ThreeTokens
<1>6. IsMapping(Cut(t, s))
  <2>1. PICK c : c = <<t[i], t[i + 1], t[i + 2]>>
    OBVIOUS
  <2>2. /\ Len(c) = 3 /\ DOMAIN c = 1 .. 3
        /\ c[1] = t[i] /\ c[2] = t[i + 1] /\ c[3] = t[i + 2]
    BY <2>1
  <2>3. {j \in DOMAIN c : c[j] = Comma} = {2}
    BY <1>1, <1>2, <2>2
  <2>4. IsMapping(c)
    BY <1>1, <2>2, <2>3 DEF IsMapping
  <2> QED
    BY <1>5, <2>1, <2>4
<1> QED
  BY <1>4, <1>6 DEF parseMappings

(* An entry with one whole CID is a record as it was written.              *)
LEMMA EntryIsIntact ==
    ASSUME NEW t \in Seq(Token), CidsWhole(t), NEW s \in parseMappings(t)
    PROVE  s[1] \in IntactAt(t) /\ s = <<s[1], s[1] + 3>>
<1>1. /\ s \in (1 .. Len(t) + 1) \X Ends(t) /\ s[1] <= s[2]
      /\ s[1] = 1 \/ t[s[1] - 1] = Semicolon
      /\ IsMapping(Cut(t, s))
  BY DEF parseMappings, Slices
<1>2. PICK b, e : s = <<b, e>> /\ s[1] = b /\ s[2] = e
  BY <1>1
<1>c. PICK c : c = Cut(t, s)
  OBVIOUS
<1>d. PICK cid \in CidText : CidOf(c) = <<cid>>
  BY <1>c DEF CidsWhole
<1>3. b \in Nat /\ b >= 1 /\ b <= e /\ e \in 1 .. Len(t) /\ t[e] = Semicolon
  BY <1>1, <1>2 DEF Ends
<1>4. /\ c \in Seq(Token) /\ Len(c) = e - b
      /\ \A j \in 1 .. e - b : c[j] = t[b + j - 1]
  <2>1. b \in 1 .. Len(t) + 1 /\ e - 1 \in 0 .. Len(t) /\ b <= e - 1 + 1
        /\ e - 1 - b + 1 = e - b
    BY <1>3
  <2>2. c = SubSeq(t, b, e - 1)
    BY <1>2, <1>c DEF Cut
  <2>3. /\ SubSeq(t, b, e - 1) \in Seq(Token)
        /\ Len(SubSeq(t, b, e - 1)) = e - b
        /\ \A j \in 1 .. e - b : SubSeq(t, b, e - 1)[j] = t[b + j - 1]
    BY <2>1, PieceOfText
  <2> QED
    BY <2>2, <2>3, Zenon
<1>5. Len(c) >= 3 /\ c[1] \in KeyText /\ c[2] = Comma
  BY <1>1, <1>4, <1>c DEF IsMapping
<1>6. e = b + 3 /\ c[3] = cid
  <2>1. PICK d : d = SubSeq(c, 3, Len(c))
    OBVIOUS
  <2>2. Len(d) = Len(c) - 3 + 1 /\ \A i \in 1 .. Len(c) - 3 + 1 : d[i] = c[3 + i - 1]
    BY <1>4, <1>5, <2>1, PieceOfText
  <2>3. d = <<cid>>
    BY <1>d, <2>1, Zenon DEF CidOf
  <2>4. Len(d) = 1 /\ d[1] = cid
    BY <2>3
  <2>5. Len(c) = 3 /\ e = b + 3
    <3>1. e \in Nat
      BY <1>3
    <3>2. Len(c) = e - b
      BY <1>4
    <3>3. Len(c) - 3 + 1 = 1
      BY <2>2, <2>4, Zenon
    <3> QED
      BY <1>3, <3>1, <3>2, <3>3
  <2>6. d[1] = c[3]
    <3>1. Len(c) - 3 + 1 = 1 /\ 1 \in 1 .. 1 /\ 3 + 1 - 1 = 3
      BY <2>5
    <3>2. d[1] = c[3 + 1 - 1]
      BY <2>2, <3>1, Zenon
    <3> QED
      BY <3>1, <3>2, Zenon
  <2> QED
    BY <2>4, <2>5, <2>6
<1>7. t[b] = c[1] /\ t[b + 1] = Comma /\ t[b + 2] = cid /\ t[b + 3] = Semicolon
  <2>1. b + 1 - 1 = b /\ b + 2 - 1 = b + 1 /\ b + 3 - 1 = b + 2 /\ e - b = 3
    BY <1>3, <1>6
  <2> QED
    BY <1>3, <1>4, <1>5, <1>6, <2>1
<1>8. b \in IntactAt(t)
  <2>1. b \in 1 .. Len(t) /\ b + 3 \in 1 .. Len(t)
    BY <1>3, <1>6
  <2> QED
    BY <1>1, <1>2, <1>5, <1>7, <2>1, IntactTokens
<1> QED
  BY <1>2, <1>6, <1>8

(* The entries of a page are its intact records, each at its own place.    *)
THEOREM IntactPlacesAreRead ==
    ASSUME NEW t \in Seq(Token), CidsWhole(t)
    PROVE  parseMappings(t) = IntactPlaces(t)
  BY IntactIsRead, EntryIsIntact DEF IntactPlaces

LEMMA IntactPlacesCount ==
    ASSUME NEW t \in Seq(Token)
    PROVE  Cardinality(IntactPlaces(t)) = Cardinality(IntactAt(t))
<1>1. IsFiniteSet(IntactAt(t))
  <2>1. IntactAt(t) \subseteq 1 .. Len(t)
    BY DEF IntactAt
  <2>2. IsFiniteSet(1 .. Len(t))
    BY FS_Interval
  <2> QED
    BY <2>1, <2>2, FS_Subset
<1> DEFINE place == [i \in IntactAt(t) |-> <<i, i + 3>>]
<1>2. place \in Bijection(IntactAt(t), IntactPlaces(t))
  <2>1. place \in [IntactAt(t) -> IntactPlaces(t)]
    BY DEF IntactPlaces
  <2>2. ASSUME NEW i \in IntactAt(t), NEW j \in IntactAt(t), place[i] = place[j]
        PROVE  i = j
    BY <2>2
  <2>3. \A x \in IntactPlaces(t) : \E i \in IntactAt(t) : place[i] = x
    BY DEF IntactPlaces
  <2> QED
    BY <2>1, <2>2, <2>3 DEF Bijection, Injection, Surjection, IsInjective
<1> QED
  BY <1>1, <1>2, FS_Bijection DEF ExistsBijection
=============================================================================
