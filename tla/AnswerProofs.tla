---------------------------- MODULE AnswerProofs ----------------------------
(***************************************************************************)
(* Proofs about what becomes of a provider's answer: the event-stream      *)
(* reader, for every cut of every stream of frames; the translation of     *)
(* those frames, for every answer; a call of the client SDK, whatever      *)
(* happens to it; and the verdict of verification, for every schema and    *)
(* every value.                                                            *)
(***************************************************************************)
EXTENDS SseReader, StreamTranslate, SdkClient, Verify, ArrayProofs

-----------------------------------------------------------------------------
(* The event-stream reader.                                                *)

\* What is on the wire is opaque to the reader but for its line ends.
Payload == STRING
Symbol == {Half(f, n) : f \in Payload \cup {"nl", "cr"}, n \in 0 .. 2}

\* The buffer and the wire are what follows the frames that were handed out.
StillToCome(eol, ended) ==
    LET all == OnWire(frames, eol, ended)
        read == Len(out) * (2 + Len(eol))
    IN  /\ Len(all) = read + Len(buffer) + Len(wire)
        /\ \A i \in 1 .. Len(buffer) : buffer[i] = all[read + i]
        /\ \A i \in 1 .. Len(wire) : wire[i] = all[read + Len(buffer) + i]

\* Frames were handed out one by one, up to an end; as long as the reader
\* reads, the rest is in its buffer and on the wire.
SseReaderIInv ==
    /\ SseReaderTypeOK
    /\ buffer \in Seq(Symbol) /\ wire \in Seq(Symbol)
    /\ out \in Seq(Payload) /\ Len(out) <= Len(Content)
    /\ \A i \in 1 .. Len(out) : out[i] = frames[i]
    /\ socket \in {"open", "closed"} => \E eol \in Blank, ended \in BOOLEAN : StillToCome(eol, ended)
    /\ socket \in {"ended", "done", "threw"} /\ wire = <<>> => out = Content
    /\ socket \in {"done", "threw"} => BeforeEnd # 0 /\ out = Content

\* A blank line is two symbols or four: LF LF or CR LF CR LF.
LEMMA BlankSizes ==
    ASSUME NEW eol \in Blank
    PROVE  eol \in Seq(Symbol) /\ (Len(eol) = 2 \/ Len(eol) = 4)
<1>1. NL \in Symbol /\ CR \in Symbol
  BY DEF NL, CR, Symbol
<1>2. CASE eol = <<NL, NL>>
  BY <1>1, <1>2
<1>3. CASE eol = <<CR, NL, CR, NL>>
  BY <1>1, <1>3
<1> QED
  BY <1>2, <1>3 DEF Blank

\* Two elements in front of a sequence.
LEMMA TwoThen ==
    ASSUME NEW T, NEW a \in T, NEW b \in T, NEW s \in Seq(T)
    PROVE  /\ <<a, b>> \o s \in Seq(T) /\ Len(<<a, b>> \o s) = 2 + Len(s)
           /\ (<<a, b>> \o s)[1] = a /\ (<<a, b>> \o s)[2] = b
           /\ \A i \in 1 .. Len(s) : (<<a, b>> \o s)[2 + i] = s[i]
OBVIOUS

\* A frame on the wire: two halves and a blank line.
LEMMA EncodedIs ==
    ASSUME NEW f \in Payload, NEW eol \in Blank
    PROVE  /\ Encoded(f, eol) \in Seq(Symbol)
           /\ Len(Encoded(f, eol)) = 2 + Len(eol)
           /\ Encoded(f, eol)[1] = Half(f, 1) /\ Encoded(f, eol)[2] = Half(f, 2)
           /\ \A i \in 1 .. Len(eol) : Encoded(f, eol)[2 + i] = eol[i]
<1>1. Half(f, 1) \in Symbol /\ Half(f, 2) \in Symbol
  BY DEF Symbol
<1>2. eol \in Seq(Symbol)
  BY BlankSizes
<1> DEFINE a == Half(f, 1)
           b == Half(f, 2)
<1>3. a \in Symbol /\ b \in Symbol /\ Encoded(f, eol) = <<a, b>> \o eol
  BY <1>1 DEF Encoded
<1> HIDE DEF a, b
<1>4. /\ Encoded(f, eol) \in Seq(Symbol) /\ Len(Encoded(f, eol)) = 2 + Len(eol)
      /\ Encoded(f, eol)[1] = a /\ Encoded(f, eol)[2] = b
      /\ \A i \in 1 .. Len(eol) : Encoded(f, eol)[2 + i] = eol[i]
  BY <1>2, <1>3, TwoThen
<1> QED
  BY <1>4 DEF a, b

\* All frames on the wire have the same size, so the k-th starts after k - 1
\* times that size; the last one may lack its blank line.
LEMMA OnWireIs ==
    ASSUME NEW fs \in Seq(Payload), NEW eol \in Blank, NEW ended \in BOOLEAN
    PROVE  /\ OnWire(fs, eol, ended) \in Seq(Symbol)
           /\ fs = <<>> => Len(OnWire(fs, eol, ended)) = 0
           /\ fs # <<>> => Len(OnWire(fs, eol, ended)) = Len(fs) * (2 + Len(eol)) - (IF ended THEN 0 ELSE Len(eol))
           /\ \A k \in 0 .. (Len(fs) - 1), i \in 1 .. (2 + Len(eol)) :
                k * (2 + Len(eol)) + i <= Len(OnWire(fs, eol, ended))
                    => OnWire(fs, eol, ended)[k * (2 + Len(eol)) + i] = Encoded(fs[k + 1], eol)[i]
<1> DEFINE size == 2 + Len(eol)
           whole == Len(fs) * size - (IF ended THEN 0 ELSE Len(eol))
           all == OnWire(fs, eol, ended)
<1>0. Len(eol) = 2 \/ Len(eol) = 4
  BY BlankSizes
<1>1. Len(eol) \in Nat /\ (size = 4 \/ size = 6)
  <2>1. CASE Len(eol) = 2
    BY <2>1
  <2>2. CASE Len(eol) = 4
    BY <2>2
  <2> QED
    BY <1>0, <2>1, <2>2
<1>2. all = [p \in 1 .. whole |-> LET n == (p - 1) \div size IN Encoded(fs[n + 1], eol)[p - n * size]]
  BY DEF OnWire
<1>3. whole \in Int /\ whole <= Len(fs) * size
  <2> DEFINE cut == IF ended THEN 0 ELSE Len(eol)
  <2>1. cut \in Nat /\ size \in Nat /\ Len(fs) \in Nat
    BY <1>1
  <2>2. whole = Len(fs) * size - cut
    OBVIOUS
  <2> HIDE DEF whole, cut, size
  <2> QED
    BY <2>1, <2>2
<1>4. ASSUME NEW p \in 1 .. whole
      PROVE  /\ (p - 1) \div size \in 0 .. (Len(fs) - 1)
             /\ p - ((p - 1) \div size) * size \in 1 .. size
  <2>1. CASE size = 4
    BY <1>3, <2>1
  <2>2. CASE size = 6
    BY <1>3, <2>2
  <2> QED
    BY <1>1, <2>1, <2>2
<1> HIDE DEF all, whole
<1>5. \A k \in 0 .. (Len(fs) - 1) : fs[k + 1] \in Payload
  OBVIOUS
<1>6. ASSUME NEW p \in 1 .. whole PROVE all[p] \in Symbol
  <2> DEFINE n == (p - 1) \div size
  <2>1. all[p] = Encoded(fs[n + 1], eol)[p - n * size]
    BY <1>2
  <2>2. n \in 0 .. (Len(fs) - 1) /\ p - n * size \in 1 .. size
    BY <1>4
  <2> HIDE DEF n
  <2>3. fs[n + 1] \in Payload
    BY <2>2, <1>5
  <2>4. Encoded(fs[n + 1], eol) \in Seq(Symbol) /\ Len(Encoded(fs[n + 1], eol)) = size
    BY <2>3, EncodedIs
  <2> HIDE DEF size
  <2> QED
    BY <2>1, <2>2, <2>4
<1>7. all \in Seq(Symbol) /\ Len(all) = IF whole >= 0 THEN whole ELSE 0
  <2>1. CASE whole >= 0
    BY <1>2, <1>3, <1>6, <2>1
  <2>2. CASE whole < 0
    <3>1. 1 .. whole = {}
      BY <1>3, <2>2
    <3>2. all = [p \in {} |-> <<>>]
      BY <1>2, <3>1, Zenon
    <3> QED
      BY <3>2, <2>2, <1>3
  <2> QED
    BY <1>3, <2>1, <2>2
<1>8. fs = <<>> => whole <= 0
  BY <1>1, <1>0 DEF whole
<1>9. fs # <<>> => whole >= 0
  BY <1>1, <1>0 DEF whole
<1>10. ASSUME NEW k \in 0 .. (Len(fs) - 1), NEW i \in 1 .. size, k * size + i <= Len(all)
       PROVE  all[k * size + i] = Encoded(fs[k + 1], eol)[i]
  <2> DEFINE p == k * size + i
  <2>1. p \in Int /\ (p - 1) \div size = k /\ p - k * size = i /\ p >= 1
    <3>1. CASE size = 4
      BY <3>1
    <3>2. CASE size = 6
      BY <3>2
    <3> QED
      BY <1>1, <3>1, <3>2
  <2>2. p \in 1 .. whole
    BY <1>3, <1>7, <1>10, <2>1
  <2> QED
    BY <2>1, <2>2, <1>2
<1>11. fs = <<>> => Len(all) = 0
  BY <1>3, <1>7, <1>8
<1>12. fs # <<>> => Len(all) = whole
  BY <1>7, <1>9
<1> QED
  BY <1>7, <1>10, <1>11, <1>12 DEF whole, all

\* Slices of two, three and four symbols.
LEMMA Slices ==
    ASSUME NEW T, NEW b \in Seq(T), NEW i \in 1 .. Len(b)
    PROVE  /\ i + 1 <= Len(b) => SubSeq(b, i, i + 1) = <<b[i], b[i + 1]>>
           /\ i + 2 <= Len(b) => SubSeq(b, i, i + 2) = <<b[i], b[i + 1], b[i + 2]>>
           /\ i + 3 <= Len(b) => SubSeq(b, i, i + 3) = <<b[i], b[i + 1], b[i + 2], b[i + 3]>>
<1>1. ASSUME i + 1 <= Len(b) PROVE SubSeq(b, i, i + 1) = <<b[i], b[i + 1]>>
  <2> DEFINE s == SubSeq(b, i, i + 1)
  <2>1. s \in Seq(T) /\ Len(s) = 2
    BY <1>1
  <2>2. s[1] = b[i] /\ s[2] = b[i + 1]
    BY <1>1
  <2> HIDE DEF s
  <2>3. s = <<s[1], s[2]>>
    BY <2>1
  <2>4. s = <<b[i], b[i + 1]>>
    BY <2>2, <2>3, Zenon
  <2> QED
    BY <2>4 DEF s
<1>2. ASSUME i + 2 <= Len(b) PROVE SubSeq(b, i, i + 2) = <<b[i], b[i + 1], b[i + 2]>>
  <2> DEFINE s == SubSeq(b, i, i + 2)
  <2>1. s \in Seq(T) /\ Len(s) = 3
    BY <1>2
  <2>2. s[1] = b[i] /\ s[2] = b[i + 1] /\ s[3] = b[i + 2]
    BY <1>2
  <2> HIDE DEF s
  <2>3. s = <<s[1], s[2], s[3]>>
    BY <2>1
  <2>4. s = <<b[i], b[i + 1], b[i + 2]>>
    BY <2>2, <2>3, Zenon
  <2> QED
    BY <2>4 DEF s
<1>3. ASSUME i + 3 <= Len(b) PROVE SubSeq(b, i, i + 3) = <<b[i], b[i + 1], b[i + 2], b[i + 3]>>
  <2> DEFINE s == SubSeq(b, i, i + 3)
  <2>1. s \in Seq(T) /\ Len(s) = 4
    BY <1>3
  <2>2. s[1] = b[i] /\ s[2] = b[i + 1] /\ s[3] = b[i + 2] /\ s[4] = b[i + 3]
    BY <1>3
  <2> HIDE DEF s
  <2>3. s = <<s[1], s[2], s[3], s[4]>>
    BY <2>1
  <2>4. s = <<b[i], b[i + 1], b[i + 2], b[i + 3]>>
    BY <2>2, <2>3, Zenon
  <2> QED
    BY <2>4 DEF s
<1> QED
  BY <1>1, <1>2, <1>3

\* What the regular expression /\r?\n\r?\n/ matches at a place.
LEMMA BlankIs ==
    ASSUME NEW b \in Seq(Symbol), NEW i \in 1 .. Len(b), NEW n
    PROVE  n \in BlankAt(b, i) <=>
            \/ n = 2 /\ i + 1 <= Len(b) /\ b[i] = NL /\ b[i + 1] = NL
            \/ n = 3 /\ i + 2 <= Len(b) /\ b[i] = CR /\ b[i + 1] = NL /\ b[i + 2] = NL
            \/ n = 3 /\ i + 2 <= Len(b) /\ b[i] = NL /\ b[i + 1] = CR /\ b[i + 2] = NL
            \/ n = 4 /\ i + 3 <= Len(b) /\ b[i] = CR /\ b[i + 1] = NL /\ b[i + 2] = CR /\ b[i + 3] = NL
<1> DEFINE Blanks == {<<NL, NL>>, <<CR, NL, NL>>, <<NL, CR, NL>>, <<CR, NL, CR, NL>>}
<1>1. i \in Int /\ Len(b) \in Int
  OBVIOUS
<1>2. n \in BlankAt(b, i) <=> n \in 2 .. 4 /\ i + n - 1 <= Len(b) /\ SubSeq(b, i, i + n - 1) \in Blanks
  BY DEF BlankAt
<1> HIDE DEF Blanks
<1>3. n \in 2 .. 4 <=> n = 2 \/ n = 3 \/ n = 4
  OBVIOUS
<1>4. CASE n = 2
  <2>1. i + n - 1 = i + 1
    BY <1>1, <1>4
  <2>2. n \in BlankAt(b, i) <=> i + 1 <= Len(b) /\ SubSeq(b, i, i + 1) \in Blanks
    BY <1>2, <1>4, <2>1
  <2>3. \A x, y : <<x, y>> \in Blanks <=> x = NL /\ y = NL
    BY DEF Blanks
  <2>4. i + 1 <= Len(b) => SubSeq(b, i, i + 1) = <<b[i], b[i + 1]>>
    BY Slices
  <2>5. i + 1 <= Len(b) => (SubSeq(b, i, i + 1) \in Blanks <=> b[i] = NL /\ b[i + 1] = NL)
    <3>1. <<b[i], b[i + 1]>> \in Blanks <=> b[i] = NL /\ b[i + 1] = NL
      BY <2>3, Zenon
    <3> QED
      BY <2>4, <3>1, Zenon
  <2> QED
    BY <1>4, <2>2, <2>5
<1>5. CASE n = 3
  <2>1. i + n - 1 = i + 2
    BY <1>1, <1>5
  <2>2. n \in BlankAt(b, i) <=> i + 2 <= Len(b) /\ SubSeq(b, i, i + 2) \in Blanks
    BY <1>2, <1>5, <2>1
  <2>3. \A x, y, z : <<x, y, z>> \in Blanks <=> (x = CR /\ y = NL /\ z = NL) \/ (x = NL /\ y = CR /\ z = NL)
    BY DEF Blanks
  <2>4. i + 2 <= Len(b) => SubSeq(b, i, i + 2) = <<b[i], b[i + 1], b[i + 2]>>
    BY Slices
  <2>5. i + 2 <= Len(b) => (SubSeq(b, i, i + 2) \in Blanks <=> (b[i] = CR /\ b[i + 1] = NL /\ b[i + 2] = NL) \/ (b[i] = NL /\ b[i + 1] = CR /\ b[i + 2] = NL))
    <3>1. <<b[i], b[i + 1], b[i + 2]>> \in Blanks <=> (b[i] = CR /\ b[i + 1] = NL /\ b[i + 2] = NL) \/ (b[i] = NL /\ b[i + 1] = CR /\ b[i + 2] = NL)
      BY <2>3
    <3> QED
      BY <2>4, <3>1, Zenon
  <2> QED
    BY <1>5, <2>2, <2>5
<1>6. CASE n = 4
  <2>1. i + n - 1 = i + 3
    BY <1>1, <1>6
  <2>2. n \in BlankAt(b, i) <=> i + 3 <= Len(b) /\ SubSeq(b, i, i + 3) \in Blanks
    BY <1>2, <1>6, <2>1
  <2>3. \A x, y, z, w : <<x, y, z, w>> \in Blanks <=> x = CR /\ y = NL /\ z = CR /\ w = NL
    BY DEF Blanks
  <2>4. i + 3 <= Len(b) => SubSeq(b, i, i + 3) = <<b[i], b[i + 1], b[i + 2], b[i + 3]>>
    BY Slices
  <2>5. i + 3 <= Len(b) => (SubSeq(b, i, i + 3) \in Blanks <=> b[i] = CR /\ b[i + 1] = NL /\ b[i + 2] = CR /\ b[i + 3] = NL)
    <3>1. <<b[i], b[i + 1], b[i + 2], b[i + 3]>> \in Blanks <=> b[i] = CR /\ b[i + 1] = NL /\ b[i + 2] = CR /\ b[i + 3] = NL
      BY <2>3, Zenon
    <3> QED
      BY <2>4, <3>1, Zenon
  <2> QED
    BY <1>6, <2>2, <2>5
<1> QED
  BY <1>2, <1>3, <1>4, <1>5, <1>6

\* No payload looks like a line end.
LEMMA SymbolsDiffer ==
    /\ NL # CR
    /\ \A f : Half(f, 1) # NL /\ Half(f, 2) # NL /\ Half(f, 1) # CR /\ Half(f, 2) # CR
BY DEF NL, CR, Half

\* What the buffer begins with, as long as it holds the frame f or a part of it.
Begins(b, f, eol) ==
    \A i \in 1 .. Len(b) : i <= 2 + Len(eol) => b[i] = Encoded(f, eol)[i]

\* A buffer that starts with a frame shows a blank line when the frame is
\* complete, right after its payload, and no sooner.
LEMMA FirstEvent ==
    ASSUME NEW f \in Payload, NEW eol \in Blank, NEW b \in Seq(Symbol), Begins(b, f, eol)
    PROVE  /\ Len(b) < 2 + Len(eol) => Separators(b) = {}
           /\ Len(b) >= 2 + Len(eol) => Separators(b) # {} /\ FirstOf(Separators(b)) = 3 /\ BlankAt(b, 3) = {Len(eol)}
<1>1. Len(b) >= 1 => b[1] = Half(f, 1)
  BY EncodedIs, BlankSizes DEF Begins
<1>2. Len(b) >= 2 => b[2] = Half(f, 2)
  BY EncodedIs, BlankSizes DEF Begins
<1>3. \A n : (1 \in 1 .. Len(b) => n \notin BlankAt(b, 1)) /\ (2 \in 1 .. Len(b) => n \notin BlankAt(b, 2))
  BY <1>1, <1>2, BlankIs, SymbolsDiffer
<1>4. ASSUME Separators(b) # {}, 3 \in Separators(b) PROVE FirstOf(Separators(b)) = 3
  <2>1. \A i \in Separators(b) : i \in Int /\ i >= 3
    BY <1>3 DEF Separators
  <2> QED
    BY <2>1, <1>4 DEF FirstOf
<1>5. CASE eol = <<NL, NL>>
  <2>1. Len(eol) = 2 /\ eol[1] = NL /\ eol[2] = NL
    BY <1>5
  <2> DEFINE e == Encoded(f, eol)
  <2>a. \A i \in 1 .. Len(eol) : e[2 + i] = eol[i]
    BY EncodedIs
  <2>0. e[2 + 1] = eol[1] /\ e[2 + 2] = eol[2]
    BY <2>1, <2>a
  <2> HIDE DEF e
  <2>2. Len(b) >= 3 => b[3] = NL
    BY <2>0, <2>1 DEF Begins, e
  <2>3. Len(b) >= 4 => b[4] = NL
    BY <2>0, <2>1 DEF Begins, e
  <2>4. CASE Len(b) < 4
    <3>1. \A i \in 1 .. Len(b) : \A n : n \notin BlankAt(b, i)
      BY <1>3, <2>4, BlankIs
    <3> QED
      BY <2>1, <2>4, <3>1 DEF Separators
  <2>5. CASE Len(b) >= 4
    <3>1. \A n : n \in BlankAt(b, 3) <=> n = 2
      BY <2>2, <2>3, <2>5, BlankIs, SymbolsDiffer
    <3>2. BlankAt(b, 3) = {2}
      BY <3>1
    <3>3. 3 \in Separators(b)
      <4>1. 3 \in 1 .. Len(b)
        BY <2>5
      <4> QED
        BY <4>1, <3>2, Zenon DEF Separators
    <3> QED
      BY <2>1, <2>5, <3>2, <3>3, <1>4
  <2> QED
    BY <2>4, <2>5
<1>6. CASE eol = <<CR, NL, CR, NL>>
  <2>1. Len(eol) = 4 /\ eol[1] = CR /\ eol[2] = NL /\ eol[3] = CR /\ eol[4] = NL
    BY <1>6
  <2> DEFINE e == Encoded(f, eol)
  <2>a. \A i \in 1 .. Len(eol) : e[2 + i] = eol[i]
    BY EncodedIs
  <2>0. e[2 + 1] = eol[1] /\ e[2 + 2] = eol[2] /\ e[2 + 3] = eol[3] /\ e[2 + 4] = eol[4]
    BY <2>1, <2>a
  <2> HIDE DEF e
  <2>2. /\ Len(b) >= 3 => b[3] = CR
        /\ Len(b) >= 4 => b[4] = NL
    BY <2>0, <2>1 DEF Begins, e
  <2>3. /\ Len(b) >= 5 => b[5] = CR
        /\ Len(b) >= 6 => b[6] = NL
    BY <2>0, <2>1 DEF Begins, e
  <2>4. CASE Len(b) < 6
    <3>1. \A i \in 1 .. Len(b) : i = 1 \/ i = 2 \/ i = 3 \/ i = 4 \/ i = 5
      BY <2>4
    <3>2. \A n : 3 \in 1 .. Len(b) => n \notin BlankAt(b, 3)
      BY <2>2, <2>3, <2>4, BlankIs, SymbolsDiffer
    <3>3. \A n : 4 \in 1 .. Len(b) => n \notin BlankAt(b, 4)
      BY <2>2, <2>3, <2>4, BlankIs, SymbolsDiffer
    <3>4. \A n : 5 \in 1 .. Len(b) => n \notin BlankAt(b, 5)
      BY <2>2, <2>3, <2>4, BlankIs, SymbolsDiffer
    <3>5. \A i \in 1 .. Len(b) : \A n : n \notin BlankAt(b, i)
      BY <1>3, <3>1, <3>2, <3>3, <3>4
    <3> QED
      BY <2>1, <2>4, <3>5 DEF Separators
  <2>5. CASE Len(b) >= 6
    <3>1. \A n : n \in BlankAt(b, 3) <=> n = 4
      BY <2>2, <2>3, <2>5, BlankIs, SymbolsDiffer
    <3>2. BlankAt(b, 3) = {4}
      BY <3>1
    <3>3. 3 \in Separators(b)
      <4>1. 3 \in 1 .. Len(b)
        BY <2>5
      <4> QED
        BY <4>1, <3>2, Zenon DEF Separators
    <3> QED
      BY <2>1, <2>5, <3>2, <3>3, <1>4
  <2> QED
    BY <2>4, <2>5
<1> QED
  BY <1>5, <1>6 DEF Blank

\* An event that is a frame or a part of one parses if its payload is whole.
LEMMA PayloadIs ==
    ASSUME NEW f \in Payload, NEW eol \in Blank, NEW b \in Seq(Symbol), Begins(b, f, eol), Len(b) < 2 + Len(eol)
    PROVE  /\ Len(b) < 2 => Payloads(b) = <<>>
           /\ Len(b) >= 2 => Payloads(b) = <<f>>
<1>1. Len(b) >= 1 => b[1] = Half(f, 1)
  BY EncodedIs, BlankSizes, SMTT(30) DEF Begins
<1>2. Len(b) >= 2 => b[2] = Half(f, 2)
  BY EncodedIs, BlankSizes DEF Begins
<1>3. CASE Len(b) < 2
  <2>1. Whole(b) = {}
    BY <1>3 DEF Whole
  <2>2. Cardinality(Whole(b)) = 0
    BY <2>1, FS_EmptySet
  <2> QED
    BY <1>3, <2>2 DEF Payloads
<1>4. CASE Len(b) >= 2
  <2>1. \A i \in 3 .. Len(b) : b[i] = eol[i - 2]
    BY <1>4, EncodedIs, BlankSizes DEF Begins
  <2>2. \A j \in 1 .. Len(eol) : eol[j].half = 0
    <3>1. NL.half = 0 /\ CR.half = 0
      BY DEF NL, CR, Half
    <3>2. CASE eol = <<NL, NL>>
      BY <3>1, <3>2
    <3>3. CASE eol = <<CR, NL, CR, NL>>
      BY <3>1, <3>3
    <3> QED
      BY <3>2, <3>3 DEF Blank
  <2>3. \A i \in 3 .. Len(b) : b[i].half = 0
    BY <2>1, <2>2, BlankSizes
  <2>4. Whole(b) = {1}
    BY <1>1, <1>2, <1>4, <2>3 DEF Whole, Half
  <2>5. Cardinality(Whole(b)) = 1
    BY <2>4, FS_Singleton
  <2>6. {j \in Whole(b) : j < 1} = {}
    BY <2>4
  <2>7. Cardinality({j \in Whole(b) : j < 1}) = 1 - 1
    <3>1. Cardinality({}) = 1 - 1
      BY FS_EmptySet
    <3> QED
      BY <2>6, <3>1, Zenon
  <2> DEFINE at == CHOOSE i \in Whole(b) : Cardinality({j \in Whole(b) : j < i}) = 1 - 1
  <2>8. at = 1
    BY <2>4, <2>7
  <2> HIDE DEF at
  <2>9. b[at].frame = f
    BY <1>1, <1>4, <2>8 DEF Half
  <2>10. Payloads(b)[1] = b[at].frame
    BY <2>5 DEF Payloads, at
  <2>11. Payloads(b) = [k \in 1 .. 1 |-> Payloads(b)[k]]
    BY <2>5 DEF Payloads
  <2> QED
    BY <1>4, <2>9, <2>10, <2>11
<1> QED
  BY <1>3, <1>4

\* BeforeEnd is the first frame that ends the reading, if there is one.
LEMMA EndsFirst ==
    ASSUME frames \in Seq(Payload)
    PROVE  /\ BeforeEnd \in 0 .. Len(frames)
           /\ BeforeEnd = 0 => \A i \in 1 .. Len(frames) : ~ Ends(frames[i])
           /\ BeforeEnd # 0 => Ends(frames[BeforeEnd]) /\ \A i \in 1 .. (BeforeEnd - 1) : ~ Ends(frames[i])
<1> DEFINE I == {i \in 1 .. Len(frames) : Ends(frames[i])}
<1>1. BeforeEnd = IF I # {} THEN Min(I) ELSE 0
  BY DEF BeforeEnd, SelectInSeq
<1>2. CASE I = {}
  BY <1>1, <1>2
<1>3. CASE I # {}
  <2>1. I \subseteq Nat /\ \A i \in I : i \in 1 .. Len(frames)
    OBVIOUS
  <2> HIDE DEF I
  <2>2. \E x \in I : \A y \in I : x <= y
    BY <1>3, <2>1, LeastNatural
  <2>3. Min(I) \in I /\ \A y \in I : Min(I) <= y
    BY <2>2 DEF Min
  <2>4. BeforeEnd = Min(I)
    BY <1>1, <1>3
  <2>5. BeforeEnd \in 1 .. Len(frames) /\ Ends(frames[BeforeEnd])
    BY <2>1, <2>3, <2>4 DEF I
  <2>6. \A i \in 1 .. (BeforeEnd - 1) : ~ Ends(frames[i])
    BY <2>3, <2>4, <2>5 DEF I
  <2> QED
    BY <2>5, <2>6
<1> QED
  BY <1>2, <1>3

\* Content is what comes before it.
LEMMA ContentIs ==
    ASSUME frames \in Seq(Payload)
    PROVE  /\ Content \in Seq(Payload)
           /\ Len(Content) = IF BeforeEnd = 0 THEN Len(frames) ELSE BeforeEnd - 1
           /\ Len(Content) <= Len(frames)
           /\ \A i \in 1 .. Len(Content) : Content[i] = frames[i] /\ ~ Ends(frames[i])
<1>1. BeforeEnd \in 0 .. Len(frames)
  BY EndsFirst
<1>2. CASE BeforeEnd = 0
  BY <1>2, EndsFirst DEF Content
<1>3. CASE BeforeEnd # 0
  <2>1. Content = SubSeq(frames, 1, BeforeEnd - 1)
    BY <1>3 DEF Content
  <2> QED
    BY <1>1, <1>3, <2>1, EndsFirst
<1> QED
  BY <1>2, <1>3

\* Sequences that agree everywhere are the same.
LEMMA ThatIsAll ==
    ASSUME NEW S, NEW s \in Seq(S), NEW t \in Seq(S), Len(s) = Len(t), \A i \in 1 .. Len(s) : s[i] = t[i]
    PROVE  s = t
OBVIOUS

\* A sequence that agrees with another as far as it goes is its prefix.
LEMMA PrefixIs ==
    ASSUME NEW S, NEW s \in Seq(S), NEW t \in Seq(S), Len(s) <= Len(t), \A i \in 1 .. Len(s) : s[i] = t[i]
    PROVE  IsPrefix(s, t)
<1>1. SubSeq(s, 1, Len(s)) \in Seq(S) /\ SubSeq(t, 1, Len(s)) \in Seq(S)
  OBVIOUS
<1>2. Len(SubSeq(s, 1, Len(s))) = Len(s) /\ Len(SubSeq(t, 1, Len(s))) = Len(s)
  OBVIOUS
<1>3. \A i \in 1 .. Len(s) : SubSeq(s, 1, Len(s))[i] = SubSeq(t, 1, Len(s))[i]
  OBVIOUS
<1>4. SubSeq(s, 1, Len(s)) = SubSeq(t, 1, Len(s))
  BY <1>1, <1>2, <1>3
<1> QED
  BY <1>4 DEF IsPrefix

\* The buffer starts with the next frame to hand out, if there is one, and is
\* empty otherwise: a cut frame is in buffer and wire together.
LEMMA BufferIs ==
    ASSUME SseReaderIInv, NEW eol \in Blank, NEW ended \in BOOLEAN, StillToCome(eol, ended)
    PROVE  /\ frames \in Seq(Payload) /\ Len(out) <= Len(frames)
           /\ Len(out) = Len(frames) => buffer = <<>> /\ wire = <<>>
           /\ Len(out) < Len(frames) => frames[Len(out) + 1] \in Payload /\ Begins(buffer, frames[Len(out) + 1], eol)
<1> DEFINE all == OnWire(frames, eol, ended)
           size == 2 + Len(eol)
           read == Len(out) * size
           f == frames[Len(out) + 1]
<1>1. frames \in Seq(Payload)
  BY SseReaderAssumption DEF SseReaderIInv, SseReaderTypeOK, Payload
<1>2. Len(out) <= Len(frames) /\ Len(out) \in Nat
  BY <1>1, ContentIs DEF SseReaderIInv
<1>3. Len(eol) \in Nat /\ (size = 4 \/ size = 6)
  <2>1. Len(eol) = 2 \/ Len(eol) = 4
    BY BlankSizes
  <2>2. CASE Len(eol) = 2
    BY <2>2
  <2>3. CASE Len(eol) = 4
    BY <2>3
  <2> QED
    BY <2>1, <2>2, <2>3
<1>4. read \in Nat
  BY <1>2, <1>3
<1>5. Len(buffer) \in Nat /\ Len(wire) \in Nat /\ buffer \in Seq(Symbol) /\ wire \in Seq(Symbol)
  BY DEF SseReaderIInv
<1>6. /\ Len(all) = read + Len(buffer) + Len(wire)
      /\ \A i \in 1 .. Len(buffer) : buffer[i] = all[read + i]
  BY DEF StillToCome
<1>7. ASSUME Len(out) = Len(frames) PROVE buffer = <<>> /\ wire = <<>>
  <2>1. Len(all) <= read
    <3>1. CASE frames = <<>>
      <4>1. Len(all) = 0
        BY <1>1, <3>1, OnWireIs
      <4> QED
        BY <4>1, <1>4
    <3>2. CASE frames # <<>>
      <4> DEFINE cut == IF ended THEN 0 ELSE Len(eol)
      <4>1. Len(all) = Len(frames) * size - cut
        BY <1>1, <3>2, OnWireIs
      <4>2. cut \in Nat
        BY <1>3
      <4> HIDE DEF cut, all
      <4> QED
        BY <4>1, <4>2, <1>4, <1>7
    <3> QED
      BY <3>1, <3>2
  <2> HIDE DEF all, read
  <2>2. Len(buffer) = 0 /\ Len(wire) = 0
    BY <2>1, <1>4, <1>5, <1>6
  <2> QED
    BY <2>2, <1>5
<1>8. ASSUME Len(out) < Len(frames) PROVE f \in Payload /\ Begins(buffer, f, eol)
  <2>1. f \in Payload
    BY <1>1, <1>2, <1>8
  <2>2. Len(out) \in 0 .. (Len(frames) - 1)
    BY <1>1, <1>2, <1>8
  <2>3. ASSUME NEW i \in 1 .. Len(buffer), i <= size
        PROVE  buffer[i] = Encoded(f, eol)[i]
    <3>1. i \in 1 .. size
      BY <2>3, <1>3, <1>5
    <3>2. read + i <= Len(all)
      <4> HIDE DEF all, read
      <4> QED
        BY <2>3, <1>4, <1>5, <1>6
    <3>3. all[read + i] = Encoded(f, eol)[i]
      BY <1>1, <2>2, <3>1, <3>2, OnWireIs
    <3> QED
      BY <1>6, <3>3
  <2> QED
    BY <2>1, <2>3 DEF Begins
<1> QED
  BY <1>1, <1>2, <1>7, <1>8

\* The next frame, taken from the buffer.
\* The inner loop of the reader takes exactly the next frame and its blank line.
LEMMA TakesFrame ==
    ASSUME SseReaderIInv, NEW eol \in Blank, NEW ended \in BOOLEAN, StillToCome(eol, ended),
           Separators(buffer) # {}
    PROVE  LET i == FirstOf(Separators(buffer))
               n == CHOOSE m \in BlankAt(buffer, i) : \A k \in BlankAt(buffer, i) : k <= m
           IN  /\ Len(out) < Len(frames) /\ frames[Len(out) + 1] \in Payload
               /\ Payloads(SubSeq(buffer, 1, i - 1)) = <<frames[Len(out) + 1]>>
               /\ i + n = 3 + Len(eol)
               /\ Len(buffer) >= 2 + Len(eol)
<1> DEFINE i == FirstOf(Separators(buffer))
           n == CHOOSE m \in BlankAt(buffer, i) : \A k \in BlankAt(buffer, i) : k <= m
           f == frames[Len(out) + 1]
<1>1. buffer \in Seq(Symbol) /\ Len(out) \in Nat /\ Len(buffer) \in Nat
  BY DEF SseReaderIInv
<1>2. Len(out) < Len(frames) /\ f \in Payload /\ Begins(buffer, f, eol)
  <2>1. Len(out) # Len(frames)
    <3>1. buffer = <<>> => Separators(buffer) = {}
      BY DEF Separators
    <3> QED
      BY <3>1, BufferIs
  <2> QED
    BY <1>1, <2>1, BufferIs
<1>3. Len(eol) \in Nat /\ 2 + Len(eol) >= 4
  <2>1. CASE Len(eol) = 2
    BY <2>1
  <2>2. CASE Len(eol) = 4
    BY <2>2
  <2> QED
    BY <2>1, <2>2, BlankSizes
<1>4. Len(buffer) >= 2 + Len(eol)
  BY <1>1, <1>2, <1>3, FirstEvent
<1>5. i = 3 /\ BlankAt(buffer, 3) = {Len(eol)}
  BY <1>1, <1>2, <1>4, FirstEvent
<1>6. n = Len(eol)
  <2>1. BlankAt(buffer, i) = {Len(eol)}
    BY <1>5
  <2>2. Len(eol) <= Len(eol)
    BY <1>3
  <2> QED
    BY <2>1, <2>2
<1> DEFINE raw == SubSeq(buffer, 1, i - 1)
<1>7. raw = SubSeq(buffer, 1, 2)
  BY <1>5
<1> HIDE DEF raw, i, n, f
<1>8. raw \in Seq(Symbol) /\ Len(raw) = 2 /\ raw[1] = buffer[1] /\ raw[2] = buffer[2]
  <2>1. Len(buffer) >= 2
    BY <1>1, <1>3, <1>4
  <2> QED
    BY <1>1, <1>7, <2>1
<1>9. Begins(raw, f, eol)
  <2>1. \A j \in 1 .. Len(raw) : j \in 1 .. Len(buffer) /\ raw[j] = buffer[j]
    <3>1. Len(buffer) >= 2
      BY <1>1, <1>3, <1>4
    <3> QED
      BY <1>1, <1>8, <3>1
  <2> QED
    BY <1>2, <2>1 DEF Begins
<1>10. Payloads(raw) = <<f>>
  <2>1. Len(raw) < 2 + Len(eol) /\ Len(raw) >= 2
    BY <1>3, <1>8
  <2> QED
    BY <1>2, <1>8, <1>9, <2>1, PayloadIs, Zenon
<1>11. i + n = 3 + Len(eol)
  BY <1>5, <1>6
<1> QED
  BY <1>2, <1>4, <1>10, <1>11 DEF raw, i, n, f

\* What a reader should hand out is settled by the response.
LEMMA ContentStays ==
    ASSUME UNCHANGED <<reader, frames>>
    PROVE  Content' = Content /\ BeforeEnd' = BeforeEnd /\ (\A f : Ends(f)' <=> Ends(f))
<1>1. \A f : Ends(f)' <=> Ends(f)
  BY DEF Ends
<1>2. BeforeEnd' = BeforeEnd
  BY DEF BeforeEnd, SelectInSeq, Ends
<1> QED
  BY <1>1, <1>2 DEF Content

\* Before the first read everything is still to come.
LEMMA InitReader == SseReaderInit => SseReaderIInv
<1> SUFFICES ASSUME SseReaderInit PROVE SseReaderIInv
  OBVIOUS
<1>1. frames \in Seq(Payload)
  BY SseReaderAssumption DEF SseReaderInit, Payload
<1>2. PICK eol \in Blank, ended \in BOOLEAN : wire = OnWire(frames, eol, ended)
  BY DEF SseReaderInit
<1>3. wire \in Seq(Symbol)
  BY <1>1, <1>2, OnWireIs
<1>4. buffer = <<>> /\ out = <<>> /\ Len(out) = 0 /\ Len(buffer) = 0
  BY DEF SseReaderInit
<1>5. StillToCome(eol, ended)
  <2>1. Len(eol) \in Nat
    BY BlankSizes
  <2>2. Len(out) * (2 + Len(eol)) = 0
    BY <1>4, <2>1
  <2> QED
    BY <1>2, <1>3, <1>4, <2>2 DEF StillToCome
<1>6. Len(out) <= Len(Content)
  BY <1>1, <1>4, ContentIs
<1>7. out \in Seq(Payload) /\ buffer \in Seq(Symbol) /\ \A i \in 1 .. Len(out) : out[i] = frames[i]
  BY <1>4
<1>8. socket = "open" /\ SseReaderTypeOK
  BY DEF SseReaderInit, SseReaderTypeOK
<1> QED
  BY <1>3, <1>5, <1>6, <1>7, <1>8 DEF SseReaderIInv

\* A read moves the next symbols from wire to buffer, wherever it is cut.
LEMMA ReadKeeps ==
    ASSUME SseReaderIInv, NEW n \in 1 .. MaxPiece, ReadPiece(n)
    PROVE  SseReaderIInv'
<1>1. n \in Nat /\ n <= Len(wire) /\ wire \in Seq(Symbol) /\ buffer \in Seq(Symbol)
  BY SseReaderAssumption DEF ReadPiece, SseReaderIInv
<1>2. /\ buffer' = buffer \o SubSeq(wire, 1, n) /\ wire' = SubSeq(wire, n + 1, Len(wire))
      /\ UNCHANGED <<reader, frames, out, socket>> /\ socket = "open"
  BY DEF ReadPiece
<1>3. buffer' \in Seq(Symbol) /\ wire' \in Seq(Symbol)
  BY <1>1, <1>2
<1>4. Len(buffer') = Len(buffer) + n /\ Len(wire') = Len(wire) - n
  BY <1>1, <1>2
<1>5. PICK eol \in Blank, ended \in BOOLEAN : StillToCome(eol, ended)
  BY <1>2 DEF SseReaderIInv
<1> DEFINE all == OnWire(frames, eol, ended)
           read == Len(out) * (2 + Len(eol))
<1>6. read \in Int
  <2>1. Len(eol) \in Nat /\ Len(out) \in Nat
    BY BlankSizes DEF SseReaderIInv
  <2> QED
    BY <2>1
<1>7. /\ Len(all) = read + Len(buffer) + Len(wire)
      /\ \A i \in 1 .. Len(buffer) : buffer[i] = all[read + i]
      /\ \A i \in 1 .. Len(wire) : wire[i] = all[read + Len(buffer) + i]
  BY <1>5 DEF StillToCome
<1>8. all' = all /\ read' = read
  BY <1>2 DEF OnWire
<1> HIDE DEF all, read
<1>9. Len(all) = read + Len(buffer') + Len(wire')
  BY <1>1, <1>4, <1>6, <1>7
<1>10. ASSUME NEW i \in 1 .. Len(buffer') PROVE buffer'[i] = all[read + i]
  <2>1. CASE i <= Len(buffer)
    BY <1>1, <1>2, <1>7, <2>1
  <2>2. CASE i > Len(buffer)
    <3>1. i - Len(buffer) \in 1 .. n /\ i - Len(buffer) \in 1 .. Len(wire)
      BY <1>1, <1>4, <2>2
    <3>2. buffer'[i] = wire[i - Len(buffer)]
      BY <1>1, <1>2, <2>2, <3>1
    <3>3. read + Len(buffer) + (i - Len(buffer)) = read + i
      BY <1>1, <1>6
    <3> QED
      BY <1>7, <3>1, <3>2, <3>3
  <2> QED
    BY <1>1, <2>1, <2>2
<1>11. ASSUME NEW i \in 1 .. Len(wire') PROVE wire'[i] = all[read + Len(buffer') + i]
  <2>1. n + i \in 1 .. Len(wire) /\ wire'[i] = wire[n + i]
    BY <1>1, <1>2, <1>4
  <2>2. read + Len(buffer) + (n + i) = read + Len(buffer') + i
    BY <1>1, <1>4, <1>6
  <2> QED
    BY <1>7, <2>1, <2>2
<1>12. StillToCome(eol, ended)'
  BY <1>8, <1>9, <1>10, <1>11 DEF StillToCome, all, read
<1>13. Content' = Content
  BY <1>2, ContentStays
<1> QED
  BY <1>2, <1>3, <1>12, <1>13 DEF SseReaderIInv, SseReaderTypeOK

\* The next frame is the end, or part of the content.
LEMMA EndOrContent ==
    ASSUME frames \in Seq(Payload), NEW k \in Nat, k < Len(frames), k <= Len(Content)
    PROVE  /\ Ends(frames[k + 1]) => BeforeEnd # 0 /\ Len(Content) = k
           /\ ~ Ends(frames[k + 1]) => k + 1 <= Len(Content)
<1>1. BeforeEnd \in 0 .. Len(frames) /\ Len(Content) = IF BeforeEnd = 0 THEN Len(frames) ELSE BeforeEnd - 1
  BY EndsFirst, ContentIs
<1>2. k + 1 \in 1 .. Len(frames)
  OBVIOUS
<1>3. CASE BeforeEnd = 0
  <2>1. ~ Ends(frames[k + 1])
    BY <1>2, <1>3, EndsFirst
  <2> QED
    BY <1>1, <1>3, <2>1
<1>4. CASE BeforeEnd # 0
  <2>1. Ends(frames[k + 1]) => ~ (k + 1 \in 1 .. (BeforeEnd - 1))
    BY <1>4, EndsFirst
  <2>2. ~ Ends(frames[k + 1]) => k + 1 # BeforeEnd
    BY <1>4, EndsFirst
  <2> QED
    BY <1>1, <1>4, <2>1, <2>2
<1> QED
  BY <1>3, <1>4

\* An end is [DONE] or an error frame.
LEMMA AfterEndIs ==
    ASSUME NEW f
    PROVE  AfterEnd(f) \in {"done", "threw"} /\ "open" \notin {"done", "threw"} /\ "closed" \notin {"done", "threw"}
BY DEF AfterEnd

\* A reader that meets the end has handed out all before it.
LEMMA EndKeeps ==
    ASSUME SseReaderIInv, frames \in Seq(Payload), Len(out) < Len(frames), Ends(frames[Len(out) + 1]),
           socket' = AfterEnd(frames[Len(out) + 1]), buffer' = <<>>, UNCHANGED <<reader, frames, wire, out>>
    PROVE  SseReaderIInv'
<1>1. Len(out) \in Nat /\ Len(out) <= Len(Content) /\ out \in Seq(Payload)
  BY DEF SseReaderIInv
<1>2. BeforeEnd # 0 /\ Len(Content) = Len(out)
  BY <1>1, EndOrContent
<1>3. out = Content
  <2>1. Content \in Seq(Payload) /\ \A i \in 1 .. Len(Content) : Content[i] = frames[i]
    BY ContentIs
  <2>2. \A i \in 1 .. Len(out) : out[i] = frames[i]
    BY DEF SseReaderIInv
  <2>3. \A i \in 1 .. Len(out) : out[i] = Content[i]
    BY <1>2, <2>1, <2>2
  <2> QED
    BY <1>1, <1>2, <2>1, <2>3, ThatIsAll
<1>4. Content' = Content /\ BeforeEnd' = BeforeEnd
  BY ContentStays
<1>5. buffer' \in Seq(Symbol)
  OBVIOUS
<1>6. socket' \in {"done", "threw"}
  BY AfterEndIs
<1> QED
  BY <1>2, <1>3, <1>4, <1>5, <1>6 DEF SseReaderIInv, SseReaderTypeOK

\* A complete event in the buffer is the next frame.
LEMMA NextEventKeeps ==
    ASSUME SseReaderIInv, NextEvent
    PROVE  SseReaderIInv'
<1> DEFINE f == frames[Len(out) + 1]
           i == FirstOf(Separators(buffer))
           n == CHOOSE m \in BlankAt(buffer, i) : \A k \in BlankAt(buffer, i) : k <= m
           rest == SubSeq(buffer, i + n, Len(buffer))
<1>1. PICK eol \in Blank, ended \in BOOLEAN : StillToCome(eol, ended)
  BY DEF NextEvent, SseReaderIInv
<1>2. /\ Separators(buffer) # {} /\ socket \in {"open", "closed"}
      /\ Yield(SubSeq(buffer, 1, i - 1), rest)
      /\ UNCHANGED <<reader, frames, wire>>
  BY DEF NextEvent
<1>3. /\ Len(out) < Len(frames) /\ f \in Payload
      /\ Payloads(SubSeq(buffer, 1, i - 1)) = <<f>>
      /\ i + n = 3 + Len(eol)
      /\ Len(buffer) >= 2 + Len(eol)
  BY <1>1, <1>2, TakesFrame
<1>4. frames \in Seq(Payload)
  BY <1>1, BufferIs
<1>5. <<f>> # <<>> /\ <<f>>[1] = f
  OBVIOUS
<1>6. \/ Ends(f) /\ socket' = AfterEnd(f) /\ buffer' = <<>> /\ UNCHANGED out
      \/ ~ Ends(f) /\ out' = out \o <<f>> /\ buffer' = SubSeq(buffer, 3 + Len(eol), Len(buffer)) /\ UNCHANGED socket
  <2> HIDE DEF f
  <2> QED
    BY <1>2, <1>3, <1>5 DEF Yield
<1> HIDE DEF i, n, rest
<1>7. CASE Ends(f) /\ socket' = AfterEnd(f) /\ buffer' = <<>> /\ UNCHANGED out
  BY <1>2, <1>3, <1>4, <1>7, EndKeeps
<1>8. CASE ~ Ends(f) /\ out' = out \o <<f>> /\ buffer' = SubSeq(buffer, 3 + Len(eol), Len(buffer)) /\ UNCHANGED socket
  <2>1. /\ Len(out) \in Nat /\ Len(out) <= Len(Content) /\ out \in Seq(Payload)
        /\ buffer \in Seq(Symbol) /\ wire \in Seq(Symbol)
    BY DEF SseReaderIInv
  <2>2. Len(eol) \in Nat
    BY BlankSizes
  <2>3. Content' = Content /\ BeforeEnd' = BeforeEnd
    BY <1>2, ContentStays
  <2>4. Len(out) + 1 <= Len(Content)
    BY <1>3, <1>4, <1>8, <2>1, EndOrContent
  <2>5. out' \in Seq(Payload) /\ Len(out') = Len(out) + 1
    <3> HIDE DEF f
    <3> QED
      BY <1>3, <1>8, <2>1
  <2>6. \A j \in 1 .. Len(out') : out'[j] = frames[j]
    <3>1. \A j \in 1 .. Len(out) : out[j] = frames[j]
      BY DEF SseReaderIInv
    <3>2. \A j \in 1 .. Len(out') : out'[j] = IF j <= Len(out) THEN out[j] ELSE f
      <4> HIDE DEF f
      <4> QED
        BY <1>3, <1>8, <2>1
    <3> QED
      BY <2>1, <2>5, <3>1, <3>2
  <2>7. /\ buffer' \in Seq(Symbol) /\ Len(buffer') = Len(buffer) - (2 + Len(eol))
        /\ \A j \in 1 .. Len(buffer') : buffer'[j] = buffer[2 + Len(eol) + j] /\ 2 + Len(eol) + j \in 1 .. Len(buffer)
    <3> DEFINE size == 2 + Len(eol)
    <3>1. size \in Nat /\ size >= 2 /\ Len(buffer) >= size /\ Len(buffer) \in Nat /\ buffer' = SubSeq(buffer, size + 1, Len(buffer))
      BY <1>3, <1>8, <2>1, <2>2
    <3> HIDE DEF size
    <3>2. /\ buffer' \in Seq(Symbol) /\ Len(buffer') = Len(buffer) - size
          /\ \A j \in 1 .. Len(buffer') : buffer'[j] = buffer[size + j] /\ size + j \in 1 .. Len(buffer)
      BY <2>1, <3>1
    <3> QED
      BY <3>2 DEF size
  <2>8. StillToCome(eol, ended)'
    <3> DEFINE all == OnWire(frames, eol, ended)
               size == 2 + Len(eol)
               read == Len(out) * size
    <3>1. /\ Len(all) = read + Len(buffer) + Len(wire)
          /\ \A j \in 1 .. Len(buffer) : buffer[j] = all[read + j]
          /\ \A j \in 1 .. Len(wire) : wire[j] = all[read + Len(buffer) + j]
      BY <1>1 DEF StillToCome
    <3>2. all' = all /\ wire' = wire
      BY <1>2 DEF OnWire
    <3>3. Len(out') * size = read + size /\ read \in Nat /\ size \in Nat
      BY <2>1, <2>2, <2>5
    <3>4. /\ Len(buffer') = Len(buffer) - size
          /\ \A j \in 1 .. Len(buffer') : buffer'[j] = buffer[size + j] /\ size + j \in 1 .. Len(buffer)
      BY <2>7
    <3>5. Len(buffer) \in Nat /\ Len(wire) \in Nat
      BY <2>1
    <3> HIDE DEF all, read, size
    <3>6. Len(all) = (read + size) + Len(buffer') + Len(wire)
      BY <3>1, <3>3, <3>4, <3>5
    <3>7. ASSUME NEW j \in 1 .. Len(buffer') PROVE buffer'[j] = all[(read + size) + j]
      <4>1. read + (size + j) = (read + size) + j
        BY <3>3
      <4> QED
        BY <3>1, <3>4, <4>1
    <3>8. ASSUME NEW j \in 1 .. Len(wire) PROVE wire[j] = all[(read + size) + Len(buffer') + j]
      <4>1. read + Len(buffer) + j = (read + size) + Len(buffer') + j
        BY <3>3, <3>4, <3>5
      <4> QED
        BY <3>1, <4>1
    <3> QED
      BY <3>2, <3>3, <3>6, <3>7, <3>8 DEF StillToCome, all, size
  <2>9. socket' \in {"open", "closed"}
    BY <1>2, <1>8
  <2> QED
    BY <1>2, <1>8, <2>1, <2>3, <2>4, <2>5, <2>6, <2>7, <2>8, <2>9 DEF SseReaderIInv, SseReaderTypeOK
<1> QED
  BY <1>6, <1>7, <1>8

\* After a response that arrived as a whole the buffer holds its last frame, when
\* that has no blank line.
LEMMA LastFrame ==
    ASSUME SseReaderIInv, NEW eol \in Blank, NEW ended \in BOOLEAN, StillToCome(eol, ended),
           wire = <<>>, Len(out) < Len(frames), Len(buffer) < 2 + Len(eol)
    PROVE  Len(out) + 1 = Len(frames) /\ Len(buffer) >= 2
<1> DEFINE size == 2 + Len(eol)
           cut == IF ended THEN 0 ELSE Len(eol)
           k == Len(out)
           m == Len(frames)
<1>1. frames \in Seq(Payload)
  BY BufferIs
<1>2. Len(OnWire(frames, eol, ended)) = m * size - cut
  <2>1. frames # <<>>
    BY <1>1 DEF SseReaderIInv
  <2> QED
    BY <1>1, <2>1, OnWireIs
<1>3. Len(OnWire(frames, eol, ended)) = k * size + Len(buffer) + Len(wire)
  BY DEF StillToCome
<1>4. Len(wire) = 0 /\ Len(buffer) \in Nat /\ k \in Nat /\ m \in Nat /\ k < m
  BY <1>1 DEF SseReaderIInv
<1>5. cut \in Nat /\ cut <= size - 2 /\ (size = 4 \/ size = 6)
  <2>1. CASE Len(eol) = 2
    BY <2>1
  <2>2. CASE Len(eol) = 4
    BY <2>2
  <2> QED
    BY <2>1, <2>2, BlankSizes
<1> HIDE DEF k, m, cut
<1>6. m * size - cut = k * size + Len(buffer)
  <2> HIDE DEF size
  <2> QED
    BY <1>2, <1>3, <1>4, <1>5
<1>7. Len(buffer) < size
  OBVIOUS
<1> HIDE DEF size
<1>8. size = 4 => k + 1 = m /\ Len(buffer) >= 2
  BY <1>4, <1>5, <1>6, <1>7
<1>9. size = 6 => k + 1 = m /\ Len(buffer) >= 2
  BY <1>4, <1>5, <1>6, <1>7
<1> QED
  BY <1>5, <1>8, <1>9 DEF k, m

\* The flush hands out that frame, and nothing that was cut off (Q-077).
LEMMA FlushKeeps ==
    ASSUME SseReaderIInv, FlushRest
    PROVE  SseReaderIInv'
<1> DEFINE f == frames[Len(out) + 1]
<1>1. PICK eol \in Blank, ended \in BOOLEAN : StillToCome(eol, ended)
  BY DEF FlushRest, SseReaderIInv
<1>2. /\ Separators(buffer) = {} /\ buffer' = <<>> /\ UNCHANGED <<reader, frames, wire>>
      /\ IF Payloads(buffer) # <<>> /\ Ends(Payloads(buffer)[1])
         THEN socket' = AfterEnd(Payloads(buffer)[1]) /\ UNCHANGED out
         ELSE socket' = "ended" /\ out' = out \o Payloads(buffer)
  BY DEF FlushRest
<1>3. /\ frames \in Seq(Payload) /\ Len(out) <= Len(frames)
      /\ Len(out) = Len(frames) => buffer = <<>> /\ wire = <<>>
      /\ Len(out) < Len(frames) => f \in Payload /\ Begins(buffer, f, eol)
  BY <1>1, BufferIs
<1>4. /\ Len(out) \in Nat /\ Len(out) <= Len(Content) /\ out \in Seq(Payload)
      /\ buffer \in Seq(Symbol) /\ wire \in Seq(Symbol)
      /\ \A j \in 1 .. Len(out) : out[j] = frames[j]
  BY DEF SseReaderIInv
<1>5. Content' = Content /\ BeforeEnd' = BeforeEnd
  BY <1>2, ContentStays
<1>6. Content \in Seq(Payload) /\ Len(Content) <= Len(frames) /\ \A j \in 1 .. Len(Content) : Content[j] = frames[j]
  BY <1>3, ContentIs
<1>7. ASSUME socket' = "ended", out' \in Seq(Payload), Len(out') <= Len(Content),
             \A j \in 1 .. Len(out') : out'[j] = frames[j], wire = <<>> => Len(out') = Len(frames)
      PROVE  SseReaderIInv'
  <2>1. ASSUME wire' = <<>> PROVE out' = Content
    <3>1. Len(out') = Len(Content)
      BY <1>2, <1>3, <1>6, <1>7, <2>1
    <3> QED
      BY <1>6, <1>7, <3>1, ThatIsAll
  <2>2. buffer' \in Seq(Symbol)
    BY <1>2
  <2> QED
    BY <1>2, <1>4, <1>5, <1>7, <2>1, <2>2 DEF SseReaderIInv, SseReaderTypeOK
<1>8. CASE Len(out) = Len(frames)
  <2>1. Payloads(buffer) = <<>>
    <3>1. buffer = <<>>
      BY <1>3, <1>8
    <3>2. Whole(buffer) = {}
      BY <3>1 DEF Whole
    <3>3. Cardinality(Whole(buffer)) = 0
      BY <3>2, FS_EmptySet
    <3> QED
      BY <3>3 DEF Payloads
  <2>2. socket' = "ended" /\ out' = out
    BY <1>2, <1>4, <2>1
  <2> QED
    BY <1>4, <1>7, <1>8, <2>2
<1>9. CASE Len(out) < Len(frames)
  <2>1. f \in Payload /\ Begins(buffer, f, eol)
    BY <1>3, <1>9
  <2>2. Len(buffer) < 2 + Len(eol)
    <3>1. Len(eol) \in Nat
      BY BlankSizes
    <3>2. ~ (Len(buffer) >= 2 + Len(eol))
      BY <1>2, <1>4, <2>1, FirstEvent
    <3> QED
      BY <1>4, <3>1, <3>2
  <2>3. wire = <<>> => Len(out) + 1 = Len(frames) /\ Len(buffer) >= 2
    BY <1>1, <1>9, <2>2, LastFrame
  <2>4. CASE Len(buffer) < 2
    <3>1. Payloads(buffer) = <<>>
      BY <1>4, <2>1, <2>2, <2>4, PayloadIs
    <3>2. socket' = "ended" /\ out' = out
      BY <1>2, <1>4, <3>1
    <3>3. wire # <<>>
      BY <1>4, <2>3, <2>4
    <3> QED
      BY <1>4, <1>7, <3>2, <3>3
  <2>5. CASE Len(buffer) >= 2
    <3>1. Payloads(buffer) = <<f>>
      BY <1>4, <2>1, <2>2, <2>5, PayloadIs
    <3>2. <<f>> # <<>> /\ <<f>>[1] = f
      OBVIOUS
    <3>3. \/ Ends(f) /\ socket' = AfterEnd(f) /\ UNCHANGED out
          \/ ~ Ends(f) /\ socket' = "ended" /\ out' = out \o <<f>>
      <4> HIDE DEF f
      <4> QED
        BY <1>2, <3>1, <3>2
    <3>4. CASE Ends(f) /\ socket' = AfterEnd(f) /\ UNCHANGED out
      BY <1>2, <1>3, <1>9, <3>4, EndKeeps
    <3>5. CASE ~ Ends(f) /\ socket' = "ended" /\ out' = out \o <<f>>
      <4>1. Len(out) + 1 <= Len(Content)
        BY <1>3, <1>4, <1>9, <3>5, EndOrContent
      <4>2. /\ out' \in Seq(Payload) /\ Len(out') = Len(out) + 1
            /\ \A j \in 1 .. Len(out') : out'[j] = IF j <= Len(out) THEN out[j] ELSE f
        <5> HIDE DEF f
        <5> QED
          BY <1>4, <2>1, <3>5
      <4>3. \A j \in 1 .. Len(out') : out'[j] = frames[j]
        BY <1>4, <4>2
      <4> QED
        BY <1>7, <2>3, <3>5, <4>1, <4>2, <4>3
    <3> QED
      BY <3>3, <3>4, <3>5
  <2> QED
    BY <1>4, <2>4, <2>5
<1> QED
  BY <1>3, <1>4, <1>8, <1>9

\* Each step of the reader keeps the invariant.
LEMMA ReaderSteps == SseReaderIInv /\ [SseReaderNext]_sseVars => SseReaderIInv'
<1> SUFFICES ASSUME SseReaderIInv, [SseReaderNext]_sseVars PROVE SseReaderIInv'
  OBVIOUS
<1>1. CASE \E n \in 1 .. MaxPiece : ReadPiece(n)
  BY <1>1, ReadKeeps
<1>2. CASE NextEvent
  BY <1>2, NextEventKeeps
<1>3. CASE SocketCloses
  <2>1. socket = "open" /\ socket' = "closed" /\ UNCHANGED <<reader, frames, wire, buffer, out>>
    BY <1>3 DEF SocketCloses
  <2>2. \A eol, ended : StillToCome(eol, ended)' <=> StillToCome(eol, ended)
    BY <2>1 DEF StillToCome, OnWire
  <2>3. Content' = Content
    BY <2>1, ContentStays
  <2> QED
    BY <2>1, <2>2, <2>3 DEF SseReaderIInv, SseReaderTypeOK
<1>4. CASE FlushRest
  BY <1>4, FlushKeeps
<1>5. CASE UNCHANGED sseVars
  <2>1. UNCHANGED <<reader, frames, wire, buffer, out, socket>>
    BY <1>5 DEF sseVars
  <2>2. \A eol, ended : StillToCome(eol, ended)' <=> StillToCome(eol, ended)
    BY <2>1 DEF StillToCome, OnWire
  <2>3. Content' = Content /\ BeforeEnd' = BeforeEnd
    BY <2>1, ContentStays
  <2> QED
    BY <2>1, <2>2, <2>3 DEF SseReaderIInv, SseReaderTypeOK
<1> QED
  BY <1>1, <1>2, <1>3, <1>4, <1>5 DEF SseReaderNext

\* Chunk boundaries are invisible: a reader hands out the frames that were sent,
\* in order and up to the end, whatever the pieces they arrive in and wherever
\* the socket closes.
THEOREM CutsDoNotShow == SseReaderSpec => []ChunksInvisible
<1>1. SseReaderIInv => ChunksInvisible
  <2> SUFFICES ASSUME SseReaderIInv PROVE ChunksInvisible
    OBVIOUS
  <2>1. frames \in Seq(Payload)
    BY SseReaderAssumption DEF SseReaderIInv, SseReaderTypeOK, Payload
  <2>2. Content \in Seq(Payload) /\ \A i \in 1 .. Len(Content) : Content[i] = frames[i]
    BY <2>1, ContentIs
  <2>3. IsPrefix(out, Content)
    <3>1. out \in Seq(Payload) /\ Len(out) <= Len(Content) /\ \A i \in 1 .. Len(out) : out[i] = Content[i]
      BY <2>2 DEF SseReaderIInv
    <3> QED
      BY <2>2, <3>1, PrefixIs
  <2> QED
    BY <2>3 DEF ChunksInvisible, SseReaderIInv
<1> QED
  BY <1>1, InitReader, ReaderSteps, PTL DEF SseReaderSpec

-----------------------------------------------------------------------------
(* Places in a sequence, and what it says there.                           *)

\* A set of places is finite, and so is the part of it below a place.
LEMMA PlacesFinite ==
    ASSUME NEW n \in Nat, NEW I, I \subseteq 1 .. n
    PROVE  /\ IsFiniteSet(I) /\ Cardinality(I) \in Nat
           /\ \A J : J \subseteq I => IsFiniteSet(J) /\ Cardinality(J) \in Nat /\ Cardinality(J) <= Cardinality(I)
<1>1. IsFiniteSet(1 .. n)
  BY FS_Interval
<1>2. IsFiniteSet(I)
  BY <1>1, FS_Subset
<1> QED
  BY <1>2, FS_Subset, FS_CardinalityType

\* A later place of a set has a greater rank.
LEMMA RankUp ==
    ASSUME NEW n \in Nat, NEW I, I \subseteq 1 .. n, NEW i \in I, NEW j \in I, i < j
    PROVE  /\ Cardinality(I \cap (1 .. i)) < Cardinality(I \cap (1 .. j))
           /\ Cardinality({t \in I : t < i}) < Cardinality({t \in I : t < j})
<1> DEFINE A == I \cap (1 .. i)
           B == I \cap (1 .. j)
           C == {t \in I : t < i}
           D == {t \in I : t < j}
<1>1. \A x \in I : x \in Int /\ 1 <= x /\ x <= n
  OBVIOUS
<1>2. A \cup {j} \subseteq B /\ j \notin A /\ A \subseteq I /\ B \subseteq I
  BY <1>1
<1>3. C \cup {i} \subseteq D /\ i \notin C /\ C \subseteq I /\ D \subseteq I
  <2>1. \A x \in C : x \in I /\ x < i /\ x < j
    BY <1>1
  <2>2. i \in D /\ ~ (i < i)
    BY <1>1
  <2>3. C \subseteq D
    <3> HIDE DEF C
    <3> QED
      BY <2>1
  <2> QED
    BY <2>1, <2>2, <2>3
<1> HIDE DEF A, B, C, D
<1>4. IsFiniteSet(A) /\ IsFiniteSet(B) /\ IsFiniteSet(C) /\ IsFiniteSet(D)
  BY <1>2, <1>3, PlacesFinite
<1>5. Cardinality(A \cup {j}) = Cardinality(A) + 1 /\ Cardinality(C \cup {i}) = Cardinality(C) + 1
  BY <1>2, <1>3, <1>4, FS_AddElement
<1>6. Cardinality(A \cup {j}) <= Cardinality(B) /\ Cardinality(C \cup {i}) <= Cardinality(D)
  BY <1>2, <1>3, <1>4, FS_Subset
<1>7. /\ Cardinality(A) \in Nat /\ Cardinality(B) \in Nat
      /\ Cardinality(C) \in Nat /\ Cardinality(D) \in Nat
  BY <1>4, FS_CardinalityType
<1>8. Cardinality(A) < Cardinality(B) /\ Cardinality(C) < Cardinality(D)
  BY <1>5, <1>6, <1>7
<1> QED
  BY <1>8 DEF A, B, C, D

\* Nth() finds the place of a rank, and it is the only one.
LEMMA NthIs ==
    ASSUME NEW n \in Nat, NEW I, I \subseteq 1 .. n
    PROVE  /\ \A k \in 1 .. Cardinality(I) : Nth(I, k) \in I /\ Cardinality(I \cap (1 .. Nth(I, k))) = k
           /\ \A i \in I : /\ Cardinality(I \cap (1 .. i)) \in 1 .. Cardinality(I)
                           /\ Nth(I, Cardinality(I \cap (1 .. i))) = i
<1> DEFINE R(i) == Cardinality(I \cap (1 .. i))
<1>1. \A k \in 1 .. Cardinality(I) : \E i \in I : R(i) = k
  BY Ranked
<1>2. \A i, j \in I : R(i) = R(j) => i = j
  <2> SUFFICES ASSUME NEW i \in I, NEW j \in I, i # j PROVE R(i) # R(j)
    OBVIOUS
  <2>1. i \in Int /\ j \in Int
    OBVIOUS
  <2>2. R(i) \in Nat /\ R(j) \in Nat
    BY PlacesFinite
  <2>3. CASE i < j
    <3>1. R(i) < R(j)
      BY <2>3, RankUp
    <3> QED
      BY <3>1, <2>2
  <2>4. CASE j < i
    <3>1. R(j) < R(i)
      BY <2>4, RankUp
    <3> QED
      BY <3>1, <2>2
  <2> QED
    BY <2>1, <2>3, <2>4
<1>3. \A i \in I : R(i) \in 1 .. Cardinality(I)
  <2> SUFFICES ASSUME NEW i \in I PROVE R(i) \in 1 .. Cardinality(I)
    OBVIOUS
  <2>1. R(i) \in Nat /\ R(i) <= Cardinality(I) /\ Cardinality(I) \in Nat
    BY PlacesFinite
  <2>2. I \cap (1 .. i) # {} /\ IsFiniteSet(I \cap (1 .. i))
    BY PlacesFinite
  <2>3. R(i) # 0
    BY <2>2, FS_EmptySet
  <2> QED
    BY <2>1, <2>3
<1> HIDE DEF R
<1>4. \A k : Nth(I, k) = CHOOSE i \in I : R(i) = k
  BY DEF Nth, R
<1>5. \A k \in 1 .. Cardinality(I) : Nth(I, k) \in I /\ R(Nth(I, k)) = k
  BY <1>1, <1>4
<1>6. \A i \in I : Nth(I, R(i)) = i
  BY <1>2, <1>3, <1>5
<1> QED
  BY <1>3, <1>5, <1>6 DEF R

\* A place behind the others gets the next rank.
LEMMA NthGrows ==
    ASSUME NEW n \in Nat, NEW I, I \subseteq 1 .. n
    PROVE  /\ Cardinality(I \cup {n + 1}) = Cardinality(I) + 1
           /\ \A k \in 1 .. Cardinality(I) : Nth(I \cup {n + 1}, k) = Nth(I, k)
           /\ Nth(I \cup {n + 1}, Cardinality(I) + 1) = n + 1
<1> DEFINE J == I \cup {n + 1}
<1>1. J \subseteq 1 .. (n + 1) /\ n + 1 \in J /\ n + 1 \notin I /\ n + 1 \in Nat
  OBVIOUS
<1>2. IsFiniteSet(I) /\ Cardinality(I) \in Nat
  BY PlacesFinite
<1>3. Cardinality(J) = Cardinality(I) + 1
  BY <1>1, <1>2, FS_AddElement
<1>4. J \cap (1 .. (n + 1)) = J
  BY <1>1
<1>5. \A i \in I : J \cap (1 .. i) = I \cap (1 .. i) /\ i \in J
  <2>1. \A i \in I : i \in Int /\ i <= n /\ n + 1 \notin 1 .. i
    OBVIOUS
  <2> QED
    BY <2>1
<1> HIDE DEF J
<1>6. Nth(J, Cardinality(I) + 1) = n + 1
  BY <1>1, <1>3, <1>4, NthIs
<1>7. ASSUME NEW k \in 1 .. Cardinality(I) PROVE Nth(J, k) = Nth(I, k)
  <2>1. Nth(I, k) \in I /\ Cardinality(I \cap (1 .. Nth(I, k))) = k
    BY NthIs
  <2>2. Cardinality(J \cap (1 .. Nth(I, k))) = k /\ Nth(I, k) \in J
    BY <2>1, <1>5
  <2>3. \A i \in J : Nth(J, Cardinality(J \cap (1 .. i))) = i
    BY <1>1, NthIs
  <2> QED
    BY <2>2, <2>3
<1> QED
  BY <1>3, <1>6, <1>7 DEF J

\* What is said depends on the elements at the places only.
LEMMA DataSame ==
    ASSUME NEW n \in Nat, NEW I, I \subseteq 1 .. n, NEW s, NEW t,
           \A i \in I : s[i].data = t[i].data
    PROVE  Data(s, I) = Data(t, I)
<1>1. \A k \in 1 .. Cardinality(I) : Nth(I, k) \in I
  BY NthIs
<1>2. \A k \in 1 .. Cardinality(I) : s[Nth(I, k)].data = t[Nth(I, k)].data
  BY <1>1
<1> QED
  BY <1>2 DEF Data

\* A place behind the others adds what it says.
LEMMA DataGrows ==
    ASSUME NEW p \in Nat \ {0}, NEW I, I \subseteq 1 .. (p - 1), NEW s
    PROVE  Data(s, I \cup {p}) = Append(Data(s, I), s[p].data)
<1> DEFINE A == I \cup {p}
           N == Cardinality(I)
           S == {s[i].data : i \in A}
           n == p - 1
<1> HIDE DEF n
<1>0. n \in Nat /\ I \subseteq 1 .. n /\ p = n + 1
  BY DEF n
<1>1. N \in Nat
  BY <1>0, PlacesFinite
<1>2. /\ Cardinality(A) = N + 1
      /\ \A k \in 1 .. N : Nth(A, k) = Nth(I, k)
      /\ Nth(A, N + 1) = p
  BY <1>0, NthGrows
<1>3. \A k \in 1 .. N : Nth(I, k) \in A
  BY <1>0, NthIs
<1>4. \A i \in A : s[i].data \in S
  OBVIOUS
<1>5. Data(s, I) = [k \in 1 .. N |-> s[Nth(I, k)].data]
  BY DEF Data
<1>6. Data(s, A) = [k \in 1 .. (N + 1) |-> s[Nth(A, k)].data]
  BY <1>2 DEF Data
<1>7. p \in A
  OBVIOUS
<1> HIDE DEF A, N, S
<1> DEFINE d == [k \in 1 .. N |-> s[Nth(I, k)].data]
           e == [k \in 1 .. (N + 1) |-> s[Nth(A, k)].data]
<1>8. d \in Seq(S) /\ Len(d) = N
  BY <1>1, <1>3, <1>4
<1>9. s[p].data \in S
  BY <1>4, <1>7
<1>10. e = Append(d, s[p].data)
  <2>1. e \in Seq(S) /\ Len(e) = N + 1
    <3>1. \A k \in 1 .. (N + 1) : s[Nth(A, k)].data \in S
      <4> TAKE k \in 1 .. (N + 1)
      <4>1. CASE k = N + 1
        BY <4>1, <1>2, <1>9
      <4>2. CASE k \in 1 .. N
        BY <4>2, <1>2, <1>3, <1>4
      <4> QED
        BY <1>1, <4>1, <4>2
    <3> QED
      BY <3>1, <1>1
  <2>2. \A k \in 1 .. (N + 1) : e[k] = Append(d, s[p].data)[k]
    BY <1>1, <1>2, <1>8, <1>9
  <2>3. Append(d, s[p].data) \in Seq(S) /\ Len(Append(d, s[p].data)) = N + 1
    <3> HIDE DEF d
    <3> QED
      BY <1>8, <1>9
  <2> HIDE DEF d, e
  <2> QED
    BY <2>1, <2>2, <2>3
<1> QED
  BY <1>5, <1>6, <1>10 DEF A

-----------------------------------------------------------------------------
(* What the first items of an answer have come to.                         *)

Reasons == {"stop", "length", "tool_calls", "content_filter", "error"}
ChunkType == [type : {"text_delta", "tool_call_start", "tool_call_delta", "finish"}, index : Nat,
              data : Payload \cup Reasons, usage : {"none", "measured", "estimated"}]

\* The places of the chunks of a type, and what those with an index say.
OfType(cs, type) == {n \in 1 .. Len(cs) : cs[n].type = type}
Out(cs, type, index) == Data(cs, {n \in OfType(cs, type) : cs[n].index = index})

\* The calls before s, and the places of the arguments of s.
Rank(a, s) == Cardinality({t \in Starts(a, "tool") : t < s})
ArgsOf(a, s) == {i \in Parts(a, "tool") : a.items[i].block = a.items[s].block}
TextOf(a) == Parts(a, "text") \cup Parts(a, "schema")

\* The blocks of the calls that started are open, each at its index.
CallsOpen(a, h, ts) ==
    /\ ts \in Seq(Nat \ {0})
    /\ Len(ts) = Cardinality(Starts(a, "tool") \cap (1 .. h))
    /\ \A k \in 1 .. Len(ts) : ts[k] = a.items[Nth(Starts(a, "tool"), k)].block

\* Every call that started was said once, with its id.
CallsSaid(a, h, cs) ==
    /\ Cardinality(OfType(cs, "tool_call_start")) = Cardinality(Starts(a, "tool") \cap (1 .. h))
    /\ \A s \in Starts(a, "tool") : Out(cs, "tool_call_start", Rank(a, s)) = Data(a.items, {s} \cap (1 .. h))

\* The arguments of every call were passed on, whether it started or not.
ArgumentsSaid(a, h, cs) ==
    \A s \in Starts(a, "tool") : Out(cs, "tool_call_delta", Rank(a, s)) = Data(a.items, ArgsOf(a, s) \cap (1 .. h))

\* So was the text.
TextSaid(a, h, cs) == Out(cs, "text_delta", 0) = Data(a.items, TextOf(a) \cap (1 .. h))

\* The schema tool that started last is known.
SchemaIs(a, h, at) ==
    \/ at = 0 /\ Starts(a, "schema") \cap (1 .. h) = {}
    \/ \E s \in Starts(a, "schema") \cap (1 .. h) :
            at = a.items[s].block /\ \A t \in Starts(a, "schema") : s < t => h < t

Translated(a, h, cs, ts, at) ==
    CallsOpen(a, h, ts) /\ CallsSaid(a, h, cs) /\ ArgumentsSaid(a, h, cs) /\ TextSaid(a, h, cs) /\ SchemaIs(a, h, at)

\* Nothing of a type is added.
Quiet(cs, ds, type) ==
    OfType(ds, type) = OfType(cs, type) /\ \A index \in Nat : Out(ds, type, index) = Out(cs, type, index)

\* A chunk goes behind the others of its type.
LEMMA ChunkGrows ==
    ASSUME NEW cs \in Seq(ChunkType), NEW c \in ChunkType, NEW type
    PROVE  LET ds == Append(cs, c) IN
           /\ ds \in Seq(ChunkType) /\ Len(cs) \in Nat /\ Len(ds) = Len(cs) + 1 /\ ds[Len(ds)] = c
           /\ \A n \in 1 .. Len(cs) : ds[n] = cs[n]
           /\ OfType(cs, type) \subseteq 1 .. Len(cs)
           /\ OfType(ds, type) = OfType(cs, type) \cup (IF c.type = type THEN {Len(cs) + 1} ELSE {})
<1> DEFINE ds == Append(cs, c)
<1>1. ds \in Seq(ChunkType) /\ Len(cs) \in Nat /\ Len(ds) = Len(cs) + 1 /\ ds[Len(cs) + 1] = c
  OBVIOUS
<1>2. \A n \in 1 .. Len(cs) : ds[n] = cs[n]
  OBVIOUS
<1>3. 1 .. (Len(cs) + 1) = 1 .. Len(cs) \cup {Len(cs) + 1}
  BY <1>1
<1> HIDE DEF ds
<1>4. OfType(ds, type) = OfType(cs, type) \cup (IF c.type = type THEN {Len(cs) + 1} ELSE {})
  BY <1>1, <1>2, <1>3 DEF OfType
<1> QED
  BY <1>1, <1>2, <1>4 DEF ds, OfType

\* Chunks of other types and other indexes are none of a reader's business.
LEMMA OutStays ==
    ASSUME NEW cs \in Seq(ChunkType), NEW c \in ChunkType, NEW type, NEW index, c.type # type \/ c.index # index
    PROVE  Out(Append(cs, c), type, index) = Out(cs, type, index)
<1> DEFINE ds == Append(cs, c)
           I == {n \in OfType(cs, type) : cs[n].index = index}
<1>1. /\ Len(cs) \in Nat /\ ds[Len(cs) + 1] = c
      /\ \A n \in 1 .. Len(cs) : ds[n] = cs[n]
      /\ OfType(cs, type) \subseteq 1 .. Len(cs)
      /\ OfType(ds, type) = OfType(cs, type) \cup (IF c.type = type THEN {Len(cs) + 1} ELSE {})
  BY ChunkGrows
<1> HIDE DEF ds
<1>2. {n \in OfType(ds, type) : ds[n].index = index} = I
  <2>1. CASE c.type = type
    BY <1>1, <2>1
  <2>2. CASE c.type # type
    BY <1>1, <2>2
  <2> QED
    BY <2>1, <2>2
<1>3. I \subseteq 1 .. Len(cs) /\ \A n \in I : ds[n].data = cs[n].data
  BY <1>1
<1> HIDE DEF I
<1>4. Data(ds, I) = Data(cs, I)
  BY <1>1, <1>3, DataSame
<1> QED
  BY <1>2, <1>4 DEF Out, ds, I

\* A chunk of the type and the index adds what it says.
LEMMA OutGrows ==
    ASSUME NEW cs \in Seq(ChunkType), NEW c \in ChunkType,
           NEW type, NEW index, c.type = type, c.index = index
    PROVE  Out(Append(cs, c), type, index) = Append(Out(cs, type, index), c.data)
<1> DEFINE ds == Append(cs, c)
           I == {n \in OfType(cs, type) : cs[n].index = index}
           n1 == Len(cs)
<1>1. /\ n1 \in Nat /\ ds[n1 + 1] = c
      /\ \A n \in 1 .. n1 : ds[n] = cs[n]
      /\ OfType(cs, type) \subseteq 1 .. n1
      /\ OfType(ds, type) = OfType(cs, type) \cup {n1 + 1}
  BY ChunkGrows
<1> HIDE DEF ds, n1
<1>2. {n \in OfType(ds, type) : ds[n].index = index} = I \cup {n1 + 1}
  BY <1>1
<1>3. I \subseteq 1 .. n1 /\ \A n \in I : ds[n].data = cs[n].data
  BY <1>1
<1> HIDE DEF I
<1>4. Data(ds, I) = Data(cs, I)
  BY <1>1, <1>3, DataSame
<1>5. Data(ds, I \cup {n1 + 1}) = Append(Data(ds, I), ds[n1 + 1].data)
  <2> DEFINE p == n1 + 1
  <2>1. p \in Nat \ {0} /\ I \subseteq 1 .. (p - 1)
    BY <1>1, <1>3
  <2> HIDE DEF p
  <2>2. Data(ds, I \cup {p}) = Append(Data(ds, I), ds[p].data)
    BY <2>1, DataGrows
  <2> QED
    BY <2>2 DEF p
<1> QED
  BY <1>1, <1>2, <1>4, <1>5 DEF Out, ds, I

\* Types that a chunk is not of are quiet.
LEMMA QuietIs ==
    ASSUME NEW cs \in Seq(ChunkType), NEW c \in ChunkType, NEW type, c.type # type
    PROVE  Quiet(cs, cs, type) /\ Quiet(cs, Append(cs, c), type)
<1>1. OfType(Append(cs, c), type) = OfType(cs, type)
  <2>1. OfType(Append(cs, c), type) = OfType(cs, type) \cup (IF c.type = type THEN {Len(cs) + 1} ELSE {})
    BY ChunkGrows
  <2> QED
    BY <2>1
<1>2. \A index \in Nat : Out(Append(cs, c), type, index) = Out(cs, type, index)
  BY OutStays
<1> QED
  BY <1>1, <1>2 DEF Quiet

-----------------------------------------------------------------------------
(* One item more.                                                          *)

\* The places of an answer's items, and what stands there.
LEMMA ItemTypes ==
    ASSUME NEW a \in Answer
    PROVE  /\ Len(a.items) \in Nat
           /\ \A i \in 1 .. Len(a.items) :
                a.items[i] \in Item /\ a.items[i].block \in Nat \ {0} /\ a.items[i].data \in Payload
           /\ \A kind : Starts(a, kind) \subseteq 1 .. Len(a.items) /\ Parts(a, kind) \subseteq 1 .. Len(a.items)
           /\ \A s : ArgsOf(a, s) \subseteq 1 .. Len(a.items)
           /\ TextOf(a) \subseteq 1 .. Len(a.items)
<1>1. a.items \in Seq(Item)
  BY DEF Answer
<1>2. \A i \in 1 .. Len(a.items) : a.items[i] \in Item
  BY <1>1
<1>3. \A i \in 1 .. Len(a.items) : a.items[i].block \in Nat \ {0} /\ a.items[i].data \in STRING
  BY <1>2 DEF Item
<1> QED
  BY <1>1, <1>2, <1>3 DEF Starts, Parts, ArgsOf, TextOf, Payload

\* One place more.
LEMMA CutGrows ==
    ASSUME NEW i \in Nat \ {0}, NEW K
    PROVE  /\ i \in K => K \cap (1 .. i) = (K \cap (1 .. (i - 1))) \cup {i}
           /\ i \notin K => K \cap (1 .. i) = K \cap (1 .. (i - 1))
           /\ K \cap (1 .. (i - 1)) \subseteq 1 .. (i - 1)
<1>1. 1 .. i = 1 .. (i - 1) \cup {i}
  OBVIOUS
<1>2. i \notin 1 .. (i - 1)
  OBVIOUS
<1> QED
  BY <1>1, <1>2

\* The rank of a call is the number of those before it, and its own.
LEMMA RankIs ==
    ASSUME NEW a \in Answer, NEW s \in Starts(a, "tool")
    PROVE  /\ Rank(a, s) \in Nat
           /\ Cardinality(Starts(a, "tool") \cap (1 .. (s - 1))) = Rank(a, s)
           /\ Cardinality(Starts(a, "tool") \cap (1 .. s)) = Rank(a, s) + 1
           /\ Rank(a, s) + 1 \in 1 .. Cardinality(Starts(a, "tool"))
           /\ Nth(Starts(a, "tool"), Rank(a, s) + 1) = s
           /\ \A t \in Starts(a, "tool") : Rank(a, s) = Rank(a, t) => s = t
           /\ \A h \in Nat : s <= h /\ (\A t \in Starts(a, "tool") : s < t => h < t) =>
                Cardinality(Starts(a, "tool") \cap (1 .. h)) = Rank(a, s) + 1
<1> DEFINE K == Starts(a, "tool")
           N == Len(a.items)
           A == K \cap (1 .. (s - 1))
<1>1. N \in Nat /\ K \subseteq 1 .. N /\ s \in K
  BY ItemTypes
<1>2. \A t \in K : t \in Int /\ 1 <= t
  BY <1>1
<1>3. A = {t \in K : t < s} /\ K \cap (1 .. s) = A \cup {s} /\ s \notin A
  <2>1. s \in Int /\ 1 <= s
    BY <1>1, <1>2
  <2> HIDE DEF K
  <2>2. \A t \in K : t \in 1 .. (s - 1) <=> t < s
    BY <1>2, <2>1
  <2>3. \A t \in K : t \in 1 .. s <=> t \in 1 .. (s - 1) \/ t = s
    BY <1>2, <2>1
  <2>4. s \notin 1 .. (s - 1)
    BY <2>1
  <2> QED
    BY <1>1, <2>2, <2>3, <2>4, Zenon
<1>4. \A h \in Nat : s <= h /\ (\A t \in K : s < t => h < t) => K \cap (1 .. h) = K \cap (1 .. s)
  <2>1. s \in Int /\ 1 <= s
    BY <1>1, <1>2
  <2> HIDE DEF K
  <2> QED
    BY <1>2, <2>1
<1> HIDE DEF K, N, A
<1>5. A \subseteq K /\ IsFiniteSet(A) /\ Cardinality(A) \in Nat
  <2>1. A \subseteq K
    BY DEF A
  <2> QED
    BY <1>1, <2>1, PlacesFinite
<1>6. Rank(a, s) = Cardinality(A)
  BY <1>3 DEF Rank, K
<1>7. Cardinality(K \cap (1 .. s)) = Rank(a, s) + 1
  <2>1. Cardinality(A \cup {s}) = Cardinality(A) + 1
    BY <1>3, <1>5, FS_AddElement
  <2> QED
    BY <2>1, <1>3, <1>6
<1>8. Cardinality(K \cap (1 .. s)) \in 1 .. Cardinality(K) /\ Nth(K, Cardinality(K \cap (1 .. s))) = s
  BY <1>1, NthIs
<1>9. ASSUME NEW t \in K, Rank(a, s) = Rank(a, t) PROVE s = t
  <2>1. t \in Int /\ s \in Int
    BY <1>1, <1>2
  <2>2. Rank(a, s) = Cardinality({x \in K : x < s}) /\ Rank(a, t) = Cardinality({x \in K : x < t})
    BY DEF Rank, K
  <2>3. Rank(a, s) \in Nat
    BY <1>5, <1>6
  <2>4. ~ (s < t)
    <3> SUFFICES ASSUME s < t PROVE FALSE
      OBVIOUS
    <3>1. Rank(a, s) < Rank(a, t)
      BY <1>1, <2>2, RankUp, ZenonT(40)
    <3> QED
      BY <3>1, <2>3, <1>9
  <2>5. ~ (t < s)
    <3> SUFFICES ASSUME t < s PROVE FALSE
      OBVIOUS
    <3>1. Rank(a, t) < Rank(a, s)
      BY <1>1, <2>2, RankUp
    <3> QED
      BY <3>1, <2>3, <1>9
  <2> QED
    BY <2>1, <2>4, <2>5
<1>10. \A h \in Nat : s <= h /\ (\A t \in K : s < t => h < t) => Cardinality(K \cap (1 .. h)) = Rank(a, s) + 1
  BY <1>4, <1>7
<1> QED
  BY <1>5, <1>6, <1>7, <1>8, <1>9, <1>10 DEF K, A

\* A chunk that a state machine makes of an item.
LEMMA ChunkIs ==
    ASSUME NEW type \in {"text_delta", "tool_call_start", "tool_call_delta"}, NEW index \in Nat, NEW data \in Payload
    PROVE  /\ Chunk(type, index, data, "none") \in ChunkType
           /\ Chunk(type, index, data, "none").type = type
           /\ Chunk(type, index, data, "none").index = index
           /\ Chunk(type, index, data, "none").data = data
  BY DEF Chunk, ChunkType

\* What an item of another kind leaves as it was.
LEMMA ItemStays ==
    ASSUME NEW a \in Answer, NEW i \in 1 .. Len(a.items), NEW cs, NEW ds, NEW ts, NEW at
    PROVE  /\ i \notin Starts(a, "tool") /\ CallsOpen(a, i - 1, ts) => CallsOpen(a, i, ts)
           /\ i \notin Starts(a, "tool") /\ CallsSaid(a, i - 1, cs) /\ Quiet(cs, ds, "tool_call_start")
                => CallsSaid(a, i, ds)
           /\ i \notin Parts(a, "tool") /\ ArgumentsSaid(a, i - 1, cs) /\ Quiet(cs, ds, "tool_call_delta")
                => ArgumentsSaid(a, i, ds)
           /\ i \notin TextOf(a) /\ TextSaid(a, i - 1, cs) /\ Quiet(cs, ds, "text_delta") => TextSaid(a, i, ds)
           /\ i \notin Starts(a, "schema") /\ SchemaIs(a, i - 1, at) => SchemaIs(a, i, at)
<1>1. i \in Nat \ {0}
  BY ItemTypes
<1>2. \A K : i \notin K => K \cap (1 .. i) = K \cap (1 .. (i - 1))
  BY <1>1, CutGrows
<1>3. \A s \in Starts(a, "tool") : Rank(a, s) \in Nat
  BY RankIs
<1>4. ASSUME i \notin Starts(a, "tool"), CallsOpen(a, i - 1, ts) PROVE CallsOpen(a, i, ts)
  BY <1>2, <1>4 DEF CallsOpen
<1>5. ASSUME i \notin Starts(a, "tool"), CallsSaid(a, i - 1, cs), Quiet(cs, ds, "tool_call_start")
      PROVE  CallsSaid(a, i, ds)
  <2>1. Cardinality(OfType(ds, "tool_call_start")) = Cardinality(Starts(a, "tool") \cap (1 .. i))
    BY <1>2, <1>5 DEF CallsSaid, Quiet
  <2>2. ASSUME NEW s \in Starts(a, "tool")
        PROVE  Out(ds, "tool_call_start", Rank(a, s)) = Data(a.items, {s} \cap (1 .. i))
    <3>1. Out(ds, "tool_call_start", Rank(a, s)) = Out(cs, "tool_call_start", Rank(a, s))
      BY <1>3, <1>5 DEF Quiet
    <3>2. {s} \cap (1 .. i) = {s} \cap (1 .. (i - 1))
      BY <1>2, <1>5
    <3> QED
      BY <3>1, <3>2, <1>5 DEF CallsSaid
  <2> QED
    BY <2>1, <2>2 DEF CallsSaid
<1>6. ASSUME i \notin Parts(a, "tool"), ArgumentsSaid(a, i - 1, cs), Quiet(cs, ds, "tool_call_delta")
      PROVE  ArgumentsSaid(a, i, ds)
  <2>1. ASSUME NEW s \in Starts(a, "tool")
        PROVE  Out(ds, "tool_call_delta", Rank(a, s)) = Data(a.items, ArgsOf(a, s) \cap (1 .. i))
    <3>1. Out(ds, "tool_call_delta", Rank(a, s)) = Out(cs, "tool_call_delta", Rank(a, s))
      BY <1>3, <1>6 DEF Quiet
    <3>2. i \notin ArgsOf(a, s)
      BY <1>6 DEF ArgsOf
    <3>3. ArgsOf(a, s) \cap (1 .. i) = ArgsOf(a, s) \cap (1 .. (i - 1))
      BY <1>2, <3>2
    <3> QED
      BY <3>1, <3>3, <1>6 DEF ArgumentsSaid
  <2> QED
    BY <2>1 DEF ArgumentsSaid
<1>7. ASSUME i \notin TextOf(a), TextSaid(a, i - 1, cs), Quiet(cs, ds, "text_delta") PROVE TextSaid(a, i, ds)
  BY <1>2, <1>7 DEF TextSaid, Quiet
<1>8. ASSUME i \notin Starts(a, "schema"), SchemaIs(a, i - 1, at) PROVE SchemaIs(a, i, at)
  <2>1. Starts(a, "schema") \cap (1 .. i) = Starts(a, "schema") \cap (1 .. (i - 1))
    BY <1>2, <1>8
  <2>2. \A t \in Starts(a, "schema") : t \in Int /\ t # i
    BY <1>8, ItemTypes
  <2>3. \A t \in Starts(a, "schema") : i - 1 < t => i < t
    BY <2>2, <1>1
  <2> QED
    BY <2>1, <2>3, <1>8 DEF SchemaIs
<1> QED
  BY <1>4, <1>5, <1>6, <1>7, <1>8

\* A call starts: it is the next one, in the order of the answer.
LEMMA CallGrows ==
    ASSUME NEW a \in Answer, NEW i \in Starts(a, "tool"), NEW cs \in Seq(ChunkType), NEW ts,
           CallsOpen(a, i - 1, ts), CallsSaid(a, i - 1, cs)
    PROVE  /\ Len(ts) \in Nat
           /\ CallsOpen(a, i, Append(ts, a.items[i].block))
           /\ CallsSaid(a, i, Append(cs, Chunk("tool_call_start", Len(ts), a.items[i].data, "none")))
<1> DEFINE us == Append(ts, a.items[i].block)
           c == Chunk("tool_call_start", Len(ts), a.items[i].data, "none")
           ds == Append(cs, c)
           K == Starts(a, "tool")
<1>1. i \in Nat \ {0} /\ i \in 1 .. Len(a.items) /\ a.items[i].block \in Nat \ {0} /\ a.items[i].data \in Payload
  BY ItemTypes
<1>2. /\ ts \in Seq(Nat \ {0}) /\ Len(ts) = Cardinality(K \cap (1 .. (i - 1)))
      /\ \A k \in 1 .. Len(ts) : ts[k] = a.items[Nth(K, k)].block
  BY DEF CallsOpen
<1>3. /\ Rank(a, i) \in Nat /\ Cardinality(K \cap (1 .. (i - 1))) = Rank(a, i)
      /\ Cardinality(K \cap (1 .. i)) = Rank(a, i) + 1
      /\ Nth(K, Rank(a, i) + 1) = i
      /\ \A t \in K : Rank(a, i) = Rank(a, t) => i = t
  BY RankIs
<1>4. Len(ts) = Rank(a, i)
  BY <1>2, <1>3
<1>5. /\ c \in ChunkType /\ c.type = "tool_call_start" /\ c.index = Rank(a, i) /\ c.data = a.items[i].data
  BY <1>1, <1>3, <1>4, ChunkIs
<1> HIDE DEF c, K
<1>6. CallsOpen(a, i, us)
  <2>1. us \in Seq(Nat \ {0}) /\ Len(us) = Rank(a, i) + 1
    BY <1>1, <1>2, <1>4
  <2>2. \A k \in 1 .. Len(us) : us[k] = a.items[Nth(K, k)].block
    <3> TAKE k \in 1 .. Len(us)
    <3>1. CASE k = Len(us)
      BY <3>1, <2>1, <1>1, <1>2, <1>3, <1>4
    <3>2. CASE k \in 1 .. Len(ts)
      <4>1. us[k] = ts[k]
        BY <3>2, <1>1, <1>2
      <4> QED
        BY <4>1, <3>2, <1>2
    <3> QED
      BY <3>1, <3>2, <2>1, <1>3, <1>4
  <2> HIDE DEF us
  <2> QED
    BY <2>1, <2>2, <1>3 DEF CallsOpen, K
<1>7. CallsSaid(a, i, ds)
  <2>1. Cardinality(OfType(ds, "tool_call_start")) = Cardinality(K \cap (1 .. i))
    <3> DEFINE O == OfType(cs, "tool_call_start")
    <3>1. Len(cs) \in Nat /\ O \subseteq 1 .. Len(cs) /\ OfType(ds, "tool_call_start") = O \cup {Len(cs) + 1}
      BY <1>5, ChunkGrows
    <3>2. Cardinality(O) = Rank(a, i)
      BY <1>3 DEF CallsSaid, K
    <3> HIDE DEF O
    <3>3. IsFiniteSet(O) /\ Len(cs) + 1 \notin O
      <4>1. IsFiniteSet(O)
        BY <3>1, PlacesFinite
      <4>2. Len(cs) + 1 \notin 1 .. Len(cs)
        BY <3>1
      <4> QED
        BY <4>1, <4>2, <3>1
    <3>4. Cardinality(O \cup {Len(cs) + 1}) = Cardinality(O) + 1
      BY <3>3, FS_AddElement
    <3> QED
      BY <3>1, <3>2, <3>4, <1>3
  <2>2. ASSUME NEW s \in K
        PROVE  Out(ds, "tool_call_start", Rank(a, s)) = Data(a.items, {s} \cap (1 .. i))
    <3>1. Out(cs, "tool_call_start", Rank(a, s)) = Data(a.items, {s} \cap (1 .. (i - 1)))
      BY DEF CallsSaid, K
    <3>2. CASE s = i
      <4>1. Out(ds, "tool_call_start", Rank(a, s)) = Append(Out(cs, "tool_call_start", Rank(a, s)), a.items[i].data)
        BY <3>2, <1>5, OutGrows
      <4>2. {s} \cap (1 .. i) = ({s} \cap (1 .. (i - 1))) \cup {i} /\ {s} \cap (1 .. (i - 1)) \subseteq 1 .. (i - 1)
        BY <3>2, <1>1, CutGrows
      <4>3. Data(a.items, {s} \cap (1 .. i)) = Append(Data(a.items, {s} \cap (1 .. (i - 1))), a.items[i].data)
        BY <4>2, <1>1, DataGrows
      <4> QED
        BY <4>1, <4>3, <3>1
    <3>3. CASE s # i
      <4>1. Rank(a, s) # c.index
        BY <3>3, <1>3, <1>5
      <4>2. Out(ds, "tool_call_start", Rank(a, s)) = Out(cs, "tool_call_start", Rank(a, s))
        BY <4>1, <1>5, OutStays
      <4>3. {s} \cap (1 .. i) = {s} \cap (1 .. (i - 1))
        BY <3>3, <1>1, CutGrows
      <4> QED
        BY <4>2, <4>3, <3>1
    <3> QED
      BY <3>2, <3>3
  <2> QED
    BY <2>1, <2>2 DEF CallsSaid, K
<1> QED
  BY <1>3, <1>4, <1>6, <1>7 DEF c

\* Arguments go to the call of their block, which is the only one.
LEMMA ArgumentsGrow ==
    ASSUME NEW a \in Answer, WellFormed(a), NEW i \in Parts(a, "tool"), NEW cs \in Seq(ChunkType),
           NEW s \in Starts(a, "tool"), a.items[s].block = a.items[i].block, ArgumentsSaid(a, i - 1, cs)
    PROVE  ArgumentsSaid(a, i, Append(cs, Chunk("tool_call_delta", Rank(a, s), a.items[i].data, "none")))
<1> DEFINE c == Chunk("tool_call_delta", Rank(a, s), a.items[i].data, "none")
           ds == Append(cs, c)
<1>1. i \in Nat \ {0} /\ a.items[i].data \in Payload
  BY ItemTypes
<1>2. \A t \in Starts(a, "tool") : Rank(a, t) \in Nat /\ (Rank(a, s) = Rank(a, t) => s = t)
  BY RankIs
<1>3. c \in ChunkType /\ c.type = "tool_call_delta" /\ c.index = Rank(a, s) /\ c.data = a.items[i].data
  BY <1>1, <1>2, ChunkIs
<1> HIDE DEF c
<1>4. ASSUME NEW t \in Starts(a, "tool")
      PROVE  Out(ds, "tool_call_delta", Rank(a, t)) = Data(a.items, ArgsOf(a, t) \cap (1 .. i))
  <2> DEFINE K == ArgsOf(a, t)
  <2>1. Out(cs, "tool_call_delta", Rank(a, t)) = Data(a.items, K \cap (1 .. (i - 1)))
    BY DEF ArgumentsSaid
  <2>2. CASE s = t
    <3>1. Out(ds, "tool_call_delta", Rank(a, t)) = Append(Out(cs, "tool_call_delta", Rank(a, t)), a.items[i].data)
      BY <2>2, <1>3, OutGrows
    <3>2. i \in K
      BY <2>2 DEF ArgsOf
    <3> HIDE DEF K
    <3>3. K \cap (1 .. i) = (K \cap (1 .. (i - 1))) \cup {i} /\ K \cap (1 .. (i - 1)) \subseteq 1 .. (i - 1)
      BY <3>2, <1>1, CutGrows
    <3>4. Data(a.items, K \cap (1 .. i)) = Append(Data(a.items, K \cap (1 .. (i - 1))), a.items[i].data)
      BY <3>3, <1>1, DataGrows
    <3> QED
      BY <3>1, <3>4, <2>1 DEF K
  <2>3. CASE s # t
    <3>1. Rank(a, t) # c.index
      BY <2>3, <1>2, <1>3
    <3>2. Out(ds, "tool_call_delta", Rank(a, t)) = Out(cs, "tool_call_delta", Rank(a, t))
      BY <3>1, <1>3, OutStays
    <3>3. i \notin K
      BY <2>3 DEF ArgsOf, WellFormed
    <3>4. K \cap (1 .. i) = K \cap (1 .. (i - 1))
      BY <3>3, <1>1, CutGrows
    <3> QED
      BY <3>2, <3>4, <2>1
  <2> QED
    BY <2>2, <2>3
<1> QED
  BY <1>4 DEF ArgumentsSaid, c

\* Text and what fills the schema tool in are text.
LEMMA TextGrows ==
    ASSUME NEW a \in Answer, NEW i \in TextOf(a), NEW cs \in Seq(ChunkType), TextSaid(a, i - 1, cs)
    PROVE  TextSaid(a, i, Append(cs, Chunk("text_delta", 0, a.items[i].data, "none")))
<1> DEFINE c == Chunk("text_delta", 0, a.items[i].data, "none")
           ds == Append(cs, c)
           K == TextOf(a)
<1>1. i \in Nat \ {0} /\ a.items[i].data \in Payload
  BY ItemTypes
<1>2. c \in ChunkType /\ c.type = "text_delta" /\ c.index = 0 /\ c.data = a.items[i].data
  BY <1>1, ChunkIs
<1> HIDE DEF c
<1>3. Out(ds, "text_delta", 0) = Append(Out(cs, "text_delta", 0), a.items[i].data)
  BY <1>2, OutGrows
<1>4. i \in K
  OBVIOUS
<1> HIDE DEF K
<1>5. K \cap (1 .. i) = (K \cap (1 .. (i - 1))) \cup {i} /\ K \cap (1 .. (i - 1)) \subseteq 1 .. (i - 1)
  BY <1>1, <1>4, CutGrows
<1>6. Data(a.items, K \cap (1 .. i)) = Append(Data(a.items, K \cap (1 .. (i - 1))), a.items[i].data)
  BY <1>5, <1>1, DataGrows
<1> QED
  BY <1>3, <1>6 DEF TextSaid, K, c

\* The schema tool that starts is the last one.
LEMMA SchemaGrows ==
    ASSUME NEW a \in Answer, NEW i \in Starts(a, "schema")
    PROVE  SchemaIs(a, i, a.items[i].block)
<1>1. i \in 1 .. i
  BY ItemTypes
<1> QED
  BY <1>1 DEF SchemaIs

\* A part that continues the last call belongs to the tool index opened last.
LEMMA LastCall ==
    ASSUME NEW a \in Answer, NEW i \in Parts(a, "tool"), NEW s \in Starts(a, "tool"), Continues(a, s, i),
           NEW ts, CallsOpen(a, i - 1, ts)
    PROVE  /\ Len(ts) - 1 = Rank(a, s)
           /\ Rank(a, s) + 1 \in 1 .. Len(ts)
           /\ ts[Rank(a, s) + 1] = a.items[i].block
           /\ WellFormed(a) => \A k \in 1 .. Len(ts) : ts[k] = a.items[i].block => k = Rank(a, s) + 1
<1> DEFINE K == Starts(a, "tool")
<1>1. i \in Nat \ {0} /\ s \in Int /\ K \subseteq 1 .. Len(a.items) /\ Len(a.items) \in Nat
  BY ItemTypes
<1>2. i - 1 \in Nat /\ s <= i - 1
  BY <1>1 DEF Continues
<1>3. \A t \in K : s < t => i - 1 < t
  <2>1. \A t \in K : t \in Int
    BY <1>1
  <2>2. a.items[i].kind = "tool"
    BY DEF Parts
  <2> QED
    BY <1>1, <2>1, <2>2 DEF Continues
<1>4. /\ Rank(a, s) \in Nat
      /\ Cardinality(K \cap (1 .. (i - 1))) = Rank(a, s) + 1
      /\ Nth(K, Rank(a, s) + 1) = s
  BY <1>2, <1>3, RankIs
<1>5. /\ Len(ts) = Rank(a, s) + 1
      /\ \A k \in 1 .. Len(ts) : ts[k] = a.items[Nth(K, k)].block
  BY <1>4 DEF CallsOpen
<1>6. ASSUME WellFormed(a), NEW k \in 1 .. Len(ts), ts[k] = a.items[i].block
      PROVE  k = Rank(a, s) + 1
  <2>1. Len(ts) <= Cardinality(K) /\ Cardinality(K) \in Nat /\ Len(ts) \in Nat
    <3>1. Rank(a, s) + 1 \in 1 .. Cardinality(K)
      BY RankIs
    <3>2. Cardinality(K) \in Nat
      BY <1>1, PlacesFinite
    <3> QED
      BY <3>1, <3>2, <1>4, <1>5
  <2>2. k \in 1 .. Cardinality(K)
    BY <2>1
  <2>3. Nth(K, k) \in K /\ Cardinality(K \cap (1 .. Nth(K, k))) = k
    BY <1>1, <2>2, NthIs
  <2>4. a.items[Nth(K, k)].block = a.items[s].block
    BY <1>5, <1>6 DEF Continues
  <2>5. Nth(K, k) = s
    BY <2>3, <2>4, <1>6 DEF WellFormed
  <2> QED
    BY <2>3, <2>5, RankIs
<1> QED
  BY <1>4, <1>5, <1>6 DEF Continues

\* IndexOf() of the block of a part that continues a call is its index.
LEMMA IndexIs ==
    ASSUME NEW block \in Nat, NEW k \in 1 .. Len(tools), tools[k] = block,
           \A l \in 1 .. Len(tools) : tools[l] = block => l = k
    PROVE  IndexOf(block) = k - 1
<1> DEFINE I == {l \in 1 .. Len(tools) : tools[l] = block}
<1>1. I = {k}
  OBVIOUS
<1>2. IndexOf(block) = (IF I # {} THEN Min(I) ELSE 0) - 1
  BY DEF IndexOf, SelectInSeq
<1>3. Min({k}) = k
  <2>1. \E x \in {k} : \A y \in {k} : x =< y
    OBVIOUS
  <2> QED
    BY <2>1 DEF Min
<1> QED
  BY <1>1, <1>2, <1>3

-----------------------------------------------------------------------------
(* The two state machines handle an item.                                  *)

\* A part of the schema tool finds it the last one that started; a part of a
\* call does not.
LEMMA SchemaLast ==
    ASSUME NEW a \in Answer, WellFormed(a), NEW i \in 1 .. Len(a.items), NEW at, SchemaIs(a, i - 1, at)
    PROVE  /\ i \in Parts(a, "schema") => at = a.items[i].block
           /\ i \in Parts(a, "tool") => at # a.items[i].block
<1>1. /\ Len(a.items) \in Nat /\ i \in Int
      /\ \A s \in Starts(a, "schema") : s \in 1 .. Len(a.items) /\ s \in Int
      /\ a.items[i].block # 0
  BY ItemTypes
<1>2. ASSUME i \in Parts(a, "schema") PROVE at = a.items[i].block
  <2>1. PICK s \in Starts(a, "schema") : Continues(a, s, i)
    BY <1>2 DEF WellFormed
  <2>2. a.items[i].kind = "schema"
    BY <1>2 DEF Parts
  <2>3. s \in 1 .. (i - 1) /\ a.items[s].block = a.items[i].block /\ \A t \in Starts(a, "schema") : s < t => i < t
    BY <2>1, <2>2, <1>1 DEF Continues
  <2>4. PICK l \in Starts(a, "schema") \cap (1 .. (i - 1)) :
            at = a.items[l].block /\ \A t \in Starts(a, "schema") : l < t => i - 1 < t
    BY <2>3 DEF SchemaIs
  <2>5. s = l
    BY <2>3, <2>4, <1>1
  <2> QED
    BY <2>3, <2>4, <2>5
<1>3. ASSUME i \in Parts(a, "tool") PROVE at # a.items[i].block
  BY <1>1, <1>3 DEF SchemaIs, WellFormed
<1> QED
  BY <1>2, <1>3

\* CallNo() counts the calls before the one of a block.
LEMMA CallNoIs ==
    ASSUME answer \in Answer, WellFormed(answer), NEW s \in Starts(answer, "tool")
    PROVE  CallNo(answer.items[s].block) = Rank(answer, s)
<1>1. \A t \in Starts(answer, "tool") : answer.items[t].block = answer.items[s].block => t = s
  BY DEF WellFormed
<1>2. (CHOOSE t \in Starts(answer, "tool") : answer.items[t].block = answer.items[s].block) = s
  BY <1>1
<1> QED
  BY <1>2 DEF CallNo, Rank

\* A start or a part of one kind is none of another.
LEMMA ItemIsOne ==
    ASSUME NEW a \in Answer, NEW i \in 1 .. Len(a.items)
    PROVE  /\ a.items[i].type \in {"start", "part", "empty"} /\ a.items[i].kind \in {"text", "tool", "schema", "thinking"}
           /\ i \in Starts(a, "tool") <=> a.items[i].type = "start" /\ a.items[i].kind = "tool"
           /\ i \in Starts(a, "schema") <=> a.items[i].type = "start" /\ a.items[i].kind = "schema"
           /\ i \in Parts(a, "tool") <=> a.items[i].type = "part" /\ a.items[i].kind = "tool"
           /\ i \in Parts(a, "schema") <=> a.items[i].type = "part" /\ a.items[i].kind = "schema"
           /\ i \in Parts(a, "text") <=> a.items[i].type = "part" /\ a.items[i].kind = "text"
           /\ i \in TextOf(a) <=> a.items[i].type = "part" /\ a.items[i].kind \in {"text", "schema"}
<1>1. a.items[i] \in Item
  BY ItemTypes
<1> QED
  BY <1>1 DEF Item, Starts, Parts, TextOf

\* Each of the ways to handle an item keeps what the items have come to.
LEMMA HandlesItem ==
    ASSUME NEW a \in Answer, WellFormed(a), NEW i \in 1 .. Len(a.items), NEW cs \in Seq(ChunkType), NEW ts, NEW at,
           Translated(a, i - 1, cs, ts, at)
    PROVE  /\ Len(ts) \in Nat
           /\ i \in Starts(a, "tool") =>
                LET c == Chunk("tool_call_start", Len(ts), a.items[i].data, "none")
                IN  Translated(a, i, Append(cs, c), Append(ts, a.items[i].block), at) /\ c \in ChunkType
           /\ \A s \in Starts(a, "tool") : i \in Parts(a, "tool") /\ a.items[s].block = a.items[i].block =>
                LET c == Chunk("tool_call_delta", Rank(a, s), a.items[i].data, "none")
                IN  Translated(a, i, Append(cs, c), ts, at) /\ c \in ChunkType
           /\ i \in TextOf(a) =>
                LET c == Chunk("text_delta", 0, a.items[i].data, "none")
                IN  Translated(a, i, Append(cs, c), ts, at) /\ c \in ChunkType
           /\ i \in Starts(a, "schema") => Translated(a, i, cs, ts, a.items[i].block)
           /\ i \notin Starts(a, "tool") \cup Starts(a, "schema") \cup Parts(a, "tool") \cup TextOf(a) =>
                Translated(a, i, cs, ts, at)
<1> DEFINE Before == Translated(a, i - 1, cs, ts, at)
<1>1. /\ CallsOpen(a, i - 1, ts) /\ CallsSaid(a, i - 1, cs) /\ ArgumentsSaid(a, i - 1, cs) /\ TextSaid(a, i - 1, cs)
      /\ SchemaIs(a, i - 1, at)
  BY DEF Translated
<1>2. Len(ts) \in Nat
  BY <1>1 DEF CallsOpen
<1>3. a.items[i].data \in Payload /\ 0 \in Nat
  BY ItemTypes
<1>4. \A type : Quiet(cs, cs, type)
  BY DEF Quiet
<1>5. ASSUME i \in Starts(a, "tool"), NEW c, c = Chunk("tool_call_start", Len(ts), a.items[i].data, "none")
      PROVE  Translated(a, i, Append(cs, c), Append(ts, a.items[i].block), at) /\ c \in ChunkType
  <2>1. c \in ChunkType /\ c.type = "tool_call_start"
    BY <1>2, <1>3, <1>5, ChunkIs
  <2>2. Quiet(cs, Append(cs, c), "tool_call_delta") /\ Quiet(cs, Append(cs, c), "text_delta")
    BY <2>1, QuietIs
  <2>3. CallsOpen(a, i, Append(ts, a.items[i].block)) /\ CallsSaid(a, i, Append(cs, c))
    BY <1>1, <1>5, CallGrows
  <2>4. i \notin Parts(a, "tool") /\ i \notin TextOf(a) /\ i \notin Starts(a, "schema")
    BY <1>5, ItemIsOne
  <2>5. ArgumentsSaid(a, i, Append(cs, c)) /\ TextSaid(a, i, Append(cs, c)) /\ SchemaIs(a, i, at)
    BY <1>1, <2>2, <2>4, ItemStays
  <2> QED
    BY <2>1, <2>3, <2>5 DEF Translated
<1>6. ASSUME NEW s \in Starts(a, "tool"), i \in Parts(a, "tool"), a.items[s].block = a.items[i].block,
             NEW c, c = Chunk("tool_call_delta", Rank(a, s), a.items[i].data, "none")
      PROVE  Translated(a, i, Append(cs, c), ts, at) /\ c \in ChunkType
  <2>1. c \in ChunkType /\ c.type = "tool_call_delta"
    <3>1. Rank(a, s) \in Nat
      BY RankIs
    <3> QED
      BY <3>1, <1>3, <1>6, ChunkIs
  <2>2. Quiet(cs, Append(cs, c), "tool_call_start") /\ Quiet(cs, Append(cs, c), "text_delta")
    BY <2>1, QuietIs
  <2>3. ArgumentsSaid(a, i, Append(cs, c))
    BY <1>1, <1>6, ArgumentsGrow
  <2>4. i \notin Starts(a, "tool") /\ i \notin TextOf(a) /\ i \notin Starts(a, "schema")
    BY <1>6, ItemIsOne
  <2>5. CallsOpen(a, i, ts) /\ CallsSaid(a, i, Append(cs, c)) /\ TextSaid(a, i, Append(cs, c)) /\ SchemaIs(a, i, at)
    BY <1>1, <2>2, <2>4, ItemStays
  <2> QED
    BY <2>1, <2>3, <2>5 DEF Translated
<1>7. ASSUME i \in TextOf(a), NEW c, c = Chunk("text_delta", 0, a.items[i].data, "none")
      PROVE  Translated(a, i, Append(cs, c), ts, at) /\ c \in ChunkType
  <2>1. c \in ChunkType /\ c.type = "text_delta"
    BY <1>3, <1>7, ChunkIs
  <2>2. Quiet(cs, Append(cs, c), "tool_call_start") /\ Quiet(cs, Append(cs, c), "tool_call_delta")
    BY <2>1, QuietIs
  <2>3. TextSaid(a, i, Append(cs, c))
    BY <1>1, <1>7, TextGrows
  <2>4. i \notin Starts(a, "tool") /\ i \notin Parts(a, "tool") /\ i \notin Starts(a, "schema")
    BY <1>7, ItemIsOne
  <2>5. CallsOpen(a, i, ts) /\ CallsSaid(a, i, Append(cs, c)) /\ ArgumentsSaid(a, i, Append(cs, c)) /\ SchemaIs(a, i, at)
    BY <1>1, <2>2, <2>4, ItemStays
  <2> QED
    BY <2>1, <2>3, <2>5 DEF Translated
<1>8. ASSUME i \in Starts(a, "schema") PROVE Translated(a, i, cs, ts, a.items[i].block)
  <2>1. i \notin Starts(a, "tool") /\ i \notin Parts(a, "tool") /\ i \notin TextOf(a)
    BY <1>8, ItemIsOne
  <2>2. CallsOpen(a, i, ts) /\ CallsSaid(a, i, cs) /\ ArgumentsSaid(a, i, cs) /\ TextSaid(a, i, cs)
    BY <1>1, <1>4, <2>1, ItemStays
  <2> QED
    BY <1>8, <2>2, SchemaGrows DEF Translated
<1>9. ASSUME i \notin Starts(a, "tool") \cup Starts(a, "schema") \cup Parts(a, "tool") \cup TextOf(a)
      PROVE  Translated(a, i, cs, ts, at)
  <2>1. CallsOpen(a, i, ts) /\ CallsSaid(a, i, cs) /\ ArgumentsSaid(a, i, cs) /\ TextSaid(a, i, cs) /\ SchemaIs(a, i, at)
    BY <1>1, <1>4, <1>9, ItemStays
  <2> QED
    BY <2>1 DEF Translated
<1> QED
  BY <1>2, <1>5, <1>6, <1>7, <1>8, <1>9

\* What handling an item brings.
ItemDone(i) ==
    /\ Translated(answer, i, chunks', tools', schemaAt')
    /\ chunks' \in Seq(ChunkType)
    /\ OfType(chunks', "finish") = OfType(chunks, "finish")
    /\ UNCHANGED <<stop, measured>>

\* A chunk that is no finish leaves the finishes as they are.
LEMMA EmitIs ==
    ASSUME chunks \in Seq(ChunkType), NEW c, c \in ChunkType, c.type # "finish", Emit(c)
    PROVE  chunks' \in Seq(ChunkType) /\ OfType(chunks', "finish") = OfType(chunks, "finish")
<1>1. Append(chunks, c) \in Seq(ChunkType)
  BY ChunkGrows
<1>2. OfType(Append(chunks, c), "finish") = OfType(chunks, "finish")
  BY QuietIs DEF Quiet
<1> QED
  BY <1>1, <1>2 DEF Emit

\* AnthropicStreamState handles an item.
LEMMA AnthropicItem ==
    ASSUME answer \in Answer, WellFormed(answer), chunks \in Seq(ChunkType),
           NEW i \in 1 .. Len(answer.items), Translated(answer, i - 1, chunks, tools, schemaAt),
           answer.proto = "anthropic", HandleAnthropic(answer.items[i])
    PROVE  ItemDone(i)
<1> DEFINE e == answer.items[i]
<1>0. e.type # "empty"
  BY DEF WellFormed
<1>1. /\ e.type \in {"start", "part"} /\ e.kind \in {"text", "tool", "schema", "thinking"}
      /\ i \in Starts(answer, "tool") <=> e.type = "start" /\ e.kind = "tool"
      /\ i \in Starts(answer, "schema") <=> e.type = "start" /\ e.kind = "schema"
      /\ i \in Parts(answer, "tool") <=> e.type = "part" /\ e.kind = "tool"
      /\ i \in TextOf(answer) <=> e.type = "part" /\ e.kind \in {"text", "schema"}
      /\ i \in Parts(answer, "schema") <=> e.type = "part" /\ e.kind = "schema"
  BY <1>0, ItemIsOne
<1>2. e.data \in Payload /\ e.block \in Nat /\ 0 \in Nat
  BY ItemTypes
<1>3. CallsOpen(answer, i - 1, tools) /\ SchemaIs(answer, i - 1, schemaAt)
  BY DEF Translated
<1>4. Len(tools) \in Nat
  BY HandlesItem
<1>5. CASE i \in Starts(answer, "tool")
  <2> DEFINE c == Chunk("tool_call_start", Len(tools), e.data, "none")
  <2>1. Emit(c) /\ tools' = Append(tools, e.block) /\ UNCHANGED <<schemaAt, stop, measured>>
    BY <1>1, <1>5 DEF HandleAnthropic, BlockStarts
  <2>2. Translated(answer, i, Append(chunks, c), Append(tools, e.block), schemaAt) /\ c \in ChunkType
    BY <1>5, HandlesItem
  <2>3. c.type = "tool_call_start"
    BY DEF Chunk
  <2> HIDE DEF c
  <2>4. chunks' \in Seq(ChunkType) /\ OfType(chunks', "finish") = OfType(chunks, "finish")
    BY <2>1, <2>2, <2>3, EmitIs
  <2> QED
    BY <2>1, <2>2, <2>4 DEF ItemDone, Emit
<1>6. CASE i \in Starts(answer, "schema")
  <2>1. schemaAt' = e.block /\ UNCHANGED <<chunks, tools, stop, measured>>
    BY <1>1, <1>6 DEF HandleAnthropic, BlockStarts
  <2>2. Translated(answer, i, chunks, tools, e.block)
    BY <1>6, HandlesItem
  <2> QED
    BY <2>1, <2>2 DEF ItemDone
<1>7. CASE i \in TextOf(answer)
  <2> DEFINE c == Chunk("text_delta", 0, e.data, "none")
  <2>1. Emit(c) /\ UNCHANGED <<tools, schemaAt, stop, measured>>
    <3>1. CASE e.kind = "text"
      BY <1>1, <1>7, <3>1 DEF HandleAnthropic
    <3>2. CASE e.kind = "schema"
      <4>1. schemaAt = e.block
        BY <1>1, <1>3, <1>7, <3>2, SchemaLast
      <4> QED
        BY <1>1, <1>7, <3>2, <4>1 DEF HandleAnthropic, InputDelta
    <3> QED
      BY <1>1, <1>7, <3>1, <3>2
  <2>2. Translated(answer, i, Append(chunks, c), tools, schemaAt) /\ c \in ChunkType
    BY <1>7, HandlesItem
  <2>3. c.type = "text_delta"
    BY DEF Chunk
  <2> HIDE DEF c
  <2>4. chunks' \in Seq(ChunkType) /\ OfType(chunks', "finish") = OfType(chunks, "finish")
    BY <2>1, <2>2, <2>3, EmitIs
  <2> QED
    BY <2>1, <2>2, <2>4 DEF ItemDone, Emit
<1>8. CASE i \in Parts(answer, "tool")
  <2>1. schemaAt # e.block
    BY <1>3, <1>8, SchemaLast
  <2>2. PICK s \in Starts(answer, "tool") : Continues(answer, s, i)
    BY <1>8 DEF WellFormed
  <2> DEFINE c == Chunk("tool_call_delta", Rank(answer, s), e.data, "none")
  <2>3. Rank(answer, s) \in Nat
    BY RankIs
  <2>4. IndexOf(e.block) = Rank(answer, s)
    <3> DEFINE k == Rank(answer, s) + 1
    <3>1. k \in 1 .. Len(tools) /\ tools[k] = e.block /\ \A l \in 1 .. Len(tools) : tools[l] = e.block => l = k
      BY <1>3, <1>8, <2>2, LastCall
    <3> HIDE DEF k
    <3>2. IndexOf(e.block) = k - 1
      BY <1>2, <3>1, IndexIs
    <3> QED
      BY <2>3, <3>2 DEF k
  <2>5. Emit(c) /\ UNCHANGED <<tools, schemaAt, stop, measured>>
    BY <1>1, <1>8, <2>1, <2>3, <2>4 DEF HandleAnthropic, InputDelta
  <2>6. answer.items[s].block = answer.items[i].block
    BY <2>2 DEF Continues
  <2>7. Translated(answer, i, Append(chunks, c), tools, schemaAt) /\ c \in ChunkType
    BY <1>8, <2>6, HandlesItem
  <2>8. c.type = "tool_call_delta"
    BY DEF Chunk
  <2> HIDE DEF c
  <2>9. chunks' \in Seq(ChunkType) /\ OfType(chunks', "finish") = OfType(chunks, "finish")
    BY <2>5, <2>7, <2>8, EmitIs
  <2> QED
    BY <2>5, <2>7, <2>9 DEF ItemDone, Emit
<1>9. CASE i \notin Starts(answer, "tool") \cup Starts(answer, "schema") \cup Parts(answer, "tool") \cup TextOf(answer)
  <2>1. UNCHANGED <<chunks, tools, schemaAt, stop, measured>>
    BY <1>1, <1>9 DEF HandleAnthropic, Silent
  <2>2. Translated(answer, i, chunks, tools, schemaAt)
    BY <1>9, HandlesItem
  <2> QED
    BY <2>1, <2>2 DEF ItemDone
<1> QED
  BY <1>5, <1>6, <1>7, <1>8, <1>9

\* An empty frame adds nothing.
LEMMA EmptyKeeps ==
    ASSUME NEW a \in Answer, WellFormed(a), NEW i \in 1 .. Len(a.items), NEW cs \in Seq(ChunkType), NEW ts, NEW at,
           Translated(a, i - 1, cs, ts, at), a.items[i].type = "empty"
    PROVE  Translated(a, i, cs, ts, at)
<1>1. i \notin Starts(a, "tool") \cup Starts(a, "schema") \cup Parts(a, "tool") \cup TextOf(a)
  BY ItemIsOne
<1> QED
  BY <1>1, HandlesItem

\* OpenAiStreamState handles an item.
LEMMA OpenAiItem ==
    ASSUME answer \in Answer, WellFormed(answer), chunks \in Seq(ChunkType),
           NEW i \in 1 .. Len(answer.items), Translated(answer, i - 1, chunks, tools, schemaAt),
           answer.proto = "openai", HandleOpenAi(answer.items[i]),
           answer.items[i].type = "empty" => answer.usage # "every"
    PROVE  ItemDone(i)
<1> DEFINE e == answer.items[i]
<1>1. /\ e.type \in {"start", "part", "empty"} /\ e.kind \in {"text", "tool", "schema", "thinking"}
      /\ i \in Starts(answer, "tool") <=> e.type = "start" /\ e.kind = "tool"
      /\ i \in Parts(answer, "tool") <=> e.type = "part" /\ e.kind = "tool"
      /\ i \in Parts(answer, "text") <=> e.type = "part" /\ e.kind = "text"
      /\ i \in TextOf(answer) <=> e.type = "part" /\ e.kind \in {"text", "schema"}
  BY ItemIsOne
<1>2. e.data \in Payload /\ 0 \in Nat
  BY ItemTypes
<1>3. CallsOpen(answer, i - 1, tools)
  BY DEF Translated
<1>4. Len(tools) \in Nat
  BY HandlesItem
<1>5. e.type # "empty" => i \in Parts(answer, "text") \cup Parts(answer, "tool") \cup Starts(answer, "tool")
  BY DEF WellFormed
<1>6. CASE i \in Starts(answer, "tool")
  <2> DEFINE c == Chunk("tool_call_start", Len(tools), e.data, "none")
  <2>1. CallIndex(e) = Len(tools)
    <3>1. CallNo(e.block) = Rank(answer, i)
      BY <1>6, CallNoIs
    <3>2. Len(tools) = Rank(answer, i)
      BY <1>3, <1>6, RankIs DEF CallsOpen
    <3> QED
      BY <1>1, <1>6, <3>1, <3>2 DEF CallIndex
  <2>2. Emit(c) /\ tools' = Append(tools, e.block) /\ UNCHANGED <<schemaAt, stop, measured>>
    BY <1>1, <1>6, <2>1 DEF HandleOpenAi
  <2>3. Translated(answer, i, Append(chunks, c), Append(tools, e.block), schemaAt) /\ c \in ChunkType
    BY <1>6, HandlesItem
  <2>4. c.type = "tool_call_start"
    BY DEF Chunk
  <2> HIDE DEF c
  <2>5. chunks' \in Seq(ChunkType) /\ OfType(chunks', "finish") = OfType(chunks, "finish")
    BY <2>2, <2>3, <2>4, EmitIs
  <2> QED
    BY <2>2, <2>3, <2>5 DEF ItemDone, Emit
<1>7. CASE i \in Parts(answer, "text")
  <2> DEFINE c == Chunk("text_delta", 0, e.data, "none")
  <2>1. Emit(c) /\ UNCHANGED <<tools, schemaAt, stop, measured>>
    BY <1>1, <1>7 DEF HandleOpenAi
  <2>2. i \in TextOf(answer)
    BY <1>1, <1>7
  <2>3. Translated(answer, i, Append(chunks, c), tools, schemaAt) /\ c \in ChunkType
    BY <2>2, HandlesItem
  <2>4. c.type = "text_delta"
    BY DEF Chunk
  <2> HIDE DEF c
  <2>5. chunks' \in Seq(ChunkType) /\ OfType(chunks', "finish") = OfType(chunks, "finish")
    BY <2>1, <2>3, <2>4, EmitIs
  <2> QED
    BY <2>1, <2>3, <2>5 DEF ItemDone, Emit
<1>8. CASE i \in Parts(answer, "tool")
  <2>1. \E s \in Starts(answer, "tool") :
            IF answer.indexed THEN answer.items[s].block = e.block ELSE Continues(answer, s, i)
    BY <1>8 DEF WellFormed
  <2>2. PICK s \in Starts(answer, "tool") :
            IF answer.indexed THEN answer.items[s].block = e.block ELSE Continues(answer, s, i)
    BY <2>1
  <2> DEFINE c == Chunk("tool_call_delta", Rank(answer, s), e.data, "none")
  <2>3. answer.items[s].block = e.block
    BY <2>2 DEF Continues
  <2>4. CallIndex(e) = Rank(answer, s)
    <3>1. CASE answer.indexed
      <4>1. CallNo(e.block) = Rank(answer, s)
        BY <2>3, CallNoIs
      <4> QED
        BY <3>1, <4>1 DEF CallIndex
    <3>2. CASE ~ answer.indexed
      <4>1. Continues(answer, s, i)
        BY <2>2, <3>2
      <4>2. Len(tools) - 1 = Rank(answer, s)
        BY <1>3, <1>8, <4>1, LastCall
      <4> QED
        BY <1>1, <1>8, <3>2, <4>2 DEF CallIndex
    <3> QED
      BY <3>1, <3>2
  <2>5. Emit(c) /\ UNCHANGED <<tools, schemaAt, stop, measured>>
    BY <1>1, <1>8, <2>4 DEF HandleOpenAi
  <2>6. Translated(answer, i, Append(chunks, c), tools, schemaAt) /\ c \in ChunkType
    BY <1>8, <2>3, HandlesItem
  <2>7. c.type = "tool_call_delta"
    BY DEF Chunk
  <2> HIDE DEF c
  <2>8. chunks' \in Seq(ChunkType) /\ OfType(chunks', "finish") = OfType(chunks, "finish")
    BY <2>5, <2>6, <2>7, EmitIs
  <2> QED
    BY <2>5, <2>6, <2>8 DEF ItemDone, Emit
<1>9. CASE e.type = "empty"
  <2>1. UNCHANGED <<chunks, tools, schemaAt, stop, measured>>
    BY <1>9 DEF HandleOpenAi, Silent
  <2>2. Translated(answer, i, chunks, tools, schemaAt)
    BY <1>9, EmptyKeeps
  <2> QED
    BY <2>1, <2>2 DEF ItemDone
<1> QED
  BY <1>5, <1>6, <1>7, <1>8, <1>9

-----------------------------------------------------------------------------
(* The whole stream.                                                       *)

\* What follows what among the events of an answer.
LEMMA EventsAre ==
    ASSUME NEW a \in Answer
    PROVE  LET n == Len(a.items) IN
           /\ n \in Nat
           /\ /\ Len(AnthropicEvents(a)) = n + 3
              /\ AnthropicEvents(a)[1] = Event("message_start", "")
              /\ \A i \in 1 .. n : AnthropicEvents(a)[i + 1] = a.items[i]
              /\ AnthropicEvents(a)[n + 2] = Event("message_delta", a.stop)
              /\ AnthropicEvents(a)[n + 3] = Event("message_stop", "")
           /\ \A i \in 1 .. n : OpenAiEvents(a)[i] = a.items[i]
           /\ a.usage # "every" =>
              /\ Len(OpenAiEvents(a)) = IF a.usage = "trailing" THEN n + 2 ELSE n + 1
              /\ OpenAiEvents(a)[n + 1] =
                    Event(IF a.usage = "withFinish" THEN "finishWithUsage" ELSE "finish", a.stop)
              /\ a.usage = "trailing" => OpenAiEvents(a)[n + 2] = Event("usage", "")
           /\ a.usage = "every" =>
              /\ Len(OpenAiEvents(a)) = n + 2
              /\ OpenAiEvents(a)[n + 1] = Event("finishWithUsage", a.stop)
              /\ OpenAiEvents(a)[n + 2] = Event("usage", "")
<1> DEFINE s == a.items
           n == Len(s)
           first == Event("message_start", "")
           delta == Event("message_delta", a.stop)
           last == Event("message_stop", "")
           measure == Event("finishWithUsage", a.stop)
           finish == Event("finish", a.stop)
           usage == Event("usage", "")
           F == {first, delta, last, measure, finish, usage} \cup Item
<1>1. s \in Seq(F) /\ n \in Nat
  <2>1. s \in Seq(Item)
    BY DEF Answer
  <2> HIDE DEF F, first, delta, last, measure, finish, usage
  <2>2. \A i \in 1 .. n : s[i] \in Item
    BY <2>1
  <2>3. Item \subseteq F
    BY DEF F
  <2> HIDE DEF s
  <2> QED
    BY <2>1, <2>2, <2>3
<1>2. first \in F /\ delta \in F /\ last \in F /\ measure \in F /\ finish \in F /\ usage \in F
  OBVIOUS
<1> HIDE DEF s, F, first, delta, last, measure, finish, usage
<1>3. /\ Len(<<first>> \o s \o <<delta, last>>) = n + 3
      /\ (<<first>> \o s \o <<delta, last>>)[1] = first
      /\ \A i \in 1 .. n : (<<first>> \o s \o <<delta, last>>)[i + 1] = s[i]
      /\ (<<first>> \o s \o <<delta, last>>)[n + 2] = delta
      /\ (<<first>> \o s \o <<delta, last>>)[n + 3] = last
  BY <1>1, <1>2
<1>4. \A x \in F : /\ Len(s \o <<x>>) = n + 1
                   /\ \A i \in 1 .. n : (s \o <<x>>)[i] = s[i]
                   /\ (s \o <<x>>)[n + 1] = x
  BY <1>1
<1>5. /\ Len(s \o <<finish, usage>>) = n + 2
      /\ \A i \in 1 .. n : (s \o <<finish, usage>>)[i] = s[i]
      /\ (s \o <<finish, usage>>)[n + 1] = finish
      /\ (s \o <<finish, usage>>)[n + 2] = usage
  BY <1>1, <1>2
<1>13. /\ Len(s \o <<measure, usage>>) = n + 2
       /\ \A i \in 1 .. n : (s \o <<measure, usage>>)[i] = s[i]
       /\ (s \o <<measure, usage>>)[n + 1] = measure
       /\ (s \o <<measure, usage>>)[n + 2] = usage
  BY <1>1, <1>2
<1>6. AnthropicEvents(a) = <<first>> \o s \o <<delta, last>>
  BY DEF AnthropicEvents, s, first, delta, last
<1>7. a.usage = "withFinish" => OpenAiEvents(a) = s \o <<measure>>
  BY DEF OpenAiEvents, s, measure
<1>8. a.usage = "trailing" => OpenAiEvents(a) = s \o <<finish, usage>>
  BY DEF OpenAiEvents, s, finish, usage
<1>9. a.usage = "none" => OpenAiEvents(a) = s \o <<finish>>
  BY DEF OpenAiEvents, s, finish
<1>14. a.usage = "every" => OpenAiEvents(a) = s \o <<measure, usage>>
  BY DEF OpenAiEvents, s, measure, usage
<1>15. a.usage = "every" =>
            /\ Len(OpenAiEvents(a)) = n + 2
            /\ \A i \in 1 .. n : OpenAiEvents(a)[i] = s[i]
            /\ OpenAiEvents(a)[n + 1] = measure
            /\ OpenAiEvents(a)[n + 2] = usage
  BY <1>13, <1>14
<1>10. a.usage \in {"none", "trailing", "withFinish", "every"}
  BY DEF Answer
<1>11. ASSUME a.usage # "every"
       PROVE
       /\ Len(OpenAiEvents(a)) = IF a.usage = "trailing" THEN n + 2 ELSE n + 1
       /\ \A i \in 1 .. n : OpenAiEvents(a)[i] = s[i]
       /\ OpenAiEvents(a)[n + 1] = IF a.usage = "withFinish" THEN measure ELSE finish
       /\ a.usage = "trailing" => OpenAiEvents(a)[n + 2] = usage
  <2>1. CASE a.usage = "withFinish"
    <3>1. OpenAiEvents(a) = s \o <<measure>>
      BY <1>7, <2>1
    <3>2. /\ Len(s \o <<measure>>) = n + 1
          /\ \A i \in 1 .. n : (s \o <<measure>>)[i] = s[i]
          /\ (s \o <<measure>>)[n + 1] = measure
      BY <1>2, <1>4
    <3> QED
      BY <2>1, <3>1, <3>2
  <2>2. CASE a.usage = "trailing"
    BY <1>5, <1>8, <2>2
  <2>3. CASE a.usage = "none"
    <3>1. OpenAiEvents(a) = s \o <<finish>>
      BY <1>9, <2>3
    <3>2. /\ Len(s \o <<finish>>) = n + 1
          /\ \A i \in 1 .. n : (s \o <<finish>>)[i] = s[i]
          /\ (s \o <<finish>>)[n + 1] = finish
      BY <1>2, <1>4
    <3> QED
      BY <2>3, <3>1, <3>2
  <2> QED
    BY <1>10, <1>11, <2>1, <2>2, <2>3
<1>12. Event(IF a.usage = "withFinish" THEN "finishWithUsage" ELSE "finish", a.stop)
            = IF a.usage = "withFinish" THEN measure ELSE finish
  BY DEF measure, finish
<1> QED
  BY <1>1, <1>3, <1>6, <1>11, <1>12, <1>15 DEF s, first, delta, last, measure, usage

\* The items among the events that were sent.
Handled ==
    LET n == Len(answer.items)
        k == IF answer.proto = "anthropic" THEN sent - 1 ELSE sent
    IN  IF k < 0 THEN 0 ELSE IF k > n THEN n ELSE k

\* The finish of the response.
FinishOf(a) ==
    IF a.proto # "anthropic" THEN NormalizeFinishReason(a.stop)
    ELSE IF Starts(a, "schema") # {} /\ NormalizeStopReason(a.stop) = "tool_calls" /\ Starts(a, "tool") = {} THEN "stop"
    ELSE NormalizeStopReason(a.stop)

\* The reason to stop is known once its event came; the OpenAI family's state
\* machine keeps it only when the usage is still to come.
ReasonKept ==
    LET n == Len(answer.items)
    IN  /\ answer.proto = "anthropic" =>
                stop = IF sent <= n + 1 THEN "stop" ELSE NormalizeStopReason(answer.stop)
        /\ answer.proto # "anthropic" =>
                /\ stop = IF sent <= n \/ answer.usage = "withFinish" THEN "stop"
                          ELSE NormalizeFinishReason(answer.stop)
                /\ measured <=> answer.usage # "none" /\ sent = Len(Events)

\* A finish was yielded when it was measured, or at the end.
Closed == IF answer.proto = "anthropic" THEN sent = Len(Events) ELSE measured \/ stream = "ended"
FinishedOnce ==
    /\ OfType(chunks, "finish") = IF Closed THEN {Len(chunks)} ELSE {}
    /\ Closed => chunks[Len(chunks)].usage # "none"
    /\ Closed /\ sent = Len(Events) => chunks[Len(chunks)].data = FinishOf(answer)

\* Providers that report their usage once.
OnceIInv ==
    /\ answer \in Answer /\ WellFormed(answer)
    /\ sent \in Nat /\ sent <= Len(Events)
    /\ chunks \in Seq(ChunkType) /\ stop \in Reasons /\ measured \in BOOLEAN /\ stream \in {"open", "ended", "failed"}
    /\ Translated(answer, Handled, chunks, tools, schemaAt)
    /\ ReasonKept /\ FinishedOnce

\* Those that report it on every frame: there is a finish for it.
EachIInv ==
    /\ answer \in Answer /\ WellFormed(answer)
    /\ sent \in Nat /\ sent <= Len(Events)
    /\ chunks \in Seq(ChunkType) /\ stop \in Reasons /\ measured \in BOOLEAN /\ stream \in {"open", "ended", "failed"}
    /\ Translated(answer, Handled, chunks, tools, schemaAt)
    /\ measured \/ stream = "ended" => OfType(chunks, "finish") # {}

TranslateIInv == IF Cumulative THEN EachIInv ELSE OnceIInv

\* The finish reasons a client knows.
LEMMA ReasonsAre ==
    ASSUME NEW raw
    PROVE  NormalizeStopReason(raw) \in Reasons /\ NormalizeFinishReason(raw) \in Reasons
  BY DEF NormalizeStopReason, NormalizeFinishReason, Reasons

\* Nothing is said before anything is sent.
LEMMA InitTranslate == TranslateInit => TranslateIInv
<1> SUFFICES ASSUME TranslateInit PROVE TranslateIInv
  OBVIOUS
<1> USE DEF TranslateInit
<1>1. answer \in Answer /\ WellFormed(answer)
  BY StreamTranslateAssumption
<1>2. /\ Len(answer.items) \in Nat
      /\ Len(AnthropicEvents(answer)) = Len(answer.items) + 3
      /\ Len(OpenAiEvents(answer)) \in {Len(answer.items) + 1, Len(answer.items) + 2}
      /\ ~ Cumulative => Len(Events) > Len(answer.items)
  <2>1. /\ Len(answer.items) \in Nat
        /\ Len(AnthropicEvents(answer)) = Len(answer.items) + 3
        /\ Len(OpenAiEvents(answer)) \in {Len(answer.items) + 1, Len(answer.items) + 2}
    BY <1>1, EventsAre
  <2> QED
    BY <2>1 DEF Events
<1>3. Len(Events) \in Nat /\ Len(Events) # 0 /\ Handled = 0
  BY <1>2 DEF Events, Handled
<1>4. /\ 1 .. 0 = {} /\ Cardinality({}) = 0 /\ OfType(chunks, "finish") = {}
      /\ OfType(chunks, "tool_call_start") = {}
      /\ \A type, index : {n \in OfType(chunks, type) : chunks[n].index = index} = {}
  BY FS_EmptySet DEF OfType
<1>5. \A K : K \cap (1 .. 0) = {}
  BY <1>4
<1>6. \A s, t : Data(s, {}) = Data(t, {})
  BY <1>4 DEF Data
<1>7. Translated(answer, 0, chunks, tools, schemaAt)
  <2>1. CallsOpen(answer, 0, tools)
    BY <1>4, <1>5 DEF CallsOpen
  <2>2. CallsSaid(answer, 0, chunks)
    BY <1>4, <1>5, <1>6 DEF CallsSaid, Out
  <2>3. ArgumentsSaid(answer, 0, chunks) /\ TextSaid(answer, 0, chunks)
    BY <1>4, <1>5, <1>6 DEF ArgumentsSaid, TextSaid, Out
  <2>4. SchemaIs(answer, 0, schemaAt)
    BY <1>5 DEF SchemaIs
  <2> QED
    BY <2>1, <2>2, <2>3, <2>4 DEF Translated
<1>8. ReasonKept /\ ~ Closed
  <2>1. sent # Len(Events) /\ sent <= Len(answer.items) /\ sent <= Len(answer.items) + 1
    BY <1>2, <1>3
  <2>2. measured = FALSE /\ stream = "open" /\ stop = "stop"
    OBVIOUS
  <2> QED
    BY <2>1, <2>2 DEF ReasonKept, Closed
<1>9. stop \in Reasons /\ measured \in BOOLEAN /\ stream \in {"open", "ended", "failed"} /\ chunks \in Seq(ChunkType)
  <2>1. chunks \in Seq(ChunkType)
    OBVIOUS
  <2>2. stop \in Reasons
    BY DEF Reasons
  <2>3. measured \in BOOLEAN /\ stream \in {"open", "ended", "failed"}
    OBVIOUS
  <2> QED
    BY <2>1, <2>2, <2>3
<1>10. sent \in Nat /\ sent <= Len(Events)
  BY <1>3
<1> QED
  BY <1>1, <1>3, <1>4, <1>7, <1>8, <1>9, <1>10 DEF TranslateIInv, OnceIInv, EachIInv, FinishedOnce

\* A finish changes nothing that was said.
LEMMA FinishGrows ==
    ASSUME NEW a \in Answer, NEW h \in Nat, NEW cs \in Seq(ChunkType), NEW ts, NEW at, Translated(a, h, cs, ts, at),
           NEW data \in Reasons, NEW usage \in {"measured", "estimated"}
    PROVE  LET c == Chunk("finish", 0, data, usage)
               ds == Append(cs, c)
           IN  /\ ds \in Seq(ChunkType) /\ Translated(a, h, ds, ts, at)
               /\ OfType(ds, "finish") = OfType(cs, "finish") \cup {Len(ds)}
               /\ ds[Len(ds)].data = data /\ ds[Len(ds)].usage # "none"
<1> DEFINE c == Chunk("finish", 0, data, usage)
           ds == Append(cs, c)
<1>1. c \in ChunkType /\ c.type = "finish" /\ c.data = data /\ c.usage # "none"
  BY DEF Chunk, ChunkType
<1> HIDE DEF c
<1>2. Quiet(cs, ds, "tool_call_start") /\ Quiet(cs, ds, "tool_call_delta") /\ Quiet(cs, ds, "text_delta")
  BY <1>1, QuietIs
<1>3. \A s \in Starts(a, "tool") : Rank(a, s) \in Nat
  BY RankIs
<1>4. CallsSaid(a, h, ds)
  BY <1>2, <1>3 DEF Translated, CallsSaid, Quiet
<1>5. ArgumentsSaid(a, h, ds)
  BY <1>2, <1>3 DEF Translated, ArgumentsSaid, Quiet
<1>6. TextSaid(a, h, ds)
  BY <1>2 DEF Translated, TextSaid, Quiet
<1>7. Translated(a, h, ds, ts, at)
  BY <1>4, <1>5, <1>6 DEF Translated
<1>8. ds \in Seq(ChunkType) /\ Len(ds) = Len(cs) + 1 /\ ds[Len(ds)] = c /\ OfType(ds, "finish") = OfType(cs, "finish") \cup {Len(cs) + 1}
  BY <1>1, ChunkGrows
<1> QED
  BY <1>1, <1>7, <1>8 DEF c

\* At the end the state machine knows what the answer was.
LEMMA AllHandled ==
    ASSUME NEW a \in Answer, NEW cs, NEW ts, NEW at, Translated(a, Len(a.items), cs, ts, at)
    PROVE  /\ at # 0 <=> Starts(a, "schema") # {}
           /\ ts = <<>> <=> Starts(a, "tool") = {}
<1> DEFINE n == Len(a.items)
<1>1. /\ n \in Nat /\ Starts(a, "tool") \subseteq 1 .. n /\ Starts(a, "schema") \subseteq 1 .. n
      /\ \A i \in 1 .. n : a.items[i].block # 0
  BY ItemTypes
<1>2. Starts(a, "tool") \cap (1 .. n) = Starts(a, "tool") /\ Starts(a, "schema") \cap (1 .. n) = Starts(a, "schema")
  BY <1>1
<1>3. at # 0 <=> Starts(a, "schema") # {}
  BY <1>1, <1>2 DEF Translated, SchemaIs
<1>4. ts \in Seq(Nat \ {0}) /\ Len(ts) = Cardinality(Starts(a, "tool"))
  BY <1>2 DEF Translated, CallsOpen
<1>5. Cardinality(Starts(a, "tool")) = 0 <=> Starts(a, "tool") = {}
  BY <1>1, PlacesFinite, FS_EmptySet
<1>6. ts = <<>> <=> Len(ts) = 0
  BY <1>4
<1> QED
  BY <1>3, <1>4, <1>5, <1>6

\* A step that hands a further item to the state machine.
LEMMA ItemStep ==
    ASSUME OnceIInv, ~ Cumulative, stream = "open", answer' = answer, stream' = stream, sent' = sent + 1, sent < Len(Events),
           NEW i \in 1 .. Len(answer.items), Handled = i - 1, Handled' = i, ItemDone(i),
           answer.proto = "anthropic" => i = sent,
           answer.proto # "anthropic" => i = sent + 1
    PROVE  OnceIInv'
<1> DEFINE n == Len(answer.items)
<1>1. /\ n \in Nat /\ sent \in Nat /\ i \in Int /\ 1 <= i /\ i <= n
      /\ answer.proto = "anthropic" => Len(Events) = n + 3
      /\ answer.proto # "anthropic" => Len(Events) = IF answer.usage = "trailing" THEN n + 2 ELSE n + 1
  <2>1. answer \in Answer /\ sent \in Nat
    BY DEF OnceIInv
  <2>2. /\ n \in Nat
        /\ Len(AnthropicEvents(answer)) = n + 3
        /\ answer.usage # "every" =>
                Len(OpenAiEvents(answer)) = IF answer.usage = "trailing" THEN n + 2 ELSE n + 1
    BY <2>1, EventsAre
  <2>3. answer.proto # "anthropic" => answer.usage # "every"
    BY <2>1 DEF Cumulative, Answer
  <2>4. /\ answer.proto = "anthropic" => Events = AnthropicEvents(answer)
        /\ answer.proto # "anthropic" => Events = OpenAiEvents(answer)
    BY DEF Events
  <2>5. i \in Int /\ 1 <= i /\ i <= n
    BY <2>2
  <2> QED
    BY <2>1, <2>2, <2>3, <2>4, <2>5
<1>2. Events' = Events
  BY DEF Events
<1>3. sent' \in Nat /\ sent' <= Len(Events) /\ sent' # Len(Events)
  BY <1>1
<1>4. answer.proto = "anthropic" => sent <= n + 1 /\ sent' <= n + 1
  BY <1>1
<1>5. answer.proto # "anthropic" => sent <= n /\ sent' <= n
  BY <1>1
<1>6. stop' = stop /\ measured' = measured
  BY DEF ItemDone
<1>7. sent # Len(Events)
  BY <1>1
<1>8. ReasonKept'
  BY <1>2, <1>3, <1>4, <1>5, <1>6, <1>7 DEF OnceIInv, ReasonKept
<1>9. ~ Closed /\ ~ Closed'
  BY <1>2, <1>3, <1>6, <1>7 DEF OnceIInv, ReasonKept, Closed
<1>10. FinishedOnce'
  BY <1>9 DEF FinishedOnce, OnceIInv, ItemDone
<1>11. Translated(answer, Handled, chunks, tools, schemaAt)'
  BY DEF ItemDone
<1> QED
  BY <1>2, <1>3, <1>6, <1>8, <1>10, <1>11 DEF OnceIInv, ItemDone

\* An event of Anthropic.
LEMMA AnthropicStep ==
    ASSUME OnceIInv, ~ Cumulative, NextFrame, answer.proto = "anthropic"
    PROVE  OnceIInv'
<1> DEFINE n == Len(answer.items)
           e == Events[sent + 1]
<1>14. answer \in Answer /\ sent \in Nat /\ Events = AnthropicEvents(answer)
  BY DEF OnceIInv, Events
<1>15. /\ n \in Nat /\ Len(Events) = n + 3
       /\ Events[1] = Event("message_start", "")
       /\ \A i \in 1 .. n : Events[i + 1] = answer.items[i]
       /\ Events[n + 2] = Event("message_delta", answer.stop)
       /\ Events[n + 3] = Event("message_stop", "")
  BY <1>14, EventsAre
<1>17. Events[1] = Event("message_start", "") /\ Events[n + 2] = Event("message_delta", answer.stop)
       /\ Events[n + 3] = Event("message_stop", "")
  BY <1>15
<1>16. n \in Nat /\ sent \in Nat /\ Len(Events) = n + 3
  BY <1>14, <1>15
<1>13. HandleAnthropic(e)
  BY DEF NextFrame, Handle
<1>2. /\ stream = "open" /\ sent < Len(Events) /\ sent' = sent + 1
      /\ answer' = answer /\ stream' = stream /\ Events' = Events
  BY DEF NextFrame, Events
<1>18. (n + 1) + 1 = n + 2 /\ (n + 2) + 1 = n + 3
  BY <1>16
<1>1. sent < n + 3
  BY <1>2, <1>16
<1>3. /\ Handled = IF sent - 1 < 0 THEN 0 ELSE IF sent - 1 > n THEN n ELSE sent - 1
      /\ Handled' = IF sent < 0 THEN 0 ELSE IF sent > n THEN n ELSE sent
  <2>1. sent' - 1 = sent
    BY <1>2, <1>16, <1>16
  <2> QED
    BY <1>2, <2>1 DEF Handled
<1>4. sent' \in Nat /\ sent' <= Len(Events)
  BY <1>2, <1>16, <1>16
<1>5. Translated(answer, Handled, chunks, tools, schemaAt) /\ answer \in Answer /\ WellFormed(answer)
  BY DEF OnceIInv
<1>6. \A type, data : Event(type, data).type = type /\ Event(type, data).kind = "none" /\ Event(type, data).data = data
  BY DEF Event
<1>7. ~ Closed /\ OfType(chunks, "finish") = {}
  BY <1>2, <1>16, <1>16 DEF OnceIInv, FinishedOnce, Closed
<1>8. CASE sent = 0
  <2>1. e.type = "message_start" /\ e.kind = "none"
    <3>1. sent + 1 = 1
      BY <1>8, <1>16, <1>18
    <3>2. e = Event("message_start", "")
      BY <1>17, <3>1, Zenon
    <3> HIDE DEF e
    <3> QED
      BY <3>2 DEF Event
  <2>2. measured' = TRUE /\ UNCHANGED <<chunks, tools, schemaAt, stop>>
    BY <1>13, <2>1 DEF HandleAnthropic
  <2>3. Handled = 0 /\ Handled' = 0
    BY <1>3, <1>16, <1>8
  <2>4. ReasonKept' /\ ~ Closed'
    <3>1. sent' = 1 /\ sent <= n + 1 /\ sent' <= n + 1 /\ sent' # n + 3
      BY <1>2, <1>8, <1>16
    <3>2. stop' = stop /\ stop = "stop"
      BY <2>2, <3>1 DEF OnceIInv, ReasonKept
    <3> QED
      BY <1>2, <1>16, <3>1, <3>2 DEF ReasonKept, Closed
  <2>5. FinishedOnce'
    BY <1>7, <2>2, <2>4 DEF FinishedOnce
  <2> QED
    BY <1>2, <1>4, <1>5, <2>2, <2>3, <2>4, <2>5 DEF OnceIInv
<1>9. CASE sent \in 1 .. n
  <2>1. e = answer.items[sent]
    BY <1>9, <1>15
  <2>2. Handled = sent - 1 /\ Handled' = sent
    BY <1>3, <1>16, <1>9
  <2>3. ItemDone(sent)
    BY <1>2, <1>5, <1>9, <1>13, <2>1, <2>2, AnthropicItem DEF OnceIInv
  <2> QED
    BY <1>2, <1>9, <2>2, <2>3, ItemStep
<1>10. CASE sent = n + 1
  <2>1. e.type = "message_delta" /\ e.kind = "none" /\ e.data = answer.stop
    <3>1. sent + 1 = n + 2
      BY <1>10, <1>16, <1>18
    <3>2. e = Event("message_delta", answer.stop)
      BY <1>17, <3>1, Zenon
    <3> HIDE DEF e
    <3> QED
      BY <3>2 DEF Event
  <2>2. stop' = NormalizeStopReason(answer.stop) /\ UNCHANGED <<chunks, tools, schemaAt, measured>>
    BY <1>13, <2>1 DEF HandleAnthropic
  <2>3. Handled = n /\ Handled' = n
    BY <1>3, <1>16, <1>10
  <2>4. ReasonKept' /\ ~ Closed'
    <3>1. sent' # n + 3 /\ ~ (sent' <= n + 1)
      BY <1>2, <1>10, <1>16
    <3> QED
      BY <1>2, <1>16, <2>2, <3>1 DEF ReasonKept, Closed
  <2>5. FinishedOnce'
    BY <1>7, <2>2, <2>4 DEF FinishedOnce
  <2> QED
    BY <1>2, <1>4, <1>5, <2>2, <2>3, <2>4, <2>5, ReasonsAre DEF OnceIInv
<1>11. CASE sent = n + 2
  <2>1. e.type = "message_stop" /\ e.kind = "none"
    <3>1. sent + 1 = n + 3
      BY <1>11, <1>16, <1>18
    <3>2. e = Event("message_stop", "")
      BY <1>17, <3>1, Zenon
    <3> HIDE DEF e
    <3> QED
      BY <3>2 DEF Event
  <2> DEFINE reason == IF schemaAt # 0 /\ stop = "tool_calls" /\ tools = <<>> THEN "stop" ELSE stop
             c == Chunk("finish", 0, reason, "measured")
  <2>2. Emit(c) /\ UNCHANGED <<tools, schemaAt, stop, measured>>
    BY <1>13, <2>1 DEF HandleAnthropic
  <2>3. Handled = n /\ Handled' = n
    BY <1>3, <1>16, <1>11
  <2>4. stop = NormalizeStopReason(answer.stop)
    BY <1>11, <1>16 DEF OnceIInv, ReasonKept
  <2>5. reason = FinishOf(answer)
    <3>1. /\ schemaAt # 0 <=> Starts(answer, "schema") # {}
          /\ tools = <<>> <=> Starts(answer, "tool") = {}
      BY <1>5, <2>3, AllHandled
    <3> QED
      BY <2>4, <3>1 DEF FinishOf
  <2>6. reason \in Reasons
    BY DEF OnceIInv, Reasons
  <2> HIDE DEF reason
  <2>7. /\ Append(chunks, c) \in Seq(ChunkType)
        /\ Translated(answer, n, Append(chunks, c), tools, schemaAt)
        /\ OfType(Append(chunks, c), "finish") = {Len(Append(chunks, c))}
        /\ Append(chunks, c)[Len(Append(chunks, c))].data = reason
        /\ Append(chunks, c)[Len(Append(chunks, c))].usage # "none"
    BY <1>5, <1>7, <1>16, <2>3, <2>6, FinishGrows DEF OnceIInv
  <2>8. chunks' = Append(chunks, c)
    BY <2>2 DEF Emit
  <2> HIDE DEF c
  <2>9. ReasonKept' /\ Closed'
    <3>1. sent' = n + 3 /\ ~ (sent' <= n + 1)
      BY <1>2, <1>11, <1>16
    <3> QED
      BY <1>2, <1>16, <2>2, <2>4, <3>1 DEF ReasonKept, Closed
  <2>10. FinishedOnce'
    BY <1>2, <2>5, <2>7, <2>8, <2>9 DEF FinishedOnce
  <2> QED
    BY <1>2, <1>4, <1>5, <2>2, <2>3, <2>7, <2>8, <2>9, <2>10 DEF OnceIInv
<1>12. sent = 0 \/ sent \in 1 .. n \/ sent = n + 1 \/ sent = n + 2
  BY <1>2, <1>16, <1>16
<1> QED
  BY <1>8, <1>9, <1>10, <1>11, <1>12

\* An event of the OpenAI family.
LEMMA OpenAiStep ==
    ASSUME OnceIInv, ~ Cumulative, NextFrame, answer.proto # "anthropic"
    PROVE  OnceIInv'
<1> DEFINE n == Len(answer.items)
           e == Events[sent + 1]
<1>1. /\ answer \in Answer /\ WellFormed(answer) /\ sent \in Nat /\ Events = OpenAiEvents(answer)
      /\ answer.proto = "openai" /\ answer.usage # "every"
      /\ Translated(answer, Handled, chunks, tools, schemaAt) /\ ReasonKept /\ chunks \in Seq(ChunkType)
  BY DEF OnceIInv, Events, Answer, Cumulative
<1>2. /\ n \in Nat /\ Len(Events) = IF answer.usage = "trailing" THEN n + 2 ELSE n + 1
      /\ \A i \in 1 .. n : Events[i] = answer.items[i]
      /\ Events[n + 1] = Event(IF answer.usage = "withFinish" THEN "finishWithUsage" ELSE "finish", answer.stop)
      /\ answer.usage = "trailing" => Events[n + 2] = Event("usage", "")
  BY <1>1, EventsAre
<1>3. HandleOpenAi(e)
  BY DEF NextFrame, Handle
<1>4. /\ stream = "open" /\ sent < Len(Events) /\ sent' = sent + 1
      /\ answer' = answer /\ stream' = stream /\ Events' = Events
  BY DEF NextFrame, Events
<1>5. n \in Nat /\ sent \in Nat /\ (n + 1) + 1 = n + 2
  <2>1. n \in Nat
    BY <1>1, ItemTypes
  <2> HIDE DEF n
  <2> QED
    BY <1>1, <2>1
<1>6. Len(Events) = (IF answer.usage = "trailing" THEN n + 2 ELSE n + 1) /\ Len(Events) \in Nat
  <2>1. Len(Events) = IF answer.usage = "trailing" THEN n + 2 ELSE n + 1
    BY <1>1, EventsAre
  <2> QED
    BY <2>1, <1>5
<1>7. sent <= n \/ (sent = n + 1 /\ answer.usage = "trailing")
  BY <1>4, <1>5, <1>6
<1>8. /\ Handled = IF sent > n THEN n ELSE sent
      /\ Handled' = IF sent' > n THEN n ELSE sent'
  <2>1. answer.proto # "anthropic" /\ ~ (sent < 0) /\ ~ (sent' < 0)
    BY <1>4, <1>5
  <2> QED
    BY <1>4, <2>1 DEF Handled
<1>9. sent' \in Nat /\ sent' <= Len(Events)
  BY <1>4, <1>5, <1>6
<1>10. ~ measured /\ ~ Closed /\ OfType(chunks, "finish") = {}
  <2>1. measured <=> answer.usage # "none" /\ sent = Len(Events)
    BY <1>1 DEF ReasonKept
  <2>2. sent # Len(Events) /\ stream # "ended"
    BY <1>4, <1>5, <1>6
  <2>3. ~ Closed
    BY <1>1, <2>1, <2>2 DEF Closed
  <2> QED
    BY <2>1, <2>2, <2>3 DEF OnceIInv, FinishedOnce
<1>11. CASE sent < n
  <2> DEFINE i == sent + 1
  <2>1. i \in 1 .. n /\ sent = i - 1
    BY <1>5, <1>11
  <2>2. Handled = i - 1 /\ Handled' = i
    BY <1>4, <1>5, <1>8, <1>11
  <2>3. e = answer.items[i]
    BY <1>2, <2>1
  <2> HIDE DEF e, i
  <2>4. ItemDone(i)
    BY <1>1, <1>3, <2>1, <2>2, <2>3, OpenAiItem
  <2> QED
    BY <1>4, <2>1, <2>2, <2>4, ItemStep DEF i
<1>12. CASE sent = n
  <2>1. Handled = n /\ Handled' = n
    BY <1>4, <1>5, <1>8, <1>12
  <2>2. sent + 1 = n + 1 /\ sent' > n /\ ~ (sent' <= n) /\ sent <= n
    BY <1>4, <1>5, <1>12
  <2>3. stop = "stop"
    BY <1>1, <2>2 DEF ReasonKept
  <2>4. CASE answer.usage = "withFinish"
    <3> DEFINE reason == NormalizeFinishReason(answer.stop)
               c == Chunk("finish", 0, reason, "measured")
    <3>1. e = Event("finishWithUsage", answer.stop)
      BY <1>2, <2>2, <2>4
    <3>2. e.type = "finishWithUsage" /\ e.data = answer.stop
      <4> HIDE DEF e
      <4> QED
        BY <3>1 DEF Event
    <3>3. Emit(c) /\ measured' = TRUE /\ UNCHANGED <<tools, schemaAt, stop>>
      <4> HIDE DEF e
      <4> QED
        BY <1>3, <3>2 DEF HandleOpenAi, FinishWithUsage
    <3>4. reason \in Reasons /\ reason = FinishOf(answer)
      BY <1>1, ReasonsAre DEF FinishOf
    <3> HIDE DEF reason
    <3>5. /\ Append(chunks, c) \in Seq(ChunkType)
          /\ Translated(answer, n, Append(chunks, c), tools, schemaAt)
          /\ OfType(Append(chunks, c), "finish") = {Len(Append(chunks, c))}
          /\ Append(chunks, c)[Len(Append(chunks, c))].data = reason
          /\ Append(chunks, c)[Len(Append(chunks, c))].usage # "none"
      <4>1. Translated(answer, n, chunks, tools, schemaAt) /\ OfType(chunks, "finish") = {} /\ chunks \in Seq(ChunkType)
        BY <1>1, <1>10, <2>1
      <4>2. OfType(Append(chunks, c), "finish") = OfType(chunks, "finish") \cup {Len(Append(chunks, c))}
        BY <1>1, <1>5, <3>4, <4>1, FinishGrows
      <4> QED
        BY <1>1, <1>5, <3>4, <4>1, <4>2, FinishGrows
    <3>6. chunks' = Append(chunks, c)
      BY <3>3 DEF Emit
    <3> HIDE DEF c
    <3>7. sent' = Len(Events)
      BY <1>4, <1>6, <2>2, <2>4
    <3>8. ReasonKept' /\ Closed'
      BY <1>1, <1>4, <2>3, <2>4, <3>3, <3>7 DEF ReasonKept, Closed
    <3>9. FinishedOnce'
      BY <1>4, <3>4, <3>5, <3>6, <3>8 DEF FinishedOnce
    <3> QED
      BY <1>1, <1>4, <1>9, <2>1, <3>3, <3>5, <3>6, <3>8, <3>9 DEF OnceIInv
  <2>5. CASE answer.usage # "withFinish"
    <3>1. e = Event("finish", answer.stop)
      BY <1>2, <2>2, <2>5
    <3>2. e.type = "finish" /\ e.data = answer.stop
      <4> HIDE DEF e
      <4> QED
        BY <3>1 DEF Event
    <3>3. stop' = NormalizeFinishReason(answer.stop) /\ UNCHANGED <<chunks, tools, schemaAt, measured>>
      <4> HIDE DEF e
      <4> QED
        BY <1>3, <3>2 DEF HandleOpenAi
    <3>4. answer.usage = "none" \/ sent' # Len(Events)
      <4>1. answer.usage \in {"none", "trailing", "withFinish"}
        BY <1>1 DEF Answer
      <4>2. answer.usage = "trailing" => sent' # n + 2
        BY <1>4, <1>5, <2>2
      <4> QED
        BY <4>1, <4>2, <1>6, <2>5
    <3>5. ReasonKept' /\ ~ Closed'
      BY <1>1, <1>4, <1>10, <2>2, <2>5, <3>3, <3>4 DEF ReasonKept, Closed
    <3>6. FinishedOnce'
      BY <1>10, <3>3, <3>5 DEF FinishedOnce
    <3> QED
      BY <1>1, <1>4, <1>9, <1>10, <2>1, <3>3, <3>5, <3>6, ReasonsAre DEF OnceIInv
  <2> QED
    BY <2>4, <2>5
<1>13. CASE sent = n + 1 /\ answer.usage = "trailing"
  <2>1. Handled = n /\ Handled' = n
    BY <1>4, <1>5, <1>8, <1>13
  <2>2. sent + 1 = n + 2 /\ ~ (sent <= n) /\ ~ (sent' <= n) /\ sent' = Len(Events)
    BY <1>4, <1>5, <1>6, <1>13
  <2> DEFINE c == Chunk("finish", 0, stop, "measured")
  <2>3. e = Event("usage", "")
    BY <1>2, <1>13, <2>2
  <2>4. e.type = "usage"
    <3> HIDE DEF e
    <3> QED
      BY <2>3 DEF Event
  <2>5. Emit(c) /\ measured' = TRUE /\ UNCHANGED <<tools, schemaAt, stop>>
    <3> HIDE DEF e
    <3> QED
      BY <1>3, <2>4 DEF HandleOpenAi, FinishWithUsage
  <2>6. stop \in Reasons /\ stop = FinishOf(answer)
    BY <1>1, <1>13, <2>2 DEF ReasonKept, FinishOf, OnceIInv
  <2>7. /\ Append(chunks, c) \in Seq(ChunkType)
        /\ Translated(answer, n, Append(chunks, c), tools, schemaAt)
        /\ OfType(Append(chunks, c), "finish") = {Len(Append(chunks, c))}
        /\ Append(chunks, c)[Len(Append(chunks, c))].data = stop
        /\ Append(chunks, c)[Len(Append(chunks, c))].usage # "none"
    <3>1. Translated(answer, n, chunks, tools, schemaAt) /\ OfType(chunks, "finish") = {} /\ chunks \in Seq(ChunkType)
      BY <1>1, <1>10, <2>1
    <3>2. OfType(Append(chunks, c), "finish") = OfType(chunks, "finish") \cup {Len(Append(chunks, c))}
      BY <1>1, <1>5, <2>6, <3>1, FinishGrows
    <3> QED
      BY <1>1, <1>5, <2>6, <3>1, <3>2, FinishGrows
  <2>8. chunks' = Append(chunks, c)
    BY <2>5 DEF Emit
  <2> HIDE DEF c
  <2>9. ReasonKept' /\ Closed'
    BY <1>1, <1>4, <1>13, <2>2, <2>5 DEF ReasonKept, Closed
  <2>10. FinishedOnce'
    BY <1>4, <2>6, <2>7, <2>8, <2>9 DEF FinishedOnce
  <2> QED
    BY <1>1, <1>4, <1>9, <2>1, <2>5, <2>6, <2>7, <2>8, <2>9, <2>10 DEF OnceIInv
<1> QED
  BY <1>5, <1>7, <1>11, <1>12, <1>13

\* Every step keeps the account of a usage that comes once.
LEMMA OnceSteps ==
    ASSUME OnceIInv, ~ Cumulative, [TranslateNext]_translateVars
    PROVE  OnceIInv'
<1>1. CASE NextFrame
  BY <1>1, AnthropicStep, OpenAiStep
<1>2. CASE KeepAlive
  <2> DEFINE e == Event("ping", "")
  <2>1. Handle(e) /\ UNCHANGED <<answer, sent, stream>>
    BY <1>2 DEF KeepAlive
  <2>2. e.type = "ping" /\ e.kind = "none"
    BY DEF Event
  <2> HIDE DEF e
  <2>3. UNCHANGED <<chunks, tools, schemaAt, stop, measured>>
    BY <2>1, <2>2 DEF Handle, HandleAnthropic, HandleOpenAi, Silent
  <2> QED
    BY <2>1, <2>3 DEF OnceIInv, ReasonKept, FinishedOnce, Closed, Events, Handled
<1>3. CASE ResponseEnds
  <2>1. UNCHANGED <<answer, sent, tools, schemaAt, stop, measured>> /\ stream = "open" /\ stream' = "ended"
    BY <1>3 DEF ResponseEnds
  <2>2. Events' = Events /\ Handled' = Handled
    BY <2>1 DEF Events, Handled
  <2>3. ReasonKept'
    BY <2>1, <2>2 DEF OnceIInv, ReasonKept
  <2>4. CASE answer.proto # "anthropic" /\ ~ measured
    <3> DEFINE n == Len(answer.items)
               c == Chunk("finish", 0, stop, "estimated")
    <3>1. /\ answer \in Answer /\ chunks \in Seq(ChunkType) /\ stop \in Reasons /\ sent \in Nat /\ sent <= Len(Events)
          /\ Translated(answer, Handled, chunks, tools, schemaAt) /\ ReasonKept /\ FinishedOnce
      BY DEF OnceIInv
    <3>2. n \in Nat /\ Handled \in Nat
      <4>1. n \in Nat
        BY <3>1, ItemTypes
      <4> QED
        BY <3>1, <4>1, <2>4 DEF Handled
    <3>3. OfType(chunks, "finish") = {}
      BY <2>1, <2>4, <3>1 DEF FinishedOnce, Closed
    <3>4. /\ Append(chunks, c) \in Seq(ChunkType)
          /\ Translated(answer, Handled, Append(chunks, c), tools, schemaAt)
          /\ OfType(Append(chunks, c), "finish") = {Len(Append(chunks, c))}
          /\ Append(chunks, c)[Len(Append(chunks, c))].data = stop
          /\ Append(chunks, c)[Len(Append(chunks, c))].usage # "none"
      BY <3>1, <3>2, <3>3, FinishGrows
    <3>5. chunks' = Append(chunks, c)
      BY <1>3, <2>4 DEF ResponseEnds, Emit
    <3> HIDE DEF c
    <3>6. sent = Len(Events) => stop = FinishOf(answer)
      <4> SUFFICES ASSUME sent = Len(Events) PROVE stop = FinishOf(answer)
        OBVIOUS
      <4>1. Events = OpenAiEvents(answer)
        BY <2>4 DEF Events
      <4>2. Len(Events) = IF answer.usage = "trailing" THEN n + 2 ELSE n + 1
        <5>1. answer.usage # "every"
          BY <2>4, <3>1 DEF Cumulative, Answer
        <5> QED
          BY <3>1, <4>1, <5>1, EventsAre
      <4>3. ~ (sent <= n)
        BY <3>2, <4>2
      <4>4. answer.usage = "none"
        BY <2>4, <3>1 DEF ReasonKept
      <4> QED
        BY <2>4, <3>1, <4>3, <4>4 DEF ReasonKept, FinishOf
    <3>7. Closed'
      BY <2>1, <2>4 DEF Closed
    <3>8. FinishedOnce'
      BY <2>1, <2>2, <3>4, <3>5, <3>6, <3>7 DEF FinishedOnce
    <3> QED
      BY <2>1, <2>2, <2>3, <3>1, <3>4, <3>5, <3>8 DEF OnceIInv
  <2>5. CASE ~ (answer.proto # "anthropic" /\ ~ measured)
    <3>1. chunks' = chunks
      BY <1>3, <2>5 DEF ResponseEnds
    <3>2. Closed' = Closed
      BY <2>1, <2>2, <2>5 DEF Closed
    <3>3. FinishedOnce'
      BY <2>1, <2>2, <3>1, <3>2 DEF OnceIInv, FinishedOnce
    <3> QED
      BY <2>1, <2>2, <2>3, <3>1, <3>3 DEF OnceIInv
  <2> QED
    BY <2>4, <2>5
<1>4. CASE StreamFails
  <2>1. UNCHANGED <<answer, sent, chunks, tools, schemaAt, stop, measured>> /\ stream = "open" /\ stream' = "failed"
    BY <1>4 DEF StreamFails
  <2>2. Events' = Events /\ Handled' = Handled
    BY <2>1 DEF Events, Handled
  <2>3. Closed' = Closed
    BY <2>1, <2>2 DEF Closed
  <2> QED
    BY <2>1, <2>2, <2>3 DEF OnceIInv, ReasonKept, FinishedOnce
<1>5. CASE UNCHANGED translateVars
  BY <1>5 DEF translateVars, OnceIInv, ReasonKept, FinishedOnce, Closed, Events, Handled
<1> QED
  BY <1>1, <1>2, <1>3, <1>4, <1>5 DEF TranslateNext

\* A frame of a provider with its usage on all of them: an item, or a finish.
LEMMA EachFrame ==
    ASSUME EachIInv, Cumulative, NextFrame
    PROVE  EachIInv'
<1> DEFINE n == Len(answer.items)
           e == Events[sent + 1]
<1>1. /\ answer \in Answer /\ WellFormed(answer) /\ sent \in Nat /\ Events = OpenAiEvents(answer)
      /\ answer.proto = "openai" /\ answer.usage = "every"
      /\ Translated(answer, Handled, chunks, tools, schemaAt) /\ chunks \in Seq(ChunkType) /\ stop \in Reasons
  BY DEF EachIInv, Events, Cumulative
<1>2. /\ n \in Nat /\ Len(Events) = n + 2
      /\ \A i \in 1 .. n : Events[i] = answer.items[i]
      /\ Events[n + 1] = Event("finishWithUsage", answer.stop)
      /\ Events[n + 2] = Event("usage", "")
  BY <1>1, EventsAre
<1>3. HandleOpenAi(e)
  BY <1>1 DEF NextFrame, Handle
<1>4. /\ stream = "open" /\ sent < Len(Events) /\ sent' = sent + 1
      /\ answer' = answer /\ stream' = stream /\ Events' = Events
  BY DEF NextFrame, Events
<1>5. n \in Nat /\ sent \in Nat /\ Len(Events) = n + 2
  BY <1>1, <1>2
<1>11. answer.proto # "anthropic" /\ (answer.proto # "anthropic")'
  BY <1>1, <1>4
<1>6. /\ Handled = IF sent > n THEN n ELSE sent
      /\ Handled' = IF sent' > n THEN n ELSE sent'
  <2>1. ~ (sent < 0) /\ ~ (sent' < 0)
    BY <1>4, <1>5
  <2> QED
    BY <1>4, <1>11, <2>1 DEF Handled
<1>7. sent' \in Nat /\ sent' <= Len(Events)
  BY <1>4, <1>5
<1>8. ASSUME FinishWithUsage(e), Translated(answer, Handled', chunks, tools, schemaAt), Handled' \in Nat
      PROVE  EachIInv'
  <2> DEFINE reason == IF e.type = "finishWithUsage" THEN NormalizeFinishReason(e.data) ELSE stop
             c == Chunk("finish", 0, reason, "measured")
  <2>1. Emit(c) /\ measured' = TRUE /\ UNCHANGED <<tools, schemaAt, stop>>
    BY <1>8 DEF FinishWithUsage
  <2>2. reason \in Reasons
    BY <1>1, ReasonsAre
  <2> HIDE DEF reason
  <2>3. /\ Append(chunks, c) \in Seq(ChunkType)
        /\ Translated(answer, Handled', Append(chunks, c), tools, schemaAt)
        /\ OfType(Append(chunks, c), "finish") # {}
    <3> DEFINE h == Handled'
    <3>1. h \in Nat /\ Translated(answer, h, chunks, tools, schemaAt)
      BY <1>8
    <3> HIDE DEF h
    <3>2. /\ Append(chunks, c) \in Seq(ChunkType)
          /\ Translated(answer, h, Append(chunks, c), tools, schemaAt)
          /\ OfType(Append(chunks, c), "finish") = OfType(chunks, "finish") \cup {Len(Append(chunks, c))}
      BY SMTT(30), <1>1, <2>2, <3>1, FinishGrows
    <3> QED
      BY <3>2 DEF h
  <2>4. chunks' = Append(chunks, c)
    BY <2>1 DEF Emit
  <2> HIDE DEF c
  <2> QED
    BY <1>1, <1>4, <1>7, <2>1, <2>3, <2>4 DEF EachIInv
<1>9. CASE sent < n
  <2> DEFINE i == sent + 1
  <2>1. i \in 1 .. n /\ sent = i - 1
    BY <1>5, <1>9
  <2>2. Handled = i - 1 /\ Handled' = i /\ Handled' \in Nat
    BY <1>4, <1>5, <1>6, <1>9
  <2>3. e = answer.items[i]
    BY <1>2, <2>1
  <2> HIDE DEF e, i
  <2>4. CASE e.type = "empty"
    <3>1. FinishWithUsage(e)
      BY <1>1, <1>3, <2>4 DEF HandleOpenAi
    <3>2. Translated(answer, Handled', chunks, tools, schemaAt)
      BY <1>1, <2>1, <2>2, <2>3, <2>4, EmptyKeeps
    <3> QED
      BY <1>8, <2>2, <3>1, <3>2
  <2>5. CASE e.type # "empty"
    <3>1. ItemDone(i)
      BY <1>1, <1>3, <2>1, <2>2, <2>3, <2>5, OpenAiItem
    <3> QED
      BY <1>4, <1>7, <2>2, <3>1 DEF EachIInv, ItemDone
  <2> QED
    BY <2>4, <2>5
<1>10. CASE ~ (sent < n)
  <2>1. Handled = n /\ Handled' = n
    BY <1>4, <1>5, <1>6, <1>10
  <2>2. sent = n \/ sent = n + 1
    BY <1>4, <1>5, <1>10
  <2>3. e.type \in {"finishWithUsage", "usage"}
    <3>1. e = Event("finishWithUsage", answer.stop) \/ e = Event("usage", "")
      <4>1. (n + 1) + 1 = n + 2
        BY <1>5
      <4> QED
        BY <1>2, <2>2, <4>1
    <3>2. \A type, data : Event(type, data).type = type
      BY DEF Event
    <3> HIDE DEF e
    <3> QED
      BY <3>1, <3>2
  <2>4. FinishWithUsage(e)
    <3> HIDE DEF e
    <3> QED
      BY <1>3, <2>3 DEF HandleOpenAi
  <2>5. Translated(answer, Handled', chunks, tools, schemaAt) /\ Handled' \in Nat
    BY <1>1, <1>5, <2>1
  <2> QED
    BY <1>8, <2>4, <2>5
<1> QED
  BY <1>9, <1>10

\* Every step of such a stream.
LEMMA EachSteps ==
    ASSUME EachIInv, Cumulative, [TranslateNext]_translateVars
    PROVE  EachIInv'
<1>1. CASE NextFrame
  BY <1>1, EachFrame
<1>2. CASE KeepAlive
  <2> DEFINE e == Event("ping", "")
  <2>1. Handle(e) /\ UNCHANGED <<answer, sent, stream>>
    BY <1>2 DEF KeepAlive
  <2>2. e.type = "ping" /\ e.kind = "none"
    BY DEF Event
  <2> HIDE DEF e
  <2>3. UNCHANGED <<chunks, tools, schemaAt, stop, measured>>
    BY <2>1, <2>2 DEF Handle, HandleAnthropic, HandleOpenAi, Silent
  <2> QED
    BY <2>1, <2>3 DEF EachIInv, Events, Handled
<1>3. CASE ResponseEnds
  <2>1. UNCHANGED <<answer, sent, tools, schemaAt, stop, measured>> /\ stream = "open" /\ stream' = "ended"
    BY <1>3 DEF ResponseEnds
  <2>2. Events' = Events /\ Handled' = Handled
    BY <2>1 DEF Events, Handled
  <2>3. CASE ~ measured
    <3> DEFINE c == Chunk("finish", 0, stop, "estimated")
    <3>1. chunks' = Append(chunks, c)
      BY <1>3, <2>3 DEF ResponseEnds, Emit, Cumulative
    <3>2. Handled \in Nat
      <4>1. Len(answer.items) \in Nat /\ sent \in Nat
        BY ItemTypes DEF EachIInv
      <4> QED
        BY <4>1 DEF Handled, Cumulative
    <3>3. /\ Append(chunks, c) \in Seq(ChunkType)
          /\ Translated(answer, Handled, Append(chunks, c), tools, schemaAt)
          /\ OfType(Append(chunks, c), "finish") # {}
      <4> DEFINE h == Handled
      <4>1. h \in Nat /\ Translated(answer, h, chunks, tools, schemaAt)
        BY <3>2 DEF EachIInv
      <4>2. answer \in Answer /\ chunks \in Seq(ChunkType) /\ stop \in Reasons
        BY DEF EachIInv
      <4> HIDE DEF h
      <4>3. /\ Append(chunks, c) \in Seq(ChunkType)
            /\ Translated(answer, h, Append(chunks, c), tools, schemaAt)
            /\ OfType(Append(chunks, c), "finish") = OfType(chunks, "finish") \cup {Len(Append(chunks, c))}
        BY <4>1, <4>2, FinishGrows
      <4> QED
        BY <4>3 DEF h
    <3> HIDE DEF c
    <3> QED
      BY <2>1, <2>2, <3>1, <3>3 DEF EachIInv
  <2>4. CASE measured
    <3>1. chunks' = chunks
      BY <1>3, <2>4 DEF ResponseEnds
    <3> QED
      BY <2>1, <2>2, <2>4, <3>1 DEF EachIInv
  <2> QED
    BY <2>3, <2>4
<1>4. CASE StreamFails
  <2>1. UNCHANGED <<answer, sent, chunks, tools, schemaAt, stop, measured>> /\ stream = "open" /\ stream' = "failed"
    BY <1>4 DEF StreamFails
  <2>2. Events' = Events /\ Handled' = Handled
    BY <2>1 DEF Events, Handled
  <2> QED
    BY <2>1, <2>2 DEF EachIInv
<1>5. CASE UNCHANGED translateVars
  BY <1>5 DEF translateVars, EachIInv, Events, Handled
<1> QED
  BY <1>1, <1>2, <1>3, <1>4, <1>5 DEF TranslateNext

\* Every step keeps the account.
LEMMA TranslateSteps ==
    ASSUME TranslateIInv, [TranslateNext]_translateVars
    PROVE  TranslateIInv'
<1>1. answer' = answer
  BY DEF TranslateNext, NextFrame, KeepAlive, ResponseEnds, StreamFails, translateVars
<1>2. Cumulative' = Cumulative
  BY <1>1 DEF Cumulative
<1> QED
  BY <1>2, OnceSteps, EachSteps DEF TranslateIInv

\* A finished stream has said what the response says.
LEMMA SaidAll ==
    ASSUME answer \in Answer, WellFormed(answer), ~ NoInput,
           Translated(answer, Len(answer.items), chunks, tools, schemaAt)
    PROVE  Assembled.content = Response.content /\ Assembled.calls = Response.calls
<1> DEFINE n == Len(answer.items)
           K == Starts(answer, "tool")
           items == answer.items
           call(k) == items[Nth(K, k)]
<1>1. /\ n \in Nat /\ K \subseteq 1 .. n /\ TextOf(answer) \subseteq 1 .. n
      /\ \A s : ArgsOf(answer, s) \subseteq 1 .. n
  BY ItemTypes
<1>2. \A I : I \subseteq 1 .. n => I \cap (1 .. n) = I
  OBVIOUS
<1>3. \A type, index : Of(type, index) = Out(chunks, type, index)
  BY DEF Of, Out, Yielded, OfType
<1>4. Of("text_delta", 0) = FlatText
  <2>1. Of("text_delta", 0) = Data(items, TextOf(answer))
    BY <1>1, <1>2, <1>3 DEF Translated, TextSaid
  <2>2. EmptySchemas = {}
    <3>1. CASE answer.proto = "anthropic"
      BY <3>1 DEF NoInput
    <3>2. CASE answer.proto # "anthropic"
      <4>1. Starts(answer, "schema") = {}
        BY <3>2, ItemIsOne DEF WellFormed, Starts, Parts, Answer
      <4> QED
        BY <4>1 DEF EmptySchemas
    <3> QED
      BY <3>1, <3>2
  <2>3. TextPlaces = TextOf(answer)
    BY <2>2 DEF TextPlaces, TextOf
  <2> QED
    BY <2>1, <2>2, <2>3 DEF FlatText, Data
<1>5. Cardinality(Yielded("tool_call_start")) = Cardinality(K)
  BY <1>1, <1>2 DEF Translated, CallsSaid, Yielded, OfType
<1>6. Cardinality(K) \in Nat
  BY <1>1, PlacesFinite
<1>7. ASSUME NEW k \in 1 .. Cardinality(K)
      PROVE  /\ Of("tool_call_start", k - 1)[1] = call(k).data
             /\ Of("tool_call_delta", k - 1) = Arguments(call(k).block)
  <2> DEFINE s == Nth(K, k)
  <2>1. s \in K /\ Cardinality(K \cap (1 .. s)) = k
    BY <1>1, NthIs
  <2>2. Rank(answer, s) \in Nat /\ Cardinality(K \cap (1 .. s)) = Rank(answer, s) + 1
    BY <2>1, RankIs
  <2> HIDE DEF s
  <2>3. Rank(answer, s) = k - 1
    BY <2>1, <2>2
  <2>4. {s} \subseteq 1 .. n
    BY <1>1, <2>1
  <2>5. Of("tool_call_start", k - 1) = Data(items, {s})
    BY <1>2, <1>3, <2>1, <2>3, <2>4 DEF Translated, CallsSaid
  <2>6. Data(items, {s})[1] = items[s].data
    <3>1. Cardinality({s}) = 1
      BY FS_Singleton
    <3>2. Nth({s}, 1) = s
      BY <1>1, <2>4, <3>1, NthIs
    <3> QED
      BY <3>1, <3>2 DEF Data
  <2>7. Of("tool_call_delta", k - 1) = Data(items, ArgsOf(answer, s))
    BY <1>1, <1>2, <1>3, <2>1, <2>3 DEF Translated, ArgumentsSaid
  <2>8. ArgsOf(answer, s) = PartsOf(items[s].block)
    BY DEF ArgsOf, PartsOf
  <2>9. answer.proto = "anthropic" => PartsOf(items[s].block) # {}
    BY <2>1 DEF NoInput
  <2>10. Arguments(items[s].block) = Data(items, PartsOf(items[s].block))
    BY <2>9 DEF Arguments
  <2> QED
    BY <2>5, <2>6, <2>7, <2>8, <2>10 DEF s
<1>8. Assembled.content = Of("text_delta", 0)
      /\ Assembled.calls = [k \in 1 .. Cardinality(Yielded("tool_call_start")) |->
                                <<Of("tool_call_start", k - 1)[1], Of("tool_call_delta", k - 1)>>]
  BY DEF Assembled
<1>9. Response.content = FlatText /\ Response.calls = ToolCalls
  BY DEF Response, TranslateResponse, TranslateAnthropicResponse
<1>10. ToolCalls = [k \in 1 .. Cardinality(K) |-> <<call(k).data, Arguments(call(k).block)>>]
  BY DEF ToolCalls
<1>11. \A k \in 1 .. Cardinality(K) :
            <<Of("tool_call_start", k - 1)[1], Of("tool_call_delta", k - 1)>>
                = <<call(k).data, Arguments(call(k).block)>>
  BY <1>7
<1> HIDE DEF K, call
<1>12. Assembled.calls = ToolCalls
  BY <1>5, <1>8, <1>10, <1>11
<1> QED
  BY <1>4, <1>8, <1>9, <1>12

\* Streamed or not, an answer is the same, and its finish comes once, at the
\* end, with a usage: of every answer whose parts belong to a block, what was
\* left without an input and the finish of providers that report their usage on
\* every frame apart.
THEOREM StreamedIsTheSame == TranslateSpec => []StreamEqualsResponse
<1>1. TranslateIInv => StreamEqualsResponse
  <2> SUFFICES ASSUME TranslateIInv PROVE StreamEqualsResponse
    OBVIOUS
  <2> DEFINE n == Len(answer.items)
  <2>1. /\ answer \in Answer /\ WellFormed(answer) /\ chunks \in Seq(ChunkType)
        /\ Translated(answer, Handled, chunks, tools, schemaAt)
        /\ ~ Cumulative => FinishedOnce
        /\ Cumulative => (stream = "ended" => OfType(chunks, "finish") # {})
    BY DEF TranslateIInv, OnceIInv, EachIInv
  <2>2. Yielded("finish") = OfType(chunks, "finish")
    BY DEF Yielded, OfType
  <2>3. ASSUME ~ Cumulative PROVE \A k \in Yielded("finish") : k = Len(chunks) /\ chunks[k].usage # "none"
    BY <2>1, <2>2, <2>3 DEF FinishedOnce
  <2>4. ASSUME stream = "ended", sent = Len(Events) PROVE Yielded("finish") # {}
    BY <2>1, <2>2, <2>4 DEF FinishedOnce, Closed
  <2>5. ASSUME stream = "ended", sent = Len(Events), ~ Cumulative PROVE Assembled.finish = Response.finish
    <3>1. Closed
      BY <2>5 DEF Closed
    <3>2. Assembled.finish = FinishOf(answer)
      <4>1. Len(chunks) \in OfType(chunks, "finish") /\ chunks[Len(chunks)].data = FinishOf(answer)
        BY <2>1, <2>5, <3>1 DEF FinishedOnce
      <4>2. chunks # <<>>
        BY <4>1 DEF OfType
      <4> QED
        BY <4>1, <4>2 DEF Assembled
    <3>3. ToolCalls = <<>> <=> Starts(answer, "tool") = {}
      <4>1. IsFiniteSet(Starts(answer, "tool")) /\ Cardinality(Starts(answer, "tool")) \in Nat
        BY <2>1, ItemTypes, PlacesFinite
      <4>2. Cardinality(Starts(answer, "tool")) = 0 <=> Starts(answer, "tool") = {}
        BY <4>1, FS_EmptySet
      <4>3. ToolCalls = <<>> <=> Cardinality(Starts(answer, "tool")) = 0
        <5>1. DOMAIN ToolCalls = 1 .. Cardinality(Starts(answer, "tool"))
          BY DEF ToolCalls
        <5>2. Cardinality(Starts(answer, "tool")) = 0 => ToolCalls = <<>>
          BY DEF ToolCalls
        <5>3. ToolCalls = <<>> => DOMAIN ToolCalls = {}
          OBVIOUS
        <5> QED
          BY <4>1, <5>1, <5>2, <5>3
      <4> QED
        BY <4>2, <4>3
    <3>4. Response.finish = FinishOf(answer)
      BY <2>1, <3>3 DEF Response, TranslateResponse, TranslateAnthropicResponse, FinishOf
    <3> QED
      BY <3>2, <3>4
  <2>6. ASSUME stream = "ended", sent = Len(Events), ~ NoInput
        PROVE  Assembled.content = Response.content /\ Assembled.calls = Response.calls
    <3>1. n \in Nat /\ Len(AnthropicEvents(answer)) = n + 3 /\ Len(OpenAiEvents(answer)) \in {n + 1, n + 2}
      BY <2>1, EventsAre
    <3>2. Handled = n
      BY <2>6, <3>1 DEF Handled, Events
    <3> QED
      BY <2>1, <2>6, <3>2, SaidAll
  <2> QED
    BY <2>3, <2>4, <2>5, <2>6 DEF StreamEqualsResponse
<1> QED
  BY <1>1, InitTranslate, TranslateSteps, PTL DEF TranslateSpec

-----------------------------------------------------------------------------
(* A call of the client SDK.                                               *)

\* A call that a timeout bounds has its clock running, up to the headers of a
\* stream and to the end of the body of any other call.
ClockRuns == timed /\ (pc = "fetching" \/ (InFlight /\ op # "stream")) => timer = "running"

\* No call blames an abort or a timeout that did not happen, none outlives an
\* abort that it hears, and completeJson() returns no truncated answer.
OutcomesAreTrue ==
    /\ result = "aborted" => signal = "fired"
    /\ result = "timeout" => timed /\ timer = "fired"
    /\ InFlight /\ heard => signal = "live"
    /\ pc = "returned" /\ op = "completeJson" => result = "stop"

\* There is no outcome before the end, and no clock outside of the call.
SdkIInv ==
    /\ SdkTypeOK /\ ClockRuns /\ OutcomesAreTrue
    /\ pc = "idle" \/ InFlight => result = "none"
    /\ pc = "idle" => timer = "off"

LEMMA InitSdk == SdkInit => SdkIInv
BY DEF SdkInit, SdkIInv, SdkTypeOK, ClockRuns, OutcomesAreTrue, InFlight

LEMMA FetchKeepsSdk ==
    ASSUME SdkIInv, Fetch
    PROVE  SdkIInv'
BY DEF Fetch, Follows, Throw, SdkIInv, SdkTypeOK, ClockRuns, OutcomesAreTrue, InFlight

\* What the headers of a stream stop is the clock of a stream alone.
LEMMA HeadersKeepSdk ==
    ASSUME SdkIInv, NEW k \in {"ok", "wrong type", "error"}, Headers(k)
    PROVE  SdkIInv'
BY DEF Headers, HeardAtHeaders, TimerAtHeaders, Throw, HandedOn,
       SdkIInv, SdkTypeOK, ClockRuns, OutcomesAreTrue, InFlight

LEMMA AnswersKeepSdk ==
    ASSUME SdkIInv,
           \/ \E c \in {"rate_limited", "provider_unavailable", "unknown"} : ErrorBody(c)
           \/ \E f \in {"stop", "length"}, p \in BOOLEAN : Body(f, p)
    PROVE  SdkIInv'
<1>1. ASSUME NEW c \in {"rate_limited", "provider_unavailable", "unknown"}, ErrorBody(c)
      PROVE  SdkIInv'
  BY <1>1 DEF ErrorBody, Throw, SdkIInv, SdkTypeOK, ClockRuns, OutcomesAreTrue, InFlight
<1>2. ASSUME NEW f \in {"stop", "length"}, NEW p \in BOOLEAN, Body(f, p)
      PROVE  SdkIInv'
  BY <1>2 DEF Body, JsonRefused, Throw, SdkIInv, SdkTypeOK, ClockRuns, OutcomesAreTrue, InFlight
<1> QED
  BY <1>1, <1>2

LEMMA FailuresKeepSdk ==
    ASSUME SdkIInv, Breaks \/ Timeout \/ CallerAborts
    PROVE  SdkIInv'
<1>1. ASSUME Breaks PROVE SdkIInv'
  BY <1>1 DEF Breaks, Cut, Throw, SdkIInv, SdkTypeOK, ClockRuns, OutcomesAreTrue, InFlight
<1>2. ASSUME Timeout PROVE SdkIInv'
  BY <1>2 DEF Timeout, Cut, SdkIInv, SdkTypeOK, ClockRuns, OutcomesAreTrue, InFlight
<1>3. ASSUME CallerAborts PROVE SdkIInv'
  BY <1>3 DEF CallerAborts, Cut, Throw, SdkIInv, SdkTypeOK, ClockRuns, OutcomesAreTrue, InFlight
<1> QED
  BY <1>1, <1>2, <1>3

LEMMA SdkStep == SdkIInv /\ [SdkNext]_sdkVars => SdkIInv'
<1> SUFFICES ASSUME SdkIInv, [SdkNext]_sdkVars PROVE SdkIInv'
  OBVIOUS
<1>1. CASE Fetch
  BY <1>1, FetchKeepsSdk
<1>2. CASE \E k \in {"ok", "wrong type", "error"} : Headers(k)
  BY <1>2, HeadersKeepSdk
<1>3. CASE \/ \E c \in {"rate_limited", "provider_unavailable", "unknown"} : ErrorBody(c)
           \/ \E f \in {"stop", "length"}, p \in BOOLEAN : Body(f, p)
  BY <1>3, AnswersKeepSdk
<1>4. CASE Breaks \/ Timeout \/ CallerAborts
  BY <1>4, FailuresKeepSdk
<1>5. CASE UNCHANGED sdkVars
  BY <1>5 DEF sdkVars, SdkIInv, SdkTypeOK, ClockRuns, OutcomesAreTrue, InFlight
<1> QED
  BY <1>1, <1>2, <1>3, <1>4, <1>5 DEF SdkNext

\* Whatever the router sends, and wherever the connection breaks: a call with a
\* timeout never waits without its clock (withTimeout() bounds the reading of
\* the body, too), it never goes on after an abort that it hears, and what it
\* throws is what happened to it.
THEOREM SdkCallsAreBounded == SdkSpec => [](ClockRuns /\ OutcomesAreTrue)
<1>1. SdkIInv => ClockRuns /\ OutcomesAreTrue
  BY DEF SdkIInv
<1> QED
  BY <1>1, InitSdk, SdkStep, PTL DEF SdkSpec

-----------------------------------------------------------------------------
(* Verification of an answer.                                              *)

\* What a validation finds.
Finding == [ok : BOOLEAN, missed : BOOLEAN, hit : BOOLEAN]

\* A schema's parts, and an object's or array's, are again schemas and values.
LEMMA SchemaParts ==
    ASSUME NEW s \in Schemas
    PROVE  /\ Height[s] \in Nat
           /\ s.branches \in Seq(Schemas) /\ s.items \in Seq(Schemas)
           /\ \A i \in DOMAIN s.branches : s.branches[i] \in Schemas /\ Height[s.branches[i]] < Height[s]
           /\ \A i \in DOMAIN s.props : s.props[i].of \in Schemas /\ Height[s.props[i].of] < Height[s]
           /\ s.items # <<>> => s.items[1] \in Schemas /\ Height[s.items[1]] < Height[s]
<1>1. /\ Height \in [Schemas -> Nat] /\ s.branches \in Seq(Schemas) /\ s.items \in Seq(Schemas)
      /\ \A c \in Subschemas(s) : c \in Schemas /\ Height[c] < Height[s]
  BY VerifyAssumption
<1>2. \A i \in DOMAIN s.branches : s.branches[i] \in Subschemas(s)
  BY DEF Subschemas
<1>3. \A i \in DOMAIN s.props : s.props[i].of \in Subschemas(s)
  BY DEF Subschemas
<1>4. s.items # <<>> => 1 \in DOMAIN s.items
  BY <1>1
<1>5. s.items # <<>> => s.items[1] \in Subschemas(s)
  BY <1>4 DEF Subschemas
<1> QED
  BY <1>1, <1>2, <1>3, <1>5

LEMMA ValueParts ==
    ASSUME NEW v \in Values
    PROVE  /\ v.t = "object" => \A key \in DOMAIN v.f : v.f[key] \in Values
           /\ v.t = "array" => v.s \in Seq(Values) /\ \A i \in DOMAIN v.s : v.s[i] \in Values
BY VerifyAssumption

LEMMA CollectType ==
    ASSUME NEW found, NEW parts
    PROVE  found.ok \in BOOLEAN /\ found.missed \in BOOLEAN /\ found.hit \in BOOLEAN => Collect(found, parts) \in Finding
BY DEF Collect, Finding

LEMMA EnumType ==
    ASSUME NEW v, NEW s, NEW soft \in BOOLEAN
    PROVE  EnumCheck(v, s, soft) \in Finding
BY DEF EnumCheck, Finding

\* The first of some branches is one of them.
LEMMA FirstIsOne ==
    ASSUME NEW S, NEW q \in Seq(S), NEW T, T \subseteq DOMAIN q, T # {}
    PROVE  Min(T) \in T /\ Min(T) \in DOMAIN q /\ q[Min(T)] \in S
<1>1. DOMAIN q \subseteq Nat /\ \A i \in DOMAIN q : q[i] \in S
  OBVIOUS
<1>2. T \subseteq Nat
  BY <1>1
<1>3. \E x \in T : \A y \in T : x <= y
  BY <1>2, LeastNatural
<1>4. Min(T) \in T
  BY <1>3 DEF Min
<1> QED
  BY <1>1, <1>4

LEMMA UnionType ==
    ASSUME NEW judge \in [Checked -> Finding], NEW v \in Values, NEW branches \in Seq(Schemas), NEW soft
    PROVE  Union(judge, v, branches, soft) \in Finding
<1> DEFINE fits == {i \in DOMAIN branches : judge[<<v, branches[i], TRUE>>].ok}
<1>1. fits # {} => branches[Min(fits)] \in Schemas
  <2>1. fits \subseteq DOMAIN branches
    OBVIOUS
  <2> HIDE DEF fits
  <2> QED
    BY <2>1, FirstIsOne
<1>2. fits # {} => judge[<<v, branches[Min(fits)], TRUE>>] \in Finding
  <2> HIDE DEF fits
  <2> QED
    BY <1>1 DEF Checked
<1>3. Clean \in Finding /\ Refused(Clean) \in Finding
  BY DEF Clean, Refused, Finding
<1> QED
  BY <1>2, <1>3 DEF Union

LEMMA FieldsType ==
    ASSUME NEW judge, NEW v, NEW s, NEW soft, NEW found \in Finding
    PROVE  Fields(judge, v, s, soft, found) \in Finding
<1> DEFINE present == {i \in DOMAIN s.props : s.props[i].key \in DOMAIN v.f}
           seen == Collect(found, [i \in present |-> judge[<<v.f[s.props[i].key], s.props[i].of, soft>>]])
<1>1. seen \in Finding
  BY CollectType DEF Finding
<1>2. Refused(seen) \in Finding
  <2> HIDE DEF seen
  <2> QED
    BY <1>1 DEF Refused, Finding
<1> QED
  BY <1>1, <1>2 DEF Fields

LEMMA JudgeType ==
    ASSUME NEW judge \in [Checked -> Finding], NEW v \in Values, NEW s \in Schemas, NEW soft \in BOOLEAN
    PROVE  Judge(judge, v, s, soft) \in Finding
<1> DEFINE found == EnumCheck(v, s, soft)
<1>1. found \in Finding /\ found.ok \in BOOLEAN /\ found.missed \in BOOLEAN /\ found.hit \in BOOLEAN
  BY EnumType DEF Finding
<1>2. Refused(found) \in Finding
  <2> HIDE DEF found
  <2> QED
    BY <1>1 DEF Refused, Finding
<1>3. \A parts : Collect(found, parts) \in Finding
  <2> HIDE DEF found
  <2> QED
    BY <1>1, CollectType
<1>4. Fields(judge, v, s, soft, found) \in Finding
  <2> HIDE DEF found
  <2> QED
    BY <1>1, FieldsType
<1> QED
  <2> HIDE DEF found
  <2>1. CASE ~ found.ok \/ s.branches # <<>> \/ ~ TypeFits(v, s)
    BY <1>1, <1>2, <1>3, <2>1 DEF Judge, found
  <2>2. CASE found.ok /\ s.branches = <<>> /\ TypeFits(v, s)
    BY <1>1, <1>3, <1>4, <2>2 DEF Judge, found
  <2> QED
    BY <2>1, <2>2

\* What a schema says of a value depends on what its parts say only.
LEMMA UnionLocal ==
    ASSUME NEW f, NEW g, NEW v, NEW branches \in Seq(Schemas), NEW soft,
           \A i \in DOMAIN branches, b \in BOOLEAN : f[<<v, branches[i], b>>] = g[<<v, branches[i], b>>]
    PROVE  Union(f, v, branches, soft) = Union(g, v, branches, soft)
<1> DEFINE Fits(h) == {i \in DOMAIN branches : h[<<v, branches[i], TRUE>>].ok}
           Named(h) == {i \in DOMAIN branches \ Fits(h) :
                            h[<<v, branches[i], TRUE>>].hit /\ ~ h[<<v, branches[i], TRUE>>].missed}
<1>1. Fits(f) = Fits(g) /\ Named(f) = Named(g)
  OBVIOUS
<1>2. (\E i \in DOMAIN branches : f[<<v, branches[i], FALSE>>].ok) <=> (\E i \in DOMAIN branches : g[<<v, branches[i], FALSE>>].ok)
  OBVIOUS
<1>3. Fits(f) # {} => f[<<v, branches[Min(Fits(f))], TRUE>>] = g[<<v, branches[Min(Fits(f))], TRUE>>]
  <2>1. Fits(f) \subseteq DOMAIN branches
    OBVIOUS
  <2> HIDE DEF Fits
  <2>2. Fits(f) # {} => Min(Fits(f)) \in DOMAIN branches
    BY <2>1, FirstIsOne
  <2> QED
    BY <2>2
<1> QED
  BY <1>1, <1>2, <1>3 DEF Union

LEMMA JudgeLocal ==
    ASSUME NEW f, NEW g, NEW v \in Values, NEW s \in Schemas, NEW soft \in BOOLEAN,
           \A w \in Values, c \in Schemas, b \in BOOLEAN :
                Height[c] < Height[s] => f[<<w, c, b>>] = g[<<w, c, b>>]
    PROVE  Judge(f, v, s, soft) = Judge(g, v, s, soft)
<1>1. Union(f, v, s.branches, soft) = Union(g, v, s.branches, soft)
  BY SchemaParts, UnionLocal
<1>2. ASSUME v.t = "object"
      PROVE  \A found : Fields(f, v, s, soft, found) = Fields(g, v, s, soft, found)
  <2> DEFINE present == {i \in DOMAIN s.props : s.props[i].key \in DOMAIN v.f}
  <2>1. \A i \in present : f[<<v.f[s.props[i].key], s.props[i].of, soft>>] = g[<<v.f[s.props[i].key], s.props[i].of, soft>>]
    BY <1>2, SchemaParts, ValueParts
  <2>2. [i \in present |-> f[<<v.f[s.props[i].key], s.props[i].of, soft>>]] = [i \in present |-> g[<<v.f[s.props[i].key], s.props[i].of, soft>>]]
    <3> HIDE DEF present
    <3> QED
      BY <2>1
  <2> QED
    BY <2>2 DEF Fields
<1>3. ASSUME v.t = "array", s.items # <<>>
      PROVE  [i \in DOMAIN v.s |-> f[<<v.s[i], s.items[1], soft>>]] = [i \in DOMAIN v.s |-> g[<<v.s[i], s.items[1], soft>>]]
  BY <1>3, SchemaParts, ValueParts
<1> QED
  BY <1>1, <1>2, <1>3 DEF Judge

LEMMA ValidateIs ==
    /\ Validate \in [Checked -> Finding]
    /\ \A v \in Values, s \in Schemas, soft \in BOOLEAN :
            Validate[<<v, s, soft>>] = Judge(Validate, v, s, soft)
<1> DEFINE h == [x \in Checked |-> Height[x[2]]]
           Phi == [f \in [Checked -> Finding] |-> [x \in Checked |-> Judge(f, x[1], x[2], x[3])]]
<1>1. h \in [Checked -> Nat]
  BY SchemaParts DEF Checked
<1>2. Phi \in [[Checked -> Finding] -> [Checked -> Finding]]
  BY JudgeType DEF Checked
<1>3. Clean \in Finding
  BY DEF Clean, Finding
<1>4. ASSUME NEW x \in Checked, NEW f \in [Checked -> Finding], NEW g \in [Checked -> Finding],
             \A y \in Checked : h[y] < h[x] => f[y] = g[y]
      PROVE  Phi[f][x] = Phi[g][x]
  <2>1. x[1] \in Values /\ x[2] \in Schemas /\ x[3] \in BOOLEAN
    BY DEF Checked
  <2>2. ASSUME NEW w \in Values, NEW c \in Schemas, NEW b \in BOOLEAN, Height[c] < Height[x[2]]
        PROVE  f[<<w, c, b>>] = g[<<w, c, b>>]
    <3>1. <<w, c, b>> \in Checked /\ h[<<w, c, b>>] = Height[c] /\ h[x] = Height[x[2]]
      BY DEF Checked
    <3> QED
      BY <1>4, <2>2, <3>1
  <2>3. Judge(f, x[1], x[2], x[3]) = Judge(g, x[1], x[2], x[3])
    BY <2>1, <2>2, JudgeLocal
  <2> QED
    BY <2>3
<1>5. \E f \in [Checked -> Finding] : f = Phi[f]
  <2>1. DependsBelow(Phi, h, Checked, Finding)
    <3> HIDE DEF h, Phi
    <3> QED
      BY <1>1, <1>2, <1>4 DEF DependsBelow
  <2> HIDE DEF h, Phi
  <2> QED
    BY <1>3, <2>1, RecursionByHeight
<1>6. PICK f \in [Checked -> Finding] : f = [x \in Checked |-> Judge(f, x[1], x[2], x[3])]
  BY <1>5
<1>7. Validate = [x \in Checked |-> Judge(Validate, x[1], x[2], x[3])]
  BY <1>6 DEF Validate
<1>8. ASSUME NEW v \in Values, NEW s \in Schemas, NEW soft \in BOOLEAN
      PROVE  Validate[<<v, s, soft>>] = Judge(Validate, v, s, soft)
  <2>1. <<v, s, soft>> \in Checked
    BY DEF Checked
  <2> QED
    BY <1>7, <2>1
<1>9. Validate = f
  <2> DEFINE E == {x \in Checked : Validate[x] = f[x]}
  <2>1. ASSUME NEW x \in Checked, \A y \in Checked : h[y] < h[x] => y \in E PROVE x \in E
    <3>1. x[1] \in Values /\ x[2] \in Schemas /\ x[3] \in BOOLEAN
      BY DEF Checked
    <3>2. ASSUME NEW w \in Values, NEW c \in Schemas, NEW b \in BOOLEAN, Height[c] < Height[x[2]]
          PROVE  Validate[<<w, c, b>>] = f[<<w, c, b>>]
      <4>1. <<w, c, b>> \in Checked /\ h[<<w, c, b>>] = Height[c] /\ h[x] = Height[x[2]]
        BY DEF Checked
      <4> QED
        BY <2>1, <3>2, <4>1
    <3>3. Judge(Validate, x[1], x[2], x[3]) = Judge(f, x[1], x[2], x[3])
      BY <3>1, <3>2, JudgeLocal
    <3>4. Validate[x] = Judge(Validate, x[1], x[2], x[3]) /\ f[x] = Judge(f, x[1], x[2], x[3])
      BY <1>6, <1>7
    <3> QED
      BY <3>3, <3>4
  <2>2. Checked \subseteq E
    <3> HIDE DEF h, E
    <3> QED
      BY <1>1, <2>1, HeightInduction
  <2>3. \A x \in Checked : Validate[x] = f[x]
    BY <2>2
  <2>4. Validate = [x \in Checked |-> Validate[x]]
    BY <1>7
  <2> QED
    BY <2>3, <2>4
<1> QED
  BY <1>8, <1>9

LEMMA InstanceLocal ==
    ASSUME NEW f, NEW g, NEW v \in Values, NEW s \in Schemas, NEW exact \in BOOLEAN,
           \A w \in Values, c \in Schemas, b \in BOOLEAN :
                Height[c] < Height[s] => f[<<w, c, b>>] = g[<<w, c, b>>]
    PROVE  Instance(f, v, s, exact) = Instance(g, v, s, exact)
<1>1. \A i \in DOMAIN s.branches : f[<<v, s.branches[i], exact>>] = g[<<v, s.branches[i], exact>>]
  BY SchemaParts
<1>2. ASSUME v.t = "object"
      PROVE  \A i \in DOMAIN s.props : s.props[i].key \in DOMAIN v.f =>
                f[<<v.f[s.props[i].key], s.props[i].of, exact>>] = g[<<v.f[s.props[i].key], s.props[i].of, exact>>]
  BY <1>2, SchemaParts, ValueParts
<1>3. ASSUME v.t = "array", s.items # <<>>
      PROVE  \A i \in DOMAIN v.s : f[<<v.s[i], s.items[1], exact>>] = g[<<v.s[i], s.items[1], exact>>]
  BY <1>3, SchemaParts, ValueParts
<1>4. Instance(f, v, s, exact) <=> Instance(g, v, s, exact)
  BY <1>1, <1>2, <1>3 DEF Instance
<1>5. Instance(f, v, s, exact) \in BOOLEAN /\ Instance(g, v, s, exact) \in BOOLEAN
  BY DEF Instance
<1> QED
  BY <1>4, <1>5

LEMMA ConformsIs ==
    /\ Conforms \in [Checked -> BOOLEAN]
    /\ \A v \in Values, s \in Schemas, exact \in BOOLEAN :
            Conforms[<<v, s, exact>>] = Instance(Conforms, v, s, exact)
<1> DEFINE h == [x \in Checked |-> Height[x[2]]]
           Phi == [f \in [Checked -> BOOLEAN] |-> [x \in Checked |-> Instance(f, x[1], x[2], x[3])]]
<1>1. h \in [Checked -> Nat]
  BY SchemaParts DEF Checked
<1>2. Phi \in [[Checked -> BOOLEAN] -> [Checked -> BOOLEAN]]
  BY DEF Instance
<1>3. ASSUME NEW x \in Checked, NEW f \in [Checked -> BOOLEAN], NEW g \in [Checked -> BOOLEAN],
             \A y \in Checked : h[y] < h[x] => f[y] = g[y]
      PROVE  Phi[f][x] = Phi[g][x]
  <2>1. x[1] \in Values /\ x[2] \in Schemas /\ x[3] \in BOOLEAN
    BY DEF Checked
  <2>2. ASSUME NEW w \in Values, NEW c \in Schemas, NEW b \in BOOLEAN, Height[c] < Height[x[2]]
        PROVE  f[<<w, c, b>>] = g[<<w, c, b>>]
    <3>1. <<w, c, b>> \in Checked /\ h[<<w, c, b>>] = Height[c] /\ h[x] = Height[x[2]]
      BY DEF Checked
    <3> QED
      BY <1>3, <2>2, <3>1
  <2>3. Instance(f, x[1], x[2], x[3]) = Instance(g, x[1], x[2], x[3])
    BY <2>1, <2>2, InstanceLocal
  <2> QED
    BY <2>3
<1>4. \E f \in [Checked -> BOOLEAN] : f = Phi[f]
  <2>1. DependsBelow(Phi, h, Checked, BOOLEAN)
    <3> HIDE DEF h, Phi
    <3> QED
      BY <1>1, <1>2, <1>3 DEF DependsBelow
  <2> HIDE DEF h, Phi
  <2>2. BOOLEAN # {}
    OBVIOUS
  <2> QED
    BY <2>1, <2>2, RecursionByHeight
<1>5. PICK f \in [Checked -> BOOLEAN] : f = [x \in Checked |-> Instance(f, x[1], x[2], x[3])]
  BY <1>4
<1>6. Conforms = [x \in Checked |-> Instance(Conforms, x[1], x[2], x[3])]
  BY <1>5 DEF Conforms
<1>7. ASSUME NEW v \in Values, NEW s \in Schemas, NEW exact \in BOOLEAN
      PROVE  Conforms[<<v, s, exact>>] = Instance(Conforms, v, s, exact)
  <2>1. <<v, s, exact>> \in Checked
    BY DEF Checked
  <2> QED
    BY <1>6, <2>1
<1>8. Conforms = f
  <2> DEFINE E == {x \in Checked : Conforms[x] = f[x]}
  <2>1. ASSUME NEW x \in Checked, \A y \in Checked : h[y] < h[x] => y \in E PROVE x \in E
    <3>1. x[1] \in Values /\ x[2] \in Schemas /\ x[3] \in BOOLEAN
      BY DEF Checked
    <3>2. ASSUME NEW w \in Values, NEW c \in Schemas, NEW b \in BOOLEAN, Height[c] < Height[x[2]]
          PROVE  Conforms[<<w, c, b>>] = f[<<w, c, b>>]
      <4>1. <<w, c, b>> \in Checked /\ h[<<w, c, b>>] = Height[c] /\ h[x] = Height[x[2]]
        BY DEF Checked
      <4> QED
        BY <2>1, <3>2, <4>1
    <3>3. Instance(Conforms, x[1], x[2], x[3]) = Instance(f, x[1], x[2], x[3])
      BY <3>1, <3>2, InstanceLocal
    <3>4. Conforms[x] = Instance(Conforms, x[1], x[2], x[3]) /\ f[x] = Instance(f, x[1], x[2], x[3])
      BY <1>5, <1>6
    <3> QED
      BY <3>3, <3>4
  <2>2. Checked \subseteq E
    <3> HIDE DEF h, E
    <3> QED
      BY <1>1, <2>1, HeightInduction
  <2>3. \A x \in Checked : Conforms[x] = f[x]
    BY <2>2
  <2>4. Conforms = [x \in Checked |-> Conforms[x]]
    BY <1>6
  <2> QED
    BY <2>3, <2>4
<1> QED
  BY <1>7, <1>8

-----------------------------------------------------------------------------
\* What the two modes find agrees with what a value is: strict mode accepts
\* exactly the instances, structural mode accepts them without a miss, and what
\* it accepts has the shape.
Right(strict, soft, exact, shape) ==
    /\ strict.ok <=> exact
    /\ ~ strict.missed
    /\ soft.ok /\ ~ soft.missed <=> exact
    /\ soft.ok => shape
    /\ exact => shape

Agree(v, s) ==
    Right(Validate[<<v, s, FALSE>>], Validate[<<v, s, TRUE>>], Conforms[<<v, s, TRUE>>], Conforms[<<v, s, FALSE>>])

\* The same for what is found after the enum: a miss is not forgotten.
RightAfter(found, strict, soft, exact, shape) ==
    /\ ~ found.missed => Right(strict, soft, exact, shape)
    /\ found.missed => soft.missed /\ (soft.ok => shape)

LEMMA PartsRight ==
    ASSUME NEW found, found.ok, NEW I, NEW p, DOMAIN p = I, NEW q, DOMAIN q = I, NEW E, NEW L,
           \A i \in I : Right(p[i], q[i], i \in E, i \in L)
    PROVE  RightAfter(found, Collect(found, p), Collect(found, q), I \subseteq E, I \subseteq L)
<1>1. \A i \in I : /\ p[i].ok <=> i \in E
                   /\ ~ p[i].missed
                   /\ q[i].ok /\ ~ q[i].missed <=> i \in E
                   /\ q[i].ok => i \in L
                   /\ i \in E => i \in L
  BY DEF Right
<1>2. /\ Collect(found, p).ok <=> \A i \in I : p[i].ok
      /\ Collect(found, p).missed => found.missed \/ \E i \in I : p[i].missed
      /\ Collect(found, q).ok <=> \A i \in I : q[i].ok
      /\ found.missed => Collect(found, q).missed
      /\ Collect(found, q).missed => found.missed \/ \E i \in I : q[i].missed
  BY DEF Collect
<1>3. ASSUME \A i \in I : q[i].ok, NEW i \in I, q[i].missed PROVE Collect(found, q).missed
  BY <1>3 DEF Collect
<1> QED
  BY <1>1, <1>2, <1>3 DEF Right, RightAfter

LEMMA UnionRight ==
    ASSUME NEW v \in Values, NEW s \in Schemas, \A i \in DOMAIN s.branches : Agree(v, s.branches[i])
    PROVE  Right(Union(Validate, v, s.branches, FALSE), Union(Validate, v, s.branches, TRUE),
                 \E i \in DOMAIN s.branches : Conforms[<<v, s.branches[i], TRUE>>],
                 \E i \in DOMAIN s.branches : Conforms[<<v, s.branches[i], FALSE>>])
<1> DEFINE fits == {i \in DOMAIN s.branches : Validate[<<v, s.branches[i], TRUE>>].ok}
<1>1. fits # {} => Min(fits) \in fits
  <2>1. fits \subseteq DOMAIN s.branches /\ s.branches \in Seq(Schemas)
    BY SchemaParts
  <2> HIDE DEF fits
  <2> QED
    BY <2>1, FirstIsOne
<1>2. Clean.ok /\ ~ Clean.missed /\ ~ Refused(Clean).ok /\ ~ Refused(Clean).missed
  BY DEF Clean, Refused
<1>3. CASE \E i \in DOMAIN s.branches : Validate[<<v, s.branches[i], FALSE>>].ok
  <2>1. Union(Validate, v, s.branches, FALSE) = Clean /\ Union(Validate, v, s.branches, TRUE) = Clean
    BY <1>3 DEF Union
  <2>2. PICK i \in DOMAIN s.branches : Validate[<<v, s.branches[i], FALSE>>].ok
    BY <1>3
  <2>3. Conforms[<<v, s.branches[i], TRUE>>] /\ Conforms[<<v, s.branches[i], FALSE>>]
    BY <2>2 DEF Agree, Right
  <2> QED
    BY <1>2, <2>1, <2>3 DEF Right
<1>4. CASE ~ \E i \in DOMAIN s.branches : Validate[<<v, s.branches[i], FALSE>>].ok
  <2>1. Union(Validate, v, s.branches, FALSE) = Refused(Clean)
    BY <1>4 DEF Union
  <2>2. \A i \in DOMAIN s.branches : ~ Conforms[<<v, s.branches[i], TRUE>>]
    BY <1>4 DEF Agree, Right
  <2>3. \/ Union(Validate, v, s.branches, TRUE) = Refused(Clean)
        \/ fits # {} /\ Union(Validate, v, s.branches, TRUE) = Validate[<<v, s.branches[Min(fits)], TRUE>>]
    BY <1>4 DEF Union
  <2>4. ASSUME NEW i \in fits
        PROVE  /\ Validate[<<v, s.branches[i], TRUE>>].missed
               /\ Conforms[<<v, s.branches[i], FALSE>>]
    BY <2>2 DEF Agree, Right
  <2> HIDE DEF fits
  <2>5. fits \subseteq DOMAIN s.branches
    BY DEF fits
  <2> QED
    BY <1>1, <1>2, <2>1, <2>2, <2>3, <2>4, <2>5 DEF Right
<1> QED
  BY <1>3, <1>4

\* The branches of a union, the fields of an object, the elements of an array.
LEMMA BranchesRight ==
    ASSUME NEW v \in Values, NEW s \in Schemas, \A i \in DOMAIN s.branches : Agree(v, s.branches[i]),
           NEW found, found.ok
    PROVE  RightAfter(found, Collect(found, <<Union(Validate, v, s.branches, FALSE)>>),
                      Collect(found, <<Union(Validate, v, s.branches, TRUE)>>),
                      \E i \in DOMAIN s.branches : Conforms[<<v, s.branches[i], TRUE>>],
                      \E i \in DOMAIN s.branches : Conforms[<<v, s.branches[i], FALSE>>])
<1> DEFINE p == <<Union(Validate, v, s.branches, FALSE)>>
           q == <<Union(Validate, v, s.branches, TRUE)>>
           E == {i \in {1} : \E j \in DOMAIN s.branches : Conforms[<<v, s.branches[j], TRUE>>]}
           L == {i \in {1} : \E j \in DOMAIN s.branches : Conforms[<<v, s.branches[j], FALSE>>]}
<1>1. DOMAIN p = {1} /\ DOMAIN q = {1}
  OBVIOUS
<1>2. \A i \in {1} : Right(p[i], q[i], i \in E, i \in L)
  <2>1. p[1] = Union(Validate, v, s.branches, FALSE) /\ q[1] = Union(Validate, v, s.branches, TRUE)
    OBVIOUS
  <2>2. /\ 1 \in E <=> \E j \in DOMAIN s.branches : Conforms[<<v, s.branches[j], TRUE>>]
        /\ 1 \in L <=> \E j \in DOMAIN s.branches : Conforms[<<v, s.branches[j], FALSE>>]
    OBVIOUS
  <2>3. Right(p[1], q[1], \E j \in DOMAIN s.branches : Conforms[<<v, s.branches[j], TRUE>>],
              \E j \in DOMAIN s.branches : Conforms[<<v, s.branches[j], FALSE>>])
    BY <2>1, UnionRight
  <2> HIDE DEF p, q, E, L
  <2>4. Right(p[1], q[1], 1 \in E, 1 \in L)
    BY <2>2, <2>3 DEF Right
  <2> QED
    BY <2>4
<1>3. RightAfter(found, Collect(found, p), Collect(found, q), {1} \subseteq E, {1} \subseteq L)
  <2> HIDE DEF p, q, E, L
  <2> QED
    BY <1>1, <1>2, PartsRight
<1>4. /\ {1} \subseteq E <=> \E j \in DOMAIN s.branches : Conforms[<<v, s.branches[j], TRUE>>]
      /\ {1} \subseteq L <=> \E j \in DOMAIN s.branches : Conforms[<<v, s.branches[j], FALSE>>]
  OBVIOUS
<1> HIDE DEF E, L
<1> QED
  BY <1>3, <1>4 DEF RightAfter, Right

LEMMA FieldsRight ==
    ASSUME NEW v \in Values, NEW s \in Schemas, v.t = "object",
           \A w \in Values : \A i \in DOMAIN s.props : Agree(w, s.props[i].of),
           NEW found, found.ok
    PROVE  LET present == {i \in DOMAIN s.props : s.props[i].key \in DOMAIN v.f}
               Fit(exact) == /\ s.required \subseteq DOMAIN v.f
                             /\ \A i \in present : Conforms[<<v.f[s.props[i].key], s.props[i].of, exact>>]
           IN  RightAfter(found, Fields(Validate, v, s, FALSE, found), Fields(Validate, v, s, TRUE, found),
                          Fit(TRUE), Fit(FALSE))
<1> DEFINE present == {i \in DOMAIN s.props : s.props[i].key \in DOMAIN v.f}
           Part(soft) == [i \in present |-> Validate[<<v.f[s.props[i].key], s.props[i].of, soft>>]]
           In(exact) == {i \in present : Conforms[<<v.f[s.props[i].key], s.props[i].of, exact>>]}
           Seen(soft) == Collect(found, Part(soft))
<1>1. ASSUME NEW i \in present
      PROVE  Right(Part(FALSE)[i], Part(TRUE)[i], i \in In(TRUE), i \in In(FALSE))
  <2>1. Agree(v.f[s.props[i].key], s.props[i].of)
    BY ValueParts
  <2> QED
    BY <2>1 DEF Agree, Right
<1>2. DOMAIN Part(TRUE) = present /\ DOMAIN Part(FALSE) = present
  OBVIOUS
<1>3. RightAfter(found, Seen(FALSE), Seen(TRUE), present \subseteq In(TRUE), present \subseteq In(FALSE))
  <2> HIDE DEF present, Part, In
  <2> QED
    BY <1>1, <1>2, PartsRight, ZenonT(40)
<1>4. \A exact \in BOOLEAN : present \subseteq In(exact) <=>
            \A i \in present : Conforms[<<v.f[s.props[i].key], s.props[i].of, exact>>]
  OBVIOUS
<1>5. \A soft \in BOOLEAN :
        Fields(Validate, v, s, soft, found) =
            IF Seen(soft).ok /\ ~ s.required \subseteq DOMAIN v.f THEN Refused(Seen(soft)) ELSE Seen(soft)
  BY DEF Fields
<1>6. \A soft : /\ ~ Refused(Seen(soft)).ok
               /\ Refused(Seen(soft)).missed = Seen(soft).missed
  BY DEF Refused, Collect
<1> HIDE DEF present, Part, In, Seen
<1> DEFINE Strict == Fields(Validate, v, s, FALSE, found)
           Soft == Fields(Validate, v, s, TRUE, found)
<1>7. /\ Strict.ok <=> Seen(FALSE).ok /\ s.required \subseteq DOMAIN v.f
      /\ Strict.missed = Seen(FALSE).missed
      /\ Soft.ok <=> Seen(TRUE).ok /\ s.required \subseteq DOMAIN v.f
      /\ Soft.missed = Seen(TRUE).missed
  BY <1>5, <1>6
<1> HIDE DEF Strict, Soft
<1>8. RightAfter(found, Strict, Soft, s.required \subseteq DOMAIN v.f /\ present \subseteq In(TRUE),
                 s.required \subseteq DOMAIN v.f /\ present \subseteq In(FALSE))
  BY <1>3, <1>7 DEF RightAfter, Right
<1> QED
  BY <1>4, <1>8 DEF present, Strict, Soft, RightAfter, Right

LEMMA ElementsRight ==
    ASSUME NEW v \in Values, NEW s \in Schemas, v.t = "array", s.items # <<>>,
           \A w \in Values : Agree(w, s.items[1]),
           NEW found, found.ok
    PROVE  RightAfter(found, Collect(found, [i \in DOMAIN v.s |-> Validate[<<v.s[i], s.items[1], FALSE>>]]),
                      Collect(found, [i \in DOMAIN v.s |-> Validate[<<v.s[i], s.items[1], TRUE>>]]),
                      \A i \in DOMAIN v.s : Conforms[<<v.s[i], s.items[1], TRUE>>],
                      \A i \in DOMAIN v.s : Conforms[<<v.s[i], s.items[1], FALSE>>])
<1> DEFINE places == DOMAIN v.s
           Part(soft) == [i \in places |-> Validate[<<v.s[i], s.items[1], soft>>]]
           In(exact) == {i \in places : Conforms[<<v.s[i], s.items[1], exact>>]}
<1>1. ASSUME NEW i \in places
      PROVE  Right(Part(FALSE)[i], Part(TRUE)[i], i \in In(TRUE), i \in In(FALSE))
  <2>1. Agree(v.s[i], s.items[1])
    BY ValueParts
  <2> QED
    BY <2>1 DEF Agree, Right
<1>2. DOMAIN Part(TRUE) = places /\ DOMAIN Part(FALSE) = places
  OBVIOUS
<1>3. RightAfter(found, Collect(found, Part(FALSE)), Collect(found, Part(TRUE)),
                 places \subseteq In(TRUE), places \subseteq In(FALSE))
  <2> HIDE DEF places, Part, In
  <2> QED
    BY <1>1, <1>2, PartsRight
<1>4. \A exact \in BOOLEAN : places \subseteq In(exact) <=>
            \A i \in places : Conforms[<<v.s[i], s.items[1], exact>>]
  OBVIOUS
<1> HIDE DEF In
<1> QED
  BY <1>3, <1>4 DEF RightAfter, Right

\* Whatever the schema and the value: by induction on how deep the schema is
\* nested.
LEMMA JudgeRight ==
    ASSUME NEW v \in Values, NEW s \in Schemas,
           \A c \in Schemas : Height[c] < Height[s] => \A w \in Values : Agree(w, c)
    PROVE  Agree(v, s)
<1> DEFINE found == EnumCheck(v, s, FALSE)
           noted == EnumCheck(v, s, TRUE)
           Strict == Judge(Validate, v, s, FALSE)
           Soft == Judge(Validate, v, s, TRUE)
           Fit(exact) ==
               IF s.branches # <<>> THEN \E i \in DOMAIN s.branches : Conforms[<<v, s.branches[i], exact>>]
               ELSE /\ TypeFits(v, s)
                    /\ v.t = "object" =>
                        /\ s.required \subseteq DOMAIN v.f
                        /\ \A i \in DOMAIN s.props : s.props[i].key \in DOMAIN v.f =>
                                Conforms[<<v.f[s.props[i].key], s.props[i].of, exact>>]
                    /\ v.t = "array" /\ s.items # <<>> =>
                        \A i \in DOMAIN v.s : Conforms[<<v.s[i], s.items[1], exact>>]
<1>1. /\ Validate[<<v, s, FALSE>>] = Strict /\ Validate[<<v, s, TRUE>>] = Soft
      /\ Conforms[<<v, s, TRUE>>] = Instance(Conforms, v, s, TRUE)
      /\ Conforms[<<v, s, FALSE>>] = Instance(Conforms, v, s, FALSE)
  BY ValidateIs, ConformsIs
<1>2. /\ Instance(Conforms, v, s, TRUE) <=> (s.enum # {} => v \in s.enum) /\ Fit(TRUE)
      /\ Instance(Conforms, v, s, FALSE) <=> Fit(FALSE)
  BY DEF Instance
<1>3. /\ noted.ok /\ (found.ok <=> s.enum = {} \/ v \in s.enum)
      /\ ~ found.missed /\ (noted.missed <=> ~ found.ok)
      /\ found.ok => found = noted
  BY DEF EnumCheck
<1>4. \A w \in Values :
        /\ \A i \in DOMAIN s.branches : Agree(w, s.branches[i])
        /\ \A i \in DOMAIN s.props : Agree(w, s.props[i].of)
        /\ s.items # <<>> => Agree(w, s.items[1])
  BY SchemaParts
\* Past the enum: strict mode is not past it where structural mode has noted a miss.
<1> DEFINE Rest(soft) ==
        IF s.branches # <<>> THEN Collect(noted, <<Union(Validate, v, s.branches, soft)>>)
        ELSE IF ~ TypeFits(v, s) THEN Refused(noted)
        ELSE CASE v.t = "object" -> Fields(Validate, v, s, soft, noted)
               [] v.t = "array" /\ s.items # <<>> ->
                    Collect(noted, [i \in DOMAIN v.s |-> Validate[<<v.s[i], s.items[1], soft>>]])
               [] OTHER -> noted
<1>5. Soft = Rest(TRUE) /\ (found.ok => Strict = Rest(FALSE)) /\ (~ found.ok => Strict = found)
  <2> HIDE DEF found, noted
  <2>1. Strict = IF ~ found.ok THEN found
        ELSE IF s.branches # <<>> THEN Collect(found, <<Union(Validate, v, s.branches, FALSE)>>)
        ELSE IF ~ TypeFits(v, s) THEN Refused(found)
        ELSE CASE v.t = "object" -> Fields(Validate, v, s, FALSE, found)
               [] v.t = "array" /\ s.items # <<>> ->
                    Collect(found, [i \in DOMAIN v.s |-> Validate[<<v.s[i], s.items[1], FALSE>>]])
               [] OTHER -> found
    BY DEF Judge, found
  <2>2. Soft = IF ~ noted.ok THEN noted ELSE Rest(TRUE)
    BY DEF Judge, noted
  <2> QED
    BY <1>3, <2>1, <2>2
<1> HIDE DEF found, noted, Strict, Soft
<1>6. RightAfter(noted, Rest(FALSE), Rest(TRUE), Fit(TRUE), Fit(FALSE))
  <2>1. CASE s.branches # <<>>
    <3>1. /\ Rest(FALSE) = Collect(noted, <<Union(Validate, v, s.branches, FALSE)>>)
          /\ Rest(TRUE) = Collect(noted, <<Union(Validate, v, s.branches, TRUE)>>)
      BY <2>1
    <3>2. /\ Fit(TRUE) <=> \E i \in DOMAIN s.branches : Conforms[<<v, s.branches[i], TRUE>>]
          /\ Fit(FALSE) <=> \E i \in DOMAIN s.branches : Conforms[<<v, s.branches[i], FALSE>>]
      BY <2>1
    <3> HIDE DEF Rest, Fit
    <3>3. RightAfter(noted, Rest(FALSE), Rest(TRUE), \E i \in DOMAIN s.branches : Conforms[<<v, s.branches[i], TRUE>>],
                     \E i \in DOMAIN s.branches : Conforms[<<v, s.branches[i], FALSE>>])
      BY <1>3, <1>4, <3>1, BranchesRight
    <3> QED
      BY <3>2, <3>3 DEF RightAfter, Right
  <2>2. CASE s.branches = <<>> /\ ~ TypeFits(v, s)
    <3>1. Rest(FALSE) = Refused(noted) /\ Rest(TRUE) = Refused(noted) /\ ~ Fit(TRUE) /\ ~ Fit(FALSE)
      BY <2>2
    <3> HIDE DEF Rest, Fit
    <3>2. ~ Refused(noted).ok /\ Refused(noted).missed = noted.missed
      BY DEF Refused, noted, EnumCheck
    <3> QED
      BY <3>1, <3>2 DEF RightAfter, Right
  <2>3. CASE s.branches = <<>> /\ TypeFits(v, s) /\ v.t = "object"
    <3> DEFINE present == {i \in DOMAIN s.props : s.props[i].key \in DOMAIN v.f}
               Field(exact) == /\ s.required \subseteq DOMAIN v.f
                               /\ \A i \in present : Conforms[<<v.f[s.props[i].key], s.props[i].of, exact>>]
    <3>1. /\ Rest(FALSE) = Fields(Validate, v, s, FALSE, noted)
          /\ Rest(TRUE) = Fields(Validate, v, s, TRUE, noted)
          /\ Fit(TRUE) <=> Field(TRUE)
          /\ Fit(FALSE) <=> Field(FALSE)
      BY <2>3
    <3> HIDE DEF Rest, Fit
    <3>2. RightAfter(noted, Rest(FALSE), Rest(TRUE), Field(TRUE), Field(FALSE))
      BY <1>3, <1>4, <2>3, <3>1, FieldsRight
    <3> HIDE DEF Field
    <3> QED
      BY <3>1, <3>2 DEF RightAfter, Right
  <2>4. CASE s.branches = <<>> /\ TypeFits(v, s) /\ v.t = "array" /\ s.items # <<>>
    <3> DEFINE Each(exact) == \A i \in DOMAIN v.s : Conforms[<<v.s[i], s.items[1], exact>>]
    <3>1. /\ Rest(FALSE) = Collect(noted, [i \in DOMAIN v.s |-> Validate[<<v.s[i], s.items[1], FALSE>>]])
          /\ Rest(TRUE) = Collect(noted, [i \in DOMAIN v.s |-> Validate[<<v.s[i], s.items[1], TRUE>>]])
          /\ Fit(TRUE) <=> Each(TRUE)
          /\ Fit(FALSE) <=> Each(FALSE)
      BY <2>4
    <3> HIDE DEF Rest, Fit
    <3>2. RightAfter(noted, Rest(FALSE), Rest(TRUE), Each(TRUE), Each(FALSE))
      BY <1>3, <1>4, <2>4, <3>1, ElementsRight
    <3> HIDE DEF Each
    <3> QED
      BY <3>1, <3>2 DEF RightAfter, Right
  <2>5. CASE s.branches = <<>> /\ TypeFits(v, s) /\ v.t # "object" /\ (v.t = "array" => s.items = <<>>)
    <3>1. Rest(FALSE) = noted /\ Rest(TRUE) = noted /\ Fit(TRUE) /\ Fit(FALSE)
      BY <2>5
    <3> HIDE DEF Rest, Fit
    <3> QED
      BY <1>3, <3>1 DEF RightAfter, Right
  <2> QED
    BY <2>1, <2>2, <2>3, <2>4, <2>5
<1> HIDE DEF Rest, Fit
<1> QED
  BY <1>1, <1>2, <1>3, <1>5, <1>6 DEF Agree, RightAfter, Right

LEMMA AllAgree == \A s \in Schemas : \A v \in Values : Agree(v, s)
<1> DEFINE E == {s \in Schemas : \A v \in Values : Agree(v, s)}
<1>1. Height \in [Schemas -> Nat]
  BY VerifyAssumption
<1>2. ASSUME NEW s \in Schemas, \A c \in Schemas : Height[c] < Height[s] => c \in E PROVE s \in E
  BY <1>2, JudgeRight
<1>3. Schemas \subseteq E
  <2> HIDE DEF E
  <2> QED
    BY <1>1, <1>2, HeightInduction
<1> QED
  BY <1>3

\* A value that names a variant and lacks some of it is refused by it, on the
\* strength of the enum it hits: required() comes after the properties.
LEMMA NamedIsRefused ==
    ASSUME NEW v \in Values, NEW s \in Schemas, NamesIncomplete(v, s)
    PROVE  LET q == Validate[<<v, s, TRUE>>] IN ~ q.ok /\ q.hit /\ ~ q.missed
<1> DEFINE found == EnumCheck(v, s, TRUE)
           present == {i \in DOMAIN s.props : s.props[i].key \in DOMAIN v.f}
           part == [i \in present |-> Validate[<<v.f[s.props[i].key], s.props[i].of, TRUE>>]]
           seen == Collect(found, part)
<1>1. /\ s.enum = {} /\ s.branches = <<>> /\ v.t = "object" /\ ~ s.required \subseteq DOMAIN v.f
      /\ TypeFits(v, s)
      /\ \A i \in present : Conforms[<<v.f[s.props[i].key], s.props[i].of, TRUE>>]
      /\ \E i \in present : s.props[i].of.enum # {} /\ s.props[i].of.branches = <<>>
  BY DEF NamesIncomplete
<1>2. found.ok /\ ~ found.missed
  BY <1>1 DEF EnumCheck
<1>3. \A i \in present : part[i].ok /\ ~ part[i].missed
  <2>1. ASSUME NEW i \in present PROVE Agree(v.f[s.props[i].key], s.props[i].of)
    BY <1>1, SchemaParts, ValueParts, AllAgree
  <2> QED
    BY <1>1, <2>1 DEF Agree, Right
<1>4. \E i \in present : part[i].hit
  <2>1. PICK i \in present : s.props[i].of.enum # {} /\ s.props[i].of.branches = <<>>
    BY <1>1
  <2> DEFINE w == v.f[s.props[i].key]
             c == s.props[i].of
  <2>2. w \in Values /\ c \in Schemas
    BY <1>1, <2>1, SchemaParts, ValueParts
  <2>3. w \in c.enum
    <3>1. Conforms[<<w, c, TRUE>>]
      BY <1>1
    <3>2. Conforms[<<w, c, TRUE>>] = Instance(Conforms, w, c, TRUE)
      BY <2>2, ConformsIs
    <3> HIDE DEF w, c
    <3> QED
      BY <2>1, <3>1, <3>2 DEF Instance, c
  <2>4. Judge(Validate, w, c, TRUE).hit
    <3>1. EnumCheck(w, c, TRUE).ok /\ EnumCheck(w, c, TRUE).hit
      BY <2>3 DEF EnumCheck
    <3>2. c.branches = <<>>
      BY <2>1
    <3> HIDE DEF w, c
    <3>3. \A parts : Collect(EnumCheck(w, c, TRUE), parts).hit
      BY <3>1 DEF Collect
    <3>4. Refused(EnumCheck(w, c, TRUE)).hit
      BY <3>1 DEF Refused, EnumCheck
    <3>5. Fields(Validate, w, c, TRUE, EnumCheck(w, c, TRUE)).hit
      <4>1. \A parts : Refused(Collect(EnumCheck(w, c, TRUE), parts)).hit
        BY <3>1 DEF Refused, Collect
      <4> QED
        BY <3>3, <4>1 DEF Fields
    <3> QED
      BY <3>1, <3>2, <3>3, <3>4, <3>5 DEF Judge
  <2>5. Validate[<<w, c, TRUE>>] = Judge(Validate, w, c, TRUE)
    BY <2>2, ValidateIs
  <2>6. part[i] = Validate[<<w, c, TRUE>>]
    BY <2>1
  <2> QED
    BY <2>4, <2>5, <2>6
<1>5. seen.ok /\ ~ seen.missed /\ seen.hit
  <2>1. DOMAIN part = present
    OBVIOUS
  <2> HIDE DEF part, found
  <2> QED
    BY <1>2, <1>3, <1>4, <2>1 DEF Collect
<1>6. Validate[<<v, s, TRUE>>] = Refused(seen)
  <2>1. Validate[<<v, s, TRUE>>] = Judge(Validate, v, s, TRUE)
    BY ValidateIs
  <2>2. Judge(Validate, v, s, TRUE) = Fields(Validate, v, s, TRUE, found)
    <3> HIDE DEF seen, part
    <3> QED
      BY <1>1, <1>2 DEF Judge
  <2>3. Fields(Validate, v, s, TRUE, found) = IF seen.ok /\ ~ s.required \subseteq DOMAIN v.f THEN Refused(seen) ELSE seen
    BY DEF Fields
  <2> HIDE DEF seen, found
  <2> QED
    BY <1>1, <1>5, <2>1, <2>2, <2>3
<1>7. ~ Refused(seen).ok /\ Refused(seen).hit = seen.hit /\ Refused(seen).missed = seen.missed
  BY DEF Refused, Collect
<1> HIDE DEF seen
<1> QED
  BY <1>5, <1>6, <1>7

\* Nor does a union let a looser branch take what a branch has refused so.
LEMMA NothingAbsorbs ==
    ASSUME NEW v \in Values, NEW s \in Schemas, NEW soft \in BOOLEAN, Validate[<<v, s, soft>>].ok,
           \A i \in DOMAIN s.branches : ~ Conforms[<<v, s.branches[i], TRUE>>],
           NEW i \in DOMAIN s.branches
    PROVE  ~ NamesIncomplete(v, s.branches[i])
<1> SUFFICES ASSUME NamesIncomplete(v, s.branches[i]) PROVE FALSE
  OBVIOUS
<1> DEFINE union == Union(Validate, v, s.branches, soft)
           found == EnumCheck(v, s, soft)
<1>1. /\ s.branches # <<>>
      /\ \A j \in DOMAIN s.branches : s.branches[j] \in Schemas
  BY SchemaParts
<1>2. \A j \in DOMAIN s.branches : ~ Validate[<<v, s.branches[j], FALSE>>].ok
  BY <1>1, AllAgree DEF Agree, Right
<1>3. union.ok
  <2>1. Validate[<<v, s, soft>>] = Judge(Validate, v, s, soft)
    BY ValidateIs
  <2>2. Judge(Validate, v, s, soft) = IF ~ found.ok THEN found ELSE Collect(found, <<union>>)
    <3> HIDE DEF union
    <3> QED
      BY <1>1 DEF Judge, union
  <2> HIDE DEF union, found
  <2>3. Collect(found, <<union>>).ok => union.ok
    <3>1. Collect(found, <<union>>).ok => \A j \in DOMAIN <<union>> : <<union>>[j].ok
      BY DEF Collect
    <3> QED
      BY <3>1
  <2> QED
    BY <2>1, <2>2, <2>3
<1>4. LET q == Validate[<<v, s.branches[i], TRUE>>] IN ~ q.ok /\ q.hit /\ ~ q.missed
  BY <1>1, NamedIsRefused
<1>5. union = Refused(Clean)
  BY <1>2, <1>4 DEF Union
<1> QED
  BY <1>3, <1>5 DEF Refused, Clean

\* The verdict is verifyResponse()'s.
VerifyIInv ==
    /\ given \in Cases
    /\ verdict \in {NoVerdict, VerifyResponse(given.res, given.asked, given.default)}

LEMMA InitVerify == VerifyInit => VerifyIInv
BY DEF VerifyInit, VerifyIInv

LEMMA VerifySteps == VerifyIInv /\ [VerifyNext]_verifyVars => VerifyIInv'
BY DEF VerifyIInv, VerifyNext, VerifyHop, verifyVars

LEMMA VerdictIsSound == VerifyIInv => VerdictSound
<1> SUFFICES ASSUME VerifyIInv PROVE VerdictSound
  OBVIOUS
<1> DEFINE v == given.res.content.value
           s == given.asked.schema
           mode == ResolveValidationMode(given.asked, given.default)
           soft == mode # "strict"
           passed == verdict.reason = "none"
<1>1. v \in Values /\ s \in Schemas /\ soft \in BOOLEAN
  BY VerifyAssumption DEF VerifyIInv
<1> SUFFICES ASSUME verdict # NoVerdict, given.asked.type = "json_schema", given.res.finish = "stop",
                    given.res.calls = <<>>, IsFencedJson(given.res.content)
             PROVE  /\ verdict.reason \in {"none", "schema_violation"}
                    /\ passed /\ ~ verdict.missed <=> Conforms[<<v, s, TRUE>>]
                    /\ mode = "strict" => ~ verdict.missed
                    /\ passed => Conforms[<<v, s, FALSE>>]
                    /\ passed /\ (\A i \in DOMAIN s.branches : ~ Conforms[<<v, s.branches[i], TRUE>>]) =>
                            \A i \in DOMAIN s.branches : ~ NamesIncomplete(v, s.branches[i])
  BY DEF VerdictSound
<1> DEFINE found == Validate[<<v, s, soft>>]
<1>2. verdict = IF found.ok THEN [reason |-> "none", missed |-> found.missed]
                ELSE [reason |-> "schema_violation", missed |-> FALSE]
  <2>1. given.res.content.kind # "blank"
    BY DEF IsFencedJson
  <2> HIDE DEF found
  <2> QED
    BY <2>1 DEF VerifyIInv, VerifyResponse, found
<1>3. Agree(v, s)
  BY <1>1, AllAgree
<1>4. /\ verdict.reason \in {"none", "schema_violation"}
      /\ passed <=> found.ok
      /\ passed => verdict.missed = found.missed
      /\ ~ passed => ~ verdict.missed
  <2> HIDE DEF found
  <2> QED
    BY <1>2
<1>5. ASSUME passed, \A i \in DOMAIN s.branches : ~ Conforms[<<v, s.branches[i], TRUE>>]
      PROVE  \A i \in DOMAIN s.branches : ~ NamesIncomplete(v, s.branches[i])
  BY <1>1, <1>4, <1>5, NothingAbsorbs
<1>6. soft = TRUE \/ soft = FALSE
  OBVIOUS
<1> HIDE DEF v, s
<1> QED
  BY <1>3, <1>4, <1>5, <1>6 DEF Agree, Right

\* The verdict on a forced-JSON answer is right, for every schema and value.
THEOREM VerdictsAreSound == VerifySpec => []VerdictSound
BY InitVerify, VerifySteps, VerdictIsSound, PTL DEF VerifySpec

=============================================================================
