--------------------------- MODULE BodyRelayProofs ----------------------------
(***************************************************************************)
(* One request on its way to the printer, for bodies, buffers and pieces   *)
(* of any size.                                                            *)
(***************************************************************************)
EXTENDS BodyRelay, SequenceTheorems, WellFoundedInduction, TLAPS

----------------------------------------------------------------------------
(* Induction, for a set instead of a predicate.                            *)
LEMMA Induction ==
  ASSUME NEW S, 0 \in S, \A n \in Nat : n \in S => n + 1 \in S
  PROVE  \A n \in Nat : n \in S
<1> SUFFICES ASSUME \E n \in Nat : n \notin S PROVE FALSE
  OBVIOUS
<1> DEFINE R == OpToRel(<, Nat)
           T == Nat \ S
<1>1. \A m, n \in Nat : <<m, n>> \in R <=> m < n
  BY DEF OpToRel
<1>2. IsWellFoundedOn(R, Nat)
  BY NatLessThanWellFounded
<1>3. T \subseteq Nat /\ T # {}
  OBVIOUS
<1> HIDE DEF R
<1>4. PICK n \in T : \A m \in T : ~(<<m, n>> \in R)
  BY <1>2, <1>3, WFMin
<1>5. n \in Nat /\ n # 0
  BY <1>4
<1>6. n - 1 \in Nat /\ n - 1 < n /\ n - 1 + 1 = n
  BY <1>5
<1>7. <<n - 1, n>> \in R
  BY <1>1, <1>5, <1>6, Zenon
<1>8. n - 1 \in S
  BY <1>4, <1>6, <1>7, Zenon
<1> QED
  BY <1>4, <1>6, <1>8

(* The symbols are told apart.                                             *)
LEMMA SymbolsDiffer ==
  /\ CR # LF /\ CR # Other /\ LF # Other
  /\ \A s \in AnySymbol : IsSize(s) <=> s \notin {CR, LF, Other}
  /\ \A s \in AnySymbol : IsSize(s) => SizeOf(s) \in Nat
  /\ \A n \in Nat : /\ SizeText(n) \in AnySymbol
                    /\ IsSize(SizeText(n)) /\ SizeOf(SizeText(n)) = n
  /\ {CR, LF, Other} \subseteq AnySymbol /\ Symbols \subseteq AnySymbol
  /\ DataSymbols \subseteq AnySymbol
<1>1. CR # LF /\ CR # Other /\ LF # Other
  BY DEF CR, LF, Other
<1>2. ~IsSize(CR) /\ ~IsSize(LF) /\ ~IsSize(Other)
  BY DEF CR, LF, Other, IsSize
<1>3. \A s \in {"size"} \X Nat : IsSize(s) /\ SizeOf(s) \in Nat
  BY DEF IsSize, SizeOf
<1>4. \A n \in Nat : /\ SizeText(n) \in {"size"} \X Nat
                     /\ IsSize(SizeText(n)) /\ SizeOf(SizeText(n)) = n
  BY DEF IsSize, SizeOf, SizeText
<1> QED
  BY <1>1, <1>2, <1>3, <1>4, RelayAssumption DEF AnySymbol, Symbols

----------------------------------------------------------------------------
(* The decoder                                                             *)
LEMMA DecodingExists ==
  ASSUME NEW w
  PROVE  \A n \in Nat : \E g :
           g = [i \in 0..n |-> IF i = 0 THEN Start ELSE Follow(g[i - 1], w[i])]
<1> DEFINE Solves(g, n) ==
             g = [i \in 0..n |-> IF i = 0 THEN Start ELSE Follow(g[i - 1], w[i])]
           S == {n \in Nat : \E g : Solves(g, n)}
<1>1. 0 \in S
  <2>1. Solves([i \in 0..0 |-> Start], 0)
    OBVIOUS
  <2> QED
    BY <2>1
<1>2. ASSUME NEW n \in Nat, n \in S PROVE n + 1 \in S
  <2>1. PICK g : Solves(g, n)
    BY <1>2
  <2> DEFINE h == [i \in 0..(n + 1) |-> IF i <= n THEN g[i] ELSE Follow(g[n], w[n + 1])]
  <2>2. \A i \in 0..n : h[i] = g[i]
    OBVIOUS
  <2>3. \A i \in 0..n : g[i] = IF i = 0 THEN Start ELSE Follow(g[i - 1], w[i])
    BY <2>1
  <2>4. \A i \in 0..(n + 1) : h[i] = IF i = 0 THEN Start ELSE Follow(h[i - 1], w[i])
    <3> SUFFICES ASSUME NEW i \in 0..(n + 1)
                 PROVE  h[i] = IF i = 0 THEN Start ELSE Follow(h[i - 1], w[i])
      OBVIOUS
    <3>1. CASE i <= n
      <4>1. i \in 0..n /\ (i # 0 => i - 1 \in 0..n)
        BY <3>1
      <4> HIDE DEF h
      <4> QED BY <4>1, <2>2, <2>3
    <3>2. CASE i = n + 1
      <4>1. h[i] = Follow(g[n], w[i]) /\ i - 1 = n /\ i # 0 /\ n \in 0..n
        BY <3>2
      <4> HIDE DEF h
      <4> QED BY <4>1, <2>2
    <3> QED BY <3>1, <3>2
  <2>5. h = [i \in 0..(n + 1) |-> h[i]]
    OBVIOUS
  <2> HIDE DEF h
  <2>6. Solves(h, n + 1)
    BY <2>4, <2>5
  <2> QED
    BY <2>6
<1> HIDE DEF S
<1>3. \A n \in Nat : n \in S
  BY <1>1, <1>2, Induction
<1> QED
  BY <1>3 DEF S

(* The equation by which Decoding is defined.                              *)
LEMMA DecodingEquation ==
  ASSUME NEW w \in Strings
  PROVE  /\ Decoding(w)[0] = Start
         /\ \A i \in 1..Len(w) : Decoding(w)[i] = Follow(Decoding(w)[i - 1], w[i])
<1> DEFINE F(g) == [i \in 0..Len(w) |-> IF i = 0 THEN Start ELSE Follow(g[i - 1], w[i])]
<1>1. Len(w) \in Nat
  BY DEF Strings
<1>2. \E g : g = F(g)
  BY <1>1, DecodingExists
<1>3. Decoding(w) = CHOOSE g : g = F(g)
  BY Zenon DEF Decoding
<1>4. Decoding(w) = F(Decoding(w))
  <2> HIDE DEF F
  <2> QED BY <1>2, <1>3, Zenon
<1> DEFINE d == Decoding(w)
<1> HIDE DEF d
<1>5. d = F(d)
  BY <1>4 DEF d
<1>6. d[0] = Start /\ \A i \in 1..Len(w) : d[i] = Follow(d[i - 1], w[i])
  BY <1>1, <1>5
<1> QED
  BY <1>6 DEF d

Places == {"size", "size cr", "size lf", "data", "cr", "lf", "trailer", "trailer cr",
           "trailer lf", "last lf", "whole", "bad"}

Positions == {d \in [at : Places, left : Nat, data : Strings] : d.at = "data" => d.left > 0}

(* Due and Follow, place by place.                                         *)
LEMMA DueFrom ==
  ASSUME NEW d, NEW s
  PROVE  /\ d.at = "size" => Due(d, s) = IF IsSize(s) THEN "size cr" ELSE "bad"
         /\ d.at = "size cr" => Due(d, s) = IF s = CR THEN "size lf" ELSE "bad"
         /\ d.at = "size lf" =>
              Due(d, s) = IF s = LF THEN IF d.left = 0 THEN "trailer" ELSE "data" ELSE "bad"
         /\ d.at = "data" => Due(d, s) = IF d.left = 1 THEN "cr" ELSE "data"
         /\ d.at = "cr" => Due(d, s) = IF s = CR THEN "lf" ELSE "bad"
         /\ d.at = "lf" => Due(d, s) = IF s = LF THEN "size" ELSE "bad"
         /\ d.at = "trailer" =>
              Due(d, s) = IF s = Other THEN "trailer cr" ELSE IF s = CR THEN "last lf" ELSE "bad"
         /\ d.at = "trailer cr" => Due(d, s) = IF s = CR THEN "trailer lf" ELSE "bad"
         /\ d.at = "trailer lf" => Due(d, s) = IF s = LF THEN "trailer" ELSE "bad"
         /\ d.at = "last lf" => Due(d, s) = IF s = LF THEN "whole" ELSE "bad"
         /\ d.at \in {"whole", "bad"} => Due(d, s) = d.at
BY DEF Due

LEMMA FollowFrom ==
  ASSUME NEW d, NEW s
  PROVE  /\ Follow(d, s).at = Due(d, s)
         /\ d.at = "size" => Follow(d, s).left = IF IsSize(s) THEN SizeOf(s) ELSE d.left
         /\ d.at = "data" => Follow(d, s).left = d.left - 1
         /\ d.at # "size" /\ d.at # "data" => Follow(d, s).left = d.left
         /\ d.at = "data" => Follow(d, s).data = Append(d.data, s)
         /\ d.at # "data" => Follow(d, s).data = d.data
BY DEF Follow

LEMMA FollowData ==
  ASSUME NEW d, NEW s, d.at = "data"
  PROVE  /\ Follow(d, s).at = IF d.left = 1 THEN "cr" ELSE "data"
         /\ Follow(d, s).left = d.left - 1 /\ Follow(d, s).data = Append(d.data, s)
BY DEF Follow, Due

LEMMA FollowEnd ==
  ASSUME NEW d, NEW s, d.at \in {"whole", "bad"}
  PROVE  Follow(d, s).at = d.at /\ Follow(d, s).data = d.data
BY DEF Follow, Due

LEMMA FollowType ==
  ASSUME NEW d \in Positions, NEW s \in AnySymbol
  PROVE  Follow(d, s) \in Positions
<1>1. d.at \in Places /\ d.left \in Nat /\ d.data \in Strings /\ (d.at = "data" => d.left > 0)
  BY DEF Positions
<1>2. Append(d.data, s) \in Strings
  BY <1>1 DEF Strings
<1> DEFINE f == Follow(d, s)
<1>3. f = [at |-> f.at, left |-> f.left, data |-> f.data]
  BY DEF Follow
<1>4. f.at = Due(d, s)
  BY FollowFrom
<1>5. CASE d.at = "size"
  <2>1. f.left \in Nat /\ f.data = d.data /\ f.at \in Places /\ f.at # "data"
    BY <1>1, <1>4, <1>5, FollowFrom, DueFrom, SymbolsDiffer DEF Places
  <2> QED BY <1>1, <1>3, <2>1 DEF Positions
<1>6. CASE d.at = "data"
  <2>1. f.left = d.left - 1 /\ f.data = Append(d.data, s) /\ f.at = IF d.left = 1 THEN "cr" ELSE "data"
    BY <1>4, <1>6, FollowFrom, DueFrom
  <2>2. f.left \in Nat /\ f.at \in Places /\ (f.at = "data" => f.left > 0)
    BY <1>1, <1>6, <2>1 DEF Places
  <2>3. f.data \in Strings
    BY <1>2, <2>1
  <2> QED BY <1>3, <2>2, <2>3 DEF Positions
<1>7. CASE d.at # "size" /\ d.at # "data"
  <2>1. f.left = d.left /\ f.data = d.data
    BY <1>7, FollowFrom
  <2>2. f.at \in Places /\ (f.at = "data" => d.at = "size lf" /\ d.left # 0)
    BY <1>1, <1>4, <1>7, DueFrom DEF Places
  <2>3. f.left \in Nat /\ f.data \in Strings
    BY <1>1, <2>1
  <2>4. ASSUME f.at = "data" PROVE f.left > 0
    <3>1. d.left # 0
      BY <2>2, <2>4
    <3>2. d.left > 0
      BY <1>1, <3>1
    <3> QED BY <2>1, <3>2
  <2> QED BY <1>3, <2>2, <2>3, <2>4 DEF Positions
<1> QED
  BY <1>5, <1>6, <1>7

LEMMA DecodingStep ==
  ASSUME NEW w \in Strings, NEW n \in Nat, n + 1 <= Len(w)
  PROVE  Decoding(w)[n + 1] = Follow(Decoding(w)[n], w[n + 1])
<1>1. n + 1 \in 1..Len(w) /\ n + 1 - 1 = n
  BY DEF Strings
<1> QED BY <1>1, DecodingEquation

LEMMA DecodingType ==
  ASSUME NEW w \in Strings
  PROVE  \A i \in 0..Len(w) : Decoding(w)[i] \in Positions
<1> DEFINE S == {i \in Nat : i <= Len(w) => Decoding(w)[i] \in Positions}
<1>1. Len(w) \in Nat /\ \A i \in 1..Len(w) : w[i] \in AnySymbol
  BY DEF Strings
<1>2. Start \in Positions
  BY DEF Start, Positions, Places, Strings
<1>3. 0 \in S
  BY <1>2, DecodingEquation
<1>4. ASSUME NEW n \in Nat, n \in S PROVE n + 1 \in S
  <2> SUFFICES ASSUME n + 1 <= Len(w) PROVE Decoding(w)[n + 1] \in Positions
    OBVIOUS
  <2>1. Decoding(w)[n] \in Positions /\ n + 1 \in 1..Len(w) /\ n + 1 - 1 = n
    BY <1>1, <1>4
  <2>2. Decoding(w)[n + 1] = Follow(Decoding(w)[n], w[n + 1])
    BY DecodingStep
  <2> QED BY <1>1, <2>1, <2>2, FollowType
<1> HIDE DEF S
<1>5. \A i \in Nat : i \in S
  BY <1>3, <1>4, Induction
<1> QED BY <1>1, <1>5 DEF S

LEMMA DecodedType == ASSUME NEW w \in Strings PROVE Decoded(w) \in Positions
<1>1. Len(w) \in 0..Len(w)
  BY DEF Strings
<1> QED BY <1>1, DecodingType DEF Decoded

(* What follows does not change what was decoded.                          *)
LEMMA DecodingPrefix ==
  ASSUME NEW w \in Strings, NEW u \in Strings, Len(w) <= Len(u),
         \A i \in 1..Len(w) : u[i] = w[i]
  PROVE  \A i \in 0..Len(w) : Decoding(u)[i] = Decoding(w)[i]
<1> DEFINE S == {i \in Nat : i <= Len(w) => Decoding(u)[i] = Decoding(w)[i]}
<1>1. Len(w) \in Nat /\ Len(u) \in Nat
  BY DEF Strings
<1>2. 0 \in S
  BY DecodingEquation
<1>3. ASSUME NEW n \in Nat, n \in S PROVE n + 1 \in S
  <2> SUFFICES ASSUME n + 1 <= Len(w) PROVE Decoding(u)[n + 1] = Decoding(w)[n + 1]
    OBVIOUS
  <2>1. n + 1 <= Len(u) /\ Decoding(u)[n] = Decoding(w)[n] /\ u[n + 1] = w[n + 1]
    BY <1>1, <1>3
  <2>2. Decoding(w)[n + 1] = Follow(Decoding(w)[n], w[n + 1])
    BY DecodingStep
  <2>3. Decoding(u)[n + 1] = Follow(Decoding(u)[n], u[n + 1])
    BY <2>1, DecodingStep
  <2> QED BY <2>1, <2>2, <2>3
<1> HIDE DEF S
<1>4. \A i \in Nat : i \in S
  BY <1>2, <1>3, Induction
<1> QED BY <1>1, <1>4 DEF S

LEMMA DecodedEmpty == Decoded(<<>>) = Start
<1>1. <<>> \in Strings /\ Len(<<>>) = 0
  BY DEF Strings
<1> QED BY <1>1, DecodingEquation DEF Decoded

LEMMA DecodedNext ==
  ASSUME NEW w \in Strings, NEW s \in AnySymbol
  PROVE  Decoded(w \o <<s>>) = Follow(Decoded(w), s)
<1> DEFINE u == w \o <<s>>
<1>1. /\ u \in Strings /\ Len(w) \in Nat /\ Len(u) = Len(w) + 1 /\ u[Len(w) + 1] = s
      /\ \A i \in 1..Len(w) : u[i] = w[i]
  BY DEF Strings
<1> HIDE DEF u
<1>2. Decoding(u)[Len(w)] = Decoding(w)[Len(w)]
  BY <1>1, DecodingPrefix
<1>3. Decoding(u)[Len(w) + 1] = Follow(Decoding(u)[Len(w)], u[Len(w) + 1])
  BY <1>1, DecodingStep
<1>4. Decoded(u) = Follow(Decoded(w), s)
  BY <1>1, <1>2, <1>3 DEF Decoded
<1> QED BY <1>4 DEF u

LEMMA Associative ==
  ASSUME NEW u \in Strings, NEW v \in Strings, NEW w \in Strings
  PROVE  (u \o v) \o w = u \o (v \o w)
BY ConcatAssociative DEF Strings

LEMMA Join ==
  ASSUME NEW u \in Strings, NEW v \in Strings
  PROVE  /\ u \o v \in Strings /\ Len(u \o v) = Len(u) + Len(v)
         /\ Len(u) \in Nat /\ Len(v) \in Nat
BY DEF Strings

(* One symbol more of a string.                                            *)
LEMMA OneMore ==
  ASSUME NEW w \in Strings, NEW v \in Strings, NEW n \in Nat, n + 1 <= Len(v)
  PROVE  /\ SubSeq(v, 1, n) \in Strings /\ w \o SubSeq(v, 1, n) \in Strings
         /\ v[n + 1] \in AnySymbol
         /\ SubSeq(v, 1, n + 1) = SubSeq(v, 1, n) \o <<v[n + 1]>>
         /\ w \o SubSeq(v, 1, n + 1) = (w \o SubSeq(v, 1, n)) \o <<v[n + 1]>>
<1>1. Len(v) \in Nat /\ n + 1 \in 1..Len(v) /\ \A i \in 1..n : v[i] \in AnySymbol
  BY DEF Strings
<1>2. v[n + 1] \in AnySymbol /\ <<v[n + 1]>> \in Strings
  BY <1>1 DEF Strings
<1>3. SubSeq(v, 1, n) \in Strings
  BY <1>1, SubSeqProperties DEF Strings
<1>4. SubSeq(v, 1, n + 1) = SubSeq(v, 1, n) \o <<v[n + 1]>>
  BY <1>1, SubSeqRecursiveSecond DEF Strings
<1>5. w \o SubSeq(v, 1, n) \in Strings
  BY <1>3 DEF Strings
<1>6. w \o SubSeq(v, 1, n + 1) = (w \o SubSeq(v, 1, n)) \o <<v[n + 1]>>
  BY <1>2, <1>3, <1>4, ConcatAssociative DEF Strings
<1> QED BY <1>2, <1>3, <1>4, <1>5, <1>6

LEMMA Whole ==
  ASSUME NEW w \in Strings
  PROVE  SubSeq(w, 1, Len(w)) = w /\ SubSeq(w, 1, 0) = <<>> /\ w \o <<>> = w /\ <<>> \o w = w
         /\ Len(w) \in Nat
BY SubSeqFull, SubSeqEmpty, ConcatEmptySeq DEF Strings

(* What follows only adds to the data, and nothing to a whole or bad body. *)
LEMMA DecodedGrows ==
  ASSUME NEW w \in Strings, NEW v \in Strings
  PROVE  /\ Decoded(w).at \in {"whole", "bad"} =>
              Decoded(w \o v).at = Decoded(w).at /\ Decoded(w \o v).data = Decoded(w).data
         /\ \E e \in Strings : Decoded(w \o v).data = Decoded(w).data \o e
<1> DEFINE d == Decoded(w)
           Extends(x) == /\ d.at \in {"whole", "bad"} => x.at = d.at /\ x.data = d.data
                         /\ \E e \in Strings : x.data = d.data \o e
           S == {i \in Nat : i <= Len(v) => Extends(Decoded(w \o SubSeq(v, 1, i)))}
<1>1. d \in Positions /\ d.data \in Strings
  BY DecodedType DEF Positions
<1> HIDE DEF d
<1>2. 0 \in S
  <2>1. w \o SubSeq(v, 1, 0) = w
    BY Whole
  <2>2. <<>> \in Strings /\ d.data \o <<>> = d.data
    BY <1>1, Whole DEF Strings
  <2>3. Extends(d)
    BY <2>2
  <2> QED BY <2>1, <2>3 DEF d
<1>3. ASSUME NEW n \in Nat, n \in S PROVE n + 1 \in S
  <2> SUFFICES ASSUME n + 1 <= Len(v) PROVE Extends(Decoded(w \o SubSeq(v, 1, n + 1)))
    OBVIOUS
  <2> DEFINE x == Decoded(w \o SubSeq(v, 1, n))
             s == v[n + 1]
  <2>1. Decoded(w \o SubSeq(v, 1, n + 1)) = Follow(x, s) /\ x \in Positions /\ s \in AnySymbol
    BY OneMore, DecodedNext, DecodedType
  <2>2. Extends(x)
    <3>1. n <= Len(v)
      BY Whole
    <3> QED BY <1>3, <3>1
  <2> HIDE DEF x, s
  <2>3. Extends(Follow(x, s))
    <3>1. d.at \in {"whole", "bad"} => Follow(x, s).at = d.at /\ Follow(x, s).data = d.data
      BY <2>2, FollowEnd
    <3>2. PICK e \in Strings : x.data = d.data \o e
      BY <2>2
    <3>3. e \o <<s>> \in Strings /\ Append(x.data, s) = d.data \o (e \o <<s>>)
      <4>1. <<s>> \in Strings /\ x.data \in Strings
        BY <2>1 DEF Strings, Positions
      <4>2. Append(x.data, s) = x.data \o <<s>>
        BY <2>1, <4>1, AppendIsConcat DEF Strings
      <4>3. (d.data \o e) \o <<s>> = d.data \o (e \o <<s>>)
        <5>1. \A a, b, c \in Strings : (a \o b) \o c = a \o (b \o c)
          BY Associative
        <5> QED BY <1>1, <4>1, <5>1, ZenonT(60)
      <4>4. e \o <<s>> \in Strings
        BY <4>1 DEF Strings
      <4> QED BY <3>2, <4>2, <4>3, <4>4
    <3>4. Follow(x, s).data \in {x.data, Append(x.data, s)}
      BY FollowFrom
    <3> QED BY <3>1, <3>2, <3>3, <3>4
  <2> QED BY <2>1, <2>3
<1> HIDE DEF S
<1>4. \A i \in Nat : i \in S
  BY <1>2, <1>3, Induction
<1>5. Extends(Decoded(w \o SubSeq(v, 1, Len(v))))
  <2>1. Len(v) \in S /\ Len(v) <= Len(v)
    BY <1>4, Whole
  <2> HIDE DEF Extends
  <2> QED BY <2>1 DEF S
<1> QED BY <1>5, Whole DEF d

(* The data of a chunk, in a piece of any size.                            *)
LEMMA DecodedData ==
  ASSUME NEW w \in Strings, NEW v \in Strings, Decoded(w).at = "data", Len(v) <= Decoded(w).left
  PROVE  LET d == Decoded(w) IN
         /\ Decoded(w \o v).at = IF Len(v) = d.left THEN "cr" ELSE "data"
         /\ Decoded(w \o v).left = d.left - Len(v)
         /\ Decoded(w \o v).data = d.data \o v
<1> DEFINE d == Decoded(w)
           Reaches(x, i) == /\ x.at = IF i = d.left THEN "cr" ELSE "data"
                            /\ x.left = d.left - i
                            /\ x.data = d.data \o SubSeq(v, 1, i)
           S == {i \in Nat : i <= Len(v) => Reaches(Decoded(w \o SubSeq(v, 1, i)), i)}
<1>1. d \in Positions /\ d.data \in Strings /\ d.left \in Nat /\ d.left > 0
  BY DecodedType DEF Positions
<1>2. d.at = "data" /\ Len(v) <= d.left /\ Len(v) \in Nat
  BY Whole
<1> HIDE DEF d
<1>3. 0 \in S
  <2>1. w \o SubSeq(v, 1, 0) = w
    BY Whole
  <2>2. d.data \o SubSeq(v, 1, 0) = d.data
    BY <1>1, Whole
  <2>3. Reaches(d, 0)
    BY <1>1, <1>2, <2>2
  <2> QED BY <2>1, <2>3 DEF d
<1>4. ASSUME NEW n \in Nat, n \in S PROVE n + 1 \in S
  <2> SUFFICES ASSUME n + 1 <= Len(v) PROVE Reaches(Decoded(w \o SubSeq(v, 1, n + 1)), n + 1)
    <3> HIDE DEF Reaches
    <3> QED OBVIOUS
  <2> DEFINE x == Decoded(w \o SubSeq(v, 1, n))
             s == v[n + 1]
  <2>1. Decoded(w \o SubSeq(v, 1, n + 1)) = Follow(x, s) /\ x \in Positions /\ s \in AnySymbol
    BY OneMore, DecodedNext, DecodedType
  <2>2. Reaches(x, n)
    <3>1. n <= Len(v)
      BY <1>2
    <3> HIDE DEF Reaches
    <3> QED BY <1>4, <3>1
  <2>3. d.data \o SubSeq(v, 1, n + 1) = (d.data \o SubSeq(v, 1, n)) \o <<s>>
    BY <1>1, OneMore
  <2>4. Append(x.data, s) = x.data \o <<s>>
    BY <2>1, AppendIsConcat DEF Strings, Positions
  <2> HIDE DEF x, s
  <2>5. n # d.left
    BY <1>1, <1>2
  <2>6. x.at = "data" /\ x.left = d.left - n
    BY <2>2, <2>5
  <2>7. /\ Follow(x, s).at = IF x.left = 1 THEN "cr" ELSE "data"
        /\ Follow(x, s).left = x.left - 1 /\ Follow(x, s).data = Append(x.data, s)
    BY <2>6, FollowData
  <2>8. /\ Follow(x, s).at = IF n + 1 = d.left THEN "cr" ELSE "data"
        /\ Follow(x, s).left = d.left - (n + 1)
    BY <1>1, <2>6, <2>7
  <2>9. Follow(x, s).data = d.data \o SubSeq(v, 1, n + 1)
    BY <2>2, <2>3, <2>4, <2>7
  <2> QED BY <2>1, <2>8, <2>9
<1> HIDE DEF S
<1>5. \A i \in Nat : i \in S
  BY <1>3, <1>4, Induction
<1>6. Reaches(Decoded(w \o SubSeq(v, 1, Len(v))), Len(v))
  <2>1. Len(v) \in S /\ Len(v) <= Len(v)
    BY <1>2, <1>5
  <2> HIDE DEF Reaches
  <2> QED BY <2>1 DEF S
<1> QED BY <1>6, Whole DEF d

(* One symbol more, place by place.                                        *)
LEMMA DecodedAfter ==
  ASSUME NEW w \in Strings, NEW s \in AnySymbol
  PROVE  LET d == Decoded(w)
             f == Decoded(w \o <<s>>)
         IN /\ f.at = Due(d, s)
            /\ d.at = "size" => f.left = IF IsSize(s) THEN SizeOf(s) ELSE d.left
            /\ d.at # "size" /\ d.at # "data" => f.left = d.left
            /\ d.at # "data" => f.data = d.data
<1> DEFINE d == Decoded(w)
           f == Decoded(w \o <<s>>)
<1>1. f = Follow(d, s)
  BY DecodedNext
<1> HIDE DEF d, f
<1>2. /\ f.at = Due(d, s)
      /\ d.at = "size" => f.left = IF IsSize(s) THEN SizeOf(s) ELSE d.left
      /\ d.at # "size" /\ d.at # "data" => f.left = d.left
      /\ d.at # "data" => f.data = d.data
  BY <1>1, FollowFrom
<1> QED BY <1>2 DEF d, f

LEMMA Pairs ==
  ASSUME NEW a, NEW b
  PROVE  <<a, b>> = <<a>> \o <<b>>
<1>1. Len(<<a, b>>) = Len(<<a>> \o <<b>>)
  OBVIOUS
<1>2. \A i \in 1..2 : <<a, b>>[i] = (<<a>> \o <<b>>)[i]
  OBVIOUS
<1>3. <<a, b>> \in Seq({a, b}) /\ <<a>> \o <<b>> \in Seq({a, b})
  OBVIOUS
<1> QED BY <1>1, <1>2, <1>3, SeqEqual

(* The frame of a chunk, one part after the other.                         *)
LEMMA ChunkParts ==
  ASSUME NEW w \in Strings, NEW d \in Strings
  PROVE  /\ HttpChunk(d) \in Strings /\ HttpChunk(d) # <<>>
         /\ w \o HttpChunk(d) =
              ((((w \o <<SizeText(Len(d))>>) \o CRLF) \o d) \o CRLF)
<1> DEFINE x == <<SizeText(Len(d))>>
<1>1. x \in Strings /\ x # <<>> /\ CRLF \in Strings
  BY Whole, SymbolsDiffer DEF Strings, CRLF
<1>3. HttpChunk(d) = ((x \o CRLF) \o d) \o CRLF
  BY DEF HttpChunk
<1> HIDE DEF x
<1>2. x \o CRLF \in Strings /\ (x \o CRLF) \o d \in Strings
  BY <1>1 DEF Strings
<1>4. HttpChunk(d) \in Strings
  BY <1>1, <1>2, <1>3 DEF Strings
<1>5. HttpChunk(d) # <<>>
  BY <1>1, <1>2, <1>3, ConcatEqualIffEmpty DEF Strings
<1>6. w \o HttpChunk(d) = ((((w \o x) \o CRLF) \o d) \o CRLF)
  <2>1. w \o (x \o CRLF) = (w \o x) \o CRLF
    BY <1>1, Associative
  <2>2. \A p \in Strings : w \o (p \o d) = (w \o p) \o d
    BY Associative
  <2>3. \A p \in Strings : w \o (p \o CRLF) = (w \o p) \o CRLF
    BY <1>1, Associative
  <2> QED BY <1>2, <1>3, <2>1, <2>2, <2>3
<1> QED BY <1>4, <1>5, <1>6 DEF x

(* A line end where one is due.                                            *)
LEMMA DecodedCrlf ==
  ASSUME NEW w \in Strings
  PROVE  LET d == Decoded(w)
             f == Decoded(w \o CRLF)
         IN /\ w \o CRLF \in Strings
            /\ d.at \in {"size cr", "cr", "trailer"} => f.data = d.data /\ f.left = d.left
            /\ d.at = "size cr" => f.at = IF d.left = 0 THEN "trailer" ELSE "data"
            /\ d.at = "cr" => f.at = "size"
            /\ d.at = "trailer" => f.at = "whole"
<1> DEFINE v == w \o <<CR>>
           d == Decoded(w)
           c == Decoded(v)
           f == Decoded(v \o <<LF>>)
<1>1. CR \in AnySymbol /\ LF \in AnySymbol
  BY SymbolsDiffer
<1>2. <<CR>> \in Strings /\ <<LF>> \in Strings /\ v \in Strings /\ v \o <<LF>> \in Strings
  BY <1>1 DEF Strings
<1>3. w \o CRLF = v \o <<LF>>
  <2>1. CRLF = <<CR>> \o <<LF>>
    BY Pairs DEF CRLF
  <2>2. \A x, y \in Strings : w \o (x \o y) = (w \o x) \o y
    BY Associative
  <2> QED BY <1>2, <2>1, <2>2
<1>4. /\ c.at = Due(d, CR)
      /\ d.at # "size" /\ d.at # "data" => c.left = d.left
      /\ d.at # "data" => c.data = d.data
  BY <1>1, DecodedAfter
<1> HIDE DEF v
<1>5. /\ f.at = Due(c, LF)
      /\ c.at # "size" /\ c.at # "data" => f.left = c.left
      /\ c.at # "data" => f.data = c.data
  BY <1>1, <1>2, DecodedAfter
<1> HIDE DEF d, c, f
<1>6. CR # Other
  BY SymbolsDiffer
<1>7. /\ d.at = "size cr" => c.at = "size lf"
      /\ d.at = "cr" => c.at = "lf"
      /\ d.at = "trailer" => c.at = "last lf"
  BY <1>4, <1>6, DueFrom
<1>8. /\ c.at = "size lf" => f.at = IF c.left = 0 THEN "trailer" ELSE "data"
      /\ c.at = "lf" => f.at = "size"
      /\ c.at = "last lf" => f.at = "whole"
  BY <1>5, DueFrom
<1>9. /\ d.at \in {"size cr", "cr", "trailer"} => f.data = d.data /\ f.left = d.left
      /\ d.at = "size cr" => f.at = IF d.left = 0 THEN "trailer" ELSE "data"
      /\ d.at = "cr" => f.at = "size"
      /\ d.at = "trailer" => f.at = "whole"
  BY <1>4, <1>5, <1>7, <1>8
<1> QED BY <1>2, <1>3, <1>9 DEF d, f

(* A chunk written where one is due adds its data; the one without is the  *)
(* end.                                                                    *)
LEMMA DecodedChunk ==
  ASSUME NEW w \in Strings, NEW d \in Strings, Decoded(w).at = "size"
  PROVE  /\ Decoded(w \o HttpChunk(d)).at = IF d = <<>> THEN "whole" ELSE "size"
         /\ Decoded(w \o HttpChunk(d)).data = Decoded(w).data \o d
<1> DEFINE s == SizeText(Len(d))
           w1 == w \o <<s>>
           w2 == w1 \o CRLF
           w3 == w2 \o d
           w4 == w3 \o CRLF
           base == Decoded(w).data
<1>1. Len(d) \in Nat /\ s \in AnySymbol /\ base \in Strings /\ IsSize(s) /\ SizeOf(s) = Len(d)
  BY Whole, SymbolsDiffer, DecodedType DEF Positions
<1>5. w \o HttpChunk(d) = w4
  BY ChunkParts
<1> HIDE DEF s
<1>2. w1 \in Strings /\ w2 \in Strings /\ w3 \in Strings
  <2>1. <<s>> \in Strings /\ CRLF \in Strings
    BY <1>1, SymbolsDiffer DEF Strings, CRLF
  <2> QED BY <2>1 DEF Strings
<1>3. Decoded(w1).at = "size cr" /\ Decoded(w1).left = Len(d) /\ Decoded(w1).data = base
  <2>1. Due(Decoded(w), s) = "size cr"
    BY <1>1, DueFrom
  <2> QED BY <1>1, <2>1, DecodedAfter
<1> HIDE DEF w1
<1>4. /\ Decoded(w2).at = IF Len(d) = 0 THEN "trailer" ELSE "data"
      /\ Decoded(w2).left = Len(d) /\ Decoded(w2).data = base
  <2>1. \A v \in Strings : Decoded(v).at = "size cr" =>
               /\ Decoded(v \o CRLF).data = Decoded(v).data
               /\ Decoded(v \o CRLF).left = Decoded(v).left
               /\ Decoded(v \o CRLF).at = IF Decoded(v).left = 0 THEN "trailer" ELSE "data"
    BY DecodedCrlf
  <2> QED BY <1>2, <1>3, <2>1
<1> HIDE DEF w2
<1>6. CASE d = <<>>
  <2>1. w3 = w2 /\ Len(d) = 0 /\ base \o d = base
    BY <1>1, <1>2, <1>6, Whole
  <2>2. Decoded(w2).at = "trailer"
    BY <1>4, <2>1
  <2>3. Decoded(w2 \o CRLF).at = "whole" /\ Decoded(w2 \o CRLF).data = base
    BY <1>2, <1>4, <2>2, DecodedCrlf
  <2> QED BY <1>5, <1>6, <2>1, <2>3
<1>7. CASE d # <<>>
  <2>1. Len(d) # 0
    BY <1>7 DEF Strings
  <2>2. Decoded(w2).at = "data" /\ Len(d) <= Decoded(w2).left
    BY <1>1, <1>4, <2>1
  <2>3. Decoded(w3).at = "cr" /\ Decoded(w3).data = base \o d
    <3>1. \A v \in Strings : Decoded(v).at = "data" /\ Len(d) <= Decoded(v).left =>
                 /\ Decoded(v \o d).at = IF Len(d) = Decoded(v).left THEN "cr" ELSE "data"
                 /\ Decoded(v \o d).data = Decoded(v).data \o d
      BY DecodedData
    <3> QED BY <1>2, <1>4, <2>2, <3>1
  <2> HIDE DEF w3
  <2>4. Decoded(w4).at = "size" /\ Decoded(w4).data = base \o d
    BY <1>2, <2>3, DecodedCrlf
  <2> QED BY <1>5, <1>7, <2>4
<1> QED BY <1>6, <1>7

----------------------------------------------------------------------------
(* The inductive invariant                                                 *)

(* What the reader has taken, where a body is after it, and its data.      *)
Read == SubSeq(heard, 1, used)
Position == Decoded(Read)
ReadBody == IF chunked THEN Position.data ELSE Read

(* What is written or will be: what the printer has if nothing fails.      *)
Under == out \o pending
Started == Under # <<>>
Payload == IF OutgoingChunked THEN Decoded(Under).data ELSE Under

(* The part of a line that is read: a text, CR, LF, or a CR that must be   *)
(* followed by LF.                                                         *)
LineOK ==
  /\ Len(line) >= 2 => line[2] = IF line[1] = CR THEN LF ELSE CR
  /\ Len(line) >= 3 => line[1] # CR /\ line[3] = LF
  /\ crlf_pending => Len(line) <= 1
  /\ ~crlf_pending /\ line # <<>> => line[1] # LF
  /\ remaining > 0 => line = <<>> /\ ~crlf_pending

(* The calls of ipp_http_request_read, and what each phase has left alone. *)
Calls ==
  /\ phase \notin {"receive", "drain", "peek", "copy"} => call = 0
  /\ call = 0 /\ phase # "failed" => result = Nothing
  /\ phase = "copy" => call > 0 /\ pending = <<>>
  /\ phase \in {"receive", "drain", "peek"} => Len(prefix) + call <= capacity
  /\ result.data # <<>> <=> result.kind = "data"
  /\ result.kind = "done" => done
  /\ done => result.data = <<>>
  /\ phase \in {"head", "headers", "receive"} => out = <<>> /\ pending = <<>>
  /\ phase \in {"head", "headers"} =>
       /\ used = 0 /\ ~chunked /\ content_length = 0 /\ ~done /\ prefix = <<>>
       /\ remaining = 0 /\ ~crlf_pending /\ line = <<>> /\ trailers = -1
  /\ phase = "relayed" => pending = <<>>

AtData ==
  /\ Position.at = "data" /\ Position.left = remaining
  /\ trailers = -1

AtCrlf ==
  /\ trailers = -1
  /\ Position.at = IF Len(line) = 0 THEN "cr" ELSE IF line[1] = CR THEN "lf" ELSE "bad"

(* n symbols of a line are read, and x is the first of them.               *)
SizeAt(n, x, d) ==
  /\ n = 0 => d.at = "size"
  /\ n > 0 /\ ~IsSize(x) => d.at = "bad"
  /\ n > 0 /\ IsSize(x) => d.left = SizeOf(x)
  /\ n = 1 /\ IsSize(x) => d.at = "size cr"
  /\ n = 2 /\ IsSize(x) => d.at = "size lf"
  /\ n = 3 /\ IsSize(x) => d.at = IF d.left = 0 THEN "trailer" ELSE "data"

TrailerAt(n, x, d) ==
  /\ n = 0 => d.at = "trailer"
  /\ n > 0 /\ x # CR /\ x # Other => d.at = "bad"
  /\ n = 1 /\ x = CR => d.at = "last lf"
  /\ n = 2 /\ x = CR => d.at = "whole"
  /\ n = 1 /\ x = Other => d.at = "trailer cr"
  /\ n = 2 /\ x = Other => d.at = "trailer lf"
  /\ n = 3 /\ x = Other => d.at = "trailer"

AtSize == SizeAt(Len(line), line[1], Position)
AtTrailer == TrailerAt(Len(line), line[1], Position)

(* Where the reader takes the body to be.                                  *)
At ==
  /\ remaining > 0 => AtData
  /\ remaining = 0 /\ crlf_pending => AtCrlf
  /\ remaining = 0 /\ ~crlf_pending /\ trailers = -1 => AtSize
  /\ remaining = 0 /\ ~crlf_pending /\ trailers >= 0 => AtTrailer

(* The reader of the client's body is where the body is.                   *)
Sync ==
  /\ result.kind = "malformed" => chunked /\ Position.at = "bad"
  /\ chunked /\ done => Position.at = "whole"
  /\ chunked /\ ~done /\ result.kind \in {"none", "data", "done"} => At
  /\ ~chunked => used + remaining = content_length

(* Nothing is lost, doubled or reordered between the reader and the        *)
(* printer.                                                                *)
ChunksFlow ==
  /\ phase \in {"write", "copy"} => Decoded(Under).at = "size"
  /\ phase \in {"close", "relayed"} => Decoded(Under).at = "whole"
  /\ Decoded(Under).at \in {"size", "whole"}
  /\ Decoded(Under).at = "whole" => Position.at = "whole" /\ result.data = <<>>

LengthFlows ==
  /\ phase # "close"
  /\ Len(Under) + to_copy = OutgoingLength
  /\ phase = "relayed" => to_copy = 0
  /\ chunked => done /\ to_copy = 0
  /\ ~chunked => to_copy = remaining + Len(result.data)

Flow ==
  /\ phase \in {"write", "copy", "close", "relayed"} => Started
  /\ phase \in {"plan", "drain", "peek"} => ~Started
  /\ ~Started => ReadBody = prefix \o result.data
  /\ phase \in {"plan", "drain", "peek"} => Len(prefix) >= AttributesLength
  /\ phase = "plan" /\ chunked /\ op = "other" => done
  /\ phase = "peek" => op # "other"
  /\ Started =>
       /\ Len(ReadBody) >= AttributesLength
       /\ Payload \o result.data = Outgoing(ReadBody)
       /\ OutgoingChunked => ChunksFlow
       /\ ~OutgoingChunked => LengthFlows

Inv == RelayTypeOK /\ LineOK /\ Calls /\ Sync /\ Flow

----------------------------------------------------------------------------
(* What a read adds                                                        *)
LEMMA Constants ==
  /\ BufferSize \in Nat /\ StreamChunk \in Nat /\ PrefixMax \in Nat
  /\ AttributesLength \in Nat /\ RewrittenLength \in Nat
  /\ BufferSize > 0 /\ StreamChunk > 0 /\ PrefixMax > 0
  /\ AttributesLength > 0 /\ RewrittenLength > 0
  /\ TrailersMax \in Nat /\ MaxLength \in Nat /\ MaxHeard \in Nat
BY RelayAssumption

LEMMA Leasts ==
  ASSUME NEW m \in Int, NEW n \in Int
  PROVE  Least(m, n) \in Int /\ Least(m, n) <= m /\ Least(m, n) <= n /\ Least(m, n) \in {m, n}
BY DEF Least

LEMMA Cut ==
  ASSUME NEW w \in Strings, NEW m \in Nat, NEW n \in Nat, m <= n, n <= Len(w)
  PROVE  /\ SubSeq(w, 1, m) \in Strings /\ Len(SubSeq(w, 1, m)) = m
         /\ SubSeq(w, m + 1, n) \in Strings /\ Len(SubSeq(w, m + 1, n)) = n - m
         /\ SubSeq(w, 1, m) \o SubSeq(w, m + 1, n) = SubSeq(w, 1, n)
<1>1. Len(w) \in Nat /\ w \in Seq(AnySymbol)
  BY DEF Strings
<1> DEFINE a == SubSeq(w, 1, m)
           b == SubSeq(w, m + 1, n)
           c == SubSeq(w, 1, n)
<1>2. a \in Strings /\ Len(a) = m /\ \A i \in 1..m : a[i] = w[i]
  BY <1>1, SubSeqProperties DEF Strings
<1>3. b \in Strings /\ Len(b) = n - m /\ \A i \in 1..(n - m) : b[i] = w[m + i]
  BY <1>1, SubSeqProperties DEF Strings
<1>4. c \in Strings /\ Len(c) = n /\ \A i \in 1..n : c[i] = w[i]
  BY <1>1, SubSeqProperties DEF Strings
<1> HIDE DEF a, b, c
<1>5. a \o b \in Strings /\ Len(a \o b) = n
  <2>1. a \o b \in Strings /\ Len(a \o b) = Len(a) + Len(b)
    BY <1>2, <1>3, Join
  <2>2. Len(a) = m /\ Len(b) = n - m
    BY <1>2, <1>3
  <2> QED BY <2>1, <2>2
<1>6. \A i \in 1..n : (a \o b)[i] = w[i]
  <2> SUFFICES ASSUME NEW i \in 1..n PROVE (a \o b)[i] = w[i]
    OBVIOUS
  <2>1. CASE i <= m
    BY <1>2, <1>3, <2>1 DEF Strings
  <2>2. CASE i > m
    BY <1>2, <1>3, <2>2 DEF Strings
  <2>3. i <= m \/ i > m
    OBVIOUS
  <2> QED BY <2>1, <2>2, <2>3, Zenon
<1>7. a \o b = c
  BY <1>4, <1>5, <1>6, SeqEqual DEF Strings
<1> QED BY <1>2, <1>3, <1>7 DEF a, b, c

LEMMA ReceivedReads ==
  ASSUME RelayTypeOK, NEW wanted \in Nat \ {0}, NEW symbols, symbols \subseteq AnySymbol,
         NEW data \in Received(wanted, symbols), Take(data)
  PROVE  /\ data \in Strings /\ Len(data) \in 1..wanted
         /\ heard' \in Strings /\ used' \in 0..Len(heard') /\ used' = used + Len(data)
         /\ Read \in Strings /\ Len(Read) = used
         /\ Read' = Read \o data
         /\ heard' # heard => used = Len(heard)
<1>1. heard \in Strings /\ Len(heard) \in Nat /\ used \in Nat /\ used <= Len(heard)
  BY DEF RelayTypeOK, Strings
<1>2. Read \in Strings /\ Len(Read) = used
  BY <1>1, Cut DEF Read
<1>3. CASE used < Len(heard)
  <2> DEFINE e == Least(used + wanted, Len(heard))
  <2>1. data = SubSeq(heard, used + 1, e)
    BY <1>3 DEF Received
  <2>2. e \in Nat /\ used + 1 <= e /\ e <= used + wanted /\ e <= Len(heard)
    BY <1>1, <1>3 DEF Least
  <2> HIDE DEF e
  <2>3. data \in Strings /\ Len(data) = e - used /\ Read \o data = SubSeq(heard, 1, e)
    <3>1. \A i \in Nat : used <= i /\ i <= Len(heard) =>
            /\ SubSeq(heard, used + 1, i) \in Strings
            /\ Len(SubSeq(heard, used + 1, i)) = i - used
            /\ SubSeq(heard, 1, used) \o SubSeq(heard, used + 1, i) = SubSeq(heard, 1, i)
      BY <1>1, Cut
    <3>2. used <= e
      BY <1>1, <2>2
    <3> QED BY <2>1, <2>2, <3>1, <3>2 DEF Read
  <2>4. heard' = heard /\ used' = e
    BY <1>1, <1>3, <2>2, <2>3 DEF Take
  <2>5. Read' = Read \o data
    BY <2>3, <2>4 DEF Read
  <2> QED BY <1>1, <1>2, <2>2, <2>3, <2>4, <2>5
<1>4. CASE used = Len(heard)
  <2>1. PICK k \in 1..Least(wanted, MaxHeard - Len(heard)) : data \in [1..k -> symbols]
    BY <1>1, <1>4 DEF Received
  <2>2. k \in Nat /\ k >= 1 /\ k <= wanted
    BY <1>1, <2>1, Constants DEF Least
  <2>3. data \in Strings /\ Len(data) = k
    BY <2>1, <2>2 DEF Strings
  <2>4. heard' = heard \o data /\ used' = used + k
    BY <1>1, <1>4, <2>3 DEF Take
  <2>5. heard' \in Strings /\ Len(heard') = used'
    BY <1>1, <1>4, <2>2, <2>3, <2>4, Join
  <2>6. Read = heard /\ Read' = heard'
    BY <1>1, <1>4, <2>5, Whole DEF Read
  <2> QED BY <1>1, <1>2, <1>4, <2>2, <2>3, <2>4, <2>5, <2>6
<1> QED BY <1>1, <1>3, <1>4

(* The line that is read                                                   *)
LEMMA LineParts ==
  ASSUME RelayTypeOK, LineOK
  PROVE  /\ Len(line) \in Nat /\ Len(line) <= 3 /\ (Len(line) = 0 <=> line = <<>>)
         /\ Len(line) > 0 => line[1] \in AnySymbol /\ Last(line) = line[Len(line)]
         /\ LineRead <=> Len(line) = 3 \/ (Len(line) = 2 /\ line[1] = CR)
         /\ Len(line) = 2 => Text = <<>>
         /\ Len(line) = 3 => /\ Text # <<>> /\ Text[1] = line[1] /\ Len(Text) = 1
                             /\ ToSet(Text) = {line[1]}
<1>1. line \in Seq(AnySymbol) /\ Len(line) \in Nat /\ Len(line) <= 3
  BY Whole DEF RelayTypeOK, Strings, LineSize
<1>2. Len(line) = 0 <=> line = <<>>
  BY <1>1
<1>3. Len(line) > 0 => line[1] \in AnySymbol /\ Last(line) = line[Len(line)]
  BY <1>1 DEF Last
<1>4. CR # LF
  BY SymbolsDiffer
<1>5. \A a, b : <<a, b>> = CRLF <=> a = CR /\ b = LF
  BY DEF CRLF
<1>6. ASSUME Len(line) >= 2
      PROVE  SubSeq(line, Len(line) - 1, Len(line)) = <<line[Len(line) - 1], line[Len(line)]>>
  <2>1. Len(line) - 1 \in 1..Len(line) /\ Len(line) \in 1..Len(line)
    BY <1>1, <1>6
  <2> DEFINE a == SubSeq(line, Len(line) - 1, Len(line))
             b == <<line[Len(line) - 1], line[Len(line)]>>
  <2>2. a \in Seq(AnySymbol) /\ Len(a) = 2 /\ a[1] = line[Len(line) - 1] /\ a[2] = line[Len(line)]
    BY <1>1, <1>6
  <2>3. b \in Seq(AnySymbol) /\ Len(b) = 2 /\ b[1] = line[Len(line) - 1] /\ b[2] = line[Len(line)]
    BY <1>1, <2>1
  <2> HIDE DEF a, b
  <2>4. \A i \in 1..2 : a[i] = b[i]
    BY <2>2, <2>3
  <2>5. a = b
    BY <2>2, <2>3, <2>4, SeqEqual
  <2> QED BY <2>5 DEF a, b
<1>7. LineRead <=> Len(line) >= 2 /\ line[Len(line) - 1] = CR /\ line[Len(line)] = LF
  BY <1>5, <1>6 DEF LineRead
<1>8. LineRead <=> Len(line) = 3 \/ (Len(line) = 2 /\ line[1] = CR)
  <2>1. CASE Len(line) <= 1
    BY <1>1, <2>1 DEF LineRead
  <2>2. CASE Len(line) = 2
    BY <1>4, <1>7, <2>2 DEF LineOK
  <2>3. CASE Len(line) = 3
    BY <1>4, <1>7, <2>3 DEF LineOK
  <2>4. \A n \in Nat : n <= 3 => n <= 1 \/ n = 2 \/ n = 3
    OBVIOUS
  <2>5. Len(line) <= 1 \/ Len(line) = 2 \/ Len(line) = 3
    BY <1>1, <2>4, Zenon
  <2> QED BY <2>1, <2>2, <2>3, <2>5, Zenon
<1>9. Len(line) = 2 => Text = <<>>
  BY <1>1, Whole DEF Text, Strings
<1>10. ASSUME Len(line) = 3
       PROVE  /\ Text # <<>> /\ Text[1] = line[1] /\ Len(Text) = 1
              /\ ToSet(Text) = {line[1]}
  <2>1. Text \in Seq(AnySymbol) /\ Len(Text) = 1 /\ Text[1] = line[1]
    BY <1>1, <1>10 DEF Text
  <2> HIDE DEF Text
  <2>2. DOMAIN Text = {1}
    BY <2>1
  <2> QED BY <2>1, <2>2 DEF ToSet
<1> QED BY <1>1, <1>2, <1>3, <1>8, <1>9, <1>10

LEMMA LineContinues ==
  ASSUME RelayTypeOK, LineOK, NEW s \in AnySymbol
  PROVE  /\ Len(line) = 0 => (LineGoesOn(s) <=> s # LF)
         /\ Len(line) = 1 => (LineGoesOn(s) <=> s = IF line[1] = CR THEN LF ELSE CR)
         /\ Len(line) = 2 /\ line[1] # CR => (LineGoesOn(s) <=> s = LF)
<1>1. /\ Len(line) \in Nat /\ Len(line) <= 3 /\ (Len(line) = 0 <=> line = <<>>)
      /\ Len(line) > 0 => Last(line) = line[Len(line)]
  BY LineParts
<1>2. CR # LF
  BY SymbolsDiffer
<1>3. CASE Len(line) = 0
  BY <1>1, <1>2, <1>3 DEF LineGoesOn, LineSize
<1>4. CASE Len(line) = 1
  BY <1>1, <1>2, <1>4 DEF LineGoesOn, LineSize
<1>5. CASE Len(line) = 2
  BY <1>1, <1>2, <1>5 DEF LineGoesOn, LineSize, LineOK
<1> QED BY <1>3, <1>4, <1>5

----------------------------------------------------------------------------
(* The rewritten request                                                   *)
LEMMA OutgoingType ==
  ASSUME NEW b \in Strings
  PROVE  /\ Outgoing(b) \in Strings /\ Outgoing(b) # <<>> /\ Rewritten \in Strings
         /\ SubSeq(b, AttributesLength + 1, Len(b)) \in Strings
<1>1. Other \in AnySymbol
  BY SymbolsDiffer
<1>2. Rewritten \in Strings /\ Len(Rewritten) = RewrittenLength
  BY <1>1, Constants DEF Rewritten, Strings
<1>3. SubSeq(b, AttributesLength + 1, Len(b)) \in Strings
  BY Constants, SubSeqProperties DEF Strings
<1>4. /\ Outgoing(b) \in Strings
      /\ Len(Outgoing(b)) = RewrittenLength + Len(SubSeq(b, AttributesLength + 1, Len(b)))
      /\ Len(SubSeq(b, AttributesLength + 1, Len(b))) \in Nat
  BY <1>2, <1>3, Join DEF Outgoing
<1>5. Len(Outgoing(b)) # 0
  BY <1>4, Constants
<1>6. Outgoing(b) # <<>>
  BY <1>5
<1> QED BY <1>2, <1>3, <1>4, <1>6

LEMMA RestGrows ==
  ASSUME NEW b \in Strings, NEW x \in Strings, NEW k \in Nat, k <= Len(b)
  PROVE  SubSeq(b \o x, k + 1, Len(b \o x)) = SubSeq(b, k + 1, Len(b)) \o x
<1> DEFINE c == b \o x
           r == SubSeq(b, k + 1, Len(b))
           q == SubSeq(c, k + 1, Len(c))
<1>1. c \in Strings /\ Len(c) = Len(b) + Len(x) /\ Len(b) \in Nat /\ Len(x) \in Nat
  BY Join
<1>2. \A i \in 1..Len(c) : c[i] = IF i <= Len(b) THEN b[i] ELSE x[i - Len(b)]
  BY <1>1 DEF Strings
<1>3. r \in Strings /\ Len(r) = Len(b) - k /\ \A i \in 1..(Len(b) - k) : r[i] = b[k + i]
  BY <1>1, SubSeqProperties DEF Strings
<1> HIDE DEF c
<1>4. q \in Strings /\ Len(q) = Len(c) - k /\ \A i \in 1..(Len(c) - k) : q[i] = c[k + i]
  BY <1>1, SubSeqProperties DEF Strings
<1> HIDE DEF r, q
<1>5. r \o x \in Strings /\ Len(r \o x) = Len(q)
  <2>1. r \o x \in Strings /\ Len(r \o x) = Len(r) + Len(x)
    BY <1>3, Join
  <2>2. Len(r) = Len(b) - k /\ Len(q) = Len(c) - k
    BY <1>3, <1>4
  <2> QED BY <1>1, <2>1, <2>2
<1>6. \A i \in 1..Len(q) : q[i] = (r \o x)[i]
  <2> SUFFICES ASSUME NEW i \in 1..Len(q) PROVE q[i] = (r \o x)[i]
    OBVIOUS
  <2>1. Len(q) = Len(b) + Len(x) - k /\ i \in Nat /\ i >= 1 /\ i <= Len(b) + Len(x) - k
    BY <1>1, <1>4
  <2>2. q[i] = c[k + i] /\ k + i \in 1..Len(c)
    BY <1>1, <1>4, <2>1
  <2>3. CASE k + i <= Len(b)
    <3>1. q[i] = b[k + i]
      BY <1>2, <2>2, <2>3
    <3>2. i \in 1..(Len(b) - k)
      BY <1>1, <2>1, <2>3
    <3>3. (r \o x)[i] = r[i]
      BY <1>3, <3>2 DEF Strings
    <3> QED BY <1>3, <3>1, <3>2, <3>3
  <2>4. CASE ~(k + i <= Len(b))
    <3>1. q[i] = x[k + i - Len(b)]
      BY <1>2, <2>2, <2>4
    <3>2. Len(r) = Len(b) - k /\ i > Len(r) /\ i <= Len(r) + Len(x) /\ i - Len(r) = k + i - Len(b)
      BY <1>1, <1>3, <2>1, <2>4
    <3>3. (r \o x)[i] = x[i - Len(r)]
      BY <1>3, <2>1, <3>2 DEF Strings
    <3> QED BY <3>1, <3>2, <3>3
  <2> QED BY <2>3, <2>4
<1>7. q = r \o x
  BY <1>4, <1>5, <1>6, SeqEqual DEF Strings
<1> QED BY <1>7 DEF q, c, r

LEMMA OutgoingGrows ==
  ASSUME NEW b \in Strings, NEW x \in Strings, Len(b) >= AttributesLength
  PROVE  Outgoing(b \o x) = Outgoing(b) \o x
<1> DEFINE r == SubSeq(b, AttributesLength + 1, Len(b))
<1>1. SubSeq(b \o x, AttributesLength + 1, Len(b \o x)) = r \o x
  BY Constants, RestGrows
<1>2. Rewritten \in Strings /\ r \in Strings
  BY OutgoingType
<1> HIDE DEF r
<1>3. (Rewritten \o r) \o x = Rewritten \o (r \o x)
  BY <1>2, Associative, ZenonT(60)
<1>4. Outgoing(b) = Rewritten \o r
  BY DEF Outgoing, r
<1>5. Outgoing(b \o x) = Rewritten \o (r \o x)
  BY <1>1 DEF Outgoing
<1> QED BY <1>3, <1>4, <1>5

----------------------------------------------------------------------------
(* The first state, and what a state of the invariant has                  *)
LEMMA ReadTypes ==
  ASSUME RelayTypeOK
  PROVE  /\ Read \in Strings /\ Len(Read) = used /\ Position \in Positions
         /\ Position.data \in Strings /\ Position.left \in Nat /\ Position.at \in Places
         /\ ReadBody \in Strings /\ Under \in Strings /\ used \in Nat /\ Len(heard) \in Nat
<1>1. heard \in Strings /\ Len(heard) \in Nat /\ used \in Nat /\ used <= Len(heard)
      /\ out \in Strings /\ pending \in Strings
  BY DEF RelayTypeOK, Strings
<1>2. Read \in Strings /\ Len(Read) = used
  BY <1>1, Cut DEF Read
<1>3. Position \in Positions
  BY <1>2, DecodedType DEF Position
<1>4. Position.data \in Strings /\ Position.left \in Nat /\ Position.at \in Places
  BY <1>3 DEF Positions
<1>5. ReadBody \in Strings
  BY <1>2, <1>4 DEF ReadBody
<1>6. Under \in Strings
  BY <1>1, Join DEF Under
<1> QED BY <1>1, <1>2, <1>3, <1>4, <1>5, <1>6

LEMMA InitInv == Init => Inv
<1> SUFFICES ASSUME Init PROVE Inv
  OBVIOUS
<1>1. <<>> \in Strings /\ Len(<<>>) = 0 /\ <<>> \o <<>> = <<>>
  BY Whole DEF Strings
<1>2. result.kind = "none" /\ result.data = <<>>
  BY DEF Init, Nothing
<1>3. RelayTypeOK
  <2>1. /\ 0 \in 0..BufferSize /\ 0 \in 0..MaxLength /\ -1 \in -1..TrailersMax
        /\ 0 \in 0..(StreamChunk + PrefixMax) /\ 0 \in 0..PrefixMax /\ 0 \in 0..0
    BY Constants
  <2>2. heard = <<>> /\ used \in 0..Len(heard) /\ Len(line) <= LineSize + 1
    BY <1>1, <2>1 DEF Init, LineSize
  <2>3. Len(result.data) <= call /\ Len(prefix) <= capacity
    BY <1>1, <1>2 DEF Init
  <2> QED BY <1>1, <1>2, <2>1, <2>2, <2>3 DEF Init, RelayTypeOK
<1>4. LineOK
  BY <1>1 DEF Init, LineOK
<1>5. Calls
  BY <1>1, <1>2, Constants DEF Init, Calls
<1>6. Sync
  BY <1>2 DEF Init, Sync
<1>7. Read = <<>>
  BY <1>1, Whole DEF Init, Read
<1>8. Flow
  BY <1>1, <1>2, <1>7 DEF Init, Flow, Started, Under, ReadBody
<1> QED BY <1>3, <1>4, <1>5, <1>6, <1>8 DEF Inv

(* What no step of the reader touches.                                     *)
LEMMA ReaderStep ==
  ASSUME Inv, Reading, UNCHANGED Unread,
         heard' \in Strings, used' \in 0..Len(heard'), done' \in BOOLEAN,
         remaining' \in Nat, crlf_pending' \in BOOLEAN, line' \in Strings,
         Len(line') <= 3, trailers' \in -1..TrailersMax,
         result'.kind \in {"none", "data", "done", "io", "malformed", "large"},
         result'.data \in Strings, Len(result'.data) <= call,
         result'.data # <<>> <=> result'.kind = "data",
         result'.kind = "done" => done', done' => result'.data = <<>>, done => done',
         ReadBody' = ReadBody \o result'.data,
         ~chunked => remaining = remaining' + Len(result'.data)
  PROVE  RelayTypeOK' /\ Calls' /\ Flow'
<1>1. /\ phase' = phase /\ header_end' = header_end /\ chunked' = chunked
      /\ content_length' = content_length /\ call' = call /\ prefix' = prefix
      /\ capacity' = capacity /\ op' = op /\ to_copy' = to_copy /\ pending' = pending
      /\ out' = out
  BY DEF Unread, framing, worker, writer
<1>2. RelayTypeOK /\ Calls /\ Flow
  BY DEF Inv
<1>3. result.kind = "none" /\ result.data = <<>> /\ call > 0
  BY DEF Reading, Nothing
<1>4. RelayTypeOK'
  BY <1>1, <1>2 DEF RelayTypeOK, LineSize
<1>5. call \in Nat /\ phase \in {"receive", "drain", "peek", "copy"}
  BY <1>2, <1>3 DEF Calls, RelayTypeOK
<1>6. Calls'
  BY <1>1, <1>2, <1>3, <1>5 DEF Calls
<1>7. /\ Under' = Under /\ (Started' <=> Started) /\ (OutgoingChunked' <=> OutgoingChunked)
      /\ Payload' = Payload /\ OutgoingLength' = OutgoingLength
  BY <1>1 DEF Under, Started, OutgoingChunked, Payload, OutgoingLength, RequestBodyLength,
              Outgoing, Rewritten
<1>8. /\ ReadBody \in Strings /\ Under \in Strings /\ prefix \in Strings
      /\ prefix \o result.data = prefix
  BY <1>2, <1>3, ReadTypes, Whole DEF RelayTypeOK
<1>9. ASSUME Started
      PROVE  /\ Len(ReadBody') >= AttributesLength
             /\ Payload' \o result'.data = Outgoing(ReadBody)'
             /\ OutgoingChunked' => ChunksFlow'
             /\ ~OutgoingChunked' => LengthFlows'
  <2>1. phase = "copy"
    BY <1>2, <1>5, <1>8, <1>9, Whole DEF Calls, Flow, Started, Under
  <2>2. Len(ReadBody) >= AttributesLength /\ Payload = Outgoing(ReadBody)
    <3>1. Payload \in Strings
      BY <1>8, DecodedType DEF Payload, Positions
    <3>2. Payload \o result.data = Payload
      BY <1>3, <3>1, Whole
    <3> QED BY <1>2, <1>9, <3>2 DEF Flow
  <2>3. Len(ReadBody') >= AttributesLength
    <3>1. Len(ReadBody') = Len(ReadBody) + Len(result'.data) /\ Len(ReadBody) \in Nat
          /\ Len(result'.data) \in Nat
      BY <1>8, Join
    <3> QED BY <2>2, <3>1, Constants
  <2>4. Payload' \o result'.data = Outgoing(ReadBody)'
    <3>1. Outgoing(ReadBody)' = Outgoing(ReadBody \o result'.data)
      BY DEF Outgoing, Rewritten
    <3> QED BY <1>7, <1>8, <2>2, <3>1, OutgoingGrows
  <2>5. OutgoingChunked => ChunksFlow'
    <3>1. OutgoingChunked => Decoded(Under).at = "size"
      BY <1>2, <1>9, <2>1 DEF Flow, ChunksFlow
    <3> QED BY <1>1, <1>7, <2>1, <3>1 DEF ChunksFlow
  <2>6. ~OutgoingChunked => LengthFlows'
    <3>1. ~OutgoingChunked => LengthFlows
      BY <1>2, <1>9 DEF Flow
    <3>2. ~OutgoingChunked /\ ~chunked => to_copy = remaining
      <4>1. remaining \in Nat /\ Len(result.data) = 0
        BY <1>2, <1>3 DEF RelayTypeOK
      <4> QED BY <3>1, <4>1 DEF LengthFlows
    <3> QED BY <1>1, <1>7, <2>1, <3>1, <3>2 DEF LengthFlows
  <2> QED BY <1>7, <2>3, <2>4, <2>5, <2>6
<1>10. ~Started => ReadBody' = prefix' \o result'.data
  BY <1>1, <1>2, <1>8 DEF Flow
<1>11. phase # "plan"
  BY <1>5
<1>12. Flow'
  BY <1>1, <1>2, <1>7, <1>9, <1>10, <1>11 DEF Flow
<1> QED BY <1>4, <1>6, <1>12

----------------------------------------------------------------------------
(* The reader                                                              *)
LEMMA Results ==
  /\ Nothing.kind = "none" /\ Nothing.data = <<>> /\ Ended.kind = "done" /\ Ended.data = <<>>
  /\ \A d : Data(d).kind = "data" /\ Data(d).data = d
  /\ \A why : Error(why).kind = why /\ Error(why).data = <<>>
  /\ <<>> \in Strings /\ Len(<<>>) = 0
BY Whole DEF Nothing, Ended, Data, Error, Strings

LEMMA SameRead ==
  ASSUME RelayTypeOK, UNCHANGED clientVars
  PROVE  /\ Read' = Read /\ Position' = Position
         /\ chunked' = chunked => ReadBody' = ReadBody /\ ReadBody' = ReadBody \o <<>>
         /\ heard' \in Strings /\ used' \in 0..Len(heard')
<1>1. Read' = Read /\ Position' = Position
  BY DEF clientVars, Read, Position
<1>2. chunked' = chunked => ReadBody' = ReadBody
  BY <1>1 DEF ReadBody
<1>3. ReadBody \o <<>> = ReadBody
  BY ReadTypes, Whole
<1>4. heard' \in Strings /\ used' \in 0..Len(heard')
  BY DEF clientVars, RelayTypeOK
<1> QED BY <1>1, <1>2, <1>3, <1>4

LEMMA ReaderTypes ==
  ASSUME Inv, Reading
  PROVE  /\ done \in BOOLEAN /\ remaining \in Nat /\ crlf_pending \in BOOLEAN
         /\ chunked \in BOOLEAN /\ line \in Strings /\ Len(line) <= 3
         /\ trailers \in -1..TrailersMax /\ trailers \in Int
         /\ call \in Nat /\ call > 0 /\ result.kind = "none" /\ result.data = <<>>
         /\ content_length \in Nat
  BY Constants, Results DEF Inv, RelayTypeOK, Reading, LineSize

LEMMA ReadFailsStep == ASSUME Inv, ReadFails PROVE Inv'
<1>1. /\ Reading /\ UNCHANGED Unread /\ UNCHANGED clientVars /\ UNCHANGED reader
      /\ result' = Error("io") /\ chunked' = chunked /\ content_length' = content_length
  BY DEF ReadFails, InData, InLine, Return, Unread, framing
<1>2. result'.kind = "io" /\ result'.data = <<>>
  BY <1>1, Results
<1>3. /\ done' = done /\ remaining' = remaining /\ crlf_pending' = crlf_pending
      /\ line' = line /\ trailers' = trailers /\ heard' = heard /\ used' = used
  BY <1>1 DEF reader, clientVars
<1>4. RelayTypeOK' /\ Calls' /\ Flow'
  <2>1. RelayTypeOK
    BY DEF Inv
  <2>2. remaining = remaining' + Len(result'.data) /\ Len(result'.data) <= call
    BY <1>1, <1>2, <1>3, ReaderTypes, Results
  <2> QED BY <1>1, <1>2, <1>3, <2>1, <2>2, SameRead, ReaderTypes, ReaderStep, Results
<1>5. LineOK' /\ Sync'
  BY <1>1, <1>2, <1>3, SameRead DEF Inv, LineOK, Sync
<1> QED BY <1>4, <1>5 DEF Inv

LEMMA ReadEndStep == ASSUME Inv, ReadEnd PROVE Inv'
<1>1. /\ Reading /\ UNCHANGED Unread /\ UNCHANGED clientVars
      /\ result' = Ended /\ chunked' = chunked /\ content_length' = content_length /\ done' = TRUE
      /\ remaining' = remaining /\ crlf_pending' = crlf_pending
      /\ line' = line /\ trailers' = trailers /\ heard' = heard /\ used' = used
  BY DEF ReadEnd, Return, Unread, framing, clientVars
<1>2. result'.kind = "done" /\ result'.data = <<>>
  BY <1>1, Results
<1>4. RelayTypeOK' /\ Calls' /\ Flow'
  <2>1. RelayTypeOK
    BY DEF Inv
  <2>2. remaining = remaining' + Len(result'.data) /\ Len(result'.data) <= call
    BY <1>1, <1>2, ReaderTypes, Results
  <2> QED BY <1>1, <1>2, <2>1, <2>2, SameRead, ReaderTypes, ReaderStep, Results
<1>5. LineOK'
  BY <1>1 DEF Inv, LineOK
<1>6. chunked => done
  BY DEF ReadEnd
<1>7. Sync'
  BY <1>1, <1>2, <1>6, SameRead DEF Inv, Sync
<1> QED BY <1>4, <1>5, <1>7 DEF Inv

LEMMA ReadDataStep == ASSUME Inv, ReadData PROVE Inv'
<1>1. /\ Reading /\ ~done /\ remaining > 0 /\ UNCHANGED Unread
      /\ chunked' = chunked /\ content_length' = content_length /\ done' = done
      /\ line' = line /\ trailers' = trailers
  BY DEF ReadData, InData, Unread, framing
<1>2. PICK data \in Received(Wanted, DataSymbols) :
        /\ Take(data) /\ remaining' = remaining - Len(data)
        /\ crlf_pending' = (chunked /\ remaining = Len(data)) /\ result' = Data(data)
  BY DEF ReadData, CrlfAfter, Return
<1>3. Wanted \in Nat \ {0} /\ Wanted <= remaining /\ Wanted <= call
  BY <1>1, ReaderTypes DEF Wanted, Least
<1>4. RelayTypeOK /\ LineOK /\ Sync
  BY DEF Inv
<1>5. /\ data \in Strings /\ Len(data) \in 1..Wanted
      /\ heard' \in Strings /\ used' \in 0..Len(heard') /\ used' = used + Len(data)
      /\ Read \in Strings /\ Read' = Read \o data /\ Len(Read) = used
  BY <1>2, <1>3, <1>4, SymbolsDiffer, ReceivedReads
<1>6. /\ Len(data) \in Nat /\ Len(data) > 0 /\ Len(data) <= remaining /\ Len(data) <= call
      /\ data # <<>>
  BY <1>1, <1>3, <1>5, ReaderTypes, Results
<1>7. result'.kind = "data" /\ result'.data = data
  BY <1>2, Results
<1>8. remaining' \in Nat /\ remaining = remaining' + Len(data) /\ crlf_pending' \in BOOLEAN
      /\ (remaining' = 0 <=> remaining = Len(data))
  BY <1>2, <1>6, ReaderTypes, <1>1
<1>9. line = <<>>
  BY <1>1, <1>4 DEF LineOK
<1>10. ASSUME chunked
       PROVE  /\ Position'.at = IF remaining' = 0 THEN "cr" ELSE "data"
              /\ Position'.left = remaining' /\ Position'.data = Position.data \o data
              /\ trailers = -1
  <2>1. Position.at = "data" /\ Position.left = remaining /\ trailers = -1
    BY <1>1, <1>4, <1>10, ReaderTypes DEF Sync, At, AtData
  <2>2. /\ Decoded(Read \o data).at = IF Len(data) = remaining THEN "cr" ELSE "data"
        /\ Decoded(Read \o data).left = remaining - Len(data)
        /\ Decoded(Read \o data).data = Position.data \o data
    BY <1>5, <1>6, <2>1, DecodedData DEF Position
  <2>3. Position' = Decoded(Read \o data)
    BY <1>5 DEF Position
  <2> QED BY <1>2, <1>8, <2>1, <2>2, <2>3
<1>11. ReadBody' = ReadBody \o result'.data
  BY <1>1, <1>5, <1>7, <1>10 DEF ReadBody
<1>12. RelayTypeOK' /\ Calls' /\ Flow'
  BY <1>1, <1>5, <1>6, <1>7, <1>8, <1>11, ReaderTypes, ReaderStep
<1>13. LineOK'
  <2>1. Len(line') = 0
    BY <1>1, <1>9, Results
  <2>2. remaining' > 0 => ~crlf_pending'
    <3>1. remaining' > 0 => remaining # Len(data)
      BY <1>8
    <3> QED BY <1>2, <3>1, Zenon
  <2> QED BY <1>1, <1>9, <2>1, <2>2 DEF LineOK
<1>14. Sync'
  <2>1. ~chunked => used' + remaining' = content_length'
    <3>1. ~chunked => used + remaining = content_length
      BY <1>4 DEF Sync
    <3>2. used \in Nat
      BY <1>4, ReadTypes
    <3> QED BY <1>1, <1>5, <1>6, <1>8, <3>1, <3>2, ReaderTypes
  <2>2. chunked => At'
    <3>1. Len(line') = 0
      BY <1>1, <1>9, Results
    <3>2. chunked => (remaining' = 0 <=> crlf_pending')
      BY <1>2, <1>8
    <3> QED BY <1>1, <1>8, <1>10, <3>1, <3>2 DEF At, AtData, AtCrlf
  <2> QED BY <1>1, <1>7, <2>1, <2>2 DEF Sync
<1> QED BY <1>12, <1>13, <1>14 DEF Inv

LEMMA Short ==
  ASSUME NEW x \in Strings
  PROVE  /\ Len(x) = 1 => x = <<x[1]>> /\ x[1] \in AnySymbol
         /\ Len(x) = 2 => /\ x = <<x[1]>> \o <<x[2]>> /\ (x = CRLF <=> x[1] = CR /\ x[2] = LF)
                          /\ x[1] \in AnySymbol /\ x[2] \in AnySymbol
<1>1. ASSUME Len(x) = 1 PROVE x = <<x[1]>> /\ x[1] \in AnySymbol
  <2>1. x \in Seq(AnySymbol) /\ x[1] \in AnySymbol
    BY <1>1 DEF Strings
  <2>2. <<x[1]>> \in Seq(AnySymbol) /\ Len(<<x[1]>>) = 1 /\ <<x[1]>>[1] = x[1]
    BY <2>1
  <2>3. \A i \in 1..1 : x[i] = <<x[1]>>[i]
    BY <2>2
  <2> QED BY <1>1, <2>1, <2>2, <2>3, SeqEqual
<1>2. ASSUME Len(x) = 2
      PROVE  /\ x = <<x[1]>> \o <<x[2]>> /\ (x = CRLF <=> x[1] = CR /\ x[2] = LF)
             /\ x[1] \in AnySymbol /\ x[2] \in AnySymbol
  <2>1. x \in Seq(AnySymbol) /\ x[1] \in AnySymbol /\ x[2] \in AnySymbol
    BY <1>2 DEF Strings
  <2> DEFINE y == <<x[1], x[2]>>
  <2>2. y \in Seq(AnySymbol) /\ Len(y) = 2 /\ y[1] = x[1] /\ y[2] = x[2]
    BY <2>1
  <2> HIDE DEF y
  <2>3. \A i \in 1..2 : x[i] = y[i]
    BY <2>2
  <2>4. x = y
    BY <1>2, <2>1, <2>2, <2>3, SeqEqual
  <2>5. x = <<x[1], x[2]>>
    BY <2>4 DEF y
  <2>6. x = <<x[1]>> \o <<x[2]>>
    BY <2>5, Pairs
  <2>7. x = CRLF <=> x[1] = CR /\ x[2] = LF
    BY <2>5 DEF CRLF
  <2> QED BY <2>1, <2>6, <2>7
<1> QED BY <1>1, <1>2

(* The CRLF after a chunk, in one read or in two.                          *)
LEMMA CrlfRead ==
  ASSUME Inv, ReadCrlf
  PROVE  \E data \in Strings :
           /\ Take(data) /\ Read' = Read \o data
           /\ heard' \in Strings /\ used' \in 0..Len(heard')
           /\ line \o data \in Strings
           /\ \/ /\ Len(line \o data) = 1 /\ line' = line \o data
                 /\ crlf_pending' = crlf_pending /\ result' = result
                 /\ Position'.at = IF line'[1] = CR THEN "lf" ELSE "bad"
              \/ /\ line' = <<>> /\ crlf_pending' = FALSE /\ result' = result
                 /\ Position'.at = "size"
              \/ /\ line' = line /\ crlf_pending' = crlf_pending
                 /\ result' = Error("malformed")
                 /\ Position'.at = "bad"
           /\ Position'.data = Position.data
<1>1. Reading /\ ~done /\ chunked /\ remaining = 0 /\ crlf_pending
  BY DEF ReadCrlf, InLine
<1>2. RelayTypeOK /\ LineOK /\ Sync
  BY DEF Inv
<1>3. Len(line) \in Nat /\ Len(line) <= 1 /\ line \in Strings
  BY <1>1, <1>2, LineParts DEF LineOK, RelayTypeOK
<1>4. Position.at = IF Len(line) = 0 THEN "cr" ELSE IF line[1] = CR THEN "lf" ELSE "bad"
  BY <1>1, <1>2, ReaderTypes DEF Sync, At, AtCrlf
<1>5. PICK data \in Received(2 - Len(line), Symbols) :
        /\ Take(data)
        /\ CASE Len(line \o data) < 2 -> line' = line \o data /\ UNCHANGED <<crlf_pending, result>>
             [] line \o data = CRLF -> line' = <<>> /\ crlf_pending' = FALSE /\ UNCHANGED result
             [] OTHER -> Return(Error("malformed")) /\ UNCHANGED <<line, crlf_pending>>
  BY DEF ReadCrlf, CrlfSoFar
<1>6. 2 - Len(line) \in Nat \ {0}
  BY <1>3
<1>7. /\ data \in Strings /\ Len(data) \in 1..(2 - Len(line))
      /\ heard' \in Strings /\ used' \in 0..Len(heard')
      /\ Read \in Strings /\ Read' = Read \o data
  BY <1>2, <1>5, <1>6, SymbolsDiffer, ReceivedReads
<1> DEFINE read == line \o data
<1>8. /\ Len(data) \in Nat /\ read \in Strings /\ Len(read) = Len(line) + Len(data)
      /\ Len(data) \in {1, 2} /\ Len(data) <= 2 - Len(line)
  <2>1. \A m \in Nat : m <= 1 => \A n \in 1..(2 - m) : n \in {1, 2} /\ n <= 2 - m
    OBVIOUS
  <2>2. Len(data) \in {1, 2} /\ Len(data) <= 2 - Len(line)
    BY <1>3, <1>7, <2>1, Zenon
  <2>3. Len(data) \in Nat /\ read \in Strings /\ Len(read) = Len(line) + Len(data)
    BY <1>3, <1>7, Join
  <2> QED BY <2>2, <2>3, Zenon
<1>9. Position' = Decoded(Read \o data) /\ Position = Decoded(Read)
  BY <1>7 DEF Position
<1>10. /\ Position'.data = Position.data
       /\ Len(read) = 1 => Position'.at = IF read[1] = CR THEN "lf" ELSE "bad"
       /\ Len(read) = 2 => Position'.at = IF read = CRLF THEN "size" ELSE "bad"
  <2>1. CASE Len(line) = 0 /\ Len(data) = 1
    <3>1. read = data /\ Len(read) = 1
      BY <1>3, <1>7, <2>1, Whole, LineParts, <1>2
    <3>2. data = <<data[1]>> /\ data[1] \in AnySymbol
      BY <1>7, <2>1, Short
    <3>3. Due(Position, data[1]) = IF data[1] = CR THEN "lf" ELSE "bad"
      BY <1>4, <2>1, DueFrom
    <3>4. Position'.at = Due(Position, data[1]) /\ Position'.data = Position.data
      BY <1>4, <1>7, <1>9, <2>1, <3>2, DecodedAfter
    <3> QED BY <3>1, <3>3, <3>4
  <2>2. CASE Len(line) = 0 /\ Len(data) = 2
    <3>1. read = data /\ Len(read) = 2
      BY <1>3, <1>7, <2>2, Whole, LineParts, <1>2
    <3> DEFINE a == data[1]
               b == data[2]
               v == Read \o <<a>>
    <3>2. data = <<a>> \o <<b>> /\ (data = CRLF <=> a = CR /\ b = LF)
          /\ a \in AnySymbol /\ b \in AnySymbol
      BY <1>7, <2>2, Short
    <3>3. Decoded(v).at = (IF a = CR THEN "lf" ELSE "bad") /\ Decoded(v).data = Position.data
      <4>1. Due(Position, a) = IF a = CR THEN "lf" ELSE "bad"
        BY <1>4, <2>2, DueFrom
      <4> QED BY <1>4, <1>7, <1>9, <2>2, <3>2, <4>1, DecodedAfter
    <3>4. v \in Strings /\ Read \o data = v \o <<b>>
      <4> HIDE DEF a, b
      <4>1. <<a>> \in Strings /\ <<b>> \in Strings
        BY <3>2 DEF Strings
      <4>2. (Read \o <<a>>) \o <<b>> = Read \o (<<a>> \o <<b>>)
        BY <1>7, <4>1, Associative
      <4> QED BY <1>7, <3>2, <4>1, <4>2, Join
    <3> HIDE DEF v
    <3>5. Decoded(v \o <<b>>).at = Due(Decoded(v), b) /\ Decoded(v \o <<b>>).data = Decoded(v).data
      BY <3>2, <3>3, <3>4, DecodedAfter
    <3>6. Due(Decoded(v), b) = IF a = CR /\ b = LF THEN "size" ELSE "bad"
      BY <3>3, DueFrom
    <3> QED BY <1>9, <3>1, <3>2, <3>3, <3>4, <3>5, <3>6
  <2>3. CASE Len(line) = 1
    <3>1. Len(data) = 1 /\ Len(read) = 2
      BY <1>8, <2>3
    <3>2. data = <<data[1]>> /\ data[1] \in AnySymbol
      BY <1>7, <3>1, Short
    <3>3. read[1] = line[1] /\ read[2] = data[1]
      BY <1>3, <1>7, <2>3, <3>1 DEF Strings
    <3>4. read = CRLF <=> line[1] = CR /\ data[1] = LF
      BY <1>8, <3>1, <3>3, Short
    <3>5. Due(Position, data[1]) = IF line[1] = CR /\ data[1] = LF THEN "size" ELSE "bad"
      <4>1. Position.at = IF line[1] = CR THEN "lf" ELSE "bad"
        BY <1>4, <2>3
      <4> QED BY <4>1, DueFrom
    <3>6. Position'.at = Due(Position, data[1]) /\ Position'.data = Position.data
      BY <1>4, <1>7, <1>9, <2>3, <3>2, DecodedAfter
    <3> QED BY <3>1, <3>4, <3>5, <3>6
  <2>4. Len(line) = 1 \/ (Len(line) = 0 /\ Len(data) = 1) \/ (Len(line) = 0 /\ Len(data) = 2)
    BY <1>3, <1>8
  <2> QED BY <2>1, <2>2, <2>3, <2>4, Zenon
<1>11. Len(read) = 1 \/ Len(read) = 2
  BY <1>3, <1>8
<1>12. Len(CRLF) = 2 /\ (Len(read) < 2 <=> Len(read) = 1) /\ (Len(read) = 1 => read # CRLF)
  BY <1>11 DEF CRLF
<1>13. \/ Len(read) = 1 /\ line' = read /\ crlf_pending' = crlf_pending /\ result' = result
       \/ /\ Len(read) = 2 /\ read = CRLF /\ line' = <<>> /\ crlf_pending' = FALSE
          /\ result' = result
       \/ /\ Len(read) = 2 /\ read # CRLF /\ line' = line /\ crlf_pending' = crlf_pending
          /\ result' = Error("malformed")
  BY <1>5, <1>11, <1>12 DEF Return
<1> HIDE DEF read
<1>14. /\ \/ /\ Len(read) = 1 /\ line' = read
             /\ crlf_pending' = crlf_pending /\ result' = result
             /\ Position'.at = IF line'[1] = CR THEN "lf" ELSE "bad"
          \/ /\ line' = <<>> /\ crlf_pending' = FALSE /\ result' = result
             /\ Position'.at = "size"
          \/ /\ line' = line /\ crlf_pending' = crlf_pending
             /\ result' = Error("malformed")
             /\ Position'.at = "bad"
       /\ Position'.data = Position.data
  BY <1>10, <1>13
<1> QED BY <1>5, <1>7, <1>8, <1>14 DEF read

LEMMA ReadCrlfStep == ASSUME Inv, ReadCrlf PROVE Inv'
<1>1. /\ Reading /\ ~done /\ chunked /\ remaining = 0 /\ crlf_pending /\ UNCHANGED Unread
      /\ chunked' = chunked /\ content_length' = content_length /\ done' = done
      /\ remaining' = remaining /\ trailers' = trailers
  BY DEF ReadCrlf, InLine, Unread, framing
<1>2. RelayTypeOK /\ LineOK /\ Sync
  BY DEF Inv
<1>3. trailers = -1
  BY <1>1, <1>2, ReaderTypes DEF Sync, At, AtCrlf
<1>4. PICK data \in Strings :
           /\ Take(data) /\ Read' = Read \o data
           /\ heard' \in Strings /\ used' \in 0..Len(heard')
           /\ line \o data \in Strings
           /\ \/ /\ Len(line \o data) = 1 /\ line' = line \o data
                 /\ crlf_pending' = crlf_pending /\ result' = result
                 /\ Position'.at = IF line'[1] = CR THEN "lf" ELSE "bad"
              \/ /\ line' = <<>> /\ crlf_pending' = FALSE /\ result' = result
                 /\ Position'.at = "size"
              \/ /\ line' = line /\ crlf_pending' = crlf_pending
                 /\ result' = Error("malformed")
                 /\ Position'.at = "bad"
           /\ Position'.data = Position.data
  BY CrlfRead
<1>5. result' = result \/ result' = Error("malformed")
  BY <1>4
<1>6. result'.data = <<>> /\ result'.kind \in {"none", "malformed"}
  BY <1>1, <1>5, Results, ReaderTypes
<1>7. Len(line) \in Nat /\ Len(line) <= 1 /\ line \in Strings /\ Len(<<>>) = 0 /\ <<>> \in Strings
  BY <1>1, <1>2, LineParts, Results DEF LineOK, RelayTypeOK
<1>8. line' \in Strings /\ Len(line') <= 3 /\ crlf_pending' \in BOOLEAN
      /\ (crlf_pending' => Len(line') <= 1) /\ Len(line') \in Nat
      /\ Len(line') <= 1 /\ (~crlf_pending' => line' = <<>>)
  <2>1. \/ line' = line \o data /\ Len(line') = 1 /\ crlf_pending' = TRUE
        \/ line' = <<>> /\ crlf_pending' = FALSE
        \/ line' = line /\ crlf_pending' = TRUE
    BY <1>1, <1>4
  <2>2. \A n \in Nat : n <= 1 => n <= 3
    OBVIOUS
  <2>3. 1 \in Nat /\ 1 <= 1 /\ 0 \in Nat /\ 0 <= 1
    OBVIOUS
  <2>4. line' \in Strings /\ Len(line') \in Nat /\ Len(line') <= 1
    BY <1>4, <1>7, <2>1, <2>3, Zenon
  <2>5. crlf_pending' \in BOOLEAN /\ (~crlf_pending' => line' = <<>>)
    BY <2>1
  <2> QED BY <2>2, <2>4, <2>5, Zenon
<1>9. ReadBody' = ReadBody \o result'.data
  <2>1. ReadBody' = ReadBody
    BY <1>1, <1>4 DEF ReadBody
  <2> QED BY <1>2, <1>6, <2>1, ReadTypes, Whole
<1>10. RelayTypeOK' /\ Calls' /\ Flow'
  <2>1. Len(result'.data) <= call /\ result'.data \in Strings
    BY <1>1, <1>6, Results, ReaderTypes
  <2> QED BY <1>1, <1>4, <1>6, <1>8, <1>9, <2>1, ReaderTypes, ReaderStep
<1>11. LineOK'
  <2>1. ~(Len(line') >= 2) /\ ~(Len(line') >= 3)
    BY <1>8
  <2> QED BY <1>1, <1>8, <2>1 DEF LineOK
<1>12. Sync'
  <2>1. result'.kind = "malformed" => Position'.at = "bad"
    BY <1>1, <1>4, ReaderTypes
  <2>2. result' = result => At'
    <3> SUFFICES ASSUME result' = result PROVE At'
      OBVIOUS
    <3>1. result'.kind # "malformed"
      BY <1>1, ReaderTypes
    <3>2. CASE line' = line \o data /\ Len(line') = 1 /\ crlf_pending'
               /\ Position'.at = IF line'[1] = CR THEN "lf" ELSE "bad"
      BY <1>1, <1>3, <3>2 DEF At, AtCrlf
    <3>3. CASE line' = <<>> /\ ~crlf_pending' /\ Position'.at = "size"
      BY <1>1, <1>3, <1>7, <3>3 DEF At, AtSize, SizeAt
    <3> QED BY <1>1, <1>4, <3>1, <3>2, <3>3, Results
  <2>3. result'.kind \in {"none", "data", "done"} => result' = result
    BY <1>5, Results
  <2> QED BY <1>1, <2>1, <2>2, <2>3 DEF Sync
<1> QED BY <1>10, <1>11, <1>12 DEF Inv

(* One symbol of a line.                                                   *)
LEMMA LineReadOn ==
  ASSUME Inv, ReadLine
  PROVE  /\ Len(line) \in Nat /\ Len(line) <= 2 /\ (Len(line) = 2 => line[1] # CR)
         /\ Position.at # "data" /\ Position.at # "whole"
         /\ \E s \in AnySymbol :
              /\ Read' = Read \o <<s>>
              /\ heard' \in Strings /\ used' \in 0..Len(heard')
              /\ Position'.at = Due(Position, s) /\ Position'.data = Position.data
              /\ Position.at = "size" /\ IsSize(s) => Position'.left = SizeOf(s)
              /\ Position.at # "size" => Position'.left = Position.left
              /\ \/ LineGoesOn(s) /\ line' = line \o <<s>> /\ result' = result
                 \/ /\ ~LineGoesOn(s) /\ line' = line
                    /\ result' = Error(IF Len(line) + 1 >= 2 /\ Last(line) # CR
                                         THEN "large" ELSE "malformed")
<1>1. Reading /\ ~done /\ chunked /\ remaining = 0 /\ ~crlf_pending /\ ~LineRead
  BY DEF ReadLine, InLine
<1>2. RelayTypeOK /\ LineOK /\ Sync
  BY DEF Inv
<1>3. /\ Len(line) \in Nat /\ Len(line) <= 3
      /\ LineRead <=> Len(line) = 3 \/ (Len(line) = 2 /\ line[1] = CR)
  BY <1>2, LineParts
<1>4. Len(line) <= 2 /\ (Len(line) = 2 => line[1] # CR)
  <2>1. Len(line) # 3 /\ (Len(line) = 2 => line[1] # CR)
    BY <1>1, <1>3
  <2>2. \A n \in Nat : n <= 3 /\ n # 3 => n <= 2
    OBVIOUS
  <2> QED BY <1>3, <2>1, <2>2, Zenon
<1>5. AtSize \/ AtTrailer
  <2>1. trailers = -1 \/ trailers >= 0
    BY <1>1, ReaderTypes
  <2> QED BY <1>1, <1>2, <2>1, ReaderTypes DEF Sync, At
<1>6. Position.at # "data" /\ Position.at # "whole"
  <2>1. \A n \in Nat : n <= 2 => n = 0 \/ n = 1 \/ n = 2
    OBVIOUS
  <2>2. Len(line) = 0 \/ Len(line) = 1 \/ Len(line) = 2
    BY <1>3, <1>4, <2>1, Zenon
  <2>3. CASE Len(line) = 0
    BY <1>5, <2>3 DEF AtSize, AtTrailer, SizeAt, TrailerAt
  <2>4. CASE Len(line) = 1
    <3>1. Len(line) > 0
      BY <2>4
    <3>2. AtSize => Position.at \in {"bad", "size cr"}
      BY <2>4, <3>1, Zenon DEF AtSize, SizeAt
    <3>3. AtTrailer => Position.at \in {"bad", "last lf", "trailer cr"}
      BY <2>4, <3>1, Zenon DEF AtTrailer, TrailerAt
    <3> QED BY <1>5, <3>2, <3>3
  <2>5. CASE Len(line) = 2
    <3>1. Len(line) > 0
      BY <2>5
    <3>2. AtSize => Position.at \in {"bad", "size lf"}
      BY <2>5, <3>1, Zenon DEF AtSize, SizeAt
    <3>3. AtTrailer => Position.at \in {"bad", "trailer lf"}
      BY <1>4, <2>5, <3>1, Zenon DEF AtTrailer, TrailerAt
    <3> QED BY <1>5, <3>2, <3>3
  <2> QED BY <2>2, <2>3, <2>4, <2>5, Zenon
<1>7. PICK data \in Received(1, Symbols) :
        /\ Take(data)
        /\ \/ LineGoesOn(data[1]) /\ line' = line \o data /\ result' = result
           \/ /\ ~LineGoesOn(data[1]) /\ line' = line
              /\ result' = Error(IF Len(line) + 1 >= 2 /\ Last(line) # CR
                                   THEN "large" ELSE "malformed")
  BY DEF ReadLine, Return, LineSize
<1>8. /\ data \in Strings /\ Len(data) \in 1..1
      /\ heard' \in Strings /\ used' \in 0..Len(heard')
      /\ Read \in Strings /\ Read' = Read \o data
  <2>1. 1 \in Nat \ {0}
    OBVIOUS
  <2> QED BY <1>2, <1>7, <2>1, SymbolsDiffer, ReceivedReads
<1>9. Len(data) = 1
  BY <1>8
<1>10. data = <<data[1]>> /\ data[1] \in AnySymbol
  BY <1>8, <1>9, Short
<1> DEFINE s == data[1]
<1>11. Position = Decoded(Read) /\ Position' = Decoded(Read \o <<s>>)
  BY <1>8, <1>10 DEF Position
<1>12. /\ Position'.at = Due(Position, s) /\ Position'.data = Position.data
       /\ Position.at = "size" /\ IsSize(s) => Position'.left = SizeOf(s)
       /\ Position.at # "size" => Position'.left = Position.left
  BY <1>6, <1>8, <1>10, <1>11, DecodedAfter
<1>13. /\ Read' = Read \o <<s>>
       /\ \/ LineGoesOn(s) /\ line' = line \o <<s>> /\ result' = result
          \/ /\ ~LineGoesOn(s) /\ line' = line
             /\ result' = Error(IF Len(line) + 1 >= 2 /\ Last(line) # CR
                                  THEN "large" ELSE "malformed")
  BY <1>7, <1>8, <1>10
<1> HIDE DEF s
<1>14. s \in AnySymbol
  BY <1>10 DEF s
<1> QED BY <1>3, <1>4, <1>6, <1>8, <1>12, <1>13, <1>14

LEMMA LineGrows ==
  ASSUME Inv, NEW s \in AnySymbol, line' = line \o <<s>>
  PROVE  /\ line' \in Strings /\ Len(line') = Len(line) + 1 /\ line'[Len(line) + 1] = s
         /\ Len(line) \in Nat
         /\ Len(line) > 0 => line'[1] = line[1]
         /\ Len(line) = 2 => line'[2] = line[2]
<1>1. line \in Seq(AnySymbol)
  BY DEF Inv, RelayTypeOK, Strings
<1>2. line \o <<s>> \in Seq(AnySymbol) /\ Len(line \o <<s>>) = Len(line) + 1 /\ Len(line) \in Nat
  BY <1>1
<1>3. (line \o <<s>>)[Len(line) + 1] = s /\ \A i \in 1..Len(line) : (line \o <<s>>)[i] = line[i]
  BY <1>1
<1>4. /\ Len(line) > 0 => 1 \in 1..Len(line)
      /\ Len(line) = 2 => 2 \in 1..Len(line)
  BY <1>2
<1> QED BY <1>2, <1>3, <1>4 DEF Strings

(* A symbol of a chunk's line, or of a trailer's.                          *)
LEMMA SizeAtEach ==
  ASSUME NEW x, NEW d
  PROVE  /\ SizeAt(0, x, d) <=> d.at = "size"
         /\ SizeAt(1, x, d) <=>
              IF IsSize(x) THEN d.at = "size cr" /\ d.left = SizeOf(x) ELSE d.at = "bad"
         /\ SizeAt(2, x, d) <=>
              IF IsSize(x) THEN d.at = "size lf" /\ d.left = SizeOf(x) ELSE d.at = "bad"
         /\ SizeAt(3, x, d) <=>
              IF IsSize(x)
                THEN d.left = SizeOf(x) /\ d.at = IF d.left = 0 THEN "trailer" ELSE "data"
                ELSE d.at = "bad"
<1>1. /\ 0 # 1 /\ 0 # 2 /\ 0 # 3 /\ ~(0 > 0) /\ 1 > 0 /\ 2 > 0 /\ 3 > 0
      /\ 1 # 0 /\ 1 # 2 /\ 1 # 3 /\ 2 # 0 /\ 2 # 1 /\ 2 # 3 /\ 3 # 0 /\ 3 # 1 /\ 3 # 2
  OBVIOUS
<1>2. SizeAt(0, x, d) <=> d.at = "size"
  BY <1>1, Zenon DEF SizeAt
<1>3. SizeAt(1, x, d) <=>
        IF IsSize(x) THEN d.at = "size cr" /\ d.left = SizeOf(x) ELSE d.at = "bad"
  BY <1>1, Zenon DEF SizeAt
<1>4. SizeAt(2, x, d) <=>
        IF IsSize(x) THEN d.at = "size lf" /\ d.left = SizeOf(x) ELSE d.at = "bad"
  BY <1>1, Zenon DEF SizeAt
<1>5. SizeAt(3, x, d) <=>
        IF IsSize(x)
          THEN d.left = SizeOf(x) /\ d.at = IF d.left = 0 THEN "trailer" ELSE "data"
          ELSE d.at = "bad"
  BY <1>1, Zenon DEF SizeAt
<1> QED BY <1>2, <1>3, <1>4, <1>5, Zenon

LEMMA TrailerAtEach ==
  ASSUME NEW x, NEW d
  PROVE  /\ TrailerAt(0, x, d) <=> d.at = "trailer"
         /\ TrailerAt(1, x, d) <=> d.at = IF x = CR THEN "last lf"
                                           ELSE IF x = Other THEN "trailer cr" ELSE "bad"
         /\ TrailerAt(2, x, d) <=> d.at = IF x = CR THEN "whole"
                                           ELSE IF x = Other THEN "trailer lf" ELSE "bad"
         /\ x # CR =>
              (TrailerAt(3, x, d) <=> d.at = IF x = Other THEN "trailer" ELSE "bad")
<1>1. /\ 0 # 1 /\ 0 # 2 /\ 0 # 3 /\ ~(0 > 0) /\ 1 > 0 /\ 2 > 0 /\ 3 > 0
      /\ 1 # 0 /\ 1 # 2 /\ 1 # 3 /\ 2 # 0 /\ 2 # 1 /\ 2 # 3 /\ 3 # 0 /\ 3 # 1 /\ 3 # 2
  OBVIOUS
<1>2. CR # Other
  BY SymbolsDiffer
<1>3. TrailerAt(0, x, d) <=> d.at = "trailer"
  BY <1>1, Zenon DEF TrailerAt
<1>4. TrailerAt(1, x, d) <=> d.at = IF x = CR THEN "last lf"
                                    ELSE IF x = Other THEN "trailer cr" ELSE "bad"
  BY <1>1, <1>2, Zenon DEF TrailerAt
<1>5. TrailerAt(2, x, d) <=> d.at = IF x = CR THEN "whole"
                                    ELSE IF x = Other THEN "trailer lf" ELSE "bad"
  BY <1>1, <1>2, Zenon DEF TrailerAt
<1>6. x # CR => (TrailerAt(3, x, d) <=> d.at = IF x = Other THEN "trailer" ELSE "bad")
  BY <1>1, <1>2, Zenon DEF TrailerAt
<1> QED BY <1>3, <1>4, <1>5, <1>6, Zenon

LEMMA SizeLine ==
  ASSUME NEW d, NEW f, NEW x, NEW s \in AnySymbol, f.at = Due(d, s),
         d.at = "size" /\ IsSize(s) => f.left = SizeOf(s),
         d.at # "size" => f.left = d.left
  PROVE  /\ SizeAt(0, x, d) => SizeAt(1, s, f) /\ (s = LF => f.at = "bad")
         /\ SizeAt(1, x, d) /\ s = (IF x = CR THEN LF ELSE CR) => SizeAt(2, x, f)
         /\ SizeAt(1, x, d) /\ x = CR => f.at = "bad"
         /\ SizeAt(2, x, d) /\ s = LF => SizeAt(3, x, f)
         /\ SizeAt(2, x, d) /\ s # LF => f.at = "bad"
<1>1. ~IsSize(CR) /\ ~IsSize(LF)
  BY SymbolsDiffer
<1>2. ASSUME SizeAt(0, x, d) PROVE SizeAt(1, s, f) /\ (s = LF => f.at = "bad")
  <2>1. d.at = "size"
    BY <1>2, SizeAtEach
  <2>2. f.at = IF IsSize(s) THEN "size cr" ELSE "bad"
    BY <2>1, DueFrom
  <2>3. CASE IsSize(s)
    BY <1>1, <2>1, <2>2, <2>3, SizeAtEach
  <2>4. CASE ~IsSize(s)
    BY <1>1, <2>1, <2>2, <2>4, SizeAtEach
  <2> QED BY <2>3, <2>4, Zenon
<1>3. CASE ~IsSize(x)
  <2>1. SizeAt(1, x, d) \/ SizeAt(2, x, d) => d.at = "bad"
    BY <1>3, SizeAtEach
  <2>2. d.at = "bad" => f.at = "bad"
    BY DueFrom
  <2>3. f.at = "bad" => SizeAt(2, x, f) /\ SizeAt(3, x, f)
    BY <1>3, SizeAtEach
  <2> QED BY <1>2, <2>1, <2>2, <2>3, Zenon
<1>4. CASE IsSize(x)
  <2>1. x # CR
    BY <1>1, <1>4
  <2>2. ASSUME SizeAt(1, x, d), s = CR PROVE SizeAt(2, x, f)
    <3>1. d.at = "size cr" /\ d.left = SizeOf(x)
      BY <1>4, <2>2, SizeAtEach
    <3>2. f.at = "size lf" /\ f.left = SizeOf(x)
      BY <2>2, <3>1, DueFrom
    <3> QED BY <1>4, <3>2, SizeAtEach
  <2>3. ASSUME SizeAt(2, x, d)
        PROVE  (s = LF => SizeAt(3, x, f)) /\ (s # LF => f.at = "bad")
    <3>1. d.at = "size lf" /\ d.left = SizeOf(x)
      BY <1>4, <2>3, SizeAtEach
    <3>2. f.left = SizeOf(x) /\ f.left = d.left
      BY <3>1
    <3>3. f.at = IF s = LF THEN IF f.left = 0 THEN "trailer" ELSE "data" ELSE "bad"
      BY <3>1, <3>2, DueFrom
    <3> QED BY <1>4, <3>2, <3>3, SizeAtEach
  <2> QED BY <1>2, <2>1, <2>2, <2>3, Zenon
<1> QED BY <1>3, <1>4, Zenon

LEMMA TrailerLine ==
  ASSUME NEW d, NEW f, NEW x, NEW s \in AnySymbol, f.at = Due(d, s)
  PROVE  /\ TrailerAt(0, x, d) => TrailerAt(1, s, f) /\ (s = LF => f.at = "bad")
         /\ TrailerAt(1, x, d) /\ s = (IF x = CR THEN LF ELSE CR) => TrailerAt(2, x, f)
         /\ TrailerAt(1, x, d) /\ x = CR /\ s # LF => f.at = "bad"
         /\ TrailerAt(2, x, d) /\ x # CR /\ s = LF => TrailerAt(3, x, f)
         /\ TrailerAt(2, x, d) /\ x # CR /\ s # LF => f.at = "bad"
<1>1. CR # LF /\ CR # Other /\ LF # Other
  BY SymbolsDiffer
<1>2. ASSUME TrailerAt(0, x, d) PROVE TrailerAt(1, s, f) /\ (s = LF => f.at = "bad")
  <2>1. d.at = "trailer"
    BY <1>2, TrailerAtEach
  <2>2. f.at = IF s = Other THEN "trailer cr" ELSE IF s = CR THEN "last lf" ELSE "bad"
    BY <2>1, DueFrom
  <2> QED BY <1>1, <2>2, TrailerAtEach
<1>3. CASE x # CR /\ x # Other
  <2>1. TrailerAt(1, x, d) \/ TrailerAt(2, x, d) => d.at = "bad"
    BY <1>3, TrailerAtEach
  <2>2. d.at = "bad" => f.at = "bad"
    BY DueFrom
  <2>3. f.at = "bad" => TrailerAt(2, x, f) /\ TrailerAt(3, x, f)
    <3>1. /\ TrailerAt(2, x, f) <=> f.at = IF x = CR THEN "whole"
                                             ELSE IF x = Other THEN "trailer lf" ELSE "bad"
          /\ TrailerAt(3, x, f) <=> f.at = IF x = Other THEN "trailer" ELSE "bad"
      BY <1>3, TrailerAtEach, Zenon
    <3> QED BY <1>3, <3>1, Zenon
  <2> QED BY <1>2, <1>3, <2>1, <2>2, <2>3, Zenon
<1>4. CASE x = CR
  <2>1. TrailerAt(1, x, d) => d.at = "last lf"
    BY <1>1, <1>4, TrailerAtEach
  <2>2. d.at = "last lf" => f.at = IF s = LF THEN "whole" ELSE "bad"
    BY DueFrom
  <2>3. f.at = "whole" => TrailerAt(2, x, f)
    BY <1>1, <1>4, TrailerAtEach
  <2> QED BY <1>2, <1>4, <2>1, <2>2, <2>3
<1>5. CASE x = Other
  <2>1. TrailerAt(1, x, d) => d.at = "trailer cr"
    BY <1>1, <1>5, TrailerAtEach
  <2>2. d.at = "trailer cr" => f.at = IF s = CR THEN "trailer lf" ELSE "bad"
    BY DueFrom
  <2>3. f.at = "trailer lf" => TrailerAt(2, x, f)
    BY <1>1, <1>5, TrailerAtEach
  <2>4. TrailerAt(2, x, d) => d.at = "trailer lf"
    BY <1>1, <1>5, TrailerAtEach
  <2>5. d.at = "trailer lf" => f.at = IF s = LF THEN "trailer" ELSE "bad"
    BY DueFrom
  <2>6. f.at = "trailer" => TrailerAt(3, x, f)
    BY <1>1, <1>5, TrailerAtEach
  <2> QED BY <1>1, <1>2, <1>5, <2>1, <2>2, <2>3, <2>4, <2>5, <2>6
<1> QED BY <1>3, <1>4, <1>5, Zenon

LEMMA ReadLineStep == ASSUME Inv, ReadLine PROVE Inv'
<1>1. /\ Reading /\ ~done /\ chunked /\ remaining = 0 /\ ~crlf_pending /\ UNCHANGED Unread
      /\ chunked' = chunked /\ content_length' = content_length /\ done' = done
      /\ remaining' = remaining /\ trailers' = trailers /\ crlf_pending' = crlf_pending
  BY DEF ReadLine, InLine, Unread, framing
<1>2. RelayTypeOK /\ LineOK /\ Sync
  BY DEF Inv
<1>3. Len(line) \in Nat /\ Len(line) <= 2 /\ (Len(line) = 2 => line[1] # CR)
  BY LineReadOn
<1>4. PICK s \in AnySymbol :
              /\ Read' = Read \o <<s>>
              /\ heard' \in Strings /\ used' \in 0..Len(heard')
              /\ Position'.at = Due(Position, s) /\ Position'.data = Position.data
              /\ Position.at = "size" /\ IsSize(s) => Position'.left = SizeOf(s)
              /\ Position.at # "size" => Position'.left = Position.left
              /\ \/ LineGoesOn(s) /\ line' = line \o <<s>> /\ result' = result
                 \/ /\ ~LineGoesOn(s) /\ line' = line
                    /\ result' = Error(IF Len(line) + 1 >= 2 /\ Last(line) # CR
                                         THEN "large" ELSE "malformed")
  BY LineReadOn
<1>5. /\ Len(line) = 0 => (LineGoesOn(s) <=> s # LF)
      /\ Len(line) = 1 => (LineGoesOn(s) <=> s = IF line[1] = CR THEN LF ELSE CR)
      /\ Len(line) = 2 => (LineGoesOn(s) <=> s = LF)
      /\ Len(line) > 0 => Last(line) = line[Len(line)]
  BY <1>2, <1>3, LineContinues, LineParts
<1>6. result' = result \/ result' = Error("large") \/ result' = Error("malformed")
  BY <1>4
<1>7. result'.data = <<>> /\ result'.kind \in {"none", "large", "malformed"}
  BY <1>1, <1>6, Results, ReaderTypes
<1>8. trailers = -1 => SizeAt(Len(line), line[1], Position)
  BY <1>1, <1>2, ReaderTypes DEF Sync, At, AtSize
<1>9. trailers >= 0 => TrailerAt(Len(line), line[1], Position)
  BY <1>1, <1>2, ReaderTypes DEF Sync, At, AtTrailer
<1>10. trailers = -1 \/ trailers >= 0
  BY <1>1, ReaderTypes
<1>11. Len(line) = 0 \/ Len(line) = 1 \/ Len(line) = 2
  <2>1. \A n \in Nat : n <= 2 => n = 0 \/ n = 1 \/ n = 2
    OBVIOUS
  <2> QED BY <1>3, <2>1, Zenon
<1> DEFINE p == Position
           q == Position'
           x == line[1]
<1>12. /\ SizeAt(0, x, p) => SizeAt(1, s, q) /\ (s = LF => q.at = "bad")
       /\ SizeAt(1, x, p) /\ s = (IF x = CR THEN LF ELSE CR) => SizeAt(2, x, q)
       /\ SizeAt(1, x, p) /\ x = CR => q.at = "bad"
       /\ SizeAt(2, x, p) /\ s = LF => SizeAt(3, x, q)
       /\ SizeAt(2, x, p) /\ s # LF => q.at = "bad"
  BY <1>4, SizeLine
<1>13. /\ TrailerAt(0, x, p) => TrailerAt(1, s, q) /\ (s = LF => q.at = "bad")
       /\ TrailerAt(1, x, p) /\ s = (IF x = CR THEN LF ELSE CR) => TrailerAt(2, x, q)
       /\ TrailerAt(1, x, p) /\ x = CR /\ s # LF => q.at = "bad"
       /\ TrailerAt(2, x, p) /\ x # CR /\ s = LF => TrailerAt(3, x, q)
       /\ TrailerAt(2, x, p) /\ x # CR /\ s # LF => q.at = "bad"
  BY <1>4, TrailerLine
<1>14. ASSUME LineGoesOn(s), line' = line \o <<s>>
       PROVE  /\ line' \in Strings /\ Len(line') <= 3 /\ LineOK'
              /\ trailers = -1 => SizeAt(Len(line'), line'[1], q)
              /\ trailers >= 0 => TrailerAt(Len(line'), line'[1], q)
  <2>1. /\ line' \in Strings /\ Len(line') = Len(line) + 1 /\ line'[Len(line) + 1] = s
        /\ Len(line) > 0 => line'[1] = line[1]
        /\ Len(line) = 2 => line'[2] = line[2]
    BY <1>14, LineGrows
  <2>2. CASE Len(line) = 0
    <3>1. Len(line') = 1 /\ line'[1] = s /\ s # LF /\ line' # <<>> /\ Len(line') <= 3
      BY <1>5, <1>14, <2>1, <2>2
    <3>2. LineOK'
      BY <1>1, <3>1 DEF LineOK
    <3> QED BY <1>8, <1>9, <1>12, <1>13, <2>1, <2>2, <3>1, <3>2, Zenon
  <2>3. CASE Len(line) = 1
    <3>1. Len(line') = 2 /\ line'[1] = line[1] /\ line'[2] = s /\ line # <<>> /\ line' # <<>>
          /\ Len(line') <= 3 /\ s = IF line[1] = CR THEN LF ELSE CR
      BY <1>5, <1>14, <2>1, <2>3
    <3>2. LineOK'
      BY <1>1, <1>2, <3>1 DEF LineOK
    <3> QED BY <1>8, <1>9, <1>12, <1>13, <2>1, <2>3, <3>1, <3>2, Zenon
  <2>4. CASE Len(line) = 2
    <3>1. Len(line') = 3 /\ line'[1] = line[1] /\ line'[2] = line[2] /\ line'[3] = LF
          /\ Len(line') <= 3 /\ line # <<>> /\ line' # <<>> /\ line[1] # CR /\ s = LF
      BY <1>3, <1>5, <1>14, <2>1, <2>4
    <3>2. LineOK'
      BY <1>1, <1>2, <2>4, <3>1 DEF LineOK
    <3> QED BY <1>8, <1>9, <1>12, <1>13, <2>1, <2>4, <3>1, <3>2, Zenon
  <2> QED BY <1>11, <2>2, <2>3, <2>4, Zenon
<1>15. ASSUME ~LineGoesOn(s), result' = Error(IF Len(line) + 1 >= 2 /\ Last(line) # CR
                                               THEN "large" ELSE "malformed"),
              result'.kind = "malformed"
       PROVE  q.at = "bad"
  <2>1. ~(Len(line) + 1 >= 2 /\ Last(line) # CR)
    BY <1>15, Results
  <2>2. CASE Len(line) = 0
    BY <1>5, <1>8, <1>9, <1>10, <1>12, <1>13, <1>15, <2>2, Zenon
  <2>3. CASE Len(line) = 1
    <3>1. Last(line) = x /\ Len(line) + 1 >= 2
      BY <1>5, <2>3
    <3>2. x = CR /\ s # LF
      BY <1>5, <1>15, <2>1, <2>3, <3>1
    <3> QED BY <1>8, <1>9, <1>10, <1>12, <1>13, <2>3, <3>2, Zenon
  <2>4. CASE Len(line) = 2
    BY <1>3, <1>5, <1>8, <1>9, <1>10, <1>12, <1>13, <1>15, <2>4, Zenon
  <2> QED BY <1>11, <2>2, <2>3, <2>4, Zenon
<1> HIDE DEF p, q, x
<1>16. \/ LineGoesOn(s) /\ line' = line \o <<s>> /\ result' = result
       \/ /\ ~LineGoesOn(s) /\ line' = line /\ result' = Error("malformed") /\ Position'.at = "bad"
       \/ line' = line /\ result' = Error("large")
  BY <1>4, <1>15, Results DEF q
<1>17. line' \in Strings /\ Len(line') <= 3 /\ LineOK'
  <2>1. CASE line' = line
    <3>1. Len(line') <= 3 /\ line' \in Strings
      BY <1>1, <2>1, ReaderTypes
    <3> QED BY <1>1, <1>2, <2>1, <3>1 DEF LineOK
  <2> QED BY <1>14, <1>16, <2>1
<1>18. ReadBody' = ReadBody \o result'.data
  <2>1. ReadBody' = ReadBody
    BY <1>1, <1>4 DEF ReadBody
  <2> QED BY <1>2, <1>7, <2>1, ReadTypes, Whole
<1>19. RelayTypeOK' /\ Calls' /\ Flow'
  <2>1. Len(result'.data) <= call /\ result'.data \in Strings
    BY <1>1, <1>7, Results, ReaderTypes
  <2> QED BY <1>1, <1>4, <1>7, <1>17, <1>18, <2>1, ReaderTypes, ReaderStep
<1>20. Sync'
  <2>1. result'.kind = "malformed" => Position'.at = "bad"
    BY <1>1, <1>16, Results, ReaderTypes
  <2>2. result'.kind \in {"none", "data", "done"} => At'
    <3> SUFFICES ASSUME result'.kind \in {"none", "data", "done"} PROVE At'
      OBVIOUS
    <3>1. LineGoesOn(s) /\ line' = line \o <<s>>
      BY <1>16, Results
    <3>2. (trailers = -1 => AtSize') /\ (trailers >= 0 => AtTrailer')
      BY <1>14, <3>1 DEF AtSize, AtTrailer, q
    <3> QED BY <1>1, <3>2 DEF At
  <2> QED BY <1>1, <2>1, <2>2 DEF Sync
<1> QED BY <1>17, <1>19, <1>20 DEF Inv

LEMMA ParseChunkSizeStep == ASSUME Inv, ParseChunkSize PROVE Inv'
<1>1. /\ Reading /\ ~done /\ chunked /\ remaining = 0 /\ LineRead /\ trailers = -1
      /\ UNCHANGED Unread /\ UNCHANGED clientVars
      /\ chunked' = chunked /\ content_length' = content_length /\ done' = done
      /\ crlf_pending' = crlf_pending
  BY DEF ParseChunkSize, InLine, Unread, framing
<1>2. RelayTypeOK /\ LineOK /\ Sync
  BY DEF Inv
<1>3. \/ /\ IsSizeLine /\ remaining' = SizeOf(Text[1]) /\ line' = <<>> /\ result' = result
         /\ trailers' = IF remaining' = 0 THEN 0 ELSE -1
      \/ /\ ~IsSizeLine /\ result' = Error("malformed")
         /\ remaining' = remaining /\ trailers' = trailers /\ line' = line
  BY DEF ParseChunkSize, Return
<1>4. /\ Len(line) \in Nat /\ Len(line) <= 3 /\ (Len(line) > 0 => line[1] \in AnySymbol)
      /\ LineRead <=> Len(line) = 3 \/ (Len(line) = 2 /\ line[1] = CR)
      /\ Len(line) = 2 => Text = <<>>
      /\ Len(line) = 3 => Text # <<>> /\ Text[1] = line[1]
  BY <1>2, LineParts
<1>5. Len(line) = 3 \/ (Len(line) = 2 /\ line[1] = CR)
  BY <1>1, <1>4
<1>6. ~crlf_pending
  BY <1>2, <1>5 DEF LineOK
<1>7. SizeAt(Len(line), line[1], Position)
  BY <1>1, <1>2, <1>6, ReaderTypes DEF Sync, At, AtSize
<1>8. ~IsSize(CR)
  BY SymbolsDiffer
<1>9. IsSizeLine <=> Len(line) = 3 /\ IsSize(line[1])
  BY <1>4, <1>5, <1>8 DEF IsSizeLine, IsSize
<1>10. Position' = Position /\ Read' = Read
  BY <1>1, <1>2, SameRead
<1>11. <<>> \in Strings /\ Len(<<>>) = 0
  BY Results
<1>12. CASE IsSizeLine
  <2>1. /\ remaining' = SizeOf(line[1]) /\ line' = <<>> /\ result' = result
        /\ trailers' = IF remaining' = 0 THEN 0 ELSE -1
    BY <1>3, <1>4, <1>9, <1>12
  <2>2. SizeOf(line[1]) \in Nat
    <3>1. line[1] \in AnySymbol /\ IsSize(line[1])
      BY <1>4, <1>9, <1>12
    <3> QED BY <3>1, SymbolsDiffer
  <2>3. Position.left = SizeOf(line[1])
        /\ Position.at = IF Position.left = 0 THEN "trailer" ELSE "data"
    BY <1>7, <1>9, <1>12, SizeAtEach
  <2>4. result'.data = <<>> /\ result'.kind = "none"
    BY <1>1, <2>1, ReaderTypes
  <2>5. RelayTypeOK' /\ Calls' /\ Flow'
    <3>1. trailers' \in -1..TrailersMax
      BY <2>1, Constants
    <3>2. Len(result'.data) <= call /\ result'.data \in Strings /\ Len(line') <= 3 /\ line' \in Strings
      BY <1>1, <1>11, <2>1, <2>4, ReaderTypes
    <3>3. remaining' \in Nat
      BY <2>1, <2>2
    <3> QED BY <1>1, <1>2, <2>4, <3>1, <3>2, <3>3, SameRead, ReaderTypes, ReaderStep
  <2>6. LineOK'
    BY <1>1, <1>6, <1>11, <2>1 DEF LineOK
  <2>7. At'
    <3>1. CASE remaining' = 0
      <4>1. trailers' = 0 /\ Position'.at = "trailer" /\ Len(line') = 0 /\ ~crlf_pending'
        BY <1>1, <1>6, <1>10, <1>11, <2>1, <2>3, <3>1
      <4>2. TrailerAt(0, line'[1], Position')
        BY <4>1, TrailerAtEach
      <4>3. AtTrailer'
        BY <4>1, <4>2 DEF AtTrailer
      <4> QED BY <3>1, <4>1, <4>3 DEF At
    <3>2. CASE remaining' # 0
      <4>1. remaining' > 0 /\ trailers' = -1 /\ Position'.at = "data" /\ Position'.left = remaining'
        BY <1>10, <2>1, <2>2, <2>3, <3>2
      <4> QED BY <4>1 DEF At, AtData
    <3> QED BY <3>1, <3>2
  <2>8. Sync'
    BY <1>1, <2>4, <2>7 DEF Sync
  <2> QED BY <2>5, <2>6, <2>8 DEF Inv
<1>13. CASE ~IsSizeLine
  <2>1. /\ result' = Error("malformed")
        /\ remaining' = remaining /\ trailers' = trailers /\ line' = line
    BY <1>3, <1>13
  <2>2. result'.data = <<>> /\ result'.kind = "malformed"
    BY <2>1, Results
  <2>3. Position.at = "bad"
    <3>1. CASE Len(line) = 3
      BY <1>7, <1>9, <1>13, <3>1, SizeAtEach
    <3>2. CASE Len(line) = 2 /\ line[1] = CR
      BY <1>7, <1>8, <3>2, SizeAtEach
    <3> QED BY <1>5, <3>1, <3>2, Zenon
  <2>4. RelayTypeOK' /\ Calls' /\ Flow'
    <3>1. Len(result'.data) <= call /\ result'.data \in Strings
      BY <1>1, <1>11, <2>2, ReaderTypes
    <3> QED BY <1>1, <1>2, <2>1, <2>2, <3>1, SameRead, ReaderTypes, ReaderStep
  <2>5. LineOK'
    BY <1>1, <1>2, <2>1 DEF LineOK
  <2>6. Sync'
    BY <1>1, <1>10, <2>2, <2>3 DEF Sync
  <2> QED BY <2>4, <2>5, <2>6 DEF Inv
<1> QED BY <1>12, <1>13, Zenon

LEMMA FinishChunkedBodyStep == ASSUME Inv, FinishChunkedBody PROVE Inv'
<1>1. /\ Reading /\ ~done /\ chunked /\ remaining = 0 /\ LineRead /\ trailers >= 0
      /\ UNCHANGED Unread /\ UNCHANGED clientVars
      /\ chunked' = chunked /\ content_length' = content_length
      /\ remaining' = remaining /\ crlf_pending' = crlf_pending
  BY DEF FinishChunkedBody, InLine, Unread, framing
<1>2. RelayTypeOK /\ LineOK /\ Sync
  BY DEF Inv
<1>3. /\ Len(line) \in Nat /\ Len(line) <= 3
      /\ LineRead <=> Len(line) = 3 \/ (Len(line) = 2 /\ line[1] = CR)
      /\ Len(line) = 2 => Text = <<>>
      /\ Len(line) = 3 => Text # <<>> /\ Len(Text) = 1 /\ ToSet(Text) = {line[1]}
  BY <1>2, LineParts
<1>4. Len(line) = 3 \/ (Len(line) = 2 /\ line[1] = CR)
  BY <1>1, <1>3
<1>5. ~crlf_pending /\ (Len(line) = 3 => line[1] # CR)
  BY <1>2, <1>4 DEF LineOK
<1>6. TrailerAt(Len(line), line[1], Position)
  BY <1>1, <1>2, <1>5, ReaderTypes DEF Sync, At, AtTrailer
<1>7. Position' = Position /\ Read' = Read
  BY <1>1, <1>2, SameRead
<1>8. \/ /\ Text = <<>> /\ done' = TRUE /\ result' = Ended
         /\ trailers' = trailers /\ line' = line
      \/ /\ result' = Error("large")
         /\ done' = done /\ trailers' = trailers /\ line' = line
      \/ /\ Text # <<>> /\ Other \notin ToSet(Text) /\ result' = Error("malformed")
         /\ done' = done /\ trailers' = trailers /\ line' = line
      \/ /\ Text # <<>> /\ Len(Text) <= TrailersMax - trailers /\ Other \in ToSet(Text)
         /\ trailers' = trailers + Len(Text) /\ line' = <<>>
         /\ done' = done /\ result' = result
  BY DEF FinishChunkedBody, Return
<1>9. Text # <<>> => Len(line) = 3
  BY <1>3, <1>4
<1>10. <<>> \in Strings /\ Len(<<>>) = 0
  BY Results
<1>11. CASE Text = <<>> /\ done' = TRUE /\ result' = Ended /\ trailers' = trailers /\ line' = line
  <2>1. result'.kind = "done" /\ result'.data = <<>>
    BY <1>11, Results
  <2>2. Position.at = "whole"
    <3>1. Len(line) = 2 /\ line[1] = CR
      BY <1>3, <1>4, <1>11
    <3> QED BY <1>6, <3>1, TrailerAtEach
  <2>3. RelayTypeOK' /\ Calls' /\ Flow'
    <3>1. Len(result'.data) <= call /\ result'.data \in Strings
      BY <1>1, <1>10, <2>1, ReaderTypes
    <3> QED BY <1>1, <1>2, <1>11, <2>1, <3>1, SameRead, ReaderTypes, ReaderStep
  <2>4. LineOK'
    BY <1>1, <1>2, <1>11 DEF LineOK
  <2>5. Sync'
    BY <1>1, <1>7, <1>11, <2>1, <2>2 DEF Sync
  <2> QED BY <2>3, <2>4, <2>5 DEF Inv
<1>12. CASE /\ result' = Error("large") \/ result' = Error("malformed")
            /\ result' = Error("malformed") => Text # <<>> /\ Other \notin ToSet(Text)
            /\ done' = done /\ trailers' = trailers /\ line' = line
  <2>1. result'.kind \in {"large", "malformed"} /\ result'.data = <<>>
    BY <1>12, Results
  <2>2. result'.kind = "malformed" => Position.at = "bad"
    <3> SUFFICES ASSUME result'.kind = "malformed" PROVE Position.at = "bad"
      OBVIOUS
    <3>1. result' = Error("malformed")
      BY <1>12, Results
    <3>2. Len(line) = 3 /\ line[1] # Other /\ line[1] # CR
      BY <1>3, <1>5, <1>9, <1>12, <3>1
    <3>3. TrailerAt(3, line[1], Position)
      BY <1>6, <3>2
    <3> QED BY <3>2, <3>3, TrailerAtEach, Zenon
  <2>3. RelayTypeOK' /\ Calls' /\ Flow'
    <3>1. Len(result'.data) <= call /\ result'.data \in Strings
      BY <1>1, <1>10, <2>1, ReaderTypes
    <3> QED BY <1>1, <1>2, <1>12, <2>1, <3>1, SameRead, ReaderTypes, ReaderStep
  <2>4. LineOK'
    BY <1>1, <1>2, <1>12 DEF LineOK
  <2>5. Sync'
    BY <1>1, <1>7, <1>12, <2>1, <2>2 DEF Sync
  <2> QED BY <2>3, <2>4, <2>5 DEF Inv
<1>13. CASE /\ Text # <<>> /\ Len(Text) <= TrailersMax - trailers /\ Other \in ToSet(Text)
            /\ trailers' = trailers + Len(Text) /\ line' = <<>>
            /\ done' = done /\ result' = result
  <2>1. Len(line) = 3 /\ line[1] = Other /\ line[1] # CR /\ Len(Text) = 1
    BY <1>3, <1>5, <1>9, <1>13
  <2>2. Position.at = "trailer"
    BY <1>6, <2>1, TrailerAtEach
  <2>3. result'.data = <<>> /\ result'.kind = "none"
    BY <1>1, <1>13, ReaderTypes
  <2>4. trailers' \in -1..TrailersMax /\ trailers' >= 0
    <3>1. trailers' = trailers + 1 /\ 1 <= TrailersMax - trailers
      BY <1>13, <2>1
    <3> QED BY <1>1, <3>1, ReaderTypes, Constants
  <2>5. RelayTypeOK' /\ Calls' /\ Flow'
    <3>1. Len(result'.data) <= call /\ result'.data \in Strings /\ Len(line') <= 3 /\ line' \in Strings
      BY <1>1, <1>10, <1>13, <2>3, ReaderTypes
    <3> QED BY <1>1, <1>2, <1>13, <2>3, <2>4, <3>1, SameRead, ReaderTypes, ReaderStep
  <2>6. LineOK'
    BY <1>1, <1>5, <1>10, <1>13 DEF LineOK
  <2>7. At'
    <3>1. TrailerAt(0, line'[1], Position')
      BY <1>7, <2>2, TrailerAtEach
    <3>2. AtTrailer'
      BY <1>10, <1>13, <3>1 DEF AtTrailer
    <3>3. ~(trailers' = -1)
      BY <2>4
    <3> QED BY <1>1, <1>5, <3>2, <3>3 DEF At
  <2>8. Sync'
    BY <1>1, <1>13, <2>3, <2>7 DEF Sync
  <2> QED BY <2>5, <2>6, <2>8 DEF Inv
<1>14. Error("large") # Error("malformed")
  BY DEF Error
<1> QED BY <1>8, <1>11, <1>12, <1>13, <1>14

----------------------------------------------------------------------------
(* The head                                                                *)
LEMMA LeastOf ==
  ASSUME NEW S, S \subseteq Nat, S # {}
  PROVE  \E i \in S : \A j \in S : i <= j
<1> DEFINE R == OpToRel(<, Nat)
<1>1. \A m, n \in Nat : <<m, n>> \in R <=> m < n
  BY DEF OpToRel
<1>2. IsWellFoundedOn(R, Nat)
  BY NatLessThanWellFounded
<1> HIDE DEF R
<1>3. PICK i \in S : \A j \in S : ~(<<j, i>> \in R)
  BY <1>2, WFMin
<1>4. ASSUME NEW j \in S PROVE i <= j
  <2>1. i \in Nat /\ j \in Nat /\ ~(<<j, i>> \in R)
    BY <1>3
  <2>2. ~(j < i)
    BY <1>1, <2>1, Zenon
  <2> QED BY <2>1, <2>2
<1> QED BY <1>4

LEMMA HeadEndsType ==
  ASSUME NEW buffer \in Strings, NEW start \in Nat
  PROVE  \A i \in HeadEnds(buffer, start) :
           /\ i \in Nat /\ i >= start + 4 /\ i <= Len(buffer)
           /\ SubSeq(buffer, i - 3, i) = CRLF \o CRLF
<1>1. Len(buffer) \in Nat
  BY Whole
<1> QED BY <1>1 DEF HeadEnds

(* Where ipp_http_request_open finds the end of the head.                  *)
LEMMA HeadRead ==
  ASSUME RelayTypeOK, ReadHead
  PROVE  LET ends == HeadEnds(heard', SearchStart(Len(heard)))
         IN /\ \E received \in Strings : heard' = heard \o received /\ Len(received) > 0
            /\ Len(heard') <= BufferSize
            /\ \/ ends = {} /\ phase' = phase /\ header_end' = header_end
               \/ /\ ends # {} /\ phase' = "headers" /\ header_end' \in ends
                  /\ \A j \in ends : header_end' <= j
<1>1. heard \in Strings /\ Len(heard) \in Nat
  BY Whole DEF RelayTypeOK
<1>2. PICK k \in 1..(BufferSize - Len(heard)) : \E received \in [1..k -> Symbols] :
       LET buffer == heard \o received
           ends == HeadEnds(buffer, SearchStart(Len(heard)))
       IN  /\ heard' = buffer
           /\ \/ /\ ends = {}
                 /\ UNCHANGED <<phase, header_end>>
              \/ /\ ends # {}
                 /\ header_end' = CHOOSE i \in ends : \A j \in ends : i <= j
                 /\ phase' = "headers"
  BY Zenon DEF ReadHead
<1> DEFINE ends == HeadEnds(heard', SearchStart(Len(heard)))
<1>3. PICK received \in [1..k -> Symbols] :
       /\ heard' = heard \o received
       /\ \/ ends = {} /\ UNCHANGED <<phase, header_end>>
          \/ /\ ends # {}
             /\ header_end' = CHOOSE i \in ends : \A j \in ends : i <= j
             /\ phase' = "headers"
  BY <1>2, Zenon
<1>4. k \in Nat /\ k > 0 /\ k <= BufferSize - Len(heard)
  BY <1>1, <1>2, Constants
<1>5. received \in Strings /\ Len(received) = k
  <2>1. received \in [1..k -> AnySymbol]
    BY <1>3, SymbolsDiffer
  <2> QED BY <1>4, <2>1 DEF Strings
<1>6. heard' \in Strings /\ Len(heard') <= BufferSize
  <2>1. heard' \in Strings /\ Len(heard') = Len(heard) + Len(received)
    BY <1>1, <1>3, <1>5, Join
  <2> QED BY <1>1, <1>4, <1>5, <2>1, Constants
<1>7. SearchStart(Len(heard)) \in Nat
  BY <1>1 DEF SearchStart
<1>8. ends \subseteq Nat
  BY <1>6, <1>7, HeadEndsType
<1> HIDE DEF ends
<1>9. ends # {} => \E i \in ends : \A j \in ends : i <= j
  BY <1>8, LeastOf
<1>10. \/ ends = {} /\ phase' = phase /\ header_end' = header_end
       \/ /\ ends # {} /\ phase' = "headers" /\ header_end' \in ends
          /\ \A j \in ends : header_end' <= j
  BY <1>3, <1>9, Zenon
<1>11. \E x \in Strings : heard' = heard \o x /\ Len(x) > 0
  BY <1>3, <1>4, <1>5
<1> QED BY <1>6, <1>10, <1>11 DEF ends

LEMMA ReadHeadStep == ASSUME Inv, ReadHead PROVE Inv'
<1>1. /\ phase = "head" /\ used' = used /\ chunked' = chunked /\ content_length' = content_length
      /\ done' = done /\ remaining' = remaining /\ crlf_pending' = crlf_pending
      /\ line' = line /\ trailers' = trailers /\ call' = call /\ result' = result
      /\ prefix' = prefix /\ capacity' = capacity /\ op' = op
      /\ to_copy' = to_copy /\ pending' = pending /\ out' = out
  BY DEF ReadHead, framing, reader, worker, writer
<1>2. RelayTypeOK /\ LineOK /\ Calls /\ Sync /\ Flow
  BY DEF Inv
<1> DEFINE ends == HeadEnds(heard', SearchStart(Len(heard)))
<1>3. /\ \E received \in Strings : heard' = heard \o received /\ Len(received) > 0
      /\ Len(heard') <= BufferSize
      /\ \/ ends = {} /\ phase' = phase /\ header_end' = header_end
         \/ ends # {} /\ phase' = "headers" /\ header_end' \in ends
  BY <1>2, HeadRead
<1>4. heard \in Strings /\ Len(heard) \in Nat /\ heard' \in Strings /\ Len(heard') \in Nat
      /\ used = 0
  <2>1. heard \in Strings /\ Len(heard) \in Nat
    BY <1>2, Whole DEF RelayTypeOK
  <2>2. heard' \in Strings
    BY <1>3, <2>1, Join
  <2> QED BY <1>1, <1>2, <2>1, <2>2, Whole DEF Calls
<1>5. header_end' \in 0..BufferSize
  <2>1. CASE header_end' = header_end
    BY <1>2, <2>1 DEF RelayTypeOK
  <2>2. CASE header_end' \in ends
    <3>1. SearchStart(Len(heard)) \in Nat
      BY <1>4 DEF SearchStart
    <3>2. header_end' \in Nat /\ header_end' <= Len(heard')
      BY <1>4, <2>2, <3>1, HeadEndsType
    <3> QED BY <1>3, <1>4, <3>2, Constants
  <2> QED BY <1>3, <2>1, <2>2
<1> HIDE DEF ends
<1>6. phase' \in {"head", "headers"}
  BY <1>1, <1>3
<1>7. Read' = Read /\ Position' = Position /\ ReadBody' = ReadBody
  <2>1. SubSeq(heard', 1, 0) = <<>> /\ SubSeq(heard, 1, 0) = <<>>
    BY <1>4, Whole
  <2>2. Read' = Read
    BY <1>1, <1>4, <2>1 DEF Read
  <2> QED BY <1>1, <2>2 DEF Position, ReadBody
<1>8. RelayTypeOK'
  <2>1. used' \in 0..Len(heard')
    BY <1>1, <1>4
  <2> QED BY <1>1, <1>2, <1>4, <1>5, <1>6, <2>1 DEF RelayTypeOK
<1>9. LineOK'
  BY <1>1, <1>2 DEF LineOK
<1>10. Calls'
  BY <1>1, <1>2, <1>6 DEF Calls
<1>11. Sync'
  <2>1. ~chunked
    BY <1>1, <1>2 DEF Calls
  <2> QED BY <1>1, <1>2, <2>1 DEF Sync
<1>12. Under = <<>>
  BY <1>1, <1>2, Whole DEF Calls, Under, RelayTypeOK
<1>13. Flow'
  <2>1. Under' = Under /\ ~Started /\ ~Started'
    BY <1>1, <1>12 DEF Under, Started
  <2>2. ReadBody' = prefix' \o result'.data
    BY <1>1, <1>2, <1>7, <2>1 DEF Flow
  <2> QED BY <1>6, <2>1, <2>2 DEF Flow
<1> QED BY <1>8, <1>9, <1>10, <1>11, <1>13 DEF Inv

LEMMA ParseHeadersStep == ASSUME Inv, ParseHeaders PROVE Inv'
<1>1. /\ phase = "headers" /\ used' = used /\ remaining' = content_length'
      /\ heard' = SubSeq(heard, header_end + 1, Len(heard)) /\ header_end' = 0
      /\ phase' = "receive" /\ done' = done /\ crlf_pending' = crlf_pending
      /\ line' = line /\ trailers' = trailers /\ call' = call /\ result' = result
      /\ prefix' = prefix /\ capacity' = capacity /\ op' = op
      /\ to_copy' = to_copy /\ pending' = pending /\ out' = out
  BY DEF ParseHeaders, worker, writer
<1>2. RelayTypeOK /\ LineOK /\ Calls /\ Sync /\ Flow
  BY DEF Inv
<1>3. PICK lengths \in 0..2, codings \in 0..2 :
       /\ lengths <= 1 /\ codings <= 1 /\ (lengths = 1) # (codings = 1)
       /\ chunked' = (codings = 1)
       /\ content_length' \in IF lengths = 1 THEN 0..MaxLength ELSE {0}
  BY DEF ParseHeaders
<1>4. chunked' \in BOOLEAN /\ content_length' \in 0..MaxLength /\ content_length' \in Nat
      /\ (chunked' => content_length' = 0)
  <2>1. 0 \in 0..MaxLength /\ 0..MaxLength \subseteq Nat
    BY Constants
  <2>2. chunked' => lengths # 1
    BY <1>3
  <2> QED BY <1>3, <2>1, <2>2
<1>5. heard' \in Strings /\ Len(heard') \in Nat
  <2>1. header_end \in Nat /\ heard \in Seq(AnySymbol)
    BY <1>2, Constants DEF RelayTypeOK, Strings
  <2>2. heard' \in Seq(AnySymbol)
    BY <1>1, <2>1, SubSeqProperties
  <2> QED BY <2>2, Whole DEF Strings
<1>6. /\ used = 0 /\ prefix = <<>> /\ line = <<>> /\ ~crlf_pending /\ trailers = -1 /\ ~done
      /\ out = <<>> /\ pending = <<>> /\ call = 0 /\ result = Nothing
  BY <1>1, <1>2 DEF Calls
<1>7. result.kind = "none" /\ result.data = <<>> /\ <<>> \in Strings /\ Len(<<>>) = 0
      /\ <<>> \o <<>> = <<>>
  BY <1>6, Results, Whole
<1>8. Read' = <<>> /\ Position' = Start
  <2>1. Read' = <<>>
    BY <1>1, <1>5, <1>6, Whole DEF Read
  <2> QED BY <2>1, DecodedEmpty DEF Position
<1>9. Start.at = "size" /\ Start.data = <<>>
  BY DEF Start
<1>10. RelayTypeOK'
  <2>1. used' \in 0..Len(heard') /\ header_end' \in 0..BufferSize
    <3>1. \A n \in Nat : 0 \in 0..n
      OBVIOUS
    <3>2. used' = 0
      BY <1>1, <1>6
    <3> QED BY <1>1, <1>5, <3>1, <3>2, Constants, Zenon
  <2> QED BY <1>1, <1>2, <1>4, <1>5, <2>1 DEF RelayTypeOK
<1>11. LineOK'
  BY <1>1, <1>6, <1>7 DEF LineOK
<1>12. Calls'
  <2>1. Len(prefix') + call' <= capacity'
    BY <1>1, <1>2, <1>6, <1>7 DEF RelayTypeOK
  <2> QED BY <1>1, <1>2, <1>6, <1>7, <2>1 DEF Calls
<1>13. Sync'
  <2>1. chunked' => At'
    <3>1. remaining' = content_length' /\ crlf_pending' = FALSE /\ trailers' = -1 /\ Len(line') = 0
      BY <1>1, <1>2, <1>6, <1>7 DEF RelayTypeOK
    <3>2. SizeAt(0, line'[1], Position')
      BY <1>8, <1>9, SizeAtEach
    <3>3. AtSize'
      BY <3>1, <3>2 DEF AtSize
    <3>4. chunked' => ~(remaining' > 0)
      BY <1>1, <1>4
    <3>5. ~(trailers' >= 0)
      BY <3>1
    <3> QED BY <3>1, <3>3, <3>4, <3>5 DEF At
  <2>2. ~chunked' => used' + remaining' = content_length'
    <3>1. used' = 0 /\ remaining' = content_length' /\ content_length' \in Nat
      BY <1>1, <1>4, <1>6
    <3>2. \A n \in Nat : 0 + n = n
      OBVIOUS
    <3> QED BY <3>1, <3>2, Zenon
  <2> QED BY <1>1, <1>6, <1>7, <2>1, <2>2 DEF Sync
<1>14. Flow'
  <2>1. ~Started'
    BY <1>1, <1>6, <1>7 DEF Started, Under
  <2>2. ReadBody' = <<>>
    BY <1>8, <1>9 DEF ReadBody
  <2> QED BY <1>1, <1>6, <1>7, <2>1, <2>2 DEF Flow
<1> QED BY <1>10, <1>11, <1>12, <1>13, <1>14 DEF Inv

----------------------------------------------------------------------------
(* The handler                                                             *)

(* What no step of the handler touches.                                    *)
LEMMA HandlerKeeps ==
  ASSUME Inv, UNCHANGED <<clientVars, framing, reader>>,
         result' = result \/ (result.kind \in {"none", "data", "done"} /\ result' = Nothing)
  PROVE  /\ LineOK' /\ Sync'
         /\ heard' = heard /\ used' = used /\ chunked' = chunked
         /\ content_length' = content_length /\ done' = done /\ remaining' = remaining
         /\ crlf_pending' = crlf_pending /\ line' = line /\ trailers' = trailers
         /\ Position' = Position /\ ReadBody' = ReadBody
<1>1. /\ heard' = heard /\ used' = used /\ chunked' = chunked
      /\ content_length' = content_length /\ done' = done /\ remaining' = remaining
      /\ crlf_pending' = crlf_pending /\ line' = line /\ trailers' = trailers
  BY DEF clientVars, framing, reader
<1>2. Position' = Position /\ ReadBody' = ReadBody
  BY <1>1 DEF Position, ReadBody, Read
<1>3. LineOK'
  BY <1>1 DEF Inv, LineOK
<1>4. At => At'
  BY <1>1, <1>2 DEF At, AtData, AtCrlf, AtSize, AtTrailer
<1>5. /\ result'.kind = "malformed" => result.kind = "malformed"
      /\ result'.kind \in {"none", "data", "done"} => result.kind \in {"none", "data", "done"}
  BY Results
<1>6. Sync'
  BY <1>1, <1>2, <1>4, <1>5 DEF Inv, Sync
<1> QED BY <1>1, <1>2, <1>3, <1>6

LEMMA FailStep == ASSUME Inv, Fail, result.data = <<>> PROVE Inv'
<1>1. /\ phase' = "failed" /\ call' = 0 /\ header_end' = header_end /\ result' = result
      /\ prefix' = prefix /\ capacity' = capacity /\ op' = op
      /\ to_copy' = to_copy /\ pending' = pending /\ out' = out
      /\ UNCHANGED <<clientVars, framing, reader>>
  BY DEF Fail, worker, writer
<1>2. /\ LineOK' /\ Sync'
      /\ heard' = heard /\ used' = used /\ chunked' = chunked
      /\ content_length' = content_length /\ done' = done /\ remaining' = remaining
      /\ crlf_pending' = crlf_pending /\ line' = line /\ trailers' = trailers
      /\ Position' = Position /\ ReadBody' = ReadBody
  BY <1>1, HandlerKeeps
<1>3. RelayTypeOK /\ Calls /\ Flow
  BY DEF Inv
<1>4. RelayTypeOK'
  <2>1. 0 \in 0..(StreamChunk + PrefixMax) /\ Len(result.data) <= 0
    BY Constants, Results
  <2> QED BY <1>1, <1>2, <1>3, <2>1 DEF RelayTypeOK
<1>5. Calls'
  BY <1>1, <1>2, <1>3 DEF Calls
<1>6. /\ Under' = Under /\ (Started' <=> Started) /\ (OutgoingChunked' <=> OutgoingChunked)
      /\ Payload' = Payload /\ OutgoingLength' = OutgoingLength
      /\ Outgoing(ReadBody)' = Outgoing(ReadBody)
  BY <1>1, <1>2 DEF Under, Started, OutgoingChunked, Payload, OutgoingLength,
                    RequestBodyLength, Outgoing, Rewritten
<1>7. ChunksFlow => ChunksFlow'
  BY <1>1, <1>2, <1>6 DEF ChunksFlow
<1>8. LengthFlows => LengthFlows'
  BY <1>1, <1>2, <1>6 DEF LengthFlows
<1>9. Flow'
  BY <1>1, <1>2, <1>3, <1>6, <1>7, <1>8 DEF Flow
<1> QED BY <1>2, <1>4, <1>5, <1>9 DEF Inv

(* Every way to fail, at a point where nothing that was read waits.        *)
LEMMA FailuresStep ==
  ASSUME Inv,
         \/ ReadHeadFails \/ ParseHeadersFails \/ ReceiveMoreFails \/ ReceiveFails
         \/ PlanFails \/ WriteFails \/ StreamFails \/ CopyFails
  PROVE  Inv'
<1>1. Fail
  BY DEF ReadHeadFails, ParseHeadersFails, ReceiveMoreFails, ReceiveFails, PlanFails,
         WriteFails, StreamFails, CopyFails
<1>2. Calls
  BY DEF Inv
<1>3. call = 0 /\ phase # "failed" => result.data = <<>>
  BY <1>2, Results DEF Calls
<1>4. result.data = <<>>
  <2>1. CASE ReadHeadFails \/ ParseHeadersFails \/ ReceiveMoreFails \/ PlanFails
             \/ WriteFails \/ StreamFails
    <3>1. phase # "failed" /\ call = 0
      BY <1>2, <2>1 DEF Calls, ReadHeadFails, ParseHeadersFails, ReceiveMoreFails, PlanFails,
                        WriteFails, StreamFails, Writing, Written
    <3> QED BY <1>3, <3>1
  <2>2. CASE ReceiveFails \/ CopyFails
    <3>1. result.kind # "data"
      BY <2>2 DEF ReceiveFails, CopyFails, EndOfBody, ReadError, Returned
    <3> QED BY <1>2, <3>1 DEF Calls
  <2> QED BY <2>1, <2>2
<1> QED BY <1>1, <1>4, FailStep

LEMMA ReceiveMoreStep == ASSUME Inv, ReceiveMore PROVE Inv'
<1> DEFINE wanted == Least(IF capacity = 0 THEN StreamChunk ELSE 2 * capacity, PrefixMax)
<1>1. /\ phase \in {"receive", "drain", "peek"} /\ call = 0 /\ Len(prefix) < PrefixMax
      /\ capacity' = wanted /\ call' = wanted - Len(prefix) /\ result' = Nothing
      /\ phase' = phase /\ header_end' = header_end /\ prefix' = prefix /\ op' = op
      /\ to_copy' = to_copy /\ pending' = pending /\ out' = out
      /\ UNCHANGED <<clientVars, framing, reader>>
  BY DEF ReceiveMore, Call, writer
<1>2. RelayTypeOK /\ Calls /\ Flow
  BY DEF Inv
<1>3. result = Nothing /\ result.kind = "none" /\ result.data = <<>>
  BY <1>1, <1>2, Results DEF Calls
<1>4. /\ LineOK' /\ Sync'
      /\ heard' = heard /\ used' = used /\ chunked' = chunked
      /\ content_length' = content_length /\ done' = done /\ remaining' = remaining
      /\ crlf_pending' = crlf_pending /\ line' = line /\ trailers' = trailers
      /\ Position' = Position /\ ReadBody' = ReadBody
  BY <1>1, <1>3, HandlerKeeps
<1>5. /\ capacity \in Nat /\ capacity <= PrefixMax /\ Len(prefix) \in Nat
      /\ Len(prefix) <= capacity
  BY <1>2, Whole, Constants DEF RelayTypeOK
<1>6. /\ wanted \in Nat /\ wanted <= PrefixMax /\ wanted >= Len(prefix)
  <2>1. CASE capacity = 0
    BY <1>1, <1>5, <2>1, Constants DEF Least
  <2>2. CASE capacity # 0
    <3>1. 2 * capacity \in Nat /\ 2 * capacity >= capacity
      BY <1>5
    <3> QED BY <1>1, <1>5, <2>2, <3>1, Constants DEF Least
  <2> QED BY <2>1, <2>2
<1> HIDE DEF wanted
<1>7. RelayTypeOK'
  <2>1. call' \in 0..(StreamChunk + PrefixMax) /\ capacity' \in 0..PrefixMax
        /\ Len(prefix') <= capacity' /\ call' >= 0
    BY <1>1, <1>5, <1>6, Constants
  <2>2. result'.kind = "none" /\ result'.data \in Strings /\ Len(result'.data) <= call'
    BY <1>1, <2>1, Results
  <2> QED BY <1>1, <1>2, <1>4, <2>1, <2>2 DEF RelayTypeOK
<1>8. Calls'
  <2>1. Len(prefix') + call' <= capacity'
    BY <1>1, <1>5, <1>6
  <2> QED BY <1>1, <1>2, <1>3, <1>4, <2>1 DEF Calls
<1>9. Flow'
  <2>1. /\ Under' = Under /\ (Started' <=> Started) /\ ~Started
    <3>1. ~Started
      BY <1>1, <1>2, Results, Whole DEF Calls, Flow, Started, Under
    <3> QED BY <1>1, <3>1 DEF Under, Started
  <2> QED BY <1>1, <1>2, <1>3, <1>4, <2>1 DEF Flow
<1> QED BY <1>4, <1>7, <1>8, <1>9 DEF Inv

(* InspectRequest and DrainRequest add what was read to the prefix.        *)
LEMMA PrefixGrows ==
  ASSUME Inv, phase \in {"receive", "drain", "peek"}, Returned("data")
  PROVE  /\ prefix \o result.data \in Strings
         /\ Len(prefix \o result.data) = Len(prefix) + Len(result.data)
         /\ Len(prefix) \in Nat /\ Len(result.data) \in Nat
         /\ Len(prefix \o result.data) <= capacity
         /\ ReadBody = prefix \o result.data /\ ~Started /\ Under = <<>>
         /\ result.kind = "data" /\ result.data # <<>> /\ ~done
<1>1. RelayTypeOK /\ Calls /\ Flow
  BY DEF Inv
<1>2. result.kind = "data" /\ result.data # <<>> /\ call > 0
  BY <1>1 DEF Returned, Calls
<1>3. /\ prefix \o result.data \in Strings
      /\ Len(prefix \o result.data) = Len(prefix) + Len(result.data)
      /\ Len(prefix) \in Nat /\ Len(result.data) \in Nat
  BY <1>1, Join DEF RelayTypeOK
<1>4. Len(prefix) + call <= capacity /\ Len(result.data) <= call /\ call \in Nat /\ capacity \in Nat
  BY <1>1, Constants DEF Calls, RelayTypeOK
<1>5. Len(prefix \o result.data) <= capacity
  BY <1>3, <1>4
<1>6. ~Started
  BY <1>1, Results, Whole DEF Calls, Flow, Started, Under
<1>7. ReadBody = prefix \o result.data
  BY <1>1, <1>6 DEF Flow
<1>8. ~done
  BY <1>1, <1>2 DEF Calls
<1> QED BY <1>2, <1>3, <1>5, <1>6, <1>7, <1>8 DEF Started

LEMMA InspectRequestStep == ASSUME Inv, InspectRequest PROVE Inv'
<1>1. /\ phase = "receive" /\ Returned("data") /\ prefix' = prefix \o result.data
      /\ call' = 0 /\ result' = Nothing /\ header_end' = header_end /\ capacity' = capacity
      /\ to_copy' = to_copy /\ pending' = pending /\ out' = out
      /\ UNCHANGED <<clientVars, framing, reader>>
  BY DEF InspectRequest, Call, writer
<1>2. \/ phase' = phase /\ op' = op
      \/ /\ Len(prefix') >= AttributesLength
         /\ op' \in {"print", "send", "other"}
         /\ phase' = CASE chunked /\ op' = "other" -> "drain"
                       [] chunked /\ op' = "print" /\ Len(prefix') = AttributesLength -> "peek"
                       [] OTHER -> "plan"
      \/ phase' = "failed" /\ op' = op
  BY DEF InspectRequest
<1>3. RelayTypeOK /\ Calls /\ Flow
  BY DEF Inv
<1>4. /\ prefix' \in Strings /\ Len(prefix') \in Nat /\ Len(prefix') <= capacity
      /\ ReadBody = prefix' /\ ~Started /\ Under = <<>> /\ result.kind = "data"
  BY <1>1, PrefixGrows, Whole
<1>5. /\ LineOK' /\ Sync'
      /\ heard' = heard /\ used' = used /\ chunked' = chunked
      /\ content_length' = content_length /\ done' = done /\ remaining' = remaining
      /\ crlf_pending' = crlf_pending /\ line' = line /\ trailers' = trailers
      /\ Position' = Position /\ ReadBody' = ReadBody
  BY <1>1, <1>4, HandlerKeeps
<1>6. /\ phase' \in {"receive", "drain", "peek", "plan", "failed"}
      /\ op' \in {"none", "print", "send", "other"}
      /\ phase' \in {"drain", "peek", "plan"} => Len(prefix') >= AttributesLength
      /\ phase' = "plan" => ~(chunked /\ op' = "other")
      /\ phase' = "peek" => op' # "other"
  <2>1. CASE phase' = phase /\ op' = op
    BY <1>1, <1>3, <2>1 DEF RelayTypeOK
  <2>2. CASE /\ Len(prefix') >= AttributesLength
             /\ op' \in {"print", "send", "other"}
             /\ phase' = CASE chunked /\ op' = "other" -> "drain"
                           [] chunked /\ op' = "print" /\ Len(prefix') = AttributesLength -> "peek"
                           [] OTHER -> "plan"
    <3>1. CASE chunked /\ op' = "other"
      BY <2>2, <3>1
    <3>2. CASE chunked /\ op' = "print" /\ Len(prefix') = AttributesLength
      BY <2>2, <3>2
    <3>3. CASE ~(chunked /\ op' = "other")
               /\ ~(chunked /\ op' = "print" /\ Len(prefix') = AttributesLength)
      BY <2>2, <3>3
    <3> QED BY <3>1, <3>2, <3>3, Zenon
  <2>3. CASE phase' = "failed" /\ op' = op
    BY <1>3, <2>3 DEF RelayTypeOK
  <2> QED BY <1>2, <2>1, <2>2, <2>3, Zenon
<1>7. result'.kind = "none" /\ result'.data = <<>> /\ <<>> \in Strings /\ Len(<<>>) = 0
  BY <1>1, Results
<1>8. RelayTypeOK'
  <2>1. 0 \in 0..(StreamChunk + PrefixMax) /\ Len(result'.data) <= 0
    BY <1>7, Constants
  <2> QED BY <1>1, <1>3, <1>4, <1>5, <1>6, <1>7, <2>1 DEF RelayTypeOK
<1>9. Calls'
  <2>1. Len(prefix') + call' <= capacity'
    BY <1>1, <1>4
  <2>2. phase' \notin {"head", "headers", "copy", "relayed"}
    BY <1>6
  <2> QED BY <1>1, <1>3, <1>4, <1>5, <1>7, <2>1, <2>2 DEF Calls
<1>10. Flow'
  <2>1. Under' = Under /\ ~Started'
    BY <1>1, <1>4 DEF Under, Started
  <2>2. ReadBody' = prefix' \o result'.data
    BY <1>4, <1>5, <1>7, Whole
  <2>3. phase' \notin {"write", "copy", "close", "relayed"}
    BY <1>6
  <2> QED BY <1>4, <1>5, <1>6, <2>1, <2>2, <2>3 DEF Flow
<1> QED BY <1>5, <1>8, <1>9, <1>10 DEF Inv

LEMMA DrainRequestStep == ASSUME Inv, DrainRequest PROVE Inv'
<1>1. /\ phase \in {"drain", "peek"} /\ Returned("data") /\ prefix' = prefix \o result.data
      /\ call' = 0 /\ result' = Nothing /\ header_end' = header_end /\ capacity' = capacity
      /\ op' = op /\ to_copy' = to_copy /\ pending' = pending /\ out' = out
      /\ phase' = IF phase = "drain" THEN "drain" ELSE "plan"
      /\ UNCHANGED <<clientVars, framing, reader>>
  BY DEF DrainRequest, Call, writer
<1>2. RelayTypeOK /\ Calls /\ Flow
  BY DEF Inv
<1>3. /\ prefix' \in Strings /\ Len(prefix') \in Nat /\ Len(prefix') <= capacity
      /\ ReadBody = prefix' /\ ~Started /\ Under = <<>> /\ result.kind = "data"
      /\ Len(prefix') >= AttributesLength
  <2>1. /\ prefix \o result.data \in Strings
        /\ Len(prefix \o result.data) = Len(prefix) + Len(result.data)
        /\ Len(prefix) \in Nat /\ Len(result.data) \in Nat
        /\ Len(prefix \o result.data) <= capacity
        /\ ReadBody = prefix \o result.data /\ ~Started /\ Under = <<>> /\ result.kind = "data"
    BY <1>1, PrefixGrows
  <2>2. Len(prefix) >= AttributesLength
    BY <1>1, <1>2 DEF Flow
  <2>3. Len(prefix \o result.data) >= AttributesLength
    BY <2>1, <2>2, Constants
  <2> QED BY <1>1, <2>1, <2>3, Whole
<1>4. /\ LineOK' /\ Sync'
      /\ heard' = heard /\ used' = used /\ chunked' = chunked
      /\ content_length' = content_length /\ done' = done /\ remaining' = remaining
      /\ crlf_pending' = crlf_pending /\ line' = line /\ trailers' = trailers
      /\ Position' = Position /\ ReadBody' = ReadBody
  BY <1>1, <1>3, HandlerKeeps
<1>5. result'.kind = "none" /\ result'.data = <<>> /\ <<>> \in Strings /\ Len(<<>>) = 0
  BY <1>1, Results
<1>6. RelayTypeOK'
  <2>1. 0 \in 0..(StreamChunk + PrefixMax) /\ Len(result'.data) <= 0
    BY <1>5, Constants
  <2> QED BY <1>1, <1>2, <1>3, <1>4, <1>5, <2>1 DEF RelayTypeOK
<1>7. Calls'
  <2>1. Len(prefix') + call' <= capacity'
    BY <1>1, <1>3
  <2> QED BY <1>1, <1>2, <1>4, <1>5, <2>1 DEF Calls
<1>8. Flow'
  <2>1. Under' = Under /\ ~Started'
    BY <1>1, <1>3 DEF Under, Started
  <2>2. ReadBody' = prefix' \o result'.data
    BY <1>3, <1>4, <1>5, Whole
  <2>3. phase' = "plan" => op' # "other"
    BY <1>1, <1>2 DEF Flow
  <2> QED BY <1>1, <1>2, <1>3, <1>4, <2>1, <2>2, <2>3 DEF Flow
<1> QED BY <1>4, <1>6, <1>7, <1>8 DEF Inv

LEMMA RequestEndsStep == ASSUME Inv, RequestEnds PROVE Inv'
<1>1. /\ phase \in {"drain", "peek"} /\ result.kind = "done" /\ phase' = "plan"
      /\ call' = 0 /\ result' = Nothing /\ header_end' = header_end /\ capacity' = capacity
      /\ prefix' = prefix /\ op' = op /\ to_copy' = to_copy /\ pending' = pending /\ out' = out
      /\ UNCHANGED <<clientVars, framing, reader>>
  BY DEF RequestEnds, EndOfBody, Returned, Call, worker, writer
<1>2. RelayTypeOK /\ Calls /\ Flow
  BY DEF Inv
<1>3. /\ LineOK' /\ Sync'
      /\ heard' = heard /\ used' = used /\ chunked' = chunked
      /\ content_length' = content_length /\ done' = done /\ remaining' = remaining
      /\ crlf_pending' = crlf_pending /\ line' = line /\ trailers' = trailers
      /\ Position' = Position /\ ReadBody' = ReadBody
  BY <1>1, HandlerKeeps
<1>4. result'.kind = "none" /\ result'.data = <<>> /\ <<>> \in Strings /\ Len(<<>>) = 0
  BY <1>1, Results
<1>5. result.data = <<>> /\ done
  BY <1>1, <1>2 DEF Calls
<1>6. RelayTypeOK'
  <2>1. 0 \in 0..(StreamChunk + PrefixMax) /\ Len(result'.data) <= 0
    BY <1>4, Constants
  <2> QED BY <1>1, <1>2, <1>3, <1>4, <2>1 DEF RelayTypeOK
<1>7. Calls'
  BY <1>1, <1>2, <1>3, <1>4 DEF Calls
<1>8. Flow'
  <2>1. Under' = Under /\ (Started' <=> Started)
    BY <1>1 DEF Under, Started
  <2> QED BY <1>1, <1>2, <1>3, <1>4, <1>5, <2>1 DEF Flow
<1> QED BY <1>3, <1>6, <1>7, <1>8 DEF Inv

LEMMA OpenUpstreamStep == ASSUME Inv, OpenUpstream PROVE Inv'
<1>1. /\ phase = "plan" /\ phase' = "write" /\ header_end' = header_end
      /\ pending' = (IF OutgoingChunked THEN HttpChunk(Outgoing(prefix)) ELSE Outgoing(prefix))
      /\ to_copy' = (IF OutgoingChunked THEN 0 ELSE RequestBodyLength - Len(prefix))
      /\ call' = call /\ result' = result /\ capacity' = capacity
      /\ prefix' = prefix /\ op' = op /\ out' = out
      /\ UNCHANGED <<clientVars, framing, reader>>
  BY DEF OpenUpstream, worker
<1>2. RelayTypeOK /\ Calls /\ Flow /\ Sync
  BY DEF Inv
<1>3. result = Nothing /\ call = 0 /\ result.kind = "none" /\ result.data = <<>>
  BY <1>1, <1>2, Results DEF Calls
<1>4. /\ LineOK' /\ Sync'
      /\ heard' = heard /\ used' = used /\ chunked' = chunked
      /\ content_length' = content_length /\ done' = done /\ remaining' = remaining
      /\ crlf_pending' = crlf_pending /\ line' = line /\ trailers' = trailers
      /\ Position' = Position /\ ReadBody' = ReadBody
  BY <1>1, HandlerKeeps
<1>5. /\ ~Started /\ Under = <<>> /\ Len(prefix) >= AttributesLength
      /\ chunked /\ op = "other" => done
  BY <1>1, <1>2 DEF Flow, Started
<1>6. prefix \in Strings /\ Len(prefix) \in Nat /\ ReadBody = prefix
  BY <1>2, <1>3, <1>5, Whole DEF Flow, RelayTypeOK
<1>7. Outgoing(prefix) \in Strings /\ Outgoing(prefix) # <<>>
  BY <1>6, OutgoingType
<1>8. HttpChunk(Outgoing(prefix)) \in Strings /\ HttpChunk(Outgoing(prefix)) # <<>>
  BY <1>7, ChunkParts
<1>9. pending' \in Strings /\ pending' # <<>>
  BY <1>1, <1>7, <1>8
<1>10. out = <<>>
  <2>1. out \in Strings /\ pending \in Strings
    BY <1>2 DEF RelayTypeOK
  <2> QED BY <1>5, <2>1, ConcatEmptySeq DEF Strings, Under
<1>11. Under' = pending' /\ Started'
  BY <1>1, <1>9, <1>10, Whole DEF Under, Started
<1>12. /\ ~chunked => content_length - Len(prefix) = remaining
       /\ content_length \in Nat /\ content_length <= MaxLength /\ remaining \in Nat
  <2>1. ~chunked => used + remaining = content_length /\ Len(prefix) = used
    BY <1>2, <1>6, ReadTypes DEF Sync, ReadBody
  <2>2. used \in Nat /\ remaining \in Nat /\ content_length \in Nat /\ content_length <= MaxLength
    BY <1>2, ReadTypes, Constants DEF RelayTypeOK
  <2> QED BY <1>6, <2>1, <2>2
<1>13. to_copy' \in 0..MaxLength /\ (chunked => to_copy' = 0)
       /\ (~chunked => to_copy' = remaining)
  <2>1. chunked \in BOOLEAN
    BY <1>2 DEF RelayTypeOK
  <2>2. CASE chunked
    <3>1. to_copy' = 0 \/ to_copy' = Len(prefix) - Len(prefix)
      BY <1>1, <2>2 DEF RequestBodyLength
    <3> QED BY <1>6, <2>2, <3>1, Constants
  <2>3. CASE ~chunked
    <3>1. to_copy' = content_length - Len(prefix)
      BY <1>1, <2>3 DEF RequestBodyLength, OutgoingChunked
    <3>2. to_copy' = remaining /\ remaining <= content_length
      BY <1>6, <1>12, <2>3, <3>1
    <3> QED BY <1>12, <2>3, <3>2, Constants
  <2> QED BY <2>2, <2>3
<1>14. RelayTypeOK'
  BY <1>1, <1>2, <1>4, <1>9, <1>13 DEF RelayTypeOK
<1>15. Calls'
  BY <1>1, <1>2, <1>3, <1>4 DEF Calls
<1>16. /\ (OutgoingChunked' <=> OutgoingChunked)
       /\ RequestBodyLength' = RequestBodyLength
       /\ OutgoingLength' = OutgoingLength /\ Outgoing(ReadBody)' = Outgoing(prefix)
  BY <1>1, <1>4, <1>6 DEF OutgoingChunked, RequestBodyLength, OutgoingLength, Outgoing, Rewritten
<1>17. CASE OutgoingChunked
  <2>1. Decoded(<<>>).at = "size" /\ Decoded(<<>>).data = <<>>
    BY DecodedEmpty DEF Start
  <2>2. /\ Decoded(<<>> \o HttpChunk(Outgoing(prefix))).at = "size"
        /\ Decoded(<<>> \o HttpChunk(Outgoing(prefix))).data = <<>> \o Outgoing(prefix)
    BY <1>7, <2>1, DecodedChunk, Results
  <2>3. Under' = <<>> \o HttpChunk(Outgoing(prefix)) /\ <<>> \o Outgoing(prefix) = Outgoing(prefix)
    BY <1>1, <1>7, <1>8, <1>11, <1>17, Whole
  <2>4. Decoded(Under').at = "size" /\ Decoded(Under').data = Outgoing(prefix)
    BY <2>2, <2>3
  <2>5. ChunksFlow'
    BY <1>1, <2>4 DEF ChunksFlow
  <2>6. Payload' \o result'.data = Outgoing(ReadBody)'
    BY <1>1, <1>3, <1>7, <1>16, <1>17, <2>4, Whole DEF Payload
  <2> QED BY <1>1, <1>4, <1>5, <1>6, <1>11, <1>14, <1>15, <1>16, <1>17, <2>5, <2>6 DEF Inv, Flow
<1>18. CASE ~OutgoingChunked
  <2>1. Under' = Outgoing(prefix)
    BY <1>1, <1>11, <1>18
  <2>2. LengthFlows'
    <3>1. Len(Under') \in Nat /\ RequestBodyLength \in Int
      BY <1>6, <1>7, <1>12, <2>1, Whole DEF RequestBodyLength
    <3>2. /\ to_copy' = RequestBodyLength - Len(prefix)
          /\ OutgoingLength' = RequestBodyLength + Len(Under') - Len(prefix)
      BY <1>1, <1>16, <1>18, <2>1 DEF OutgoingLength
    <3>3. Len(Under') + to_copy' = OutgoingLength'
      BY <1>6, <3>1, <3>2
    <3>4. chunked' => done'
      <4>1. chunked => op = "other"
        BY <1>18 DEF OutgoingChunked
      <4> QED BY <1>4, <1>5, <4>1
    <3>5. ~chunked' => to_copy' = remaining' + Len(result'.data)
      <4>1. Len(result'.data) = 0
        BY <1>1, <1>3, Results
      <4>2. ~chunked => to_copy' = remaining
        BY <1>13
      <4> QED BY <1>4, <1>12, <4>1, <4>2
    <3> QED BY <1>1, <1>4, <1>13, <3>3, <3>4, <3>5 DEF LengthFlows
  <2>3. Payload' \o result'.data = Outgoing(ReadBody)'
    BY <1>1, <1>3, <1>7, <1>16, <1>18, <2>1, Whole DEF Payload
  <2> QED BY <1>1, <1>4, <1>5, <1>6, <1>11, <1>14, <1>15, <1>16, <1>18, <2>2, <2>3 DEF Inv, Flow
<1> QED BY <1>17, <1>18

----------------------------------------------------------------------------
(* The writer                                                              *)

(* Steps that leave what the printer has, or will have, alone.             *)
LEMMA WriterKeeps ==
  ASSUME Inv, UNCHANGED <<chunked, content_length, prefix, op>>, ReadBody' = ReadBody,
         Under' = Under
  PROVE  /\ (Started' <=> Started) /\ (OutgoingChunked' <=> OutgoingChunked)
         /\ Payload' = Payload /\ OutgoingLength' = OutgoingLength
         /\ Outgoing(ReadBody)' = Outgoing(ReadBody)
BY DEF Started, OutgoingChunked, Payload, OutgoingLength, RequestBodyLength, Outgoing, Rewritten

LEMMA WriteSomeStep == ASSUME Inv, WriteSome PROVE Inv'
<1>1. /\ phase \in {"write", "close"} /\ phase' = phase /\ header_end' = header_end
      /\ call' = call /\ result' = result /\ prefix' = prefix /\ capacity' = capacity
      /\ op' = op /\ to_copy' = to_copy
      /\ UNCHANGED <<clientVars, framing, reader>>
  BY DEF WriteSome, Writing, worker
<1>2. PICK n \in 1..Len(pending) :
        out' = out \o SubSeq(pending, 1, n) /\ pending' = SubSeq(pending, n + 1, Len(pending))
  BY DEF WriteSome, Left
<1>3. RelayTypeOK /\ Calls /\ Flow
  BY DEF Inv
<1>4. /\ LineOK' /\ Sync'
      /\ heard' = heard /\ used' = used /\ chunked' = chunked
      /\ content_length' = content_length /\ done' = done /\ remaining' = remaining
      /\ crlf_pending' = crlf_pending /\ line' = line /\ trailers' = trailers
      /\ Position' = Position /\ ReadBody' = ReadBody
  BY <1>1, HandlerKeeps
<1>5. out \in Strings /\ pending \in Strings /\ Len(pending) \in Nat /\ n \in Nat /\ n <= Len(pending)
  BY <1>2, <1>3, Whole DEF RelayTypeOK
<1> DEFINE a == SubSeq(pending, 1, n)
           b == SubSeq(pending, n + 1, Len(pending))
<1>6. a \in Strings /\ b \in Strings /\ a \o b = pending
  <2>1. Len(pending) <= Len(pending)
    BY <1>5
  <2>2. SubSeq(pending, 1, Len(pending)) = pending
    BY <1>5, Whole
  <2> QED BY <1>5, <2>1, <2>2, Cut
<1> HIDE DEF a, b
<1>7. out' \in Strings /\ pending' \in Strings /\ Under' = Under
  <2>1. out' = out \o a /\ pending' = b
    BY <1>2 DEF a, b
  <2>2. \A p, q \in Strings : (out \o p) \o q = out \o (p \o q)
    BY <1>5, Associative
  <2>3. out \o a \in Strings
    BY <1>5, <1>6, Join
  <2>4. (out \o a) \o b = out \o pending
    BY <1>6, <2>2
  <2> QED BY <1>6, <2>1, <2>3, <2>4 DEF Under
<1>8. RelayTypeOK'
  BY <1>1, <1>3, <1>4, <1>7 DEF RelayTypeOK
<1>9. Calls'
  BY <1>1, <1>3, <1>4 DEF Calls
<1>10. /\ (Started' <=> Started) /\ (OutgoingChunked' <=> OutgoingChunked)
       /\ Payload' = Payload /\ OutgoingLength' = OutgoingLength
       /\ Outgoing(ReadBody)' = Outgoing(ReadBody)
  BY <1>1, <1>4, <1>7, WriterKeeps
<1>11. /\ ChunksFlow => ChunksFlow'
       /\ LengthFlows => LengthFlows'
  BY <1>1, <1>4, <1>7, <1>10 DEF ChunksFlow, LengthFlows
<1>12. Flow'
  BY <1>1, <1>3, <1>4, <1>10, <1>11 DEF Flow
<1> QED BY <1>4, <1>8, <1>9, <1>12 DEF Inv

LEMMA ReadNextPieceStep == ASSUME Inv, ReadNextPiece PROVE Inv'
<1>1. /\ phase = "write" /\ pending = <<>> /\ (OutgoingChunked \/ to_copy > 0)
      /\ call' = (IF OutgoingChunked THEN StreamChunk ELSE Least(to_copy, StreamChunk))
      /\ result' = Nothing /\ phase' = "copy" /\ header_end' = header_end
      /\ prefix' = prefix /\ capacity' = capacity /\ op' = op
      /\ to_copy' = to_copy /\ pending' = pending /\ out' = out
      /\ UNCHANGED <<clientVars, framing, reader>>
  BY DEF ReadNextPiece, Written, Call, worker, writer
<1>2. RelayTypeOK /\ Calls /\ Flow
  BY DEF Inv
<1>3. result = Nothing /\ call = 0 /\ result.kind = "none" /\ result.data = <<>>
  BY <1>1, <1>2, Results DEF Calls
<1>4. /\ LineOK' /\ Sync'
      /\ heard' = heard /\ used' = used /\ chunked' = chunked
      /\ content_length' = content_length /\ done' = done /\ remaining' = remaining
      /\ crlf_pending' = crlf_pending /\ line' = line /\ trailers' = trailers
      /\ Position' = Position /\ ReadBody' = ReadBody
  BY <1>1, <1>3, HandlerKeeps
<1>5. call' \in 0..(StreamChunk + PrefixMax) /\ call' > 0
  <2>1. to_copy \in Nat
    BY <1>2, Constants DEF RelayTypeOK
  <2>2. call' \in Nat /\ call' > 0 /\ call' <= StreamChunk
    BY <1>1, <2>1, Constants DEF Least
  <2> QED BY <2>2, Constants
<1>6. result' = result
  BY <1>1, <1>3
<1>7. RelayTypeOK'
  <2>1. Len(result'.data) <= call'
    BY <1>3, <1>5, <1>6, Results, Constants
  <2> QED BY <1>1, <1>2, <1>4, <1>5, <1>6, <2>1 DEF RelayTypeOK
<1>8. Calls'
  <2>1. ~(call' = 0)
    BY <1>5
  <2> QED BY <1>1, <1>2, <1>4, <1>5, <1>6, <2>1 DEF Calls
<1>9. Under' = Under
  BY <1>1 DEF Under
<1>10. /\ (Started' <=> Started) /\ (OutgoingChunked' <=> OutgoingChunked)
       /\ Payload' = Payload /\ OutgoingLength' = OutgoingLength
       /\ Outgoing(ReadBody)' = Outgoing(ReadBody)
  BY <1>1, <1>4, <1>9, WriterKeeps
<1>11. /\ ChunksFlow => ChunksFlow'
       /\ LengthFlows => LengthFlows'
  BY <1>1, <1>4, <1>6, <1>9, <1>10 DEF ChunksFlow, LengthFlows
<1>12. Flow'
  BY <1>1, <1>2, <1>4, <1>6, <1>10, <1>11 DEF Flow
<1> QED BY <1>4, <1>7, <1>8, <1>12 DEF Inv

LEMMA RelayedStep == ASSUME Inv, Relayed PROVE Inv'
<1>1. /\ \/ phase = "write" /\ ~OutgoingChunked /\ to_copy = 0
         \/ phase = "close"
      /\ pending = <<>> /\ phase' = "relayed" /\ header_end' = header_end
      /\ call' = call /\ result' = result /\ prefix' = prefix /\ capacity' = capacity
      /\ op' = op /\ to_copy' = to_copy /\ pending' = pending /\ out' = out
      /\ UNCHANGED <<clientVars, framing, reader>>
  BY DEF Relayed, Written, worker, writer
<1>2. RelayTypeOK /\ Calls /\ Flow
  BY DEF Inv
<1>3. /\ LineOK' /\ Sync'
      /\ heard' = heard /\ used' = used /\ chunked' = chunked
      /\ content_length' = content_length /\ done' = done /\ remaining' = remaining
      /\ crlf_pending' = crlf_pending /\ line' = line /\ trailers' = trailers
      /\ Position' = Position /\ ReadBody' = ReadBody
  BY <1>1, HandlerKeeps
<1>4. RelayTypeOK'
  BY <1>1, <1>2, <1>3 DEF RelayTypeOK
<1>5. Calls'
  BY <1>1, <1>2, <1>3 DEF Calls
<1>6. Under' = Under
  BY <1>1 DEF Under
<1>7. /\ (Started' <=> Started) /\ (OutgoingChunked' <=> OutgoingChunked)
      /\ Payload' = Payload /\ OutgoingLength' = OutgoingLength
      /\ Outgoing(ReadBody)' = Outgoing(ReadBody)
  BY <1>1, <1>3, <1>6, WriterKeeps
<1>8. Started
  BY <1>1, <1>2 DEF Flow
<1>9. OutgoingChunked => phase = "close" /\ ChunksFlow
  BY <1>1, <1>2, <1>8 DEF Flow
<1>10. ~OutgoingChunked => phase = "write" /\ to_copy = 0 /\ LengthFlows
  BY <1>1, <1>2, <1>8 DEF Flow, LengthFlows
<1>11. OutgoingChunked' => ChunksFlow'
  BY <1>1, <1>3, <1>6, <1>7, <1>9 DEF ChunksFlow
<1>12. ~OutgoingChunked' => LengthFlows'
  BY <1>1, <1>3, <1>6, <1>7, <1>10 DEF LengthFlows
<1>13. Flow'
  BY <1>1, <1>2, <1>3, <1>7, <1>8, <1>11, <1>12 DEF Flow
<1> QED BY <1>3, <1>4, <1>5, <1>13 DEF Inv

(* A piece passed on where a call has given data: the phase is copy, and   *)
(* nothing is left to write.                                               *)
LEMMA CopyReturned ==
  ASSUME Inv, phase = "copy"
  PROVE  /\ RelayTypeOK /\ Calls /\ Flow /\ Started
         /\ out \in Strings /\ pending = <<>> /\ Under = out
         /\ Payload \o result.data = Outgoing(ReadBody)
         /\ Len(ReadBody) >= AttributesLength
         /\ OutgoingChunked => ChunksFlow /\ Payload = Decoded(out).data
                               /\ Decoded(out).at = "size"
         /\ ~OutgoingChunked => LengthFlows /\ Payload = out
<1>1. RelayTypeOK /\ Calls /\ Flow
  BY DEF Inv
<1>2. pending = <<>> /\ Started
  BY <1>1 DEF Calls, Flow
<1>3. out \in Strings
  BY <1>1 DEF RelayTypeOK
<1>4. Under = out
  BY <1>2, <1>3, Whole DEF Under
<1>5. /\ Payload \o result.data = Outgoing(ReadBody) /\ Len(ReadBody) >= AttributesLength
      /\ OutgoingChunked => ChunksFlow
      /\ ~OutgoingChunked => LengthFlows
  BY <1>1, <1>2 DEF Flow
<1>6. OutgoingChunked => Payload = Decoded(out).data /\ Decoded(out).at = "size"
  BY <1>4, <1>5 DEF ChunksFlow, Payload
<1>7. ~OutgoingChunked => Payload = out
  BY <1>4 DEF Payload
<1> QED BY <1>1, <1>2, <1>3, <1>4, <1>5, <1>6, <1>7

LEMMA PassPieceStep == ASSUME Inv, PassPiece PROVE Inv'
<1>1. /\ phase = "copy" /\ phase' = "write" /\ call > 0 /\ result.kind = "data"
      /\ pending' = (IF OutgoingChunked THEN HttpChunk(result.data) ELSE result.data)
      /\ to_copy' = (IF OutgoingChunked THEN 0 ELSE to_copy - Len(result.data))
      /\ call' = 0 /\ result' = Nothing /\ header_end' = header_end
      /\ prefix' = prefix /\ capacity' = capacity /\ op' = op /\ out' = out
      /\ UNCHANGED <<clientVars, framing, reader>>
  BY DEF PassPiece, Returned, Call, worker
<1>2. /\ RelayTypeOK /\ Calls /\ Flow /\ Started
      /\ out \in Strings /\ pending = <<>> /\ Under = out
      /\ Payload \o result.data = Outgoing(ReadBody)
      /\ Len(ReadBody) >= AttributesLength
      /\ OutgoingChunked => ChunksFlow /\ Payload = Decoded(out).data /\ Decoded(out).at = "size"
      /\ ~OutgoingChunked => LengthFlows /\ Payload = out
  BY <1>1, CopyReturned
<1>3. /\ LineOK' /\ Sync'
      /\ heard' = heard /\ used' = used /\ chunked' = chunked
      /\ content_length' = content_length /\ done' = done /\ remaining' = remaining
      /\ crlf_pending' = crlf_pending /\ line' = line /\ trailers' = trailers
      /\ Position' = Position /\ ReadBody' = ReadBody
  BY <1>1, HandlerKeeps
<1>4. result.data \in Strings /\ result.data # <<>> /\ ~done /\ Len(result.data) \in Nat
  BY <1>1, <1>2, Whole DEF RelayTypeOK, Calls
<1>5. result'.kind = "none" /\ result'.data = <<>> /\ Len(<<>>) = 0 /\ <<>> \in Strings
  BY <1>1, Results
<1>6. HttpChunk(result.data) \in Strings /\ HttpChunk(result.data) # <<>>
  BY <1>4, ChunkParts, Results
<1>7. pending' \in Strings /\ pending' # <<>>
  BY <1>1, <1>4, <1>6
<1>8. Under' = out \o pending' /\ Under' \in Strings /\ Started'
  <2>1. out \o pending' \in Strings
    BY <1>2, <1>7, Join
  <2>2. out \o pending' # <<>>
    BY <1>2, <1>7, ConcatEmptySeq DEF Strings
  <2> QED BY <1>1, <2>1, <2>2 DEF Under, Started
<1>9. (OutgoingChunked' <=> OutgoingChunked) /\ OutgoingLength' = OutgoingLength
      /\ Outgoing(ReadBody)' = Outgoing(ReadBody)
  BY <1>1, <1>3 DEF OutgoingChunked, OutgoingLength, RequestBodyLength, Outgoing, Rewritten
<1>10. to_copy \in Nat /\ to_copy <= MaxLength /\ remaining \in Nat
  BY <1>2, Constants DEF RelayTypeOK
<1>11. ~OutgoingChunked => to_copy = remaining + Len(result.data) /\ ~chunked
  BY <1>2, <1>4 DEF LengthFlows
<1>12. to_copy' \in 0..MaxLength /\ (~OutgoingChunked => to_copy' = remaining)
  <2>1. CASE OutgoingChunked
    BY <1>1, <2>1, Constants
  <2>2. CASE ~OutgoingChunked
    <3>1. to_copy' = to_copy - Len(result.data)
      BY <1>1, <2>2
    <3>2. to_copy = remaining + Len(result.data)
      BY <1>11, <2>2
    <3> QED BY <1>4, <1>10, <3>1, <3>2, Constants
  <2> QED BY <2>1, <2>2
<1>13. RelayTypeOK'
  <2>1. 0 \in 0..(StreamChunk + PrefixMax) /\ Len(result'.data) <= 0
    BY <1>5, Constants
  <2> QED BY <1>1, <1>2, <1>3, <1>5, <1>7, <1>12, <2>1 DEF RelayTypeOK
<1>14. Calls'
  BY <1>1, <1>2, <1>3, <1>5 DEF Calls
<1>15. CASE OutgoingChunked
  <2>1. /\ Decoded(out \o HttpChunk(result.data)).at = "size"
        /\ Decoded(out \o HttpChunk(result.data)).data = Decoded(out).data \o result.data
    BY <1>2, <1>4, <1>15, DecodedChunk
  <2>2. Under' = out \o HttpChunk(result.data)
    BY <1>1, <1>8, <1>15
  <2>3. Decoded(Under').at = "size" /\ Decoded(Under').data = Outgoing(ReadBody)
    BY <1>2, <1>15, <2>1, <2>2
  <2>4. ChunksFlow'
    BY <1>1, <2>3 DEF ChunksFlow
  <2>5. Payload' \o result'.data = Outgoing(ReadBody)'
    <3>1. Payload' = Outgoing(ReadBody) /\ Outgoing(ReadBody) \in Strings
      BY <1>2, <1>9, <1>15, <2>3, ReadTypes, OutgoingType DEF Payload
    <3> QED BY <1>5, <1>9, <3>1, Whole
  <2>6. Flow'
    BY <1>1, <1>2, <1>3, <1>8, <1>9, <1>15, <2>4, <2>5 DEF Flow
  <2> QED BY <1>3, <1>13, <1>14, <2>6 DEF Inv
<1>16. CASE ~OutgoingChunked
  <2>1. Under' = out \o result.data /\ Len(out \o result.data) = Len(out) + Len(result.data)
        /\ Len(out) \in Nat
    <3>1. Under' = out \o result.data
      BY <1>1, <1>8, <1>16
    <3>2. Len(out \o result.data) = Len(out) + Len(result.data) /\ Len(out) \in Nat
      BY <1>2, <1>4, Join
    <3> QED BY <3>1, <3>2
  <2>2. LengthFlows'
    <3>1. Len(out) + to_copy = OutgoingLength
      BY <1>2, <1>16 DEF LengthFlows
    <3>2. to_copy' = to_copy - Len(result.data)
      BY <1>1, <1>16
    <3>3. Len(Under') = Len(out) + Len(result.data)
      BY <2>1
    <3>4. Len(Under') + to_copy' = OutgoingLength'
      BY <1>4, <1>9, <1>10, <2>1, <3>1, <3>2, <3>3
    <3>5. to_copy' = remaining' + Len(result'.data)
      BY <1>3, <1>5, <1>10, <1>12, <1>16
    <3>6. ~chunked'
      BY <1>3, <1>11, <1>16
    <3> QED BY <1>1, <3>4, <3>5, <3>6 DEF LengthFlows
  <2>3. Payload' \o result'.data = Outgoing(ReadBody)'
    <3>1. Payload' = Outgoing(ReadBody) /\ Outgoing(ReadBody) \in Strings
      BY <1>2, <1>9, <1>16, <2>1, ReadTypes, OutgoingType DEF Payload
    <3> QED BY <1>5, <1>9, <3>1, Whole
  <2>4. Flow'
    BY <1>1, <1>2, <1>3, <1>8, <1>9, <1>16, <2>2, <2>3 DEF Flow
  <2> QED BY <1>3, <1>13, <1>14, <2>4 DEF Inv
<1> QED BY <1>15, <1>16

LEMMA PassEndStep == ASSUME Inv, PassEnd PROVE Inv'
<1>1. /\ phase = "copy" /\ phase' = "close" /\ call > 0 /\ result.kind = "done"
      /\ OutgoingChunked /\ pending' = HttpChunk(<<>>) /\ to_copy' = to_copy
      /\ call' = 0 /\ result' = Nothing /\ header_end' = header_end
      /\ prefix' = prefix /\ capacity' = capacity /\ op' = op /\ out' = out
      /\ UNCHANGED <<clientVars, framing, reader>>
  BY DEF PassEnd, EndOfBody, Returned, Call, worker
<1>2. /\ RelayTypeOK /\ Calls /\ Flow /\ Started
      /\ out \in Strings /\ pending = <<>> /\ Under = out
      /\ Payload \o result.data = Outgoing(ReadBody)
      /\ Len(ReadBody) >= AttributesLength
      /\ OutgoingChunked => ChunksFlow /\ Payload = Decoded(out).data /\ Decoded(out).at = "size"
  BY <1>1, CopyReturned
<1>3. /\ LineOK' /\ Sync'
      /\ heard' = heard /\ used' = used /\ chunked' = chunked
      /\ content_length' = content_length /\ done' = done /\ remaining' = remaining
      /\ crlf_pending' = crlf_pending /\ line' = line /\ trailers' = trailers
      /\ Position' = Position /\ ReadBody' = ReadBody
  BY <1>1, HandlerKeeps
<1>4. result.data = <<>> /\ done /\ chunked
  BY <1>1, <1>2 DEF Calls, OutgoingChunked
<1>5. Position.at = "whole"
  BY <1>4 DEF Inv, Sync
<1>6. result'.kind = "none" /\ result'.data = <<>> /\ Len(<<>>) = 0 /\ <<>> \in Strings
  BY <1>1, Results
<1>7. pending' \in Strings /\ pending' # <<>>
  BY <1>1, <1>6, ChunkParts
<1>8. Under' = out \o pending' /\ Under' \in Strings /\ Started'
  <2>1. out \o pending' \in Strings
    BY <1>2, <1>7, Join
  <2>2. out \o pending' # <<>>
    BY <1>2, <1>7, ConcatEmptySeq DEF Strings
  <2> QED BY <1>1, <2>1, <2>2 DEF Under, Started
<1>9. (OutgoingChunked' <=> OutgoingChunked) /\ OutgoingLength' = OutgoingLength
      /\ Outgoing(ReadBody)' = Outgoing(ReadBody)
  BY <1>1, <1>3 DEF OutgoingChunked, OutgoingLength, RequestBodyLength, Outgoing, Rewritten
<1>10. RelayTypeOK'
  <2>1. 0 \in 0..(StreamChunk + PrefixMax) /\ Len(result'.data) <= 0
    BY <1>6, Constants
  <2> QED BY <1>1, <1>2, <1>3, <1>6, <1>7, <2>1 DEF RelayTypeOK
<1>11. Calls'
  BY <1>1, <1>2, <1>3, <1>6 DEF Calls
<1>12. /\ Decoded(out \o HttpChunk(<<>>)).at = "whole"
       /\ Decoded(out \o HttpChunk(<<>>)).data = Decoded(out).data \o <<>>
  BY <1>1, <1>2, <1>6, DecodedChunk
<1>13. Decoded(Under').at = "whole" /\ Decoded(Under').data = Outgoing(ReadBody)
  BY <1>1, <1>2, <1>4, <1>8, <1>12
<1>14. ChunksFlow'
  BY <1>1, <1>3, <1>5, <1>6, <1>13 DEF ChunksFlow
<1>15. Payload' \o result'.data = Outgoing(ReadBody)'
  <2>1. Payload' = Outgoing(ReadBody) /\ Outgoing(ReadBody) \in Strings
    BY <1>1, <1>2, <1>9, <1>13, ReadTypes, OutgoingType DEF Payload
  <2> QED BY <1>6, <1>9, <2>1, Whole
<1>16. Flow'
  BY <1>1, <1>2, <1>3, <1>8, <1>9, <1>14, <1>15 DEF Flow
<1> QED BY <1>3, <1>10, <1>11, <1>16 DEF Inv

----------------------------------------------------------------------------
LEMMA InvStep == Inv /\ [Next]_vars => Inv'
<1> SUFFICES ASSUME Inv, [Next]_vars PROVE Inv'
  OBVIOUS
<1>1. CASE UNCHANGED vars
  <2>1. /\ phase' = phase /\ header_end' = header_end /\ call' = call /\ result' = result
        /\ prefix' = prefix /\ capacity' = capacity /\ op' = op
        /\ to_copy' = to_copy /\ pending' = pending /\ out' = out
        /\ UNCHANGED <<clientVars, framing, reader>>
    BY <1>1 DEF vars, worker, writer
  <2>2. RelayTypeOK /\ Calls /\ Flow
    BY DEF Inv
  <2>3. /\ LineOK' /\ Sync'
        /\ heard' = heard /\ used' = used /\ chunked' = chunked
        /\ content_length' = content_length /\ done' = done /\ remaining' = remaining
        /\ crlf_pending' = crlf_pending /\ line' = line /\ trailers' = trailers
        /\ Position' = Position /\ ReadBody' = ReadBody
    BY <2>1, HandlerKeeps
  <2>4. RelayTypeOK'
    BY <2>1, <2>2, <2>3 DEF RelayTypeOK
  <2>5. Calls'
    BY <2>1, <2>2, <2>3 DEF Calls
  <2>6. Under' = Under
    BY <2>1 DEF Under
  <2>7. /\ (Started' <=> Started) /\ (OutgoingChunked' <=> OutgoingChunked)
        /\ Payload' = Payload /\ OutgoingLength' = OutgoingLength
        /\ Outgoing(ReadBody)' = Outgoing(ReadBody)
    BY <2>1, <2>3, <2>6, WriterKeeps
  <2>8. (ChunksFlow => ChunksFlow') /\ (LengthFlows => LengthFlows')
    BY <2>1, <2>3, <2>6, <2>7 DEF ChunksFlow, LengthFlows
  <2>9. Flow'
    BY <2>1, <2>2, <2>3, <2>7, <2>8 DEF Flow
  <2> QED BY <2>3, <2>4, <2>5, <2>9 DEF Inv
<1>2. CASE Next
  BY <1>2, ReadHeadStep, ParseHeadersStep, ReadFailsStep, ReadEndStep, ReadDataStep,
     ReadCrlfStep, ReadLineStep, ParseChunkSizeStep, FinishChunkedBodyStep, ReceiveMoreStep,
     InspectRequestStep, DrainRequestStep, RequestEndsStep, OpenUpstreamStep, WriteSomeStep,
     ReadNextPieceStep, PassPieceStep, PassEndStep, RelayedStep, FailuresStep, Zenon DEF Next
<1> QED BY <1>1, <1>2

(* The reader is where the client's body is, and nothing is lost, doubled  *)
(* or reordered on the way from ipp_http_request_read to the printer.      *)
THEOREM RelayInvariant == Spec => []Inv
BY InitInv, InvStep, PTL DEF Spec

(* Every variable of the relay keeps to its type; in particular no read of *)
(* ipp_http_request_read gives more than its caller has room for, and the  *)
(* prefix fits its buffer.                                                 *)
THEOREM RelayTyped == Spec => []RelayTypeOK
<1>1. Inv => RelayTypeOK
  BY DEF Inv
<1> QED BY <1>1, RelayInvariant, PTL


----------------------------------------------------------------------------
(* The end of the head                                                     *)

(* A string that has grown has the ends of a head that it had.             *)
LEMMA OldEnds ==
  ASSUME NEW w \in Strings, NEW x \in Strings, NEW i \in HeadEnds(w \o x, 0), i <= Len(w)
  PROVE  i \in HeadEnds(w, 0)
<1> DEFINE u == w \o x
<1>1. u \in Strings /\ Len(u) = Len(w) + Len(x) /\ Len(w) \in Nat /\ Len(x) \in Nat
      /\ \A j \in 1..Len(w) : u[j] = w[j]
  BY DEF Strings
<1> HIDE DEF u
<1>2. i \in Nat /\ i >= 4 /\ i <= Len(w) /\ SubSeq(u, i - 3, i) = CRLF \o CRLF
  <2>1. i \in HeadEnds(u, 0)
    BY DEF u
  <2>2. \A j \in HeadEnds(u, 0) : /\ j \in Nat /\ j >= 0 + 4 /\ j <= Len(u)
                                  /\ SubSeq(u, j - 3, j) = CRLF \o CRLF
    BY <1>1, HeadEndsType
  <2> QED BY <2>1, <2>2
<1> DEFINE p == SubSeq(u, i - 3, i)
           q == SubSeq(w, i - 3, i)
<1>3. p \in Strings /\ Len(p) = 4 /\ \A j \in 1..4 : p[j] = u[i - 4 + j]
  BY <1>1, <1>2, SubSeqProperties DEF Strings
<1>4. q \in Strings /\ Len(q) = 4 /\ \A j \in 1..4 : q[j] = w[i - 4 + j]
  BY <1>1, <1>2, SubSeqProperties DEF Strings
<1> HIDE DEF p, q
<1>5. ASSUME NEW j \in 1..4 PROVE p[j] = q[j]
  <2>1. p[j] = u[i - 4 + j] /\ q[j] = w[i - 4 + j]
    BY <1>3, <1>4
  <2>2. i - 4 + j \in 1..Len(w)
    BY <1>1, <1>2
  <2> QED BY <1>1, <2>1, <2>2
<1>6. p = q
  BY <1>3, <1>4, <1>5, SeqEqual DEF Strings
<1>7. SubSeq(w, i - 3, i) = CRLF \o CRLF
  BY <1>2, <1>6 DEF p, q
<1> QED BY <1>1, <1>2, <1>7 DEF HeadEnds

(* The search that starts three symbols before the new ones sees them all. *)
LEMMA SearchSeesAll ==
  ASSUME NEW w \in Strings, NEW x \in Strings, HeadEnds(w, 0) = {}
  PROVE  HeadEnds(w \o x, 0) = HeadEnds(w \o x, SearchStart(Len(w)))
<1> DEFINE u == w \o x
           s == SearchStart(Len(w))
<1>1. u \in Strings /\ Len(u) \in Nat /\ Len(w) \in Nat
  BY Join
<1>2. s \in Nat /\ s + 4 <= IF Len(w) >= 3 THEN Len(w) + 1 ELSE 4
  BY <1>1 DEF SearchStart
<1>3. ASSUME NEW i \in HeadEnds(u, 0) PROVE i \in HeadEnds(u, s)
  <2>1. ~(i <= Len(w))
    BY <1>3, OldEnds
  <2> HIDE DEF s, u
  <2>2. i \in Nat /\ i >= 4 /\ i <= Len(u) /\ SubSeq(u, i - 3, i) = CRLF \o CRLF
    BY <1>1, <1>3, HeadEndsType
  <2>3. i >= s + 4
    BY <1>1, <1>2, <2>1, <2>2
  <2> QED BY <1>1, <1>2, <2>2, <2>3 DEF HeadEnds
<1> HIDE DEF s, u
<1>4. ASSUME NEW i \in HeadEnds(u, s) PROVE i \in HeadEnds(u, 0)
  BY <1>1, <1>2 DEF HeadEnds
<1>5. HeadEnds(u, 0) = HeadEnds(u, s)
  BY <1>3, <1>4
<1> QED BY <1>5 DEF u, s

(* Only ipp_http_request_open reads the head: other steps leave it alone,  *)
(* or are past it.                                                         *)
LEMMA HeadKept ==
  ASSUME Inv, [Next]_vars, ~ReadHead
  PROVE  \/ phase' = phase /\ header_end' = header_end /\ heard' = heard
         \/ phase' \notin {"head", "headers"}
<1>1. phase \in {"head", "headers"} => call = 0
  BY DEF Inv, Calls
<1>2. CASE UNCHANGED vars
  BY <1>2 DEF vars, clientVars
<1>3. CASE ReadHeadFails \/ ParseHeaders \/ ParseHeadersFails \/ ReceiveMoreFails \/ ReceiveFails
           \/ PlanFails \/ WriteFails \/ StreamFails \/ CopyFails
  BY <1>3 DEF ReadHeadFails, ParseHeaders, ParseHeadersFails, ReceiveMoreFails, ReceiveFails,
     PlanFails, WriteFails, StreamFails, CopyFails, Fail
<1>4. CASE ReadFails \/ ReadEnd \/ ReadData \/ ReadCrlf \/ ReadLine \/ ParseChunkSize
           \/ FinishChunkedBody
  <2>1. Reading /\ phase' = phase
    BY <1>4 DEF ReadFails, ReadEnd, ReadData, ReadCrlf, ReadLine, ParseChunkSize,
       FinishChunkedBody, InData, InLine, Unread
  <2>2. call # 0
    BY <2>1 DEF Reading
  <2> QED BY <1>1, <2>1, <2>2
<1>5. CASE ReceiveMore \/ InspectRequest \/ DrainRequest \/ RequestEnds
  <2>1. phase \in {"receive", "drain", "peek"}
    BY <1>5 DEF ReceiveMore, InspectRequest, DrainRequest, RequestEnds
  <2>2. CASE InspectRequest
    <3>1. \/ phase' = phase
          \/ phase' = CASE chunked /\ op' = "other" -> "drain"
                        [] chunked /\ op' = "print" /\ Len(prefix') = AttributesLength -> "peek"
                        [] OTHER -> "plan"
          \/ phase' = "failed"
      BY <2>2 DEF InspectRequest
    <3>2. phase' \in {phase, "drain", "peek", "plan", "failed"}
      <4>1. CASE chunked /\ op' = "other"
        BY <3>1, <4>1
      <4>2. CASE chunked /\ op' = "print" /\ Len(prefix') = AttributesLength
        BY <3>1, <4>2
      <4>3. CASE ~(chunked /\ op' = "other")
                 /\ ~(chunked /\ op' = "print" /\ Len(prefix') = AttributesLength)
        BY <3>1, <4>3
      <4> QED BY <4>1, <4>2, <4>3, Zenon
    <3> QED BY <2>1, <3>2
  <2>3. CASE ReceiveMore \/ DrainRequest \/ RequestEnds
    BY <2>1, <2>3 DEF ReceiveMore, DrainRequest, RequestEnds
  <2> QED BY <1>5, <2>2, <2>3
<1>6. CASE OpenUpstream \/ WriteSome \/ ReadNextPiece \/ PassPiece \/ PassEnd \/ Relayed
  BY <1>6 DEF OpenUpstream, WriteSome, Writing, ReadNextPiece, PassPiece, PassEnd, Relayed
<1> QED BY <1>2, <1>3, <1>4, <1>5, <1>6, Zenon DEF Next

LEMMA HeadIsFoundStep == Inv /\ HeadIsFound /\ [Next]_vars => HeadIsFound'
<1> SUFFICES ASSUME Inv, HeadIsFound, [Next]_vars PROVE HeadIsFound'
  OBVIOUS
<1>1. CASE ReadHead
  <2>1. RelayTypeOK /\ phase = "head" /\ HeadEnds(heard, 0) = {}
    BY <1>1 DEF Inv, ReadHead, HeadIsFound
  <2> DEFINE ends == HeadEnds(heard', SearchStart(Len(heard)))
  <2>2. /\ \E received \in Strings : heard' = heard \o received
        /\ \/ ends = {} /\ phase' = phase
           \/ /\ phase' = "headers" /\ header_end' \in ends
              /\ \A j \in ends : header_end' <= j
    BY <1>1, <2>1, HeadRead
  <2>3. heard \in Strings /\ heard' \in Strings
    BY <2>1, <2>2, Join DEF RelayTypeOK
  <2>4. HeadEnds(heard', 0) = ends
    BY <2>1, <2>2, <2>3, SearchSeesAll
  <2>5. \A i \in HeadEnds(heard', 0) : i \in Nat
    BY <2>3, HeadEndsType
  <2> HIDE DEF ends
  <2>6. CASE ends = {} /\ phase' = phase
    BY <2>1, <2>4, <2>6 DEF HeadIsFound
  <2>7. CASE phase' = "headers" /\ header_end' \in ends /\ \A j \in ends : header_end' <= j
    <3>1. ends \cap 0..header_end' = {header_end'}
      BY <2>4, <2>5, <2>7
    <3> QED BY <2>4, <2>7, <3>1 DEF HeadIsFound
  <2> QED BY <2>2, <2>6, <2>7
<1>2. CASE ~ReadHead
  BY <1>2, HeadKept DEF HeadIsFound, HeadEnds
<1> QED BY <1>1, <1>2

(* ipp_http_request_open: the head ends with the first empty line, for     *)
(* every buffer and however the reads cut the head.                        *)
THEOREM HeadAlwaysFound == Spec => []HeadIsFound
<1>1. Init => HeadIsFound
  BY DEF Init, HeadIsFound, HeadEnds
<1> QED BY <1>1, RelayInvariant, HeadIsFoundStep, PTL DEF Spec

----------------------------------------------------------------------------
(* What the client has sent                                                *)

(* What was read is what comes first of what was heard.                    *)
LEMMA HeardGrows ==
  ASSUME RelayTypeOK
  PROVE  \E v \in Strings : heard = Read \o v /\ (used = Len(heard) => v = <<>>)
<1>1. heard \in Strings /\ Len(heard) \in Nat /\ used \in Nat /\ used <= Len(heard)
  BY Whole DEF RelayTypeOK
<1> DEFINE v == SubSeq(heard, used + 1, Len(heard))
<1>2. v \in Strings /\ Len(v) = Len(heard) - used /\ Read \o v = SubSeq(heard, 1, Len(heard))
  <2>1. Len(heard) <= Len(heard)
    BY <1>1
  <2> QED BY <1>1, <2>1, Cut DEF Read
<1>3. SubSeq(heard, 1, Len(heard)) = heard
  BY <1>1, Whole
<1> HIDE DEF v
<1>4. used = Len(heard) => v = <<>>
  <2>1. used = Len(heard) => Len(v) = 0
    BY <1>1, <1>2
  <2> QED BY <1>2, <2>1 DEF Strings
<1> QED BY <1>2, <1>3, <1>4

(* A body that ipp_http_request_read calls malformed is malformed.         *)
THEOREM MalformedIsBad == Spec => []OnlyBadIsMalformed
<1>1. ASSUME Inv PROVE OnlyBadIsMalformed
  <2> SUFFICES ASSUME result.kind = "malformed" PROVE Sent.status = "bad"
    BY DEF OnlyBadIsMalformed
  <2>1. RelayTypeOK /\ chunked /\ Position.at = "bad"
    BY <1>1 DEF Inv, Sync
  <2>2. PICK v \in Strings : heard = Read \o v
    BY <2>1, HeardGrows
  <2>3. Read \in Strings
    BY <2>1, ReadTypes
  <2>4. Decoded(heard).at = "bad"
    BY <2>1, <2>2, <2>3, DecodedGrows DEF Position
  <2> QED BY <2>1, <2>4 DEF Sent, ChunkedBody, Body
<1>2. Inv => OnlyBadIsMalformed
  BY <1>1
<1> QED BY <1>2, RelayInvariant, PTL


----------------------------------------------------------------------------
(* What the printer has                                                    *)
LEMMA PrefixOf ==
  ASSUME NEW w \in Strings, NEW y \in Strings
  PROVE  IsPrefix(w, w \o y)
<1> DEFINE u == w \o y
<1>1. u \in Strings /\ Len(u) = Len(w) + Len(y) /\ Len(w) \in Nat /\ Len(y) \in Nat
      /\ \A i \in 1..Len(w) : u[i] = w[i]
  BY DEF Strings
<1> HIDE DEF u
<1>2. Len(w) <= Len(u)
  BY <1>1
<1>3. SubSeq(u, 1, Len(w)) = SubSeq(w, 1, Len(w))
  <2> DEFINE p == SubSeq(u, 1, Len(w))
  <2>1. p \in Strings /\ Len(p) = Len(w) /\ \A i \in 1..Len(w) : p[i] = u[i]
    BY <1>1, <1>2, SubSeqProperties DEF Strings
  <2> HIDE DEF p
  <2>2. \A i \in 1..Len(w) : p[i] = w[i]
    BY <1>1, <2>1
  <2>3. p = w
    BY <2>1, <2>2, SeqEqual DEF Strings
  <2> QED BY <2>3, Whole DEF p
<1>4. IsPrefix(w, u)
  BY <1>2, <1>3 DEF IsPrefix
<1> QED BY <1>4 DEF u

(* A request that is opened is under way.                                  *)
LEMMA OpenedFlows ==
  ASSUME Inv, Opened
  PROVE  /\ RelayTypeOK /\ Started /\ Len(ReadBody) >= AttributesLength
         /\ Payload \o result.data = Outgoing(ReadBody)
         /\ OutgoingChunked => ChunksFlow
         /\ ~OutgoingChunked => LengthFlows
<1>1. RelayTypeOK /\ Flow
  BY DEF Inv
<1>2. Started
  <2>1. CASE phase \in {"write", "copy", "close", "relayed"}
    BY <1>1, <2>1 DEF Flow
  <2>2. CASE out # <<>>
    <3>1. out \in Strings /\ pending \in Strings
      BY <1>1 DEF RelayTypeOK
    <3> QED BY <2>2, <3>1, ConcatEmptySeq DEF Started, Under, Strings
  <2> QED BY <2>1, <2>2 DEF Opened
<1> QED BY <1>1, <1>2 DEF Flow

(* What was read of the body is what comes first of what was sent.         *)
LEMMA SentGrows ==
  ASSUME Inv
  PROVE  \E v \in Strings : Sent.data = ReadBody \o v
<1>1. RelayTypeOK /\ Sync
  BY DEF Inv
<1>2. Read \in Strings /\ used \in Nat /\ Len(heard) \in Nat
  BY <1>1, ReadTypes
<1>3. CASE chunked
  <2>1. PICK x \in Strings : heard = Read \o x
    BY <1>1, HeardGrows
  <2>2. \E e \in Strings : Decoded(Read \o x).data = Decoded(Read).data \o e
    BY <1>2, <2>1, DecodedGrows
  <2> QED BY <1>3, <2>1, <2>2 DEF Sent, ChunkedBody, Body, ReadBody, Position
<1>4. CASE ~chunked
  <2> DEFINE n == Least(content_length, Len(heard))
  <2>1. used + remaining = content_length /\ remaining \in Nat /\ content_length \in Nat
        /\ used <= Len(heard) /\ heard \in Strings
    BY <1>1, <1>2, <1>4, Constants DEF Sync, RelayTypeOK
  <2>2. n \in Nat /\ used <= n /\ n <= Len(heard)
    BY <1>2, <2>1 DEF Least
  <2>3. Sent.data = SubSeq(heard, 1, n)
    BY <1>4 DEF Sent, FixedBody, Body
  <2> HIDE DEF n
  <2>4. /\ SubSeq(heard, used + 1, n) \in Strings
        /\ SubSeq(heard, 1, used) \o SubSeq(heard, used + 1, n) = SubSeq(heard, 1, n)
    <3>1. \A m, i \in Nat : m <= i /\ i <= Len(heard) =>
            /\ SubSeq(heard, m + 1, i) \in Strings
            /\ SubSeq(heard, 1, m) \o SubSeq(heard, m + 1, i) = SubSeq(heard, 1, i)
      BY <2>1, Cut
    <3> QED BY <1>2, <2>2, <3>1
  <2> QED BY <1>4, <2>3, <2>4 DEF ReadBody, Read
<1> QED BY <1>3, <1>4

(* What is written of a request with a length.                             *)
LEMMA GotByLength ==
  ASSUME Inv, Opened, ~OutgoingChunked
  PROVE  /\ Got.data = out /\ Got.status \in {"open", "whole"}
         /\ Got.status = "whole" <=> pending = <<>> /\ to_copy = 0
<1>1. RelayTypeOK /\ LengthFlows
  BY OpenedFlows
<1>2. out \in Strings /\ pending \in Strings /\ to_copy \in Nat
  BY <1>1, Constants DEF RelayTypeOK
<1>3. Len(out) \in Nat /\ Len(pending) \in Nat /\ Len(Under) = Len(out) + Len(pending)
  BY <1>2, Join DEF Under
<1>4. OutgoingLength = Len(out) + Len(pending) + to_copy
  BY <1>1, <1>3 DEF LengthFlows
<1>5. Least(OutgoingLength, Len(out)) = Len(out)
  BY <1>2, <1>3, <1>4 DEF Least
<1>6. Got.data = out
  BY <1>2, <1>5, Whole DEF Got, FixedBody, Body
<1>7. Got.status = IF Len(out) < OutgoingLength THEN "open" ELSE "whole"
  BY DEF Got, FixedBody, Body
<1>8. Len(pending) = 0 <=> pending = <<>>
  BY <1>2 DEF Strings
<1>9. ~(Len(out) < OutgoingLength) <=> Len(pending) = 0 /\ to_copy = 0
  BY <1>2, <1>3, <1>4
<1> QED BY <1>6, <1>7, <1>8, <1>9

(* What is written of a request in chunks.                                 *)
LEMMA GotByChunks ==
  ASSUME Inv, Opened, OutgoingChunked
  PROVE  /\ Got.data = Decoded(out).data /\ Got.data \in Strings /\ Got.status # "bad"
         /\ \E e \in Strings : Payload = Got.data \o e
         /\ Got.status = "whole" <=> Decoded(out).at = "whole"
         /\ Got.status = "whole" => Decoded(Under).at = "whole" /\ Payload = Got.data
<1>1. RelayTypeOK /\ ChunksFlow
  BY OpenedFlows
<1>2. out \in Strings /\ pending \in Strings
  BY <1>1 DEF RelayTypeOK
<1>3. Got.data = Decoded(out).data /\ Payload = Decoded(Under).data
  BY DEF Got, ChunkedBody, Body, Payload
<1>4. Got.status = IF Decoded(out).at \in {"whole", "bad"} THEN Decoded(out).at ELSE "open"
  BY DEF Got, ChunkedBody, Body
<1>5. Decoded(out) \in Positions
  BY <1>2, DecodedType
<1>6. Got.data \in Strings
  BY <1>3, <1>5 DEF Positions
<1>7. /\ Decoded(out).at \in {"whole", "bad"} =>
           Decoded(Under).at = Decoded(out).at /\ Decoded(Under).data = Decoded(out).data
      /\ \E e \in Strings : Decoded(Under).data = Decoded(out).data \o e
  BY <1>2, DecodedGrows DEF Under
<1>8. Decoded(out).at # "bad"
  BY <1>1, <1>7 DEF ChunksFlow
<1> QED BY <1>3, <1>4, <1>6, <1>7, <1>8

(* However the client's body is framed and cut, whatever is buffered with  *)
(* the head, and wherever ipp_stream_write_all writes short or fails: the  *)
(* printer has a prefix of the rewritten request in a valid framing.       *)
THEOREM PrinterAlwaysGetsPrefix == Spec => []PrinterGetsPrefix
<1>1. ASSUME Inv PROVE PrinterGetsPrefix
  <2> SUFFICES ASSUME Opened
               PROVE  Got.status # "bad" /\ IsPrefix(Got.data, Outgoing(Sent.data))
    BY DEF PrinterGetsPrefix
  <2>1. /\ RelayTypeOK /\ Started /\ Len(ReadBody) >= AttributesLength
        /\ Payload \o result.data = Outgoing(ReadBody)
    BY <1>1, OpenedFlows
  <2>2. PICK v \in Strings : Sent.data = ReadBody \o v
    BY <1>1, SentGrows
  <2>3. ReadBody \in Strings /\ result.data \in Strings
    BY <2>1, ReadTypes DEF RelayTypeOK
  <2>4. Outgoing(Sent.data) = (Payload \o result.data) \o v
    BY <2>1, <2>2, <2>3, OutgoingGrows
  <2>5. Got.data \in Strings /\ Got.status # "bad" /\ \E e \in Strings : Payload = Got.data \o e
    <3>1. CASE OutgoingChunked
      BY <1>1, <3>1, GotByChunks
    <3>2. CASE ~OutgoingChunked
      <4>1. Got.data = out /\ Got.status # "bad" /\ Payload = out \o pending
        BY <1>1, <3>2, GotByLength DEF Payload, Under
      <4>2. out \in Strings /\ pending \in Strings
        BY <2>1 DEF RelayTypeOK
      <4> QED BY <4>1, <4>2
    <3> QED BY <3>1, <3>2
  <2>6. PICK e \in Strings : Payload = Got.data \o e
    BY <2>5
  <2> DEFINE g == Got.data
             r == result.data
             y == (e \o r) \o v
  <2>7. y \in Strings /\ ((g \o e) \o r) \o v = g \o y
    <3>1. g \in Strings /\ r \in Strings
      BY <2>3, <2>5
    <3> HIDE DEF g, r
    <3>2. \A a, b, c \in Strings : (a \o b) \o c = a \o (b \o c)
      BY Associative
    <3>3. \A a, b \in Strings : a \o b \in Strings
      BY Join
    <3>4. (g \o e) \o r = g \o (e \o r) /\ e \o r \in Strings
      BY <2>6, <3>1, <3>2, <3>3, SMTT(60)
    <3>5. (g \o (e \o r)) \o v = g \o ((e \o r) \o v)
      BY <2>2, <3>1, <3>2, <3>4, ZenonT(60)
    <3> QED BY <2>2, <3>3, <3>4, <3>5
  <2>8. Outgoing(Sent.data) = Got.data \o y
    BY <2>4, <2>6, <2>7
  <2> HIDE DEF y
  <2>9. IsPrefix(Got.data, Got.data \o y)
    BY <2>5, <2>7, PrefixOf
  <2> QED BY <2>5, <2>8, <2>9
<1>2. Inv => PrinterGetsPrefix
  BY <1>1
<1> QED BY <1>2, RelayInvariant, PTL

(* When a body is read to its end, all that was sent of it is read.        *)
LEMMA AllRead ==
  ASSUME Inv, chunked => Position.at = "whole", ~chunked => remaining = 0
  PROVE  Sent.status = "whole" /\ Sent.data = ReadBody
<1>1. RelayTypeOK /\ Sync
  BY DEF Inv
<1>2. Read \in Strings /\ used \in Nat /\ Len(heard) \in Nat
  BY <1>1, ReadTypes
<1>3. CASE chunked
  <2>1. PICK x \in Strings : heard = Read \o x
    BY <1>1, HeardGrows
  <2>2. Decoded(heard).at = "whole" /\ Decoded(heard).data = Decoded(Read).data
    BY <1>2, <1>3, <2>1, DecodedGrows DEF Position
  <2> QED BY <1>3, <2>2 DEF Sent, ChunkedBody, Body, ReadBody, Position
<1>4. CASE ~chunked
  <2>1. used = content_length /\ used <= Len(heard)
    BY <1>1, <1>2, <1>4 DEF Sync, RelayTypeOK
  <2>2. Least(content_length, Len(heard)) = used /\ ~(Len(heard) < content_length)
    BY <1>2, <2>1 DEF Least
  <2> QED BY <1>4, <2>2 DEF Sent, FixedBody, Body, ReadBody, Read
<1> QED BY <1>3, <1>4

(* The printer sees the end of the request only if the client sent it, and *)
(* has all of it then; proxy_handler goes on to the answer only then.      *)
THEOREM EndAlwaysReal == Spec => []EndIsReal
<1>1. ASSUME Inv, Opened, Got.status = "whole"
      PROVE  Sent.status = "whole" /\ Got.data = Outgoing(Sent.data)
  <2>1. /\ RelayTypeOK /\ Payload \o result.data = Outgoing(ReadBody)
        /\ OutgoingChunked => ChunksFlow
        /\ ~OutgoingChunked => LengthFlows
    BY <1>1, OpenedFlows
  <2>2. Calls /\ Sync
    BY <1>1 DEF Inv
  <2>3. CASE OutgoingChunked
    <3>1. Decoded(Under).at = "whole" /\ Payload = Got.data /\ Got.data \in Strings
      BY <1>1, <2>3, GotByChunks
    <3>2. Position.at = "whole" /\ result.data = <<>> /\ chunked
      BY <2>1, <2>3, <3>1 DEF ChunksFlow, OutgoingChunked
    <3>3. Sent.status = "whole" /\ Sent.data = ReadBody
      BY <1>1, <3>2, AllRead
    <3>4. Got.data \o <<>> = Got.data
      BY <3>1, Whole
    <3> QED BY <2>1, <3>1, <3>2, <3>3, <3>4
  <2>4. CASE ~OutgoingChunked
    <3>1. Got.data = out /\ pending = <<>> /\ to_copy = 0
      BY <1>1, <2>4, GotByLength
    <3>2. out \in Strings /\ remaining \in Nat /\ result.data \in Strings
      BY <2>1 DEF RelayTypeOK
    <3>3. Len(result.data) \in Nat /\ (Len(result.data) = 0 => result.data = <<>>)
      BY <3>2 DEF Strings
    <3>4. ~chunked => remaining = 0 /\ Len(result.data) = 0
      <4>1. ~chunked => 0 = remaining + Len(result.data)
        BY <2>1, <2>4, <3>1 DEF LengthFlows
      <4> QED BY <3>2, <3>3, <4>1
    <3>5. chunked => Position.at = "whole" /\ result.data = <<>>
      BY <2>1, <2>2, <2>4 DEF LengthFlows, Calls, Sync
    <3>6. Sent.status = "whole" /\ Sent.data = ReadBody
      BY <1>1, <3>4, <3>5, AllRead
    <3>7. result.data = <<>>
      BY <3>3, <3>4, <3>5
    <3>8. Payload = out /\ out \o <<>> = out
      BY <2>4, <3>1, <3>2, Whole DEF Payload, Under
    <3> QED BY <2>1, <3>1, <3>6, <3>7, <3>8
  <2> QED BY <2>3, <2>4
<1>2. ASSUME Inv, phase = "relayed" PROVE Got.status = "whole"
  <2>1. Opened /\ pending = <<>>
    BY <1>2 DEF Opened, Inv, Calls
  <2>2. /\ RelayTypeOK
        /\ OutgoingChunked => ChunksFlow
        /\ ~OutgoingChunked => LengthFlows
    BY <1>2, <2>1, OpenedFlows
  <2>3. Under = out
    BY <2>1, <2>2, Whole DEF Under, RelayTypeOK
  <2>4. CASE OutgoingChunked
    BY <1>2, <2>1, <2>2, <2>3, <2>4, GotByChunks DEF ChunksFlow
  <2>5. CASE ~OutgoingChunked
    BY <1>2, <2>1, <2>2, <2>5, GotByLength DEF LengthFlows
  <2> QED BY <2>4, <2>5
<1>3. Inv => EndIsReal
  BY <1>1, <1>2 DEF EndIsReal
<1> QED BY <1>3, RelayInvariant, PTL

----------------------------------------------------------------------------
(* What is waited for                                                      *)

(* The body that the reader has taken to its last symbol.                  *)
LEMMA AllTaken ==
  ASSUME RelayTypeOK, used = Len(heard)
  PROVE  /\ chunked => (Sent.status = "whole" <=> Position.at = "whole")
         /\ ~chunked => (Sent.status = "whole" <=> ~(used < content_length))
<1>1. heard \in Strings
  BY DEF RelayTypeOK
<1>2. Read = heard
  BY <1>1, Whole DEF Read
<1> QED BY <1>2 DEF Position, Sent, ChunkedBody, FixedBody, Body

LEMMA ReadsWhatIsDue ==
  ASSUME Inv, ReadData \/ ReadCrlf \/ ReadLine, heard' # heard
  PROVE  Sent.status # "whole"
<1>1. RelayTypeOK /\ LineOK /\ Sync
  BY DEF Inv
<1>2. CASE ReadData
  <2>1. Reading /\ ~done /\ remaining > 0
    BY <1>2 DEF ReadData, InData
  <2>2. PICK data \in Received(Wanted, DataSymbols) : Take(data)
    BY <1>2 DEF ReadData
  <2>3. Wanted \in Nat \ {0}
    BY <2>1, ReaderTypes DEF Wanted, Least
  <2>4. used = Len(heard)
    BY <1>1, <2>2, <2>3, SymbolsDiffer, ReceivedReads
  <2>5. CASE chunked
    <3>1. Position.at = "data"
      BY <1>1, <2>1, <2>5, ReaderTypes DEF Sync, At, AtData
    <3> QED BY <1>1, <2>4, <2>5, <3>1, AllTaken
  <2>6. CASE ~chunked
    <3>1. used < content_length
      <4>1. used + remaining = content_length
        BY <1>1, <2>6 DEF Sync
      <4>2. used \in Nat /\ remaining \in Nat
        BY <1>1, <2>1, ReaderTypes, ReadTypes
      <4> QED BY <2>1, <4>1, <4>2
    <3> QED BY <1>1, <2>4, <2>6, <3>1, AllTaken
  <2> QED BY <2>5, <2>6
<1>3. CASE ReadCrlf
  <2>1. Reading /\ ~done /\ chunked /\ remaining = 0 /\ crlf_pending
    BY <1>3 DEF ReadCrlf, InLine
  <2>2. PICK data \in Received(2 - Len(line), Symbols) : Take(data)
    BY <1>3, Zenon DEF ReadCrlf
  <2>3. 2 - Len(line) \in Nat \ {0}
    <3>1. Len(line) \in Nat /\ Len(line) <= 1
      <4>1. line \in Strings
        BY <1>1 DEF RelayTypeOK
      <4>2. Len(line) \in Nat
        BY <4>1, Whole
      <4>3. Len(line) <= 1
        BY <1>1, <2>1 DEF LineOK
      <4> QED BY <4>2, <4>3
    <3>2. \A n \in Nat : n <= 1 => 2 - n \in Nat \ {0}
      OBVIOUS
    <3> QED BY <3>1, <3>2, Zenon
  <2>4. used = Len(heard)
    BY <1>1, <2>2, <2>3, SymbolsDiffer, ReceivedReads
  <2>5. Position.at # "whole"
    BY <1>1, <2>1, ReaderTypes DEF Sync, At, AtCrlf
  <2> QED BY <1>1, <2>1, <2>4, <2>5, AllTaken
<1>4. CASE ReadLine
  <2>1. Reading /\ chunked
    BY <1>4 DEF ReadLine, InLine
  <2>2. PICK data \in Received(1, Symbols) : Take(data)
    BY <1>4 DEF ReadLine
  <2>3. used = Len(heard)
    BY <1>1, <2>2, SymbolsDiffer, ReceivedReads
  <2>4. Position.at # "whole"
    BY <1>4, LineReadOn
  <2> QED BY <1>1, <2>1, <2>3, <2>4, AllTaken
<1> QED BY <1>2, <1>3, <1>4

LEMMA OnlyReadsHear ==
  ASSUME [Next]_vars, heard' # heard
  PROVE  ReadHead \/ ParseHeaders \/ ReadData \/ ReadCrlf \/ ReadLine
<1>1. UNCHANGED vars => FALSE
  BY DEF vars, clientVars
<1>2. ReadHeadFails \/ ParseHeadersFails \/ ReceiveMoreFails \/ ReceiveFails
      \/ PlanFails \/ WriteFails \/ StreamFails \/ CopyFails => FALSE
  BY DEF ReadHeadFails, ParseHeadersFails, ReceiveMoreFails, ReceiveFails, PlanFails,
     WriteFails, StreamFails, CopyFails, Fail, clientVars
<1>3. ReadFails \/ ReadEnd \/ ParseChunkSize \/ FinishChunkedBody \/ ReceiveMore
      \/ InspectRequest \/ DrainRequest \/ RequestEnds \/ OpenUpstream => FALSE
  BY DEF ReadFails, ReadEnd, ParseChunkSize, FinishChunkedBody, ReceiveMore, InspectRequest,
     DrainRequest, RequestEnds, OpenUpstream, clientVars
<1>4. WriteSome \/ ReadNextPiece \/ PassPiece \/ PassEnd \/ Relayed => FALSE
  BY DEF WriteSome, ReadNextPiece, PassPiece, PassEnd, Relayed, clientVars
<1> QED BY <1>1, <1>2, <1>3, <1>4, Zenon DEF Next

(* ipp_http_request_read asks the socket for more only while the body is   *)
(* not whole: a client that waits for its answer is not waited for.        *)
THEOREM NeverReadsPastEnd == Spec => NoReadPastEnd
<1>1. ASSUME Inv, [Next]_vars
      PROVE  [phase \notin {"head", "headers"} /\ heard' # heard => Sent.status # "whole"]_vars
  <2> SUFFICES ASSUME phase \notin {"head", "headers"}, heard' # heard
               PROVE  Sent.status # "whole"
    OBVIOUS
  <2>1. ReadData \/ ReadCrlf \/ ReadLine
    BY <1>1, OnlyReadsHear DEF ReadHead, ParseHeaders
  <2> QED BY <1>1, <2>1, ReadsWhatIsDue
<1> QED BY <1>1, RelayInvariant, PTL DEF Spec, NoReadPastEnd
=============================================================================
