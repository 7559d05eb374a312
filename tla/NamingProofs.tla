---------------------------- MODULE NamingProofs ----------------------------
(***************************************************************************)
(* What the names of Admission are, for all words and widths: the length   *)
(* of a name with a suffix, and what remains of a resource's name without  *)
(* its prefix.                                                             *)
(***************************************************************************)
EXTENDS Admission, TLAPS, FiniteSetTheorems, SequenceTheorems

\* All words, and names that may have suffixes.
AnyWord == Word \union ResourcePrefixes \union NameSuffixes
AnyName == Seq(AnyWord)

LEMMA NamesAreAny == Name \subseteq AnyName
  BY SeqMonotonic DEF Name, AnyName, AnyWord

LEMMA NameFacts ==
    ASSUME NEW name \in AnyName
    PROVE  /\ Len(name) \in Nat /\ DOMAIN name = 1..Len(name)
           /\ \A i \in 1..Len(name) : name[i] \in AnyWord /\ width[name[i]] \in Nat
<1>1. Len(name) \in Nat /\ name \in [1..Len(name) -> AnyWord] /\ DOMAIN name = 1..Len(name)
  BY LenProperties DEF AnyName
<1>2. QED  BY <1>1, AdmissionAssumption DEF AnyWord

-----------------------------------------------------------------------------
(* Widths. *)

\* The characters of one word of a name.
LEMMA WordChars ==
    ASSUME NEW i, NEW n \in Nat
    PROVE  IsFiniteSet({i} \X (1..n)) /\ Cardinality({i} \X (1..n)) = n
<1>1. IsFiniteSet(1..n) /\ Cardinality(1..n) = n
  BY FS_Interval
<1>2. IsFiniteSet({i}) /\ Cardinality({i}) = 1
  BY FS_Singleton
<1>3. QED  BY <1>1, <1>2, FS_Product

LEMMA WidthIsNat ==
    ASSUME NEW name \in AnyName
    PROVE  IsFiniteSet(Characters(name)) /\ Width(name) \in Nat
<1> DEFINE chars == [i \in 1..Len(name) |-> {i} \X (1..width[name[i]])]
           words == {{i} \X (1..width[name[i]]) : i \in DOMAIN name}
<1>1. chars \in Surjection(1..Len(name), words)
  BY NameFacts DEF Surjection
<1>2. IsFiniteSet(1..Len(name))
  BY NameFacts, FS_Interval
<1>3. IsFiniteSet(words)
  <2> HIDE DEF chars, words
  <2>1. QED  BY <1>1, <1>2, FS_Surjection
<1>4. \A w \in words : IsFiniteSet(w)
  <2> TAKE w \in words
  <2>1. PICK i \in DOMAIN name : w = {i} \X (1..width[name[i]])
    OBVIOUS
  <2>2. width[name[i]] \in Nat
    BY NameFacts
  <2>3. QED  BY <2>1, <2>2, WordChars
<1>5. IsFiniteSet(UNION words)
  <2> HIDE DEF words
  <2>1. QED  BY <1>3, <1>4, FS_UNION
<1>6. QED  BY <1>5, FS_CardinalityType DEF Characters, Width

\* A suffix adds its own width.
LEMMA WidthAppend ==
    ASSUME NEW name \in AnyName, NEW word \in AnyWord
    PROVE  Append(name, word) \in AnyName /\ Width(Append(name, word)) = Width(name) + width[word]
<1> DEFINE n == Len(name) + 1
           new == Append(name, word)
           tail == {n} \X (1..width[word])
<1>1. new \in AnyName /\ Len(new) = n /\ new[n] = word /\ \A i \in 1..Len(name) : new[i] = name[i]
  BY NameFacts DEF AnyName
<1>2. DOMAIN new = DOMAIN name \union {n} /\ n \notin DOMAIN name
  BY <1>1, NameFacts
<1>3. width[word] \in Nat
  BY AdmissionAssumption DEF AnyWord
<1>4. Characters(new) = Characters(name) \union tail
  <2>1. \A i \in DOMAIN name : new[i] = name[i]
    BY <1>1, NameFacts
  <2> HIDE DEF n, new
  <2>2. QED  BY <1>1, <1>2, <2>1 DEF Characters
<1>5. Characters(name) \intersect tail = {}
  <2> HIDE DEF n
  <2>1. QED  BY <1>2 DEF Characters
<1>6. IsFiniteSet(tail) /\ Cardinality(tail) = width[word]
  BY <1>3, WordChars
<1>7. Cardinality(Characters(name) \union tail) =
          Cardinality(Characters(name)) + Cardinality(tail) - Cardinality(Characters(name) \intersect tail)
  <2> HIDE DEF tail
  <2>1. QED  BY <1>6, WidthIsNat, FS_Union
<1>8. Width(new) = Width(name) + width[word]
  <2> HIDE DEF new, tail
  <2>1. Cardinality(Characters(name) \intersect tail) = 0 /\ Cardinality(Characters(name)) \in Nat
    BY <1>5, WidthIsNat, FS_EmptySet DEF Width
  <2>2. QED  BY <1>3, <1>4, <1>6, <1>7, <2>1 DEF Width
<1>9. QED  BY <1>1, <1>8

-----------------------------------------------------------------------------
(* Words that are left out. *)

LEMMA Least ==
    ASSUME NEW T, T \subseteq Nat, T # {}
    PROVE  \E m \in T : \A k \in T : m <= k
<1>1. PICK m \in T : \A k \in T : <<k, m>> \notin OpToRel(<, Nat)
  BY NatLessThanWellFounded, WFMin
<1>2. \A k \in T : ~(k < m)
  BY <1>1 DEF OpToRel
<1>3. QED  BY <1>2

\* Among places up to n there is a j-th one.
LEMMA PlaceExists ==
    ASSUME NEW n \in Nat, NEW places, places \subseteq 1..n, NEW j \in 1..Cardinality(places)
    PROVE  /\ Place(places, j) \in places
           /\ Cardinality(places \intersect 1..Place(places, j)) = j
<1> DEFINE upTo(i) == places \intersect 1..i
           T == {i \in Nat : Cardinality(upTo(i)) >= j}
<1>1. \A i \in Nat : IsFiniteSet(upTo(i)) /\ Cardinality(upTo(i)) \in Nat
  <2> TAKE i \in Nat
  <2>1. IsFiniteSet(1..i) /\ upTo(i) \subseteq 1..i
    BY FS_Interval
  <2> HIDE DEF upTo
  <2>2. QED  BY <2>1, FS_Subset, FS_CardinalityType
<1>2. j \in Nat /\ j > 0 /\ Cardinality(places) \in Nat /\ upTo(n) = places
  <2>1. upTo(n) = places
    OBVIOUS
  <2>2. IsFiniteSet(1..n)
    BY FS_Interval
  <2>3. Cardinality(places) \in Nat
    BY <2>2, FS_Subset, FS_CardinalityType
  <2>4. QED  BY <2>1, <2>3
<1>3. n \in T
  BY <1>1, <1>2
<1>4. PICK i \in T : \A k \in T : i <= k
  <2>1. T \subseteq Nat /\ T # {}
    BY <1>3
  <2> HIDE DEF T
  <2>2. QED  BY <2>1, Least
<1>5. i # 0
  <2>1. upTo(0) = {}
    OBVIOUS
  <2>2. Cardinality(upTo(0)) = 0
    BY <2>1, FS_EmptySet
  <2>3. QED  BY <1>2, <1>4, <2>2
<1>6. i \in Nat /\ i - 1 \in Nat /\ Cardinality(upTo(i)) >= j /\ Cardinality(upTo(i - 1)) < j
  <2>1. i - 1 \in Nat /\ i - 1 \notin T
    BY <1>4, <1>5
  <2>2. QED  BY <1>1, <1>2, <1>4, <2>1
<1>7. i \in places
  <2>1. i \notin places => upTo(i) = upTo(i - 1)
    BY <1>6
  <2>2. QED  BY <1>1, <1>2, <1>6, <2>1
<1>8. Cardinality(upTo(i)) = j
  <2>1. upTo(i) = upTo(i - 1) \union {i} /\ i \notin upTo(i - 1)
    BY <1>6, <1>7
  <2>2. Cardinality(upTo(i - 1) \union {i}) = Cardinality(upTo(i - 1)) + 1
    <3> HIDE DEF upTo
    <3>1. QED  BY <1>1, <1>6, <2>1, FS_AddElement
  <2>3. QED  BY <1>1, <1>2, <1>6, <2>1, <2>2
<1>9. QED  BY <1>7, <1>8 DEF Place

\* What is kept of a resource's name: words of the name behind the prefix.
Kept(resource) == {i \in DOMAIN resource : resource[i] # resource[1]}

LEMMA SpokeWords ==
    ASSUME NEW spoke \in Name, NEW v \in BOOLEAN,
           NEW r, r = GetDPResouceName(spoke, v)
    PROVE  /\ r \in Name /\ Len(r) = Len(spoke) + 1 /\ r[1] \in ResourcePrefixes
           /\ \A i \in 1..Len(spoke) : r[i + 1] = spoke[i]
           /\ Kept(r) \subseteq 2..Len(r) /\ IsFiniteSet(Kept(r)) /\ Cardinality(Kept(r)) \in Nat
           /\ SpokeOf(spoke, v) = [j \in 1..Cardinality(Kept(r)) |-> r[Place(Kept(r), j)]]
<1> DEFINE prefix == IF v THEN VETHPreffix ELSE MACVTAPPreffix
<1>1. prefix \in ResourcePrefixes /\ <<prefix>> \in Name /\ Len(<<prefix>>) = 1 /\ <<prefix>>[1] = prefix
  BY DEF ResourcePrefixes, Name
<1>2. r = <<prefix>> \o spoke
  BY DEF GetDPResouceName
<1> HIDE DEF prefix
<1>3. /\ r \in Name /\ Len(r) = 1 + Len(spoke)
      /\ \A i \in 1..(1 + Len(spoke)) : r[i] = IF i <= 1 THEN <<prefix>>[i] ELSE spoke[i - 1]
  BY <1>1, <1>2, ConcatProperties DEF Name
<1>4. Len(spoke) \in Nat /\ DOMAIN r = 1..Len(r)
  BY <1>3, LenProperties DEF Name
<1>5. r[1] = prefix
  BY <1>1, <1>3, <1>4
<1>6. \A i \in 1..Len(spoke) : r[i + 1] = spoke[i]
  BY <1>3, <1>4
<1>7. Kept(r) \subseteq 2..Len(r) /\ IsFiniteSet(Kept(r)) /\ Cardinality(Kept(r)) \in Nat
  <2>1. Kept(r) \subseteq 2..Len(r)
    BY <1>3, <1>4 DEF Kept
  <2>2. IsFiniteSet(2..Len(r))
    BY <1>3, <1>4, FS_Interval
  <2>3. QED  BY <2>1, <2>2, FS_Subset, FS_CardinalityType
<1>8. SpokeOf(spoke, v) = [j \in 1..Cardinality(Kept(r)) |-> r[Place(Kept(r), j)]]
  BY DEF SpokeOf, GetSpokeNameFromResourceName, Without, Kept
<1>9. QED  BY <1>1, <1>3, <1>4, <1>5, <1>6, <1>7, <1>8

\* The name a plugin works with is no longer than the one in the spec.
LEMMA SpokeFits ==
    ASSUME NEW spoke \in Name, NEW v \in BOOLEAN
    PROVE  SpokeOf(spoke, v) \in Name /\ Width(SpokeOf(spoke, v)) <= Width(spoke)
<1> DEFINE r == GetDPResouceName(spoke, v)
           name == SpokeOf(spoke, v)
           size == Cardinality(Kept(r))
           place(j) == Place(Kept(r), j)
           f == [x \in Characters(name) |-> <<place(x[1]) - 1, x[2]>>]
<1>1. /\ r \in Name /\ Len(r) = Len(spoke) + 1 /\ Len(spoke) \in Nat /\ DOMAIN spoke = 1..Len(spoke)
      /\ \A i \in 1..Len(spoke) : r[i + 1] = spoke[i]
      /\ Kept(r) \subseteq 2..Len(r) /\ Kept(r) \subseteq 1..Len(r) /\ size \in Nat
      /\ name = [j \in 1..size |-> r[place(j)]]
  BY SpokeWords, LenProperties DEF Name
<1>2. \A j \in 1..size : place(j) \in Kept(r) /\ Cardinality(Kept(r) \intersect 1..place(j)) = j
  BY <1>1, PlaceExists
<1> HIDE DEF r, name, size, place
<1>3. \A j \in 1..size : /\ place(j) - 1 \in 1..Len(spoke) /\ name[j] = spoke[place(j) - 1]
                          /\ name[j] \in Word \union ResourcePrefixes
  <2> TAKE j \in 1..size
  <2>1. place(j) \in 2..Len(r) /\ name[j] = r[place(j)]
    BY <1>1, <1>2
  <2>2. place(j) - 1 \in 1..Len(spoke)
    BY <1>1, <2>1
  <2>3. r[place(j)] = spoke[place(j) - 1]
    <3>1. r[(place(j) - 1) + 1] = spoke[place(j) - 1] /\ (place(j) - 1) + 1 = place(j)
      BY <1>1, <2>1, <2>2
    <3>2. QED  BY <3>1
  <2>4. spoke[place(j) - 1] \in Word \union ResourcePrefixes
    BY <2>2, ElementOfSeq DEF Name
  <2>5. QED  BY <2>1, <2>2, <2>3, <2>4
<1>4. name \in Name
  <2>1. name \in [1..size -> Word \union ResourcePrefixes]
    BY <1>1, <1>3
  <2>2. QED  BY <1>1, <2>1, SeqDef DEF Name
<1>5. f \in Injection(Characters(name), Characters(spoke))
  <2>1. ASSUME NEW x \in Characters(name)
        PROVE  /\ x = <<x[1], x[2]>> /\ x[1] \in 1..size
               /\ <<place(x[1]) - 1, x[2]>> \in Characters(spoke)
    <3>1. PICK j \in 1..size : x \in {j} \X (1..width[name[j]])
      BY <1>1, <2>1 DEF Characters
    <3>2. <<place(j) - 1, x[2]>> \in {place(j) - 1} \X (1..width[spoke[place(j) - 1]])
      BY <1>3, <3>1
    <3>3. place(j) - 1 \in DOMAIN spoke
      BY <1>1, <1>3
    <3>4. QED  BY <3>1, <3>2, <3>3 DEF Characters
  <2>2. ASSUME NEW x \in Characters(name), NEW y \in Characters(name), f[x] = f[y]
        PROVE  x = y
    <3>1. place(x[1]) - 1 = place(y[1]) - 1 /\ x[2] = y[2]
      BY <2>2
    <3>2. place(x[1]) \in 2..Len(r) /\ place(y[1]) \in 2..Len(r)
      BY <1>1, <1>2, <2>1
    <3>3. place(x[1]) = place(y[1])
      BY <1>1, <3>1, <3>2
    <3>4. x[1] = y[1]
      <4>1. /\ Cardinality(Kept(r) \intersect 1..place(x[1])) = x[1]
            /\ Cardinality(Kept(r) \intersect 1..place(y[1])) = y[1]
        BY <1>2, <2>1
      <4>2. QED  BY <3>3, <4>1
    <3>5. QED  BY <2>1, <3>1, <3>4
  <2>3. f \in [Characters(name) -> Characters(spoke)]
    BY <2>1
  <2>4. IsInjective(f)
    BY <2>2 DEF IsInjective
  <2> HIDE DEF f
  <2>5. QED  BY <2>3, <2>4 DEF Injection
<1>6. Cardinality(Characters(name)) <= Cardinality(Characters(spoke))
  <2>1. IsFiniteSet(Characters(spoke))
    BY NamesAreAny, WidthIsNat
  <2> HIDE DEF f
  <2>2. QED  BY <1>5, <2>1, FS_Injection
<1>7. QED  BY <1>4, <1>6 DEF Width, name

\* A resource leads back to its spoke if the name has no prefix in it.
LEMMA PlainLeadsBack ==
    ASSUME NEW spoke \in Name, NEW v \in BOOLEAN, Plain(spoke)
    PROVE  SpokeOf(spoke, v) = spoke
<1> DEFINE r == GetDPResouceName(spoke, v)
           n == Len(spoke)
<1>1. /\ r \in Name /\ Len(r) = n + 1 /\ n \in Nat /\ DOMAIN r = 1..(n + 1)
      /\ spoke \in [1..n -> Word \union ResourcePrefixes] /\ DOMAIN spoke = 1..n
      /\ r[1] \in ResourcePrefixes /\ \A i \in 1..n : r[i + 1] = spoke[i]
      /\ SpokeOf(spoke, v) = [j \in 1..Cardinality(Kept(r)) |-> r[Place(Kept(r), j)]]
      /\ Kept(r) \subseteq 2..(n + 1)
  BY SpokeWords, LenProperties DEF Name
<1> HIDE DEF r, n
<1>2. Kept(r) = 2..(n + 1)
  <2>1. ASSUME NEW i \in 2..(n + 1)
        PROVE  i \in Kept(r)
    <3>1. i - 1 \in 1..n /\ r[(i - 1) + 1] = spoke[i - 1] /\ (i - 1) + 1 = i
      BY <1>1
    <3>2. r[i] \notin ResourcePrefixes
      BY <1>1, <3>1 DEF Plain
    <3>3. QED  BY <1>1, <3>2 DEF Kept
  <2>2. QED  BY <1>1, <2>1
<1>3. Cardinality(2..(n + 1)) = n
  BY <1>1, FS_Interval
<1>4. ASSUME NEW j \in 1..n
      PROVE  Place(2..(n + 1), j) = j + 1
  <2> DEFINE places == 2..(n + 1)
             p == Place(places, j)
  <2>1. places \subseteq 1..(n + 1) /\ n + 1 \in Nat /\ j \in 1..Cardinality(places)
    BY <1>1, <1>3
  <2>2. p \in places /\ Cardinality(places \intersect 1..p) = j
    <3> HIDE DEF places
    <3>1. QED  BY <2>1, PlaceExists
  <2> HIDE DEF p
  <2>3. places \intersect 1..p = 2..p /\ p \in 2..(n + 1)
    BY <1>1, <2>2
  <2>4. Cardinality(2..p) = p - 1
    BY <1>1, <2>3, FS_Interval
  <2>5. Cardinality(places \intersect 1..p) = p - 1
    <3> HIDE DEF places
    <3>1. QED  BY <2>3, <2>4
  <2>6. p = j + 1
    <3> HIDE DEF places
    <3>1. j = p - 1
      BY <2>2, <2>5
    <3>2. j \in Int /\ p \in Int
      BY <2>3
    <3>3. QED  BY <3>1, <3>2
  <2>7. QED  BY <2>6 DEF p
<1>5. \A j \in 1..n : r[Place(2..(n + 1), j)] = spoke[j]
  BY <1>1, <1>4
<1>6. SpokeOf(spoke, v) = [j \in 1..n |-> spoke[j]]
  BY <1>1, <1>2, <1>3, <1>5
<1>7. QED  BY <1>1, <1>6
=============================================================================
