------------------------- MODULE IdentityTextProofs -------------------------
(***************************************************************************)
(* Proofs about IdentityText: reading back an identity gives the target it *)
(* was written for, and a component reads as changed exactly when it moved.*)
(***************************************************************************)
EXTENDS IdentityText, SequenceTheorems, TLAPS

Texts == Seq(Symbols)

\* The symbol does not occur in the text.
Lacks(text, symbol) == \A i \in 1..Len(text) : text[i] # symbol

\* The part begins right after the first n symbols of the text.
At(text, n, part) ==
    /\ n + Len(part) <= Len(text)
    /\ \A i \in 1..Len(part) : text[n + i] = part[i]

\* At that place, the text ends or continues with the symbol.
Ends(text, symbol, n) == n = Len(text) \/ (n < Len(text) /\ text[n + 1] = symbol)

-----------------------------------------------------------------------------
(* Texts                                                                   *)

\* A text is a function on the positions 1 to its length.
LEMMA TextType ==
    ASSUME NEW text \in Texts
    PROVE  Len(text) \in Nat /\ DOMAIN text = 1..Len(text)
             /\ \A i \in 1..Len(text) : text[i] \in Symbols
BY LenProperties, ElementOfSeq DEF Texts

\* Texts with the same symbols are the same text.
LEMMA SameText ==
    ASSUME NEW a \in Texts, NEW b \in Texts, Len(a) = Len(b),
           \A i \in 1..Len(a) : a[i] = b[i]
    PROVE  a = b
BY SeqEqual DEF Texts

\* The texts of no, one, two or three symbols.
LEMMA Empty == <<>> \in Texts /\ Len(<<>>) = 0
BY EmptySeq DEF Texts

LEMMA One ==
    ASSUME NEW x \in Symbols
    PROVE  <<x>> \in Texts /\ Len(<<x>>) = 1 /\ <<x>>[1] = x
BY DEF Texts

LEMMA Two ==
    ASSUME NEW x \in Symbols, NEW y \in Symbols
    PROVE  <<x, y>> \in Texts /\ Len(<<x, y>>) = 2 /\ <<x, y>>[1] = x /\ <<x, y>>[2] = y
BY DEF Texts

LEMMA Three ==
    ASSUME NEW x \in Symbols, NEW y \in Symbols, NEW z \in Symbols
    PROVE  /\ <<x, y, z>> \in Texts /\ Len(<<x, y, z>>) = 3
           /\ <<x, y, z>>[1] = x /\ <<x, y, z>>[2] = y /\ <<x, y, z>>[3] = z
BY DEF Texts

\* A concatenation has its first text at the front and its second one behind it.
LEMMA Joined ==
    ASSUME NEW a \in Texts, NEW b \in Texts
    PROVE  /\ a \o b \in Texts /\ Len(a \o b) = Len(a) + Len(b)
           /\ At(a \o b, 0, a) /\ At(a \o b, Len(a), b)
<1>1. a \o b \in Texts /\ Len(a \o b) = Len(a) + Len(b)
  BY ConcatProperties DEF Texts
<1>2. \A i \in 1..Len(a) + Len(b) :
          (a \o b)[i] = IF i <= Len(a) THEN a[i] ELSE b[i - Len(a)]
  BY ConcatProperties DEF Texts
<1>3. Len(a) \in Nat /\ Len(b) \in Nat
  BY TextType
<1> QED
  BY <1>1, <1>2, <1>3 DEF At

\* Concatenations may be grouped either way.
Regroups(a, b, c) == (a \o b) \o c = a \o (b \o c)

LEMMA TextAssociative ==
    ASSUME NEW a \in Texts, NEW b \in Texts, NEW c \in Texts
    PROVE  Regroups(a, b, c)
BY ConcatAssociative DEF Texts, Regroups

\* What stands in a text stands at the same place in its continuations.
LEMMA StillAt ==
    ASSUME NEW a \in Texts, NEW b \in Texts, NEW part \in Texts, NEW n \in Nat,
           At(a, n, part)
    PROVE  At(a \o b, n, part)
<1>1. Len(a) \in Nat /\ Len(b) \in Nat /\ Len(part) \in Nat
  BY TextType
<1>2. At(a \o b, 0, a) /\ Len(a \o b) = Len(a) + Len(b)
  BY Joined
<1> QED
  BY <1>1, <1>2 DEF At

\* The parts of what stands in a text stand in the text.
LEMMA InnerAt ==
    ASSUME NEW text \in Texts, NEW part \in Texts, NEW inner \in Texts,
           NEW n \in Nat, NEW m \in Nat, At(text, n, part), At(part, m, inner)
    PROVE  At(text, n + m, inner)
<1>1. Len(text) \in Nat /\ Len(part) \in Nat /\ Len(inner) \in Nat
  BY TextType
<1> SUFFICES ASSUME NEW i \in 1..Len(inner)
             PROVE  text[(n + m) + i] = inner[i]
  BY <1>1 DEF At
<1>2. m + i \in 1..Len(part) /\ part[m + i] = inner[i]
  BY <1>1 DEF At
<1>3. text[n + (m + i)] = part[m + i]
  BY <1>2 DEF At
<1> QED
  BY <1>2, <1>3, <1>1

\* A symbol that two texts lack, their concatenation lacks.
LEMMA LacksJoined ==
    ASSUME NEW a \in Texts, NEW b \in Texts, NEW symbol, Lacks(a, symbol), Lacks(b, symbol)
    PROVE  Lacks(a \o b, symbol)
<1>1. Len(a) \in Nat /\ Len(b) \in Nat
  BY TextType
<1>2. Len(a \o b) = Len(a) + Len(b)
  BY Joined
<1>3. \A i \in 1..Len(a) + Len(b) :
          (a \o b)[i] = IF i <= Len(a) THEN a[i] ELSE b[i - Len(a)]
  BY ConcatProperties DEF Texts
<1> QED
  BY <1>1, <1>2, <1>3 DEF Lacks

-----------------------------------------------------------------------------
(* The least and the greatest of a set of positions                        *)

LEMMA MinIs ==
    ASSUME NEW S \in SUBSET Int, NEW m \in S, \A i \in S : m <= i
    PROVE  Min(S) = m
<1>1. \E x \in S : \A y \in S : x <= y
  OBVIOUS
<1>2. Min(S) \in S /\ \A y \in S : Min(S) <= y
  BY <1>1 DEF Min
<1>3. Min(S) \in Int /\ m \in Int /\ Min(S) <= m /\ m <= Min(S)
  BY <1>2
<1> QED
  BY <1>3

LEMMA MaxOfOne ==
    ASSUME NEW m \in Int
    PROVE  Max({m}) = m
BY DEF Max

-----------------------------------------------------------------------------
(* strings.Cut, strings.Split and strings.Index                            *)

\* A part runs to the next symbol or to the end of the text.
LEMMA PartEndIs ==
    ASSUME NEW text \in Texts, NEW symbol, NEW n \in Nat, NEW part \in Texts,
           At(text, n, part), Lacks(part, symbol), Ends(text, symbol, n + Len(part))
    PROVE  PartEnd(text, symbol, n + 1) = n + Len(part)
<1> DEFINE stops == {i \in Positions(text, symbol) : i >= n + 1} \cup {Len(text) + 1}
           m == n + Len(part) + 1
<1>1. Len(text) \in Nat /\ Len(part) \in Nat
  BY TextType
<1>2. stops \in SUBSET Int
  BY <1>1 DEF Positions
<1>3. m \in stops
  BY <1>1 DEF Ends, Positions
<1>4. ASSUME NEW i \in stops
      PROVE  m <= i
  <2>1. CASE i = Len(text) + 1
    BY <2>1, <1>1 DEF At
  <2>2. CASE i \in 1..Len(text) /\ text[i] = symbol /\ i >= n + 1 /\ i < m
    <3>1. i - n \in 1..Len(part) /\ text[n + (i - n)] = part[i - n]
      BY <2>2, <1>1 DEF At
    <3> QED
      BY <3>1, <2>2, <1>1 DEF Lacks
  <2> QED
    BY <2>1, <2>2, <1>1 DEF Positions
<1>5. Min(stops) = m
  <2> HIDE DEF stops, m
  <2> QED BY <1>2, <1>3, <1>4, MinIs
<1> QED
  BY <1>5, <1>1 DEF PartEnd

\* What a range of positions holds.
LEMMA SliceIs ==
    ASSUME NEW text \in Texts, NEW n \in Nat, NEW part \in Texts, At(text, n, part)
    PROVE  SubSeq(text, n + 1, n + Len(part)) = part
<1> DEFINE slice == SubSeq(text, n + 1, n + Len(part))
<1>1. Len(text) \in Nat /\ Len(part) \in Nat
  BY TextType
<1>2. \A i \in n + 1..n + Len(part) : text[i] \in Symbols
  BY TextType, <1>1 DEF At
<1>3. /\ slice \in Texts /\ Len(slice) = Len(part)
      /\ \A i \in 1..Len(part) : slice[i] = text[n + i]
  <2>1. n + 1 \in Int /\ n + Len(part) \in Int
    BY <1>1
  <2>2. /\ slice \in Seq(Symbols)
        /\ Len(slice) = IF n + 1 <= n + Len(part) THEN (n + Len(part)) - (n + 1) + 1 ELSE 0
        /\ \A i \in 1..(n + Len(part)) - (n + 1) + 1 : slice[i] = text[(n + 1) + i - 1]
    BY <2>1, <1>2, SubSeqProperties
  <2> QED
    BY <2>2, <1>1 DEF Texts
<1> QED
  BY <1>3, SameText DEF At

LEMMA PartIs ==
    ASSUME NEW text \in Texts, NEW symbol, NEW n \in Nat, NEW part \in Texts,
           At(text, n, part), Lacks(part, symbol), Ends(text, symbol, n + Len(part))
    PROVE  Part(text, symbol, n + 1) = part
BY PartEndIs, SliceIs DEF Part

\* strings.Cut: what comes before the first symbol, and what comes after it.
LEMMA BeforeIs ==
    ASSUME NEW text \in Texts, NEW symbol, NEW part \in Texts,
           At(text, 0, part), Lacks(part, symbol), Ends(text, symbol, Len(part))
    PROVE  Before(text, symbol) = part
<1>1. Len(part) \in Nat
  BY TextType
<1>2. Ends(text, symbol, 0 + Len(part))
  BY <1>1
<1>3. Part(text, symbol, 0 + 1) = part
  BY <1>2, PartIs
<1> QED
  BY <1>3 DEF Before

LEMMA AfterIs ==
    ASSUME NEW text \in Texts, NEW symbol \in Symbols, NEW front \in Texts, NEW rest \in Texts,
           At(text, 0, front), Lacks(front, symbol), At(text, Len(front), <<symbol>>),
           At(text, Len(front) + 1, rest), Len(text) = Len(front) + 1 + Len(rest)
    PROVE  After(text, symbol) = rest
<1>1. Len(front) \in Nat /\ Len(rest) \in Nat
  BY TextType
<1>2. Ends(text, symbol, 0 + Len(front))
  BY One, <1>1 DEF Ends, At
<1>3. PartEnd(text, symbol, 0 + 1) = 0 + Len(front)
  BY <1>2, PartEndIs
<1>4. SubSeq(text, (Len(front) + 1) + 1, (Len(front) + 1) + Len(rest)) = rest
  BY <1>1, SliceIs
<1> QED
  BY <1>1, <1>3, <1>4 DEF After

-----------------------------------------------------------------------------
(* The symbols                                                             *)

\* The keys and the separators are symbols, and no two of them are the same.
LEMMA KeysAre ==
    /\ Key("postgres-ref") = "postgres-ref="
    /\ Key("clickhouse-ref") = "clickhouse-ref="
    /\ Key("clickhouse-cluster") = "clickhouse-cluster="
    /\ Key("clickhouse-db") = "clickhouse-db="
BY DEF Key

LEMMA SeparatorsAre ==
    /\ Separators \subseteq Symbols
    /\ {Bar, "#", Comma, "="} \subseteq Separators
    /\ \A c \in Components : Key(c) \in Separators /\ Key(c) \notin {Bar, "#", Comma, "="}
    /\ \A c, d \in Components : Key(c) = Key(d) => c = d
<1>1. \A c \in Components : Key(c) \notin {Bar, "#", Comma, "="}
  BY KeysAre DEF Components, RefComponents, LegacyComponents, Bar, Comma
<1>2. \A c, d \in Components : Key(c) = Key(d) => c = d
  BY KeysAre DEF Components, RefComponents, LegacyComponents
<1> QED
  BY <1>1, <1>2 DEF Separators, Symbols

\* The words that the operator writes itself are no separators.
LEMMA WordsAre ==
    Words \subseteq Symbols \ Separators
<1>1. \A w \in Words : w \notin {Bar, "#", Comma, "=", "postgres-ref=", "clickhouse-ref=",
                                 "clickhouse-cluster=", "clickhouse-db="}
  BY DEF Words, Bar, Comma
<1>2. Separators = {Bar, "#", Comma, "=", "postgres-ref=", "clickhouse-ref=",
                    "clickhouse-cluster=", "clickhouse-db="}
  BY KeysAre DEF Separators, Components, RefComponents, LegacyComponents
<1> QED
  BY <1>1, <1>2 DEF Symbols

\* A word is a text without a separator.
LEMMA WordLacks ==
    ASSUME NEW word, Word(word)
    PROVE  word \in Texts /\ \A s \in Separators : Lacks(word, s)
<1>1. word \in Texts
  BY SeqMonotonic DEF Word, Texts
<1>2. \A i \in 1..Len(word) : word[i] \in Symbols \ Separators
  BY ElementOfSeq DEF Word
<1> QED
  BY <1>1, <1>2 DEF Lacks

LEMMA WordOfOne ==
    ASSUME NEW x \in Symbols \ Separators
    PROVE  Word(<<x>>)
BY DEF Word

LEMMA WordJoined ==
    ASSUME NEW a, NEW b, Word(a), Word(b)
    PROVE  Word(a \o b)
BY ConcatProperties DEF Word

-----------------------------------------------------------------------------
(* An identity is a version and a field for every component                *)

Field(front, key, part) == front \o <<Bar, key>> \o part

\* The text is the front, or the front and further fields.
Continues(text, front) == At(text, 0, front) /\ Ends(text, Bar, Len(front))

\* Where the parts of a field stand.
LEMMA FieldIs ==
    ASSUME NEW front \in Texts, NEW key \in Symbols, NEW part \in Texts
    PROVE  /\ Field(front, key, part) \in Texts
           /\ Len(Field(front, key, part)) = Len(front) + 2 + Len(part)
           /\ At(Field(front, key, part), 0, front)
           /\ At(Field(front, key, part), Len(front), <<Bar, key>>)
           /\ At(Field(front, key, part), Len(front) + 2, part)
<1> DEFINE head == front \o <<Bar, key>>
<1>1. Bar \in Symbols
  BY SeparatorsAre
<1>2. <<Bar, key>> \in Texts /\ Len(<<Bar, key>>) = 2
  BY <1>1, Two
<1>3. Len(front) \in Nat /\ Len(part) \in Nat
  BY TextType
<1>4. /\ head \in Texts /\ Len(head) = Len(front) + 2
      /\ At(head, 0, front) /\ At(head, Len(front), <<Bar, key>>)
  BY <1>2, Joined
<1> HIDE DEF head
<1>5. /\ head \o part \in Texts /\ Len(head \o part) = Len(front) + 2 + Len(part)
      /\ At(head \o part, Len(front) + 2, part)
  BY <1>4, Joined
<1>6. At(head \o part, 0, front)
  BY <1>4, StillAt
<1>7. At(head \o part, Len(front), <<Bar, key>>)
  BY <1>2, <1>3, <1>4, StillAt
<1> QED
  BY <1>5, <1>6, <1>7 DEF Field, head

\* A field lacks what its front and its value lack.
LEMMA FieldLacks ==
    ASSUME NEW front \in Texts, NEW key \in Symbols, NEW part \in Texts, NEW symbol,
           Lacks(front, symbol), Lacks(part, symbol), symbol # Bar, symbol # key
    PROVE  Lacks(Field(front, key, part), symbol)
<1>1. Bar \in Symbols
  BY SeparatorsAre
<1>2. <<Bar, key>> \in Texts /\ Len(<<Bar, key>>) = 2
        /\ <<Bar, key>>[1] = Bar /\ <<Bar, key>>[2] = key
  BY <1>1, Two
<1>3. Lacks(<<Bar, key>>, symbol)
  BY <1>2 DEF Lacks
<1>4. front \o <<Bar, key>> \in Texts /\ Lacks(front \o <<Bar, key>>, symbol)
  BY <1>2, <1>3, Joined, LacksJoined
<1> QED
  BY <1>4, LacksJoined DEF Field

\* A text continues itself, and what its fields were added to.
LEMMA ContinuesItself ==
    ASSUME NEW text \in Texts
    PROVE  Continues(text, text)
<1>1. Len(text) \in Nat
  BY TextType
<1> QED
  BY <1>1 DEF Continues, At, Ends

LEMMA ContinuesFront ==
    ASSUME NEW text \in Texts, NEW front \in Texts, NEW key \in Symbols, NEW part \in Texts,
           Continues(text, Field(front, key, part))
    PROVE  Continues(text, front)
<1> DEFINE field == Field(front, key, part)
<1>1. /\ field \in Texts /\ Len(field) = Len(front) + 2 + Len(part)
      /\ At(field, 0, front) /\ At(field, Len(front), <<Bar, key>>)
  BY FieldIs
<1>2. Bar \in Symbols
  BY SeparatorsAre
<1>3. Len(front) \in Nat /\ Len(part) \in Nat /\ Len(text) \in Nat
  BY TextType
<1>4. <<Bar, key>> \in Texts /\ Len(<<Bar, key>>) = 2 /\ <<Bar, key>>[1] = Bar
  BY <1>2, Two
<1>5. At(text, 0, field)
  BY DEF Continues
<1> HIDE DEF field
<1>6. At(text, 0 + 0, front)
  BY <1>1, <1>5, InnerAt
<1>7. At(text, 0 + Len(front), <<Bar, key>>)
  BY <1>1, <1>3, <1>4, <1>5, InnerAt
<1>8. Len(front) < Len(text) /\ text[Len(front) + 1] = Bar
  BY <1>3, <1>4, <1>7 DEF At
<1> QED
  BY <1>6, <1>8 DEF Continues, Ends

-----------------------------------------------------------------------------
(* identityVersion, identityComponent and identityDatabase                 *)

\* The version is what stands before the first field.
LEMMA ReadVersion ==
    ASSUME NEW text \in Texts, NEW version \in Texts, Continues(text, version),
           Lacks(version, Bar)
    PROVE  IdentityVersion(text) = version
BY BeforeIs DEF Continues, IdentityVersion

\* The first field with a component's key is the one that counts.
LEMMA FirstPart ==
    ASSUME NEW text \in Texts, NEW front \in Texts, NEW key \in Symbols, NEW part \in Texts,
           Continues(text, Field(front, key, part)), Lacks(front, key), key # Bar
    PROVE  PartsWith(text, key) # {} /\ Min(PartsWith(text, key)) = Len(front) + 2
<1> DEFINE field == Field(front, key, part)
           first == Len(front) + 2
<1>1. /\ field \in Texts /\ Len(field) = Len(front) + 2 + Len(part)
      /\ At(field, 0, front) /\ At(field, Len(front), <<Bar, key>>)
  BY FieldIs
<1>2. Bar \in Symbols
  BY SeparatorsAre
<1>3. Len(front) \in Nat /\ Len(part) \in Nat /\ Len(text) \in Nat
  BY TextType
<1>4. /\ <<Bar, key>> \in Texts /\ Len(<<Bar, key>>) = 2
      /\ <<Bar, key>>[1] = Bar /\ <<Bar, key>>[2] = key
  BY <1>2, Two
<1>5. At(text, 0, field)
  BY DEF Continues
<1> HIDE DEF field
<1>6. At(text, 0 + 0, front)
  BY <1>1, <1>5, InnerAt
<1>7. At(text, 0 + Len(front), <<Bar, key>>)
  BY <1>1, <1>3, <1>4, <1>5, InnerAt
<1>8. first <= Len(text) /\ text[Len(front) + 1] = Bar /\ text[first] = key
  BY <1>3, <1>4, <1>7 DEF At
<1>9. first \in PartsWith(text, key)
  <2>1. Len(front) + 1 \in Positions(text, Bar)
    BY <1>3, <1>8 DEF Positions
  <2>2. (Len(front) + 1) + 1 \in PartStarts(text, Bar)
    BY <2>1 DEF PartStarts
  <2> QED
    BY <2>2, <1>3, <1>8 DEF PartsWith
<1>10. PartsWith(text, key) \in SUBSET Int
  BY <1>3 DEF PartsWith, PartStarts, Positions
<1>11. ASSUME NEW i \in PartsWith(text, key)
       PROVE  first <= i
  <2>1. i \in 1..Len(text) /\ text[i] = key
    BY <1>3 DEF PartsWith, PartStarts, Positions
  <2>2. ~(i <= Len(front))
    BY <2>1, <1>6, <1>3 DEF At, Lacks
  <2>3. i # Len(front) + 1
    BY <2>1, <1>8
  <2> QED
    BY <2>1, <2>2, <2>3, <1>3
<1> HIDE DEF first
<1>12. Min(PartsWith(text, key)) = first
  BY <1>9, <1>10, <1>11, MinIs
<1> QED
  BY <1>9, <1>12 DEF first

LEMMA ReadComponent ==
    ASSUME NEW text \in Texts, NEW front \in Texts, NEW key \in Symbols, NEW part \in Texts,
           Continues(text, Field(front, key, part)), Lacks(front, key), key # Bar,
           Lacks(part, Bar)
    PROVE  PartsWith(text, key) # {} /\ IdentityComponent(text, key) = part
<1> DEFINE field == Field(front, key, part)
<1>1. /\ field \in Texts /\ Len(field) = Len(front) + 2 + Len(part)
      /\ At(field, Len(front) + 2, part)
  BY FieldIs
<1>2. Len(front) \in Nat /\ Len(part) \in Nat
  BY TextType
<1>3. At(text, 0, field) /\ Ends(text, Bar, Len(field))
  BY DEF Continues
<1>4. PartsWith(text, key) # {} /\ Min(PartsWith(text, key)) = Len(front) + 2
  BY FirstPart
<1> HIDE DEF field
<1>5. At(text, 0 + (Len(front) + 2), part)
  BY <1>1, <1>2, <1>3, InnerAt
<1>6. /\ Len(front) + 2 \in Nat /\ At(text, Len(front) + 2, part)
      /\ Ends(text, Bar, (Len(front) + 2) + Len(part))
  BY <1>1, <1>2, <1>3, <1>5
<1>7. Part(text, Bar, (Len(front) + 2) + 1) = part
  BY <1>6, PartIs
<1> QED
  BY <1>4, <1>7 DEF IdentityComponent

LEMMA ReadDatabase ==
    ASSUME NEW front \in Texts, NEW part \in Texts, Lacks(front, Key("clickhouse-db"))
    PROVE  LET text == Field(front, Key("clickhouse-db"), part)
           IN  /\ PartsWith(text, Key("clickhouse-db")) # {}
               /\ IdentityDatabase(text) = part
<1> DEFINE key == Key("clickhouse-db")
           text == Field(front, key, part)
<1>1. key \in Symbols /\ key # Bar
  BY SeparatorsAre DEF Components, LegacyComponents
<1> HIDE DEF key
<1>2. /\ text \in Texts /\ Len(text) = Len(front) + 2 + Len(part)
      /\ At(text, Len(front) + 2, part)
  BY <1>1, FieldIs
<1>3. Continues(text, Field(front, key, part))
  BY <1>2, ContinuesItself
<1>4. PartsWith(text, key) # {} /\ Min(PartsWith(text, key)) = Len(front) + 2
  BY <1>1, <1>2, <1>3, FirstPart DEF key
<1>5. Len(front) + 2 \in Nat
  BY TextType
<1> HIDE DEF text
<1>6. SubSeq(text, (Len(front) + 2) + 1, (Len(front) + 2) + Len(part)) = part
  BY <1>2, <1>5, SliceIs
<1>7. IdentityDatabase(text) = part
  BY <1>2, <1>4, <1>6 DEF IdentityDatabase, key
<1> QED
  BY <1>4, <1>7 DEF text, key

\* A key that a text lacks is none of its components.
LEMMA NoComponent ==
    ASSUME NEW text \in Texts, NEW key, Lacks(text, key)
    PROVE  PartsWith(text, key) = {}
<1>1. Len(text) \in Nat
  BY TextType
<1> QED
  BY <1>1 DEF PartsWith, PartStarts, Positions, Lacks

-----------------------------------------------------------------------------
(* splitRef                                                                *)

\* A reference without keys is the name of an object.
LEMMA SplitName ==
    ASSUME NEW ref \in Texts, Lacks(ref, "#")
    PROVE  SplitRef(ref) = Plain(ref)
<1>1. Positions(ref, "#") = {}
  BY DEF Positions, Lacks
<1> QED
  BY <1>1 DEF SplitRef, Plain

\* The name and the mappings of a reference with keys.
LEMMA CutRef ==
    ASSUME NEW name \in Texts, NEW mappings \in Texts, Lacks(name, "#")
    PROVE  LET ref == name \o <<"#">> \o mappings
           IN  /\ ref \in Texts /\ Positions(ref, "#") # {}
               /\ Before(ref, "#") = name /\ After(ref, "#") = mappings
<1> DEFINE head == name \o <<"#">>
           ref == head \o mappings
<1>1. "#" \in Symbols
  BY SeparatorsAre
<1>2. <<"#">> \in Texts /\ Len(<<"#">>) = 1 /\ <<"#">>[1] = "#"
  BY <1>1, One
<1>3. Len(name) \in Nat /\ Len(mappings) \in Nat
  BY TextType
<1>4. /\ head \in Texts /\ Len(head) = Len(name) + 1
      /\ At(head, 0, name) /\ At(head, Len(name), <<"#">>)
  BY <1>2, Joined
<1> HIDE DEF head
<1>5. /\ ref \in Texts /\ Len(ref) = Len(name) + 1 + Len(mappings)
      /\ At(ref, Len(name) + 1, mappings)
  BY <1>4, Joined
<1>6. At(ref, 0, name)
  BY <1>4, StillAt
<1>7. At(ref, Len(name), <<"#">>)
  BY <1>2, <1>3, <1>4, StillAt
<1> HIDE DEF ref
<1>8. Len(name) + 1 \in 1..Len(ref) /\ ref[Len(name) + 1] = "#"
  BY <1>2, <1>3, <1>5, <1>7 DEF At
<1>9. Ends(ref, "#", Len(name))
  BY <1>3, <1>8 DEF Ends
<1>10. Before(ref, "#") = name
  BY <1>5, <1>6, <1>9, BeforeIs
<1>11. After(ref, "#") = mappings
  BY <1>1, <1>5, <1>6, <1>7, AfterIs
<1>12. Positions(ref, "#") # {}
  BY <1>8 DEF Positions
<1> QED
  BY <1>5, <1>10, <1>11, <1>12 DEF ref, head

\* A mapping is a key, "=" and a value.
Mapped(key, value) == <<key, "=">> \o value

LEMMA CutMapping ==
    ASSUME NEW key \in Symbols \ Separators, NEW value, Word(value)
    PROVE  /\ Mapped(key, value) \in Texts
           /\ Lacks(Mapped(key, value), Comma) /\ Lacks(Mapped(key, value), "#")
           /\ \A c \in Components : Lacks(Mapped(key, value), Key(c))
           /\ Lacks(Mapped(key, value), Bar)
           /\ Before(Mapped(key, value), "=") = <<key>>
           /\ After(Mapped(key, value), "=") = value
<1> DEFINE text == Mapped(key, value)
<1>1. "=" \in Symbols /\ key \in Symbols /\ key # "=" /\ "=" \in Separators
  BY SeparatorsAre
<1>2. /\ <<key, "=">> \in Texts /\ Len(<<key, "=">>) = 2
      /\ <<key, "=">>[1] = key /\ <<key, "=">>[2] = "="
  BY <1>1, Two
<1>3. <<key>> \in Texts /\ Len(<<key>>) = 1 /\ <<key>>[1] = key
  BY <1>1, One
<1>4. <<"=">> \in Texts /\ Len(<<"=">>) = 1 /\ <<"=">>[1] = "="
  BY <1>1, One
<1>5. value \in Texts /\ \A s \in Separators : Lacks(value, s)
  BY WordLacks
<1>6. Len(value) \in Nat
  BY <1>5, TextType
<1>7. /\ text \in Texts /\ Len(text) = 2 + Len(value)
      /\ At(text, 0, <<key, "=">>) /\ At(text, 2, value)
  BY <1>2, <1>5, Joined DEF Mapped
<1>8. ASSUME NEW s \in Separators, s # "="
      PROVE  Lacks(text, s)
  <2>1. Lacks(<<key, "=">>, s)
    BY <1>2, <1>8 DEF Lacks
  <2> QED
    BY <2>1, <1>2, <1>5, LacksJoined DEF Mapped
<1>9. Lacks(text, Comma) /\ Lacks(text, "#") /\ Lacks(text, Bar)
  BY <1>8, SeparatorsAre DEF Bar, Comma
<1>10. \A c \in Components : Lacks(text, Key(c))
  BY <1>8, SeparatorsAre
<1> HIDE DEF text
<1>11. text[1] = key /\ text[2] = "="
  BY <1>2, <1>7 DEF At
<1>12. At(text, 0, <<key>>) /\ At(text, 1, <<"=">>)
  BY <1>3, <1>4, <1>6, <1>7, <1>11 DEF At
<1>13. Lacks(<<key>>, "=") /\ Ends(text, "=", 1)
  BY <1>1, <1>3, <1>6, <1>7, <1>11 DEF Lacks, Ends
<1>14. Before(text, "=") = <<key>>
  BY <1>3, <1>7, <1>12, <1>13, BeforeIs
<1>15. After(text, "=") = value
  <2>1. At(text, Len(<<key>>), <<"=">>) /\ At(text, Len(<<key>>) + 1, value)
    BY <1>3, <1>7, <1>12
  <2>2. Len(text) = Len(<<key>>) + 1 + Len(value)
    BY <1>3, <1>6, <1>7
  <2> QED
    BY <2>1, <2>2, <1>1, <1>3, <1>5, <1>7, <1>12, <1>13, AfterIs
<1> QED
  BY <1>7, <1>9, <1>10, <1>14, <1>15 DEF text

ReadsOneKey(name, key, value) ==
    SplitRef(name \o <<"#">> \o Mapped(key, value)) =
        [name |-> name, keys |-> [k \in {<<key>>} |-> value]]

\* A reference with one key, as a release kept it that tracked no other.
LEMMA SplitOneKey ==
    ASSUME NEW name \in Texts, Lacks(name, "#"),
           NEW key \in Symbols \ Separators, NEW value, Word(value)
    PROVE  ReadsOneKey(name, key, value)
<1> DEFINE mappings == Mapped(key, value)
           ref == name \o <<"#">> \o mappings
<1>1. /\ mappings \in Texts /\ Lacks(mappings, Comma)
      /\ Before(mappings, "=") = <<key>> /\ After(mappings, "=") = value
  BY CutMapping
<1> HIDE DEF mappings
<1>2. /\ Positions(ref, "#") # {}
      /\ Before(ref, "#") = name /\ After(ref, "#") = mappings
  BY <1>1, CutRef
<1> HIDE DEF ref
<1>3. PartStarts(mappings, Comma) = {1}
  BY <1>1 DEF PartStarts, Positions, Lacks
<1>4. Part(mappings, Comma, 1) = mappings
  <2>1. Continues(mappings, mappings)
    BY <1>1, ContinuesItself
  <2>2. Ends(mappings, Comma, Len(mappings))
    BY DEF Ends
  <2> QED
    BY <2>1, <2>2, <1>1, BeforeIs DEF Continues, Before
<1> DEFINE Mapping(i) == Part(mappings, Comma, i)
           Named(k) == {i \in {1} : Before(Mapping(i), "=") = k}
<1>5. {Before(Mapping(i), "=") : i \in {1}} = {<<key>>}
  BY <1>1, <1>4
<1>6. Named(<<key>>) = {1}
  BY <1>1, <1>4
<1>7. \A k \in {<<key>>} : After(Mapping(Max(Named(k))), "=") = value
  <2>1. Max({1}) = 1
    BY MaxOfOne
  <2> QED
    BY <2>1, <1>6, <1>4, <1>1
<1>8. SplitRef(ref) =
          [name |-> name,
           keys |-> [k \in {Before(Mapping(i), "=") : i \in {1}} |->
                        After(Mapping(Max(Named(k))), "=")]]
  BY <1>2, <1>3 DEF SplitRef
<1> HIDE DEF Mapping, Named
<1>9. [k \in {<<key>>} |-> After(Mapping(Max(Named(k))), "=")] = [k \in {<<key>>} |-> value]
  BY <1>7
<1> QED
  BY <1>5, <1>8, <1>9 DEF ref, mappings, ReadsOneKey

\* The two mappings of a reference.
LEMMA CutMappings ==
    ASSUME NEW left \in Texts, NEW right \in Texts, Lacks(left, Comma), Lacks(right, Comma)
    PROVE  LET both == left \o <<Comma>> \o right
           IN  /\ both \in Texts
               /\ PartStarts(both, Comma) = {1, Len(left) + 2}
               /\ Part(both, Comma, 1) = left /\ Part(both, Comma, Len(left) + 2) = right
<1> DEFINE head == left \o <<Comma>>
           both == head \o right
<1>1. Comma \in Symbols
  BY SeparatorsAre
<1>2. <<Comma>> \in Texts /\ Len(<<Comma>>) = 1 /\ <<Comma>>[1] = Comma
  BY <1>1, One
<1>3. Len(left) \in Nat /\ Len(right) \in Nat
  BY TextType
<1>4. /\ head \in Texts /\ Len(head) = Len(left) + 1
      /\ At(head, 0, left) /\ At(head, Len(left), <<Comma>>)
  BY <1>2, Joined
<1> HIDE DEF head
<1>5. /\ both \in Texts /\ Len(both) = Len(left) + 1 + Len(right)
      /\ At(both, Len(left) + 1, right)
  BY <1>4, Joined
<1>6. At(both, 0, left)
  BY <1>4, StillAt
<1>7. At(both, Len(left), <<Comma>>)
  BY <1>2, <1>3, <1>4, StillAt
<1> HIDE DEF both
<1>8. both[Len(left) + 1] = Comma
  BY <1>2, <1>7 DEF At
<1>9. ASSUME NEW i \in 1..Len(both), both[i] = Comma
      PROVE  i = Len(left) + 1
  <2>1. ~(i <= Len(left))
    BY <1>3, <1>6, <1>9 DEF At, Lacks
  <2>2. CASE i > Len(left) + 1
    <3>1. i - (Len(left) + 1) \in 1..Len(right)
      BY <2>2, <1>3, <1>5
    <3>2. both[(Len(left) + 1) + (i - (Len(left) + 1))] = right[i - (Len(left) + 1)]
      BY <3>1, <1>5 DEF At
    <3>3. (Len(left) + 1) + (i - (Len(left) + 1)) = i
      BY <1>3
    <3> QED
      BY <3>1, <3>2, <3>3, <1>9 DEF Lacks
  <2> QED
    BY <2>1, <2>2, <1>3
<1>10. Positions(both, Comma) = {Len(left) + 1}
  BY <1>3, <1>5, <1>8, <1>9 DEF Positions
<1>11. PartStarts(both, Comma) = {1, Len(left) + 2}
  <2>1. (Len(left) + 1) + 1 = Len(left) + 2
    BY <1>3
  <2> QED
    BY <2>1, <1>10 DEF PartStarts
<1>12. Ends(both, Comma, Len(left))
  BY <1>3, <1>5, <1>8 DEF Ends
<1>13. Part(both, Comma, 1) = left
  BY <1>5, <1>6, <1>12, BeforeIs DEF Before
<1>14. Part(both, Comma, (Len(left) + 1) + 1) = right
  <2>1. Ends(both, Comma, (Len(left) + 1) + Len(right)) /\ Len(left) + 1 \in Nat
    BY <1>3, <1>5 DEF Ends
  <2> QED
    BY <2>1, <1>5, PartIs
<1>15. (Len(left) + 1) + 1 = Len(left) + 2
  BY <1>3
<1>16. Part(both, Comma, Len(left) + 2) = right
  BY <1>14, <1>15
<1> QED
  BY <1>5, <1>11, <1>13, <1>16 DEF both, head

ReadsTwoKeys(name, first, u, second, v) ==
    SplitRef(name \o <<"#">> \o (Mapped(first, u) \o <<Comma>> \o Mapped(second, v))) =
        [name |-> name,
         keys |-> [k \in {<<first>>, <<second>>} |-> IF k = <<first>> THEN u ELSE v]]

\* A reference with both keys, as the current release writes it.
LEMMA SplitTwoKeys ==
    ASSUME NEW name \in Texts, Lacks(name, "#"),
           NEW first \in Symbols \ Separators, NEW second \in Symbols \ Separators,
           first # second, NEW u, NEW v, Word(u), Word(v)
    PROVE  ReadsTwoKeys(name, first, u, second, v)
<1> DEFINE left == Mapped(first, u)
           right == Mapped(second, v)
           mappings == left \o <<Comma>> \o right
           ref == name \o <<"#">> \o mappings
           next == Len(left) + 2
<1>1. /\ left \in Texts /\ Lacks(left, Comma)
      /\ Before(left, "=") = <<first>> /\ After(left, "=") = u
  BY CutMapping
<1>2. /\ right \in Texts /\ Lacks(right, Comma)
      /\ Before(right, "=") = <<second>> /\ After(right, "=") = v
  BY CutMapping
<1> HIDE DEF left, right
<1>3. /\ mappings \in Texts /\ PartStarts(mappings, Comma) = {1, next}
      /\ Part(mappings, Comma, 1) = left /\ Part(mappings, Comma, next) = right
  BY <1>1, <1>2, CutMappings
<1>4. next \in Int
  BY <1>1, TextType
<1> HIDE DEF mappings, next
<1>5. /\ Positions(ref, "#") # {}
      /\ Before(ref, "#") = name /\ After(ref, "#") = mappings
  BY <1>3, CutRef
<1> HIDE DEF ref
<1> DEFINE Mapping(i) == Part(mappings, Comma, i)
           Named(k) == {i \in {1, next} : Before(Mapping(i), "=") = k}
           Value(k) == After(Mapping(Max(Named(k))), "=")
<1>6. <<first>> # <<second>>
  BY One
<1>7. {Before(Mapping(i), "=") : i \in {1, next}} = {<<first>>, <<second>>}
  BY <1>1, <1>2, <1>3
<1>8. Named(<<first>>) = {1} /\ Named(<<second>>) = {next}
  BY <1>1, <1>2, <1>3, <1>6
<1>9. Max({1}) = 1 /\ Max({next}) = next
  BY <1>4, MaxOfOne
<1>10. Value(<<first>>) = u /\ Value(<<second>>) = v
  BY <1>1, <1>2, <1>3, <1>8, <1>9
<1>11. SplitRef(ref) =
          [name |-> name,
           keys |-> [k \in {Before(Mapping(i), "=") : i \in {1, next}} |-> Value(k)]]
  BY <1>3, <1>5 DEF SplitRef
<1> HIDE DEF Mapping, Value
<1>12. [k \in {<<first>>, <<second>>} |-> Value(k)] =
           [k \in {<<first>>, <<second>>} |-> IF k = <<first>> THEN u ELSE v]
  BY <1>6, <1>10
<1> QED
  BY <1>7, <1>11, <1>12 DEF ref, mappings, left, right, ReadsTwoKeys

-----------------------------------------------------------------------------
(* postgresRefName and clickHouseRefName                                   *)

\* The text has no field separator and no component's key in it.
Clean(text) == Lacks(text, Bar) /\ \A c \in Components : Lacks(text, Key(c))

Seconds == {"directUrl", "migrationUrl"}

LEMMA WordIsClean ==
    ASSUME NEW word, Word(word)
    PROVE  word \in Texts /\ Clean(word) /\ Lacks(word, "#")
BY WordLacks, SeparatorsAre DEF Clean

LEMMA CleanJoined ==
    ASSUME NEW a \in Texts, NEW b \in Texts, Clean(a), Clean(b)
    PROVE  a \o b \in Texts /\ Clean(a \o b)
BY Joined, LacksJoined DEF Clean

\* The separators inside a reference are no separators of fields.
LEMMA CleanSeparators ==
    /\ <<"#">> \in Texts /\ Clean(<<"#">>)
    /\ <<Comma>> \in Texts /\ Clean(<<Comma>>)
<1>1. "#" \in Symbols /\ Comma \in Symbols
  BY SeparatorsAre
<1>2. "#" # Bar /\ Comma # Bar
  BY DEF Bar, Comma
<1>3. \A c \in Components : Key(c) # "#" /\ Key(c) # Comma
  BY SeparatorsAre
<1>4. \A s \in Symbols : <<s>> \in Texts /\ Len(<<s>>) = 1 /\ <<s>>[1] = s
  BY One
<1>5. \A s \in Symbols : s # Bar /\ (\A c \in Components : Key(c) # s) => Clean(<<s>>)
  BY <1>4 DEF Clean, Lacks
<1> QED
  BY <1>1, <1>2, <1>3, <1>4, <1>5

LEMMA MappedIsClean ==
    ASSUME NEW key \in Symbols \ Separators, NEW value, Word(value)
    PROVE  Mapped(key, value) \in Texts /\ Clean(Mapped(key, value))
BY CutMapping DEF Clean

\* The words of an external reference.
LEMMA ExternalWords ==
    ASSUME NEW ref, Reference(ref), NEW default, Word(default), NEW second \in Seconds
    PROVE  /\ Word(<<"secret/">> \o ref.name) /\ Word(URLKey(ref, default)) /\ Word(ref.second)
           /\ "url" \in Symbols \ Separators /\ second \in Symbols \ Separators
           /\ second # "url"
<1>1. "secret/" \in Symbols \ Separators /\ "url" \in Symbols \ Separators
        /\ second \in Symbols \ Separators
  BY WordsAre DEF Words, Seconds
<1>2. Word(<<"secret/">> \o ref.name)
  BY <1>1, WordOfOne, WordJoined DEF Reference
<1>3. Word(URLKey(ref, default))
  BY DEF URLKey, Reference
<1> QED
  BY <1>1, <1>2, <1>3 DEF Reference, Seconds

NestsMappings(N, h, x, U, c, y, W) ==
    (((N \o (h \o x)) \o U) \o (c \o y)) \o W =
        (N \o h) \o (((x \o U) \o c) \o (y \o W))

LEMMA Regrouped ==
    ASSUME NEW N \in Texts, NEW h \in Texts, NEW x \in Texts, NEW U \in Texts,
           NEW c \in Texts, NEW y \in Texts, NEW W \in Texts
    PROVE  NestsMappings(N, h, x, U, c, y, W)
<1> DEFINE P == N \o h
           X == x \o U
           Z == X \o c
           cy == c \o y
           Zy == Z \o y
<1>1. P \in Texts /\ X \in Texts /\ cy \in Texts
  BY Joined
<1> HIDE DEF P, X, cy
<1>2. Z \in Texts
  BY <1>1, Joined
<1> HIDE DEF Z
<1>3. Zy \in Texts
  BY <1>2, Joined
<1> HIDE DEF Zy
<1>4. /\ Regroups(N, h, x) /\ Regroups(P, x, U) /\ Regroups(P, X, cy)
      /\ Regroups(X, c, y) /\ Regroups(Z, y, W) /\ Regroups(P, Zy, W)
  BY <1>1, <1>2, <1>3, TextAssociative
<1>5. N \o (h \o x) = P \o x /\ (P \o x) \o U = P \o X
  BY <1>4 DEF Regroups, P, X
<1>6. (P \o X) \o cy = P \o (X \o cy) /\ X \o cy = Zy
  BY <1>4 DEF Regroups, Z, Zy, cy
<1>7. (P \o Zy) \o W = P \o (Zy \o W) /\ Zy \o W = Z \o (y \o W)
  BY <1>4 DEF Regroups, Zy
<1>8. (((N \o (h \o x)) \o U) \o cy) \o W = P \o (Z \o (y \o W))
  BY <1>5, <1>6, <1>7
<1> QED
  BY <1>8 DEF P, X, Z, cy, NestsMappings

\* What the current release writes for an external reference.
LEMMA ExternalRefName ==
    ASSUME NEW ref, Reference(ref), ref.kind = "external",
           NEW default, Word(default), NEW second \in Seconds
    PROVE  RefName(ref, default, second) =
               (<<"secret/">> \o ref.name) \o <<"#">>
                   \o (Mapped("url", URLKey(ref, default)) \o <<Comma>>
                         \o Mapped(second, ref.second))
<1> DEFINE N == <<"secret/">> \o ref.name
           U == URLKey(ref, default)
           W == ref.second
           h == <<"#">>
           x == <<"url", "=">>
           c == <<Comma>>
           y == <<second, "=">>
<1>1. /\ Word(N) /\ Word(U) /\ Word(W)
      /\ "url" \in Symbols /\ second \in Symbols
  BY ExternalWords
<1>2. N \in Texts /\ U \in Texts /\ W \in Texts
  BY <1>1, WordLacks
<1>3. "#" \in Symbols /\ Comma \in Symbols /\ "=" \in Symbols
  BY SeparatorsAre
<1>4. h \in Texts /\ c \in Texts /\ x \in Texts /\ y \in Texts
  BY <1>1, <1>3, One, Two
<1>5. <<"#", "url", "=">> = h \o x
  <2>1. /\ Len(h \o x) = Len(h) + Len(x) /\ h \o x \in Texts
        /\ At(h \o x, 0, h) /\ At(h \o x, Len(h), x)
    BY <1>4, Joined
  <2>2. Len(h) = 1 /\ h[1] = "#" /\ Len(x) = 2 /\ x[1] = "url" /\ x[2] = "="
    BY <1>1, <1>3, One, Two
  <2>3. (h \o x)[1] = "#" /\ (h \o x)[2] = "url" /\ (h \o x)[3] = "=" /\ Len(h \o x) = 3
    <3> HIDE DEF h, x
    <3> QED BY <2>1, <2>2 DEF At
  <2>4. /\ <<"#", "url", "=">> \in Texts /\ Len(<<"#", "url", "=">>) = 3
        /\ <<"#", "url", "=">>[1] = "#" /\ <<"#", "url", "=">>[2] = "url"
        /\ <<"#", "url", "=">>[3] = "="
    BY <1>1, <1>3, Three
  <2> HIDE DEF h, x
  <2>5. \A i \in 1..3 : <<"#", "url", "=">>[i] = (h \o x)[i]
    BY <2>3, <2>4
  <2> QED
    BY <2>1, <2>3, <2>4, <2>5, SameText
<1>6. <<Comma, second, "=">> = c \o y
  <2>1. /\ Len(c \o y) = Len(c) + Len(y) /\ c \o y \in Texts
        /\ At(c \o y, 0, c) /\ At(c \o y, Len(c), y)
    BY <1>4, Joined
  <2>2. Len(c) = 1 /\ c[1] = Comma /\ Len(y) = 2 /\ y[1] = second /\ y[2] = "="
    BY <1>1, <1>3, One, Two
  <2>3. (c \o y)[1] = Comma /\ (c \o y)[2] = second /\ (c \o y)[3] = "=" /\ Len(c \o y) = 3
    <3> HIDE DEF c, y
    <3> QED BY <2>1, <2>2 DEF At
  <2>4. /\ <<Comma, second, "=">> \in Texts /\ Len(<<Comma, second, "=">>) = 3
        /\ <<Comma, second, "=">>[1] = Comma /\ <<Comma, second, "=">>[2] = second
        /\ <<Comma, second, "=">>[3] = "="
    BY <1>1, <1>3, Three
  <2> HIDE DEF c, y
  <2>5. \A i \in 1..3 : <<Comma, second, "=">>[i] = (c \o y)[i]
    BY <2>3, <2>4
  <2> QED
    BY <2>1, <2>3, <2>4, <2>5, SameText
<1>7. RefName(ref, default, second) = (((N \o (h \o x)) \o U) \o (c \o y)) \o W
  BY <1>5, <1>6 DEF RefName
<1>8. Mapped("url", U) = x \o U /\ Mapped(second, W) = y \o W
  BY DEF Mapped
<1> HIDE DEF N, U, W, h, x, c, y
<1>9. NestsMappings(N, h, x, U, c, y, W)
  BY <1>2, <1>4, Regrouped
<1> QED
  BY <1>7, <1>8, <1>9 DEF N, U, W, h, x, c, y, NestsMappings

\* A reference that names no Secret is a word.
LEMMA OtherRefName ==
    ASSUME NEW ref, Reference(ref), ref.kind # "external", NEW default, NEW second
    PROVE  /\ Word(RefName(ref, default, second))
           /\ Endpoint(ref, default, second) = Plain(RefName(ref, default, second))
<1>1. Word(<<>>)
  BY DEF Word
<1>2. Word(<<"managed">>) /\ Word(<<"cnpg/">>)
  BY WordsAre, WordOfOne DEF Words
<1>3. Word(<<"cnpg/">> \o ref.name)
  BY <1>2, WordJoined DEF Reference
<1>4. CASE ref.kind = "none"
  BY <1>1, <1>4 DEF RefName, Endpoint
<1>5. CASE ref.kind = "managed"
  BY <1>2, <1>5 DEF RefName, Endpoint
<1>6. CASE ref.kind = "cluster"
  BY <1>3, <1>6 DEF RefName, Endpoint
<1> QED
  BY <1>4, <1>5, <1>6 DEF Reference

\* Reading what the current release writes for a reference gives its endpoint.
LEMMA ReadRefName ==
    ASSUME NEW ref, Reference(ref), NEW default, Word(default), NEW second \in Seconds
    PROVE  LET text == RefName(ref, default, second)
           IN  /\ text \in Texts /\ Clean(text)
               /\ SplitRef(text) = Endpoint(ref, default, second)
<1> DEFINE text == RefName(ref, default, second)
<1>1. CASE ref.kind # "external"
  <2>1. Word(text) /\ Endpoint(ref, default, second) = Plain(text)
    BY <1>1, OtherRefName
  <2> HIDE DEF text
  <2>2. text \in Texts /\ Clean(text) /\ Lacks(text, "#")
    BY <2>1, WordIsClean
  <2>3. SplitRef(text) = Plain(text)
    BY <2>2, SplitName
  <2> QED
    BY <2>1, <2>2, <2>3 DEF text
<1>2. CASE ref.kind = "external"
  <2> DEFINE name == <<"secret/">> \o ref.name
             u == URLKey(ref, default)
             first == Mapped("url", u)
             last == Mapped(second, ref.second)
             both == first \o <<Comma>> \o last
  <2>1. /\ Word(name) /\ Word(u) /\ Word(ref.second)
        /\ "url" \in Symbols \ Separators /\ second \in Symbols \ Separators
        /\ second # "url"
    BY ExternalWords
  <2>2. text = name \o <<"#">> \o both
    BY <1>2, ExternalRefName
  <2>3. Endpoint(ref, default, second) =
            [name |-> name,
             keys |-> [k \in {<<"url">>, <<second>>} |->
                          IF k = <<"url">> THEN u ELSE ref.second]]
    BY <1>2 DEF Endpoint
  <2> HIDE DEF name, u, text
  <2>4. name \in Texts /\ Clean(name) /\ Lacks(name, "#")
    BY <2>1, WordIsClean
  <2>5. SplitRef(text) = Endpoint(ref, default, second)
    <3>1. ReadsTwoKeys(name, "url", u, second, ref.second)
      BY <2>1, <2>4, SplitTwoKeys
    <3> QED
      BY <3>1, <2>2, <2>3 DEF ReadsTwoKeys
  <2>6. first \in Texts /\ Clean(first) /\ last \in Texts /\ Clean(last)
    BY <2>1, MappedIsClean
  <2> HIDE DEF first, last
  <2>7. first \o <<Comma>> \in Texts /\ Clean(first \o <<Comma>>)
    BY <2>6, CleanJoined, CleanSeparators
  <2>8. both \in Texts /\ Clean(both)
    BY <2>6, <2>7, CleanJoined
  <2>9. name \o <<"#">> \in Texts /\ Clean(name \o <<"#">>)
    BY <2>4, CleanJoined, CleanSeparators
  <2> HIDE DEF both
  <2>10. text \in Texts /\ Clean(text)
    BY <2>2, <2>8, <2>9, CleanJoined
  <2> QED
    BY <2>5, <2>10 DEF text
<1> QED
  BY <1>1, <1>2

\* An endpoint as far as the release that recorded it kept track of it.
Recalled(ref, default, second) ==
    LET whole == Endpoint(ref, default, second)
    IN  [name |-> whole.name,
         keys |-> [k \in DOMAIN whole.keys \cap TrackedKeys(second) |-> whole.keys[k]]]

\* Reading what an earlier release wrote for a reference gives what it kept of it.
LEMMA ReadCutRef ==
    ASSUME NEW ref, Reference(ref), NEW default, Word(default), NEW second \in Seconds,
           format \in Formats
    PROVE  LET text == Cut(RefName(ref, default, second))
           IN  /\ text \in Texts /\ Clean(text)
               /\ SplitRef(text) = Recalled(ref, default, second)
<1> DEFINE whole == RefName(ref, default, second)
           text == Cut(whole)
<1>1. whole \in Texts /\ Clean(whole) /\ SplitRef(whole) = Endpoint(ref, default, second)
  BY ReadRefName
<1>2. CASE ref.kind # "external"
  <2>1. Word(whole) /\ Endpoint(ref, default, second) = Plain(whole)
    BY <1>2, OtherRefName
  <2> HIDE DEF whole
  <2>2. Lacks(whole, "#")
    BY <2>1, WordIsClean
  <2>3. Positions(whole, "#") = {}
    BY <2>2 DEF Positions, Lacks
  <2>4. text = whole
    BY <2>3 DEF Cut
  <2>5. Recalled(ref, default, second) = Plain(whole)
    BY <2>1 DEF Recalled, Plain, NoKeys
  <2> QED
    BY <1>1, <2>1, <2>4, <2>5 DEF whole
<1>3. CASE ref.kind = "external"
  <2> DEFINE name == <<"secret/">> \o ref.name
             u == URLKey(ref, default)
             first == Mapped("url", u)
             last == Mapped(second, ref.second)
             both == first \o <<Comma>> \o last
  <2>1. /\ Word(name) /\ Word(u) /\ Word(ref.second)
        /\ "url" \in Symbols \ Separators /\ second \in Symbols \ Separators
        /\ second # "url"
    BY ExternalWords
  <2>2. whole = name \o <<"#">> \o both
    BY <1>3, ExternalRefName
  <2>3. Endpoint(ref, default, second) =
            [name |-> name,
             keys |-> [k \in {<<"url">>, <<second>>} |->
                          IF k = <<"url">> THEN u ELSE ref.second]]
    BY <1>3 DEF Endpoint
  <2> HIDE DEF name, u, whole
  <2>4. name \in Texts /\ Clean(name) /\ Lacks(name, "#")
    BY <2>1, WordIsClean
  <2>5. /\ first \in Texts /\ Lacks(first, Comma) /\ Clean(first)
        /\ last \in Texts /\ Lacks(last, Comma)
    BY <2>1, CutMapping, MappedIsClean
  <2> HIDE DEF first, last
  <2>6. both \in Texts /\ Part(both, Comma, 1) = first
    BY <2>5, CutMappings
  <2> HIDE DEF both
  <2>7. Positions(whole, "#") # {} /\ Before(whole, "#") = name /\ After(whole, "#") = both
    BY <2>2, <2>4, <2>6, CutRef
  <2>8. <<"url">> # <<second>>
    BY <2>1, One
  <2>9. CASE format = "current"
    <3>1. text = whole
      BY <2>9 DEF Cut
    <3>2. TrackedKeys(second) = {<<"url">>, <<second>>}
      BY <2>9 DEF TrackedKeys
    <3>3. Recalled(ref, default, second) = Endpoint(ref, default, second)
      BY <3>2, <2>3 DEF Recalled
    <3> QED
      BY <1>1, <3>1, <3>3 DEF whole
  <2>10. CASE format = "url"
    <3>1. text = name \o <<"#">> \o first
      BY <2>10, <2>6, <2>7 DEF Cut, Before
    <3>2. TrackedKeys(second) = {<<"url">>}
      BY <2>10 DEF TrackedKeys
    <3>3. Recalled(ref, default, second) =
              [name |-> name, keys |-> [k \in {<<"url">>} |-> u]]
      BY <3>2, <2>3, <2>8 DEF Recalled
    <3>4. SplitRef(text) = [name |-> name, keys |-> [k \in {<<"url">>} |-> u]]
      <4>1. ReadsOneKey(name, "url", u)
        BY <2>1, <2>4, SplitOneKey
      <4> QED
        BY <4>1, <3>1 DEF first, ReadsOneKey
    <3>5. name \o <<"#">> \in Texts /\ Clean(name \o <<"#">>)
      BY <2>4, CleanJoined, CleanSeparators
    <3>6. text \in Texts /\ Clean(text)
      BY <3>1, <3>5, <2>5, CleanJoined
    <3> QED
      BY <3>3, <3>4, <3>6 DEF whole
  <2>11. CASE format \notin {"current", "url"}
    <3>1. text = name
      BY <2>11, <2>7 DEF Cut
    <3>2. TrackedKeys(second) = {}
      BY <2>11 DEF TrackedKeys
    <3>3. Recalled(ref, default, second) = Plain(name)
      BY <3>2, <2>3 DEF Recalled, Plain, NoKeys
    <3>4. SplitRef(text) = Plain(name)
      BY <3>1, <2>4, SplitName
    <3> QED
      BY <3>1, <3>3, <3>4, <2>4 DEF whole
  <2> QED
    BY <2>9, <2>10, <2>11
<1> QED
  BY <1>2, <1>3

-----------------------------------------------------------------------------
(* Whole identities                                                        *)

\* The clustering field, which the code writes in one go.
LEMMA ClusterField ==
    ASSUME NEW front \in Texts, NEW key \in Symbols, NEW mode \in Symbols
    PROVE  front \o <<Bar, key, mode>> = Field(front, key, <<mode>>)
<1> DEFINE head == <<Bar, key>>
           last == <<mode>>
           three == <<Bar, key, mode>>
<1>1. Bar \in Symbols
  BY SeparatorsAre
<1>2. head \in Texts /\ Len(head) = 2 /\ head[1] = Bar /\ head[2] = key
  BY <1>1, Two
<1>3. last \in Texts /\ Len(last) = 1 /\ last[1] = mode
  BY One
<1>4. /\ three \in Texts /\ Len(three) = 3
      /\ three[1] = Bar /\ three[2] = key /\ three[3] = mode
  BY <1>1, Three
<1> HIDE DEF head, last, three
<1>5. /\ head \o last \in Texts /\ Len(head \o last) = Len(head) + Len(last)
      /\ At(head \o last, 0, head) /\ At(head \o last, Len(head), last)
  BY <1>2, <1>3, Joined
<1>6. /\ Len(head \o last) = 3 /\ (head \o last)[1] = Bar
      /\ (head \o last)[2] = key /\ (head \o last)[3] = mode
  BY <1>2, <1>3, <1>5 DEF At
<1>7. \A i \in 1..3 : three[i] = (head \o last)[i]
  BY <1>4, <1>6
<1>8. three = head \o last
  BY <1>4, <1>5, <1>6, <1>7, SameText
<1>9. Regroups(front, head, last)
  BY <1>2, <1>3, TextAssociative
<1>10. front \o three = (front \o head) \o last
  BY <1>8, <1>9 DEF Regroups
<1> QED
  BY <1>10 DEF head, last, three, Field

LEMMA ModeIsClean ==
    ASSUME NEW mode \in Symbols \ Separators
    PROVE  <<mode>> \in Texts /\ Clean(<<mode>>)
BY WordOfOne, WordIsClean

\* The keys of the components as symbols.
LEMMA KeySymbols ==
    \A c \in Components : /\ Key(c) \in Symbols /\ Key(c) # Bar
                          /\ \A d \in Components \ {c} : Key(c) # Key(d)
BY SeparatorsAre

\* A clean field adds its own key only.
LEMMA FieldLacksKeys ==
    ASSUME NEW front \in Texts, NEW part \in Texts, NEW c \in Components,
           NEW d \in Components \ {c}, Lacks(front, Key(d)), Lacks(part, Key(d))
    PROVE  Lacks(Field(front, Key(c), part), Key(d))
BY KeySymbols, FieldLacks

\* What a record says of the components that it has.
Parts(domain, postgres, clickhouse, mode, database) ==
    [c \in domain |->
        CASE c = "postgres-ref"       -> postgres
          [] c = "clickhouse-ref"     -> clickhouse
          [] c = "clickhouse-cluster" -> Plain(<<mode>>)
          [] c = "clickhouse-db"      -> Plain(database)]

LegacyText(front, mode, database) ==
    Field(Field(front, Key("clickhouse-cluster"), <<mode>>), Key("clickhouse-db"), database)
WithReferences(version, postgres, clickhouse) ==
    Field(Field(version, Key("postgres-ref"), postgres), Key("clickhouse-ref"), clickhouse)

\* The last two fields of an identity, behind a front that has neither of their keys.
LEMMA ReadLegacy ==
    ASSUME NEW front \in Texts, NEW mode \in Symbols \ Separators, NEW database \in Texts,
           Lacks(front, Key("clickhouse-cluster")), Lacks(front, Key("clickhouse-db"))
    PROVE  LET text == LegacyText(front, mode, database)
           IN  /\ text \in Texts /\ Continues(text, front)
               /\ PartsWith(text, Key("clickhouse-cluster")) # {}
               /\ IdentityComponent(text, Key("clickhouse-cluster")) = <<mode>>
               /\ PartsWith(text, Key("clickhouse-db")) # {}
               /\ IdentityDatabase(text) = database
<1> DEFINE clusterKey == Key("clickhouse-cluster")
           databaseKey == Key("clickhouse-db")
           inner == Field(front, clusterKey, <<mode>>)
           text == Field(inner, databaseKey, database)
<1>1. /\ clusterKey \in Symbols /\ clusterKey # Bar
      /\ databaseKey \in Symbols /\ databaseKey # Bar /\ databaseKey # clusterKey
  BY KeySymbols DEF Components, LegacyComponents
<1>2. <<mode>> \in Texts /\ Clean(<<mode>>)
  BY ModeIsClean
<1>3. Lacks(<<mode>>, Bar) /\ Lacks(<<mode>>, databaseKey)
  BY <1>2 DEF Clean, Components, LegacyComponents
<1> HIDE DEF clusterKey, databaseKey
<1>4. inner \in Texts
  BY <1>1, <1>2, FieldIs
<1>5. Lacks(inner, databaseKey)
  BY <1>1, <1>2, <1>3, FieldLacks DEF databaseKey
<1> HIDE DEF inner
<1>6. text \in Texts
  BY <1>1, <1>4, FieldIs
<1>7. Continues(text, Field(inner, databaseKey, database))
  BY <1>6, ContinuesItself
<1>8. PartsWith(text, databaseKey) # {} /\ IdentityDatabase(text) = database
  BY <1>4, <1>5, ReadDatabase DEF databaseKey
<1> HIDE DEF text
<1>9. Continues(text, Field(front, clusterKey, <<mode>>))
  BY <1>1, <1>4, <1>6, <1>7, ContinuesFront DEF inner
<1>10. Continues(text, front)
  BY <1>1, <1>2, <1>6, <1>9, ContinuesFront
<1>11. PartsWith(text, clusterKey) # {} /\ IdentityComponent(text, clusterKey) = <<mode>>
  BY <1>1, <1>2, <1>3, <1>6, <1>9, ReadComponent DEF clusterKey
<1> QED
  BY <1>6, <1>8, <1>10, <1>11 DEF text, inner, clusterKey, databaseKey, LegacyText

\* The identity that carries every component.
LEMMA ParsedFull ==
    ASSUME NEW version \in Texts, NEW postgres \in Texts, NEW clickhouse \in Texts,
           Clean(version), Clean(postgres), Clean(clickhouse),
           NEW mode \in Symbols \ Separators, NEW database \in Texts
    PROVE  Parsed(LegacyText(WithReferences(version, postgres, clickhouse), mode, database)) =
               [version |-> version,
                parts   |-> Parts(Components, SplitRef(postgres), SplitRef(clickhouse),
                                  mode, database)]
<1> DEFINE postgresKey == Key("postgres-ref")
           clickhouseKey == Key("clickhouse-ref")
           inner == Field(version, postgresKey, postgres)
           front == Field(inner, clickhouseKey, clickhouse)
           text == LegacyText(front, mode, database)
<1>1. /\ postgresKey \in Symbols /\ postgresKey # Bar
      /\ clickhouseKey \in Symbols /\ clickhouseKey # Bar
  BY KeySymbols DEF Components, RefComponents
<1>2. inner \in Texts
  BY <1>1, FieldIs
<1>3. ASSUME NEW c \in Components \ {"postgres-ref"}
      PROVE  Lacks(inner, Key(c))
  BY FieldLacksKeys DEF Clean, Components, RefComponents
<1>4. Lacks(version, postgresKey) /\ Lacks(inner, clickhouseKey)
  BY <1>3 DEF Clean, Components, RefComponents
<1>5. Lacks(front, Key("clickhouse-cluster")) /\ Lacks(front, Key("clickhouse-db"))
  <2> HIDE DEF inner
  <2> QED
    BY <1>2, <1>3, FieldLacksKeys DEF Clean, Components, RefComponents, LegacyComponents
<1> HIDE DEF postgresKey, clickhouseKey, inner
<1>6. front \in Texts
  BY <1>1, <1>2, FieldIs
<1> HIDE DEF front
<1>7. /\ text \in Texts /\ Continues(text, front)
      /\ PartsWith(text, Key("clickhouse-cluster")) # {}
      /\ IdentityComponent(text, Key("clickhouse-cluster")) = <<mode>>
      /\ PartsWith(text, Key("clickhouse-db")) # {}
      /\ IdentityDatabase(text) = database
  BY <1>5, <1>6, ReadLegacy
<1> HIDE DEF text
<1>8. Continues(text, Field(inner, clickhouseKey, clickhouse))
  BY <1>7 DEF front
<1>9. Continues(text, Field(version, postgresKey, postgres))
  BY <1>1, <1>2, <1>7, <1>8, ContinuesFront DEF inner
<1>10. Continues(text, version)
  BY <1>1, <1>7, <1>9, ContinuesFront
<1>11. Lacks(version, Bar) /\ Lacks(postgres, Bar) /\ Lacks(clickhouse, Bar)
  BY DEF Clean
<1>12. /\ PartsWith(text, clickhouseKey) # {}
       /\ IdentityComponent(text, clickhouseKey) = clickhouse
  BY <1>1, <1>2, <1>4, <1>7, <1>8, <1>11, ReadComponent
<1>13. /\ PartsWith(text, postgresKey) # {}
       /\ IdentityComponent(text, postgresKey) = postgres
  BY <1>1, <1>4, <1>7, <1>9, <1>11, ReadComponent
<1>14. IdentityVersion(text) = version
  BY <1>7, <1>10, <1>11, ReadVersion
<1>15. {c \in Components : PartsWith(text, Key(c)) # {}} = Components
  BY <1>7, <1>12, <1>13
    DEF Components, RefComponents, LegacyComponents, postgresKey, clickhouseKey
<1>16. Parsed(text).parts =
           Parts(Components, SplitRef(postgres), SplitRef(clickhouse), mode, database)
  BY <1>7, <1>12, <1>13, <1>15
    DEF Parsed, Parts, Components, RefComponents, LegacyComponents, postgresKey, clickhouseKey
<1>17. Parsed(text) = [version |-> version, parts |-> Parsed(text).parts]
  BY <1>14 DEF Parsed
<1> QED
  BY <1>16, <1>17
    DEF text, front, inner, postgresKey, clickhouseKey, WithReferences

\* The identity from before the references, and the one from before the clustering
\* mode; there the database must not spell a key that the release did not write.
LEMMA ParsedNoRefs ==
    ASSUME NEW version \in Texts, Clean(version),
           NEW mode \in Symbols \ Separators, NEW database \in Texts,
           \A c \in RefComponents : Lacks(database, Key(c)),
           NEW postgres, NEW clickhouse
    PROVE  Parsed(LegacyText(version, mode, database)) =
               [version |-> version,
                parts   |-> Parts(LegacyComponents, postgres, clickhouse, mode, database)]
<1> DEFINE text == LegacyText(version, mode, database)
           inner == Field(version, Key("clickhouse-cluster"), <<mode>>)
<1>1. /\ Lacks(version, Bar)
      /\ Lacks(version, Key("clickhouse-cluster")) /\ Lacks(version, Key("clickhouse-db"))
  BY DEF Clean, Components, LegacyComponents
<1>2. /\ text \in Texts /\ Continues(text, version)
      /\ PartsWith(text, Key("clickhouse-cluster")) # {}
      /\ IdentityComponent(text, Key("clickhouse-cluster")) = <<mode>>
      /\ PartsWith(text, Key("clickhouse-db")) # {}
      /\ IdentityDatabase(text) = database
  BY <1>1, ReadLegacy
<1>3. ASSUME NEW c \in RefComponents
      PROVE  PartsWith(text, Key(c)) = {}
  <2>1. <<mode>> \in Texts /\ Lacks(<<mode>>, Key(c)) /\ Lacks(version, Key(c))
    BY ModeIsClean DEF Clean, Components
  <2>2. /\ Key("clickhouse-cluster") \in Symbols /\ Key("clickhouse-db") \in Symbols
        /\ Key(c) # Key("clickhouse-cluster") /\ Key(c) # Key("clickhouse-db")
        /\ Key(c) # Bar
    BY KeySymbols DEF Components, RefComponents, LegacyComponents
  <2>3. inner \in Texts /\ Lacks(inner, Key(c))
    BY <2>1, <2>2, FieldIs, FieldLacks
  <2> HIDE DEF inner
  <2>4. Lacks(text, Key(c))
    BY <2>2, <2>3, FieldLacks DEF LegacyText, inner
  <2> QED
    BY <2>4, <1>2, NoComponent
<1> HIDE DEF text
<1>4. IdentityVersion(text) = version
  BY <1>1, <1>2, ReadVersion
<1>5. {c \in Components : PartsWith(text, Key(c)) # {}} = LegacyComponents
  BY <1>2, <1>3 DEF Components, RefComponents, LegacyComponents
<1>6. Parsed(text).parts = Parts(LegacyComponents, postgres, clickhouse, mode, database)
  BY <1>2, <1>5 DEF Parsed, Parts, RefComponents, LegacyComponents
<1>7. Parsed(text) = [version |-> version, parts |-> Parsed(text).parts]
  BY <1>4 DEF Parsed
<1> QED
  BY <1>6, <1>7 DEF text

LEMMA ParsedDatabase ==
    ASSUME NEW version \in Texts, Clean(version), NEW database \in Texts,
           \A c \in Components \ {"clickhouse-db"} : Lacks(database, Key(c)),
           NEW postgres, NEW clickhouse, NEW mode
    PROVE  Parsed(Field(version, Key("clickhouse-db"), database)) =
               [version |-> version,
                parts   |-> Parts({"clickhouse-db"}, postgres, clickhouse, mode, database)]
<1> DEFINE text == Field(version, Key("clickhouse-db"), database)
<1>1. Lacks(version, Bar) /\ \A c \in Components : Lacks(version, Key(c))
  BY DEF Clean
<1>2. "clickhouse-db" \in Components /\ Key("clickhouse-db") \in Symbols
  BY KeySymbols DEF Components, LegacyComponents
<1>3. PartsWith(text, Key("clickhouse-db")) # {} /\ IdentityDatabase(text) = database
  BY <1>1, <1>2, ReadDatabase
<1>4. text \in Texts
  BY <1>2, FieldIs
<1>5. Continues(text, text)
  BY <1>4, ContinuesItself
<1>6. Continues(text, version)
  BY <1>2, <1>4, <1>5, ContinuesFront
<1>7. ASSUME NEW c \in Components \ {"clickhouse-db"}
      PROVE  PartsWith(text, Key(c)) = {}
  <2>1. Lacks(text, Key(c))
    BY <1>1, <1>2, FieldLacksKeys
  <2> QED
    BY <2>1, <1>4, NoComponent
<1> HIDE DEF text
<1>8. IdentityVersion(text) = version
  BY <1>1, <1>4, <1>6, ReadVersion
<1>9. {c \in Components : PartsWith(text, Key(c)) # {}} = {"clickhouse-db"}
  BY <1>2, <1>3, <1>7
<1>10. Parsed(text).parts = Parts({"clickhouse-db"}, postgres, clickhouse, mode, database)
  BY <1>3, <1>9 DEF Parsed, Parts, RefComponents
<1>11. Parsed(text) = [version |-> version, parts |-> Parsed(text).parts]
  BY <1>8 DEF Parsed
<1> QED
  BY <1>10, <1>11 DEF text

-----------------------------------------------------------------------------
(* What is written for a spec                                              *)

\* The release tag loses its "v".
LEMMA VersionText ==
    ASSUME NEW version, Version(version)
    PROVE  /\ TrimPrefix(Letters(version)) = version.text
           /\ version.text \in Texts /\ Clean(version.text)
<1>1. version.text \in Texts /\ Clean(version.text)
  BY WordIsClean DEF Version
<1>2. CASE version.v
  <2> DEFINE text == <<"v">> \o version.text
  <2>1. <<"v">> \in Texts /\ Len(<<"v">>) = 1 /\ <<"v">>[1] = "v"
    BY WordsAre, One DEF Words
  <2>2. /\ text \in Texts /\ Len(text) = 1 + Len(version.text)
        /\ At(text, 0, <<"v">>) /\ At(text, 1, version.text)
    BY <1>1, <2>1, Joined
  <2>3. Len(version.text) \in Nat
    BY <1>1, TextType
  <2> HIDE DEF text
  <2>4. text # <<>> /\ text[1] = "v"
    BY <2>1, <2>2, <2>3, Empty DEF At
  <2>5. /\ Tail(text) \in Texts /\ Len(Tail(text)) = Len(text) - 1
        /\ \A i \in 1..Len(Tail(text)) : Tail(text)[i] = text[i + 1]
    BY <2>2, <2>4, HeadTailProperties DEF Texts
  <2>6. Len(Tail(text)) = Len(version.text)
    BY <2>2, <2>3, <2>5
  <2>7. \A i \in 1..Len(Tail(text)) : Tail(text)[i] = version.text[i]
    BY <2>2, <2>3, <2>5, <2>6 DEF At
  <2>8. Tail(text) = version.text
    BY <1>1, <2>5, <2>6, <2>7, SameText
  <2> QED
    BY <1>1, <1>2, <2>4, <2>8 DEF Letters, TrimPrefix, text
<1>3. CASE ~version.v
  BY <1>1, <1>3 DEF Version, Letters, TrimPrefix
<1> QED
  BY <1>2, <1>3

\* The defaults of the endpoint keys are words.
LEMMA Defaults ==
    /\ Word(<<"database_url">>) /\ Word(<<"url">>)
    /\ "directUrl" \in Seconds /\ "migrationUrl" \in Seconds
BY WordsAre, WordOfOne DEF Words, Seconds

\* The references of a spec.
LEMMA SpecReferences ==
    ASSUME NEW s \in Specs
    PROVE  /\ PostgresRefName(s) \in Texts /\ Clean(PostgresRefName(s))
           /\ SplitRef(PostgresRefName(s)) = Target(s)["postgres-ref"]
           /\ ClickHouseRefName(s) \in Texts /\ Clean(ClickHouseRefName(s))
           /\ SplitRef(ClickHouseRefName(s)) = Target(s)["clickhouse-ref"]
<1>1. Reference(s.postgres) /\ Reference(s.clickhouse)
  BY SpecsAssumption
<1>2. /\ PostgresRefName(s) \in Texts /\ Clean(PostgresRefName(s))
      /\ SplitRef(PostgresRefName(s)) = Endpoint(s.postgres, <<"database_url">>, "directUrl")
  BY <1>1, Defaults, ReadRefName DEF PostgresRefName
<1>3. /\ ClickHouseRefName(s) \in Texts /\ Clean(ClickHouseRefName(s))
      /\ SplitRef(ClickHouseRefName(s)) = Endpoint(s.clickhouse, <<"url">>, "migrationUrl")
  BY <1>1, Defaults, ReadRefName DEF ClickHouseRefName
<1>4. /\ Target(s)["postgres-ref"] = Endpoint(s.postgres, <<"database_url">>, "directUrl")
      /\ Target(s)["clickhouse-ref"] = Endpoint(s.clickhouse, <<"url">>, "migrationUrl")
  BY DEF Target, Components, RefComponents
<1> QED
  BY <1>2, <1>3, <1>4

LEMMA SpecTarget ==
    ASSUME NEW s \in Specs
    PROVE  Target(s) = Parts(Components, Target(s)["postgres-ref"], Target(s)["clickhouse-ref"],
                             s.clustered, s.database)
<1>1. \A c \in Components : c \in {"postgres-ref", "clickhouse-ref", "clickhouse-cluster",
                                   "clickhouse-db"}
  BY DEF Components, RefComponents, LegacyComponents
<1> QED
  BY <1>1 DEF Target, Parts

\* The identity of a spec, field by field.
LEMMA IdentityIs ==
    ASSUME NEW s \in Specs
    PROVE  BuildMigrationIdentity(s) =
               LegacyText(WithReferences(s.version.text, PostgresRefName(s), ClickHouseRefName(s)),
                          s.clustered, s.database)
<1> DEFINE postgres == PostgresRefName(s)
           clickhouse == ClickHouseRefName(s)
           version == s.version.text
           front == WithReferences(version, postgres, clickhouse)
<1>1. version \in Texts /\ TrimPrefix(Letters(s.version)) = version
  BY SpecsAssumption, VersionText
<1>2. postgres \in Texts /\ clickhouse \in Texts
  BY SpecReferences
<1>3. BuildMigrationIdentity(s) =
          (front \o <<Bar, Key("clickhouse-cluster"), s.clustered>>)
              \o <<Bar, Key("clickhouse-db")>> \o s.database
  BY <1>1 DEF BuildMigrationIdentity, WithReferences, Field
<1>4. front \in Texts
  <2>1. Key("postgres-ref") \in Symbols /\ Key("clickhouse-ref") \in Symbols
    BY KeySymbols DEF Components, RefComponents
  <2> HIDE DEF postgres, clickhouse, version
  <2> QED
    BY <1>1, <1>2, <2>1, FieldIs DEF WithReferences
<1> HIDE DEF front
<1>5. front \o <<Bar, Key("clickhouse-cluster"), s.clustered>> =
          Field(front, Key("clickhouse-cluster"), <<s.clustered>>)
  <2>1. Key("clickhouse-cluster") \in Symbols /\ s.clustered \in Symbols
    BY KeySymbols, SpecsAssumption DEF Components, LegacyComponents
  <2> QED
    BY <1>4, <2>1, ClusterField
<1>6. BuildMigrationIdentity(s) = LegacyText(front, s.clustered, s.database)
  BY <1>3, <1>5 DEF LegacyText, Field
<1> QED
  BY <1>6 DEF front

LEMMA ParsedIdentity ==
    ASSUME NEW s \in Specs
    PROVE  Parsed(BuildMigrationIdentity(s)) = [version |-> s.version.text, parts |-> Target(s)]
<1>1. /\ s.version.text \in Texts /\ Clean(s.version.text)
      /\ s.clustered \in Symbols \ Separators /\ s.database \in Texts
  BY SpecsAssumption, VersionText DEF Texts
<1>2. Parsed(LegacyText(WithReferences(s.version.text, PostgresRefName(s), ClickHouseRefName(s)),
                        s.clustered, s.database)) =
          [version |-> s.version.text,
           parts   |-> Parts(Components, SplitRef(PostgresRefName(s)),
                             SplitRef(ClickHouseRefName(s)), s.clustered, s.database)]
  BY <1>1, SpecReferences, ParsedFull
<1> QED
  BY <1>2, IdentityIs, SpecReferences, SpecTarget

-----------------------------------------------------------------------------
(* The specification                                                       *)

\* Both specs are specs, and the database of the record spells no component that its
\* release did not track.
IdentityInv ==
    /\ was \in Specs
    /\ spec \in Specs
    /\ format \in Formats
    /\ \A c \in Components \ Tracked : Positions(was.database, Key(c)) = {}

LEMMA IdentityInvHolds == Spec => []IdentityInv
<1>1. Init => IdentityInv
  BY DEF Init, IdentityInv
<1>2. IdentityInv /\ [Next]_vars => IdentityInv'
  <2> SUFFICES ASSUME IdentityInv, [Next]_vars
               PROVE  IdentityInv'
    OBVIOUS
  <2>1. was' = was /\ format' = format /\ spec' \in Specs
    BY DEF IdentityInv, Next, Edit, vars
  <2>2. Tracked' = Tracked
    BY <2>1 DEF Tracked
  <2> QED
    BY <2>1, <2>2 DEF IdentityInv
<1> QED
  BY <1>1, <1>2, PTL DEF Spec

\* For every set of specs, the string that buildMigrationIdentity writes for one of them
\* parses back into the target it was written for, whatever its database is called.
THEOREM IdentityRoundTrips == Spec => []RoundTrips
<1>1. IdentityInv => RoundTrips
  BY ParsedIdentity DEF IdentityInv, RoundTrips, Desired
<1> QED
  BY <1>1, IdentityInvHolds, PTL

-----------------------------------------------------------------------------
(* The record of an earlier release                                        *)

FieldsRegroup(version, a, postgres, b, clickhouse) ==
    version \o (((a \o postgres) \o b) \o clickhouse) =
        (((version \o a) \o postgres) \o b) \o clickhouse

LEMMA FieldsRegrouped ==
    ASSUME NEW version \in Texts, NEW a \in Texts, NEW postgres \in Texts,
           NEW b \in Texts, NEW clickhouse \in Texts
    PROVE  FieldsRegroup(version, a, postgres, b, clickhouse)
<1> DEFINE ap == a \o postgres
           apb == ap \o b
           va == version \o a
<1>1. ap \in Texts
  BY Joined
<1> HIDE DEF ap
<1>2. apb \in Texts
  BY <1>1, Joined
<1> HIDE DEF apb
<1>3. /\ Regroups(version, a, postgres) /\ Regroups(version, ap, b)
      /\ Regroups(version, apb, clickhouse)
  BY <1>1, <1>2, TextAssociative
<1>4. (version \o a) \o postgres = version \o ap
  BY <1>3 DEF Regroups, ap
<1>5. (version \o ap) \o b = version \o apb
  BY <1>3 DEF Regroups, apb
<1>6. (version \o apb) \o clickhouse = version \o (apb \o clickhouse)
  BY <1>3 DEF Regroups
<1>7. (((version \o a) \o postgres) \o b) \o clickhouse = version \o (apb \o clickhouse)
  BY <1>4, <1>5, <1>6
<1> QED
  BY <1>7 DEF FieldsRegroup, apb, ap

\* What each release tracked.
LEMMA TrackedIs ==
    ASSUME format \in Formats
    PROVE  /\ format = "noRefs" => Tracked = LegacyComponents
           /\ format = "database" => Tracked = {"clickhouse-db"}
           /\ format \notin {"noRefs", "database"} => Tracked = Components
BY DEF Tracked, Formats

LEMMA RecordedVersion ==
    ASSUME NEW s \in Specs
    PROVE  IdentityVersion(BuildMigrationIdentity(s)) = s.version.text
<1>1. Parsed(BuildMigrationIdentity(s)).version = s.version.text
  BY ParsedIdentity
<1> QED
  BY <1>1 DEF Parsed

RecalledPostgres == Recalled(was.postgres, <<"database_url">>, "directUrl")
RecalledClickHouse == Recalled(was.clickhouse, <<"url">>, "migrationUrl")

\* Reading a record gives what its release tracked of the spec that was migrated.
LEMMA ParsedRecorded ==
    ASSUME IdentityInv
    PROVE  Parsed(Recorded) =
               [version |-> was.version.text,
                parts   |-> Parts(Tracked, RecalledPostgres, RecalledClickHouse,
                                  was.clustered, was.database)]
<1> DEFINE version == was.version.text
           mode == was.clustered
           database == was.database
           postgres == Cut(PostgresRefName(was))
           clickhouse == Cut(ClickHouseRefName(was))
           refs == <<Bar, Key("postgres-ref")>> \o postgres
                       \o <<Bar, Key("clickhouse-ref")>> \o clickhouse
           cluster == <<Bar, Key("clickhouse-cluster"), mode>>
<1>1. was \in Specs /\ format \in Formats
  BY DEF IdentityInv
<1>2. /\ version \in Texts /\ Clean(version)
      /\ mode \in Symbols \ Separators /\ database \in Texts
      /\ Reference(was.postgres) /\ Reference(was.clickhouse)
  BY <1>1, SpecsAssumption, VersionText DEF Texts
<1>3. IdentityVersion(BuildMigrationIdentity(was)) = version
  BY <1>1, RecordedVersion
<1>4. /\ postgres \in Texts /\ Clean(postgres) /\ SplitRef(postgres) = RecalledPostgres
      /\ clickhouse \in Texts /\ Clean(clickhouse) /\ SplitRef(clickhouse) = RecalledClickHouse
  BY <1>1, <1>2, Defaults, ReadCutRef
    DEF PostgresRefName, ClickHouseRefName, RecalledPostgres, RecalledClickHouse
<1>5. ASSUME NEW c \in Components \ Tracked
      PROVE  Lacks(database, Key(c))
  BY DEF IdentityInv, Positions, Lacks
<1>6. Recorded =
          ((version \o (IF "postgres-ref" \in Tracked THEN refs ELSE <<>>))
              \o (IF "clickhouse-cluster" \in Tracked THEN cluster ELSE <<>>))
              \o <<Bar, Key("clickhouse-db")>> \o database
  BY <1>3 DEF Recorded
<1> HIDE DEF version, mode, database, postgres, clickhouse, refs
<1>7. version \o <<>> = version
  BY <1>2, ConcatEmptySeq DEF Texts
<1>8. /\ Key("clickhouse-cluster") \in Symbols /\ Key("postgres-ref") \in Symbols
      /\ Key("clickhouse-ref") \in Symbols /\ Bar \in Symbols
  BY KeySymbols, SeparatorsAre DEF Components, RefComponents, LegacyComponents
<1>9. \A front \in Texts :
          front \o cluster = Field(front, Key("clickhouse-cluster"), <<mode>>)
  BY <1>2, <1>8, ClusterField
<1> HIDE DEF cluster
<1>10. CASE format = "database"
  <2>1. Tracked = {"clickhouse-db"}
    BY <1>1, <1>10, TrackedIs
  <2>2. Recorded = Field(version, Key("clickhouse-db"), database)
    BY <2>1, <1>6, <1>7 DEF Field
  <2>3. \A c \in Components \ {"clickhouse-db"} : Lacks(database, Key(c))
    BY <2>1, <1>5
  <2>4. Parsed(Field(version, Key("clickhouse-db"), database)) =
            [version |-> version,
             parts   |-> Parts({"clickhouse-db"}, RecalledPostgres, RecalledClickHouse,
                               mode, database)]
    BY <1>2, <2>3, ParsedDatabase
  <2> QED
    BY <2>1, <2>2, <2>4 DEF version, mode, database
<1>11. CASE format = "noRefs"
  <2>1. Tracked = LegacyComponents
    BY <1>1, <1>11, TrackedIs
  <2>2. Recorded = LegacyText(version, mode, database)
    <3>1. "postgres-ref" \notin Tracked /\ "clickhouse-cluster" \in Tracked
      BY <2>1 DEF LegacyComponents
    <3>2. Recorded = (version \o cluster) \o <<Bar, Key("clickhouse-db")>> \o database
      BY <3>1, <1>6, <1>7
    <3>3. version \o cluster = Field(version, Key("clickhouse-cluster"), <<mode>>)
      BY <1>2, <1>9
    <3> QED
      BY <3>2, <3>3 DEF LegacyText, Field
  <2>3. \A c \in RefComponents : Lacks(database, Key(c))
    BY <2>1, <1>5 DEF Components, RefComponents, LegacyComponents
  <2>4. Parsed(LegacyText(version, mode, database)) =
            [version |-> version,
             parts   |-> Parts(LegacyComponents, RecalledPostgres, RecalledClickHouse,
                               mode, database)]
    BY <1>2, <2>3, ParsedNoRefs
  <2> QED
    BY <2>1, <2>2, <2>4 DEF version, mode, database
<1>12. CASE format \notin {"noRefs", "database"}
  <2>1. Tracked = Components
    BY <1>1, <1>12, TrackedIs
  <2> DEFINE front == WithReferences(version, postgres, clickhouse)
  <2>2. version \o refs = front
    <3>1. <<Bar, Key("postgres-ref")>> \in Texts /\ <<Bar, Key("clickhouse-ref")>> \in Texts
      BY <1>8, Two
    <3>2. FieldsRegroup(version, <<Bar, Key("postgres-ref")>>, postgres,
                        <<Bar, Key("clickhouse-ref")>>, clickhouse)
      BY <1>2, <1>4, <3>1, FieldsRegrouped
    <3> QED
      BY <3>2 DEF FieldsRegroup, refs, WithReferences, Field
  <2>3. front \in Texts
    BY <1>2, <1>4, <1>8, FieldIs DEF WithReferences
  <2>4. Recorded = LegacyText(front, mode, database)
    <3>1. "postgres-ref" \in Tracked /\ "clickhouse-cluster" \in Tracked
      BY <2>1 DEF Components, RefComponents, LegacyComponents
    <3> HIDE DEF front
    <3>2. Recorded = (front \o cluster) \o <<Bar, Key("clickhouse-db")>> \o database
      BY <3>1, <1>6, <2>2
    <3>3. front \o cluster = Field(front, Key("clickhouse-cluster"), <<mode>>)
      BY <2>3, <1>9
    <3> QED
      BY <3>2, <3>3 DEF LegacyText, Field
  <2>5. Parsed(LegacyText(front, mode, database)) =
            [version |-> version,
             parts   |-> Parts(Components, RecalledPostgres, RecalledClickHouse,
                               mode, database)]
    BY <1>2, <1>4, ParsedFull
  <2> QED
    BY <2>1, <2>4, <2>5 DEF version, mode, database
<1> QED
  BY <1>10, <1>11, <1>12

-----------------------------------------------------------------------------
(* retargetedComponents and migrationUpToDate                              *)

\* The keys that an endpoint selects depend on the kind of its object only, and an
\* object of one kind never has the name of one of another.
LEMMA NameOfExternal ==
    ASSUME NEW ref, Reference(ref), NEW default, NEW second
    PROVE  LET name == Endpoint(ref, default, second).name
           IN  ref.kind = "external" <=> Len(name) >= 1 /\ name[1] = "secret/"
<1> DEFINE name == Endpoint(ref, default, second).name
<1>1. "secret/" \in Symbols /\ "cnpg/" \in Symbols /\ "managed" \in Symbols
  BY WordsAre DEF Words
<1>2. ref.name \in Texts /\ Len(ref.name) \in Nat
  BY WordLacks, TextType DEF Reference
<1>3. \A s \in Symbols : Len(<<s>> \o ref.name) >= 1 /\ (<<s>> \o ref.name)[1] = s
  <2> SUFFICES ASSUME NEW s \in Symbols
               PROVE  Len(<<s>> \o ref.name) >= 1 /\ (<<s>> \o ref.name)[1] = s
    OBVIOUS
  <2>1. <<s>> \in Texts /\ Len(<<s>>) = 1 /\ <<s>>[1] = s
    BY One
  <2>2. Len(<<s>> \o ref.name) = 1 + Len(ref.name) /\ At(<<s>> \o ref.name, 0, <<s>>)
    BY <2>1, <1>2, Joined
  <2> QED
    BY <2>1, <2>2, <1>2 DEF At
<1>4. CASE ref.kind = "none"
  <2>1. name = <<>>
    BY <1>4 DEF Endpoint, Plain
  <2> QED
    BY <1>4, <2>1, Empty
<1>5. CASE ref.kind = "managed"
  <2>1. name = <<"managed">>
    BY <1>5 DEF Endpoint, Plain
  <2>2. <<"managed">>[1] = "managed"
    BY <1>1, One
  <2> QED
    BY <1>5, <2>1, <2>2
<1>6. CASE ref.kind = "cluster"
  <2>1. name = <<"cnpg/">> \o ref.name
    BY <1>6 DEF Endpoint, Plain
  <2>2. (<<"cnpg/">> \o ref.name)[1] = "cnpg/"
    BY <1>1, <1>3
  <2> QED
    BY <1>6, <2>1, <2>2
<1>7. CASE ref.kind = "external"
  <2>1. name = <<"secret/">> \o ref.name
    BY <1>7 DEF Endpoint
  <2>2. Len(<<"secret/">> \o ref.name) >= 1 /\ (<<"secret/">> \o ref.name)[1] = "secret/"
    BY <1>1, <1>3
  <2> QED
    BY <1>7, <2>1, <2>2
<1> QED
  BY <1>4, <1>5, <1>6, <1>7 DEF Reference

LEMMA KeysOfEndpoint ==
    ASSUME NEW ref, Reference(ref), NEW default, NEW second
    PROVE  DOMAIN Endpoint(ref, default, second).keys =
               IF ref.kind = "external" THEN {<<"url">>, <<second>>} ELSE {}
<1>1. CASE ref.kind = "external"
  BY <1>1 DEF Endpoint
<1>2. CASE ref.kind # "external"
  <2>1. Endpoint(ref, default, second).keys = NoKeys
    BY <1>2 DEF Endpoint, Plain, Reference
  <2> QED
    BY <1>2, <2>1 DEF NoKeys
<1> QED
  BY <1>1, <1>2

AnyTrackedKeys == TrackedKeys("directUrl") \cup TrackedKeys("migrationUrl")

\* The other datastore's second key is none of an endpoint's.
LEMMA KeysOfBoth ==
    ASSUME NEW second \in Seconds, format \in Formats
    PROVE  {<<"url">>, <<second>>} \cap AnyTrackedKeys =
               {<<"url">>, <<second>>} \cap TrackedKeys(second)
<1>1. /\ "url" \in Symbols /\ "directUrl" \in Symbols /\ "migrationUrl" \in Symbols
  BY WordsAre DEF Words
<1>2. /\ <<"url">> # <<"directUrl">> /\ <<"url">> # <<"migrationUrl">>
      /\ <<"directUrl">> # <<"migrationUrl">>
  BY <1>1, One
<1>3. CASE format = "current"
  <2>1. \A k : TrackedKeys(k) = {<<"url">>, <<k>>}
    BY <1>3 DEF TrackedKeys
  <2> QED
    BY <2>1, <1>2 DEF AnyTrackedKeys, Seconds
<1>4. CASE format # "current"
  <2>1. TrackedKeys("directUrl") = TrackedKeys(second)
          /\ TrackedKeys("migrationUrl") = TrackedKeys(second)
    BY <1>4 DEF TrackedKeys, Formats
  <2> QED
    BY <2>1 DEF AnyTrackedKeys
<1> QED
  BY <1>3, <1>4

\* RetargetIsAMove's notion of a move, between two values of a component.
Moves(old, new) ==
    \/ old.name # new.name
    \/ \E k \in DOMAIN old.keys \cap DOMAIN new.keys :
          old.keys[k] # new.keys[k] /\ k \in AnyTrackedKeys

\* A recorded reference disagrees with the current one exactly when it moved.
LEMMA ReferencesCompare ==
    ASSUME NEW old, NEW new, Reference(old), Reference(new),
           NEW default, NEW second \in Seconds, format \in Formats
    PROVE  ~RefsAgree(Recalled(old, default, second), Endpoint(new, default, second)) <=>
               Moves(Endpoint(old, default, second), Endpoint(new, default, second))
<1> DEFINE o == Endpoint(old, default, second)
           n == Endpoint(new, default, second)
           r == Recalled(old, default, second)
<1>1. /\ r.name = o.name /\ DOMAIN r.keys = DOMAIN o.keys \cap TrackedKeys(second)
      /\ \A k \in DOMAIN r.keys : r.keys[k] = o.keys[k]
  BY DEF Recalled
<1>2. /\ DOMAIN o.keys = IF old.kind = "external" THEN {<<"url">>, <<second>>} ELSE {}
      /\ DOMAIN n.keys = IF new.kind = "external" THEN {<<"url">>, <<second>>} ELSE {}
  BY KeysOfEndpoint
<1>3. /\ old.kind = "external" <=> Len(o.name) >= 1 /\ o.name[1] = "secret/"
      /\ new.kind = "external" <=> Len(n.name) >= 1 /\ n.name[1] = "secret/"
  BY NameOfExternal
<1> HIDE DEF o, n, r
<1>4. CASE o.name # n.name
  BY <1>1, <1>4 DEF RefsAgree, Moves, o, n, r
<1>5. CASE o.name = n.name
  <2>1. DOMAIN o.keys = DOMAIN n.keys
    BY <1>2, <1>3, <1>5
  <2>2. DOMAIN o.keys \cap AnyTrackedKeys = DOMAIN r.keys
    BY <1>1, <1>2, KeysOfBoth
  <2>3. RefsAgree(r, n) <=> \A k \in DOMAIN r.keys : o.keys[k] = n.keys[k]
    BY <1>1, <1>5, <2>1, <2>2 DEF RefsAgree
  <2>4. Moves(o, n) <=> \E k \in DOMAIN r.keys : o.keys[k] # n.keys[k]
    BY <1>5, <2>1, <2>2 DEF Moves
  <2> QED
    BY <2>3, <2>4 DEF o, n, r
<1> QED
  BY <1>4, <1>5

\* So does a component without keys.
LEMMA PlainCompare ==
    ASSUME NEW old, NEW new
    PROVE  ~RefsAgree(Plain(old), Plain(new)) <=> Moves(Plain(old), Plain(new))
BY DEF RefsAgree, Moves, Plain, NoKeys

\* For every set of specs and every release that may have recorded the identity, a
\* component reads as changed exactly when it was on record and moved, and the record
\* is up to date exactly when nothing on record moved and the version is the same.
THEOREM RetargetsAreMoves == Spec => []RetargetIsAMove
<1>1. IdentityInv => RetargetIsAMove
  <2> SUFFICES ASSUME IdentityInv
               PROVE  RetargetIsAMove
    OBVIOUS
  <2> DEFINE applied == Parsed(Recorded)
             desired == Parsed(Desired)
             Moved(c) == Moves(Target(was)[c], Target(spec)[c])
             moved == {c \in Tracked : Moved(c)}
  <2>1. was \in Specs /\ spec \in Specs /\ format \in Formats
    BY DEF IdentityInv
  <2>2. /\ Reference(was.postgres) /\ Reference(was.clickhouse)
        /\ Reference(spec.postgres) /\ Reference(spec.clickhouse)
    BY <2>1, SpecsAssumption
  <2>3. desired = [version |-> spec.version.text, parts |-> Target(spec)]
    BY <2>1, ParsedIdentity DEF Desired
  <2>4. applied = [version |-> was.version.text,
                   parts   |-> Parts(Tracked, RecalledPostgres, RecalledClickHouse,
                                     was.clustered, was.database)]
    BY ParsedRecorded
  <2> HIDE DEF applied, desired
  <2>5. DOMAIN applied.parts = Tracked
    BY <2>4 DEF Parts
  <2>6. "clickhouse-db" \in Tracked /\ Tracked \subseteq Components
    BY <2>1, TrackedIs DEF Components, LegacyComponents
  <2>7. applied # NoIdentity
    <3>1. DOMAIN NoIdentity.parts = {}
      BY DEF NoIdentity
    <3> QED
      BY <3>1, <2>5, <2>6
  <2>8. ASSUME NEW c \in Tracked
        PROVE  ~RefsAgree(applied.parts[c], desired.parts[c]) <=> Moved(c)
    <3>1. desired.parts[c] = Target(spec)[c]
      BY <2>3
    <3>2. CASE c = "postgres-ref"
      <4>1. applied.parts[c] = RecalledPostgres
        BY <2>4, <3>2 DEF Parts
      <4>2. \A s : Target(s)[c] = Endpoint(s.postgres, <<"database_url">>, "directUrl")
        BY <3>2 DEF Target, Components, RefComponents
      <4> QED
        BY <2>1, <2>2, <3>1, <4>1, <4>2, Defaults, ReferencesCompare DEF RecalledPostgres
    <3>3. CASE c = "clickhouse-ref"
      <4>1. applied.parts[c] = RecalledClickHouse
        BY <2>4, <3>3 DEF Parts
      <4>2. \A s : Target(s)[c] = Endpoint(s.clickhouse, <<"url">>, "migrationUrl")
        BY <3>3 DEF Target, Components, RefComponents
      <4> QED
        BY <2>1, <2>2, <3>1, <4>1, <4>2, Defaults, ReferencesCompare DEF RecalledClickHouse
    <3>4. CASE c = "clickhouse-cluster"
      <4>1. applied.parts[c] = Plain(<<was.clustered>>)
        BY <2>4, <3>4 DEF Parts
      <4>2. \A s : Target(s)[c] = Plain(<<s.clustered>>)
        BY <3>4 DEF Target, Components, LegacyComponents
      <4> QED
        BY <3>1, <4>1, <4>2, PlainCompare
    <3>5. CASE c = "clickhouse-db"
      <4>1. applied.parts[c] = Plain(was.database)
        BY <2>4, <3>5 DEF Parts
      <4>2. \A s : Target(s)[c] = Plain(s.database)
        BY <3>5 DEF Target, Components, LegacyComponents
      <4> QED
        BY <3>1, <4>1, <4>2, PlainCompare
    <3> QED
      BY <2>6, <3>2, <3>3, <3>4, <3>5 DEF Components, RefComponents, LegacyComponents
  <2>9. Disagreements(applied, desired) = moved
    BY <2>5, <2>8 DEF Disagreements
  <2>10. RetargetedComponents(applied, desired) = moved
    BY <2>7, <2>9 DEF RetargetedComponents
  <2>11. MigrationUpToDate(applied, desired) <=>
            moved = {} /\ was.version.text = spec.version.text
    BY <2>3, <2>4, <2>7, <2>9 DEF MigrationUpToDate
  <2> QED
    BY <2>10, <2>11 DEF RetargetIsAMove, Moves, AnyTrackedKeys, applied, desired
<1> QED
  BY <1>1, IdentityInvHolds, PTL
=============================================================================
