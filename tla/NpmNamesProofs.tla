---------------------------- MODULE NpmNamesProofs ----------------------------
(***************************************************************************)
(* What TLAPS proves of NpmNames, for any names, versions and identifiers, *)
(* however deep their peers are: what is written is read back.             *)
(*                                                                         *)
(* An identifier is a text whose parts occur in it one after another       *)
(* (Occurs, PartsAt). Its peers are read by two inductions, each over a    *)
(* number (AllNumbers): over how deep the peers of an identifier go, and,  *)
(* for those of one identifier, over how many have been read (PeersLoop).  *)
(* A peer ends where no more underscores follow than are put before its    *)
(* siblings (Stops): what is deeper was read with it.                      *)
(*                                                                         *)
(* No backend compares texts with words: the characters have names, whose  *)
(* definitions are expanded where words are compared only.                 *)
(***************************************************************************)
EXTENDS NpmNames, FiniteSetTheorems, SequenceTheorems, WellFoundedInduction, TLAPS

\* A set of numbers that has 0 and with a number the next one has them all.
LEMMA AllNumbers ==
  ASSUME NEW K, 0 \in K, \A k \in Nat : k \in K => k + 1 \in K
  PROVE  Nat \subseteq K
  <1> SUFFICES ASSUME NEW m \in Nat, m \notin K PROVE FALSE
    OBVIOUS
  <1> DEFINE Below(k) == 0..(k - 1)
             T == {Below(k) : k \in Nat \ K}
  <1>1. IsWellFoundedOn(StrictSubsetOrdering(Nat), FiniteSubsetsOf(Nat))
    BY FS_StrictSubsetOrderingWellFounded
  <1>2. T \subseteq FiniteSubsetsOf(Nat) /\ T # {}
    <2>1. \A k \in Nat : IsFiniteSet(Below(k)) /\ Below(k) \subseteq Nat
      BY FS_Interval
    <2> QED BY <2>1 DEF FiniteSubsetsOf
  <1>3. \E x \in T : \A y \in T : <<y, x>> \notin StrictSubsetOrdering(Nat)
    <2> HIDE DEF T
    <2> QED BY <1>1, <1>2, WFMin
  <1>4. PICK k \in Nat \ K : \A y \in T : <<y, Below(k)>> \notin StrictSubsetOrdering(Nat)
    BY <1>3
  <1>5. k # 0 /\ k - 1 \in Nat /\ k - 1 \notin K
    <2>1. k # 0
      OBVIOUS
    <2>2. k - 1 \in Nat /\ (k - 1) + 1 = k
      BY <2>1
    <2> QED BY <2>1, <2>2
  <1>6. Below(k - 1) \in T
    BY <1>5
  <1>7. <<Below(k - 1), Below(k)>> \in StrictSubsetOrdering(Nat)
    <2>1. Below(k - 1) \subseteq Below(k) /\ Below(k) \subseteq Nat
      BY <1>5
    <2>2. k - 1 \in Below(k) /\ k - 1 \notin Below(k - 1)
      BY <1>5
    <2> QED BY <2>1, <2>2 DEF StrictSubsetOrdering
  <1> QED BY <1>4, <1>6, <1>7

-----------------------------------------------------------------------------
(* Texts                                                                   *)

Token == STRING \cup Mark
Text == Seq(Token)

\* The characters that mean something, for the provers that do not compare texts with words
AtSign == "@"
Underscore == "_"

LEMMA Tokens == STRING \subseteq Token /\ "@" \in Token /\ "/" \in Token /\ "_" \in Token /\ "+" \in Token
  BY DEF Token, Mark

LEMMA SeqOfMore ==
  ASSUME NEW S, NEW T, S \subseteq T
  PROVE  Seq(S) \subseteq Seq(T)
  OBVIOUS

LEMMA StringsAreText == Seq(STRING) \subseteq Text
  BY Tokens, SeqOfMore, Zenon DEF Text

\* s is what is in the text t from the place a on.
Occurs(t, s, a) == a + Len(s) <= Len(t) + 1 /\ \A i \in 1..Len(s) : t[a + i - 1] = s[i]

LEMMA OccursBoth ==
  ASSUME NEW t \in Text, NEW s \in Text, NEW u \in Text, NEW a \in Nat \ {0}, Occurs(t, s \o u, a)
  PROVE  Occurs(t, s, a) /\ Occurs(t, u, a + Len(s))
  <1>1. Len(s \o u) = Len(s) + Len(u) /\ Len(s) \in Nat /\ Len(u) \in Nat /\ Len(t) \in Nat
    BY DEF Text
  <1>2. ASSUME NEW i \in 1..Len(s) PROVE t[a + i - 1] = s[i]
    <2>1. i \in 1..Len(s \o u) /\ (s \o u)[i] = s[i]
      BY <1>1 DEF Text
    <2> QED BY <2>1 DEF Occurs
  <1>3. ASSUME NEW i \in 1..Len(u) PROVE t[a + Len(s) + i - 1] = u[i]
    <2>1. Len(s) + i \in 1..Len(s \o u) /\ (s \o u)[Len(s) + i] = u[i]
      BY <1>1 DEF Text
    <2>2. a + (Len(s) + i) - 1 = a + Len(s) + i - 1
      BY <1>1
    <2> QED BY <2>1, <2>2 DEF Occurs
  <1> QED BY <1>1, <1>2, <1>3 DEF Occurs

\* FlattenSeq puts one part after the other.
NextPart(parts, f, i) == IF i = 1 THEN parts[i] ELSE f[i - 1] \o parts[i]

LEMMA Flattened ==
  ASSUME NEW parts \in Seq(Text), parts # <<>>
  PROVE  \E f \in [1..Len(parts) -> Text] :
           /\ FlattenSeq(parts) = f[Len(parts)] /\ f[1] = parts[1]
           /\ \A i \in 2..Len(parts) : f[i] = f[i - 1] \o parts[i]
  <1> DEFINE n == Len(parts)
             Goes(f, k) == f = [i \in 1..k |-> NextPart(parts, f, i)]
             K == {k \in Nat : \E f : Goes(f, k)}
  <1>1. n \in Nat \ {0} /\ \A i \in 1..n : parts[i] \in Text
    BY DEF Text
  <1>2. 0 \in K
    <2> DEFINE f == [i \in 1..0 |-> 0]
    <2>1. Goes(f, 0)
      OBVIOUS
    <2> QED BY <2>1
  <1>3. ASSUME NEW k \in Nat, k \in K PROVE k + 1 \in K
    <2>1. PICK f : Goes(f, k)
      BY <1>3
    <2> DEFINE h == [i \in 1..(k + 1) |-> NextPart(parts, f, i)]
    <2>2. ASSUME NEW i \in 1..k PROVE h[i] = f[i]
      <3>1. i \in 1..(k + 1) /\ f[i] = NextPart(parts, f, i)
        BY <2>1
      <3> QED BY <3>1
    <2>3. ASSUME NEW i \in 1..(k + 1) PROVE NextPart(parts, f, i) = NextPart(parts, h, i)
      <3>1. i # 1 => i - 1 \in 1..k
        OBVIOUS
      <3>2. i # 1 => f[i - 1] = h[i - 1]
        <4> HIDE DEF h
        <4> QED BY <2>2, <3>1
      <3> HIDE DEF h
      <3> QED BY <3>2 DEF NextPart
    <2>4. h = [i \in 1..(k + 1) |-> NextPart(parts, h, i)]
      BY <2>3
    <2> HIDE DEF h
    <2> QED BY <2>4
  <1>4. n \in K
    <2> HIDE DEF K, n
    <2> QED BY <1>1, <1>2, <1>3, AllNumbers
  <1> DEFINE F == CHOOSE f : f = [i \in 1..n |-> NextPart(parts, f, i)]
  <1>5. F = [i \in 1..n |-> NextPart(parts, F, i)]
    BY <1>4
  <1>6. FlattenSeq(parts) = F[n]
    BY <1>1 DEF FlattenSeq, NextPart
  <1> HIDE DEF F, n
  <1>7. \A i \in 1..n : F[i] = NextPart(parts, F, i)
    BY <1>5
  <1>8. \A i \in 1..n : F[i] \in Text
    <2> DEFINE J == {k \in Nat : k + 1 \in 1..n => F[k + 1] \in Text}
    <2>1. 0 \in J
      BY <1>1, <1>7 DEF NextPart
    <2>2. ASSUME NEW k \in Nat, k \in J PROVE k + 1 \in J
      <3> SUFFICES ASSUME k + 1 + 1 \in 1..n PROVE F[k + 1 + 1] \in Text
        OBVIOUS
      <3>1. k + 1 \in 1..n /\ (k + 1 + 1) - 1 = k + 1 /\ k + 1 + 1 # 1
        BY <1>1
      <3>2. F[k + 1 + 1] = F[k + 1] \o parts[k + 1 + 1] /\ F[k + 1] \in Text
        BY <1>7, <2>2, <3>1 DEF NextPart
      <3> QED BY <1>1, <3>2 DEF Text
    <2>3. Nat \subseteq J
      <3> HIDE DEF J
      <3> QED BY <2>1, <2>2, AllNumbers
    <2>4. ASSUME NEW i \in 1..n PROVE i - 1 \in Nat /\ (i - 1) + 1 = i
      BY <1>1
    <2> QED BY <2>3, <2>4
  <1>9. F \in [1..n -> Text]
    BY <1>5, <1>8
  <1>10. F[1] = parts[1] /\ \A i \in 2..n : F[i] = F[i - 1] \o parts[i]
    <2>1. 1 \in 1..n /\ \A i \in 2..n : i \in 1..n /\ i # 1
      BY <1>1
    <2> QED BY <1>7, <2>1, Zenon DEF NextPart
  <1>11. n = Len(parts)
    BY DEF n
  <1>12. /\ F \in [1..Len(parts) -> Text] /\ FlattenSeq(parts) = F[Len(parts)] /\ F[1] = parts[1]
         /\ \A i \in 2..Len(parts) : F[i] = F[i - 1] \o parts[i]
    BY <1>6, <1>9, <1>10, <1>11
  <1> QED BY <1>12

\* So each part is in the text, one after the other.
PartsAt(t, parts, a) ==
    \E at \in [1..(Len(parts) + 1) -> Nat \ {0}] :
        /\ at[1] = a /\ at[Len(parts) + 1] = a + Len(FlattenSeq(parts))
        /\ \A i \in 1..Len(parts) : at[i + 1] = at[i] + Len(parts[i]) /\ Occurs(t, parts[i], at[i])

LEMMA PartsOccur ==
  ASSUME NEW t \in Text, NEW parts \in Seq(Text), NEW a \in Nat \ {0},
         Occurs(t, FlattenSeq(parts), a), FlattenSeq(parts) \in Text
  PROVE  PartsAt(t, parts, a)
  <1>1. CASE parts = <<>>
    <2>1. FlattenSeq(parts) = <<>>
      BY <1>1 DEF FlattenSeq
    <2> DEFINE at == [i \in 1..(Len(parts) + 1) |-> a]
    <2>2. at \in [1..(Len(parts) + 1) -> Nat \ {0}] /\ at[1] = a /\ at[Len(parts) + 1] = a
      BY <1>1
    <2>3. Len(parts) = 0 /\ a + Len(FlattenSeq(parts)) = a
      BY <1>1, <2>1
    <2>4. \A i \in 1..Len(parts) : FALSE
      BY <2>3
    <2> HIDE DEF at
    <2> QED BY <2>2, <2>3, <2>4 DEF PartsAt
  <1>2. CASE parts # <<>>
    <2> DEFINE n == Len(parts)
    <2>1. n \in Nat \ {0} /\ \A i \in 1..n : parts[i] \in Text
      BY <1>2
    <2>2. PICK f \in [1..n -> Text] :
             /\ FlattenSeq(parts) = f[n] /\ f[1] = parts[1]
             /\ \A i \in 2..n : f[i] = f[i - 1] \o parts[i]
      BY <1>2, Flattened
    <2> DEFINE at == [i \in 1..(n + 1) |-> IF i = 1 THEN a ELSE a + Len(f[i - 1])]
    <2> HIDE DEF n
    <2>3. \A i \in 1..n : Len(f[i]) \in Nat
      BY <2>2 DEF Text
    <2>4. at \in [1..(n + 1) -> Nat \ {0}]
      <3>1. ASSUME NEW i \in 1..(n + 1) PROVE at[i] \in Nat \ {0}
        <4>1. i # 1 => i - 1 \in 1..n
          BY <2>1
        <4> QED BY <2>3, <4>1
      <3> QED BY <3>1
    <2>5. \A i \in 1..n : Occurs(t, f[i], a)
      <3> DEFINE J == {k \in Nat : n - k \in 1..n => Occurs(t, f[n - k], a)}
      <3>1. 0 \in J
        BY <2>1, <2>2
      <3>2. ASSUME NEW k \in Nat, k \in J PROVE k + 1 \in J
        <4> SUFFICES ASSUME n - (k + 1) \in 1..n PROVE Occurs(t, f[n - (k + 1)], a)
          OBVIOUS
        <4>1. n - k \in 2..n /\ n - k \in 1..n /\ (n - k) - 1 = n - (k + 1)
          BY <2>1
        <4>2. Occurs(t, f[n - k], a) /\ f[n - k] = f[n - (k + 1)] \o parts[n - k]
          <5>1. f[n - k] = f[(n - k) - 1] \o parts[n - k]
            BY <2>2, <4>1
          <5> QED BY <3>2, <4>1, <5>1
        <4>3. f[n - (k + 1)] \in Text /\ parts[n - k] \in Text
          BY <2>1, <2>2, <4>1
        <4> QED BY <4>2, <4>3, OccursBoth
      <3>3. Nat \subseteq J
        <4> HIDE DEF J
        <4> QED BY <3>1, <3>2, AllNumbers
      <3>4. ASSUME NEW i \in 1..n PROVE Occurs(t, f[i], a)
        <4>1. n - i \in Nat /\ n - (n - i) = i
          BY <2>1
        <4> QED BY <3>3, <4>1
      <3> QED BY <3>4
    <2>6. ASSUME NEW i \in 1..n
          PROVE  at[i + 1] = at[i] + Len(parts[i]) /\ Occurs(t, parts[i], at[i])
      <3>1. i + 1 \in 1..(n + 1) /\ i + 1 # 1 /\ (i + 1) - 1 = i /\ i \in 1..(n + 1)
        BY <2>1
      <3>2. at[i + 1] = a + Len(f[i])
        BY <3>1
      <3>3. CASE i = 1
        <4>1. at[i] = a /\ f[i] = parts[i]
          BY <2>2, <3>1, <3>3
        <4> QED BY <2>5, <3>2, <4>1
      <3>4. CASE i # 1
        <4>1. i - 1 \in 1..n /\ i \in 2..n
          BY <2>1, <3>4
        <4>2. at[i] = a + Len(f[i - 1]) /\ f[i] = f[i - 1] \o parts[i]
          BY <2>2, <3>1, <3>4, <4>1
        <4>3. f[i - 1] \in Text /\ parts[i] \in Text
          BY <2>1, <2>2, <4>1
        <4>4. Occurs(t, f[i - 1] \o parts[i], a)
          BY <2>5, <4>2
        <4>5. Occurs(t, parts[i], at[i])
          <5>1. Occurs(t, parts[i], a + Len(f[i - 1]))
            BY <4>3, <4>4, OccursBoth
          <5> HIDE DEF at
          <5> QED BY <4>2, <5>1
        <4>6. Len(f[i]) = Len(f[i - 1]) + Len(parts[i]) /\ Len(f[i - 1]) \in Nat /\ Len(parts[i]) \in Nat
          BY <4>2, <4>3 DEF Text
        <4>7. a + Len(f[i]) = (a + Len(f[i - 1])) + Len(parts[i])
          <5>1. \A x, y \in Nat : a + (x + y) = (a + x) + y
            OBVIOUS
          <5> QED BY <4>6, <5>1, Zenon
        <4> HIDE DEF at
        <4>8. at[i + 1] = at[i] + Len(parts[i])
          BY <3>2, <4>2, <4>7, Zenon
        <4> QED BY <4>5, <4>8
      <3> QED BY <3>3, <3>4
    <2>7. at[1] = a /\ at[n + 1] = a + Len(FlattenSeq(parts))
      <3>1. 1 \in 1..(n + 1) /\ n + 1 \in 1..(n + 1) /\ n + 1 # 1 /\ (n + 1) - 1 = n
        BY <2>1
      <3> QED BY <2>2, <3>1
    <2> HIDE DEF at
    <2> QED BY <2>4, <2>6, <2>7 DEF n, PartsAt
  <1> QED BY <1>1, <1>2

-----------------------------------------------------------------------------
(* What identifiers are written as                                         *)

NameAt(id, level) == IF level = 0 THEN id.name ELSE Replaced(id.name, "/", "+")
PartsOf(g, id, level) == [i \in DOMAIN id.peers |-> Underscores(level + 1) \o g[id.peers[i]][level + 1]]
Piece(g, id, level) == NameAt(id, level) \o <<"@", id.version>> \o FlattenSeq(PartsOf(g, id, level))
Good(g, d) == \A id \in Id, level \in Nat : Levels[id] < d => g[id][level] = Piece(g, id, level)

\* The text of an identifier needs those of its peers only.
LEMMA SamePieces ==
  ASSUME IdsOK, NEW g, NEW h, NEW id \in Id, NEW level \in Nat,
         \A p \in Id : Levels[p] < Levels[id] => \A l \in Nat : g[p][l] = h[p][l]
  PROVE  Piece(g, id, level) = Piece(h, id, level)
  <1>1. ASSUME NEW i \in DOMAIN id.peers
        PROVE  Underscores(level + 1) \o g[id.peers[i]][level + 1]
               = Underscores(level + 1) \o h[id.peers[i]][level + 1]
    <2>1. id.peers[i] \in Id /\ Levels[id.peers[i]] < Levels[id]
      BY DEF IdsOK
    <2>2. g[id.peers[i]][level + 1] = h[id.peers[i]][level + 1]
      BY <2>1
    <2> QED BY <2>2
  <1>2. PartsOf(g, id, level) = PartsOf(h, id, level)
    BY <1>1 DEF PartsOf
  <1> QED BY <1>2 DEF Piece

LEMMA OnePiece ==
  ASSUME IdsOK, NEW c \in Nat, NEW d \in Nat, NEW g, NEW h, Good(g, c), Good(h, d),
         NEW id \in Id, Levels[id] < c, Levels[id] < d
  PROVE  \A level \in Nat : g[id][level] = h[id][level]
  <1> DEFINE Same(x) == \A level \in Nat : g[x][level] = h[x][level]
             J == {k \in Nat : \A x \in Id : Levels[x] < k /\ Levels[x] < c /\ Levels[x] < d => Same(x)}
  <1>0. \A x \in Id : Levels[x] \in Nat
    BY DEF IdsOK
  <1>1. 0 \in J
    BY <1>0
  <1>2. ASSUME NEW k \in Nat, k \in J PROVE k + 1 \in J
    <2> SUFFICES ASSUME NEW x \in Id, Levels[x] < k + 1, Levels[x] < c, Levels[x] < d,
                        NEW level \in Nat
                 PROVE  g[x][level] = h[x][level]
      OBVIOUS
    <2>1. \A p \in Id : Levels[p] < Levels[x] => Same(p)
      <3> HIDE DEF Same
      <3> QED BY <1>0, <1>2
    <2>2. Piece(g, x, level) = Piece(h, x, level)
      BY <2>1, SamePieces
    <2> QED BY <2>2 DEF Good
  <1>3. Nat \subseteq J
    <2> HIDE DEF J
    <2> QED BY <1>1, <1>2, AllNumbers
  <1>4. Levels[id] + 1 \in J /\ Levels[id] < Levels[id] + 1
    BY <1>0, <1>3
  <1> QED BY <1>4

\* There is such a text: the one that the definition of SerializedAt asks for.
LEMMA SerializedIs ==
  ASSUME IdsOK
  PROVE  \A id \in Id, level \in Nat : SerializedAt[id][level] = Piece(SerializedAt, id, level)
  <1> DEFINE K == {d \in Nat : \E g : Good(g, d)}
  <1>0. \A x \in Id : Levels[x] \in Nat
    BY DEF IdsOK
  <1>1. 0 \in K
    <2>1. Good(<<>>, 0)
      BY <1>0 DEF Good
    <2> QED BY <2>1
  <1>2. ASSUME NEW d \in Nat, d \in K PROVE d + 1 \in K
    <2>1. PICK g : Good(g, d)
      BY <1>2
    <2> DEFINE h == [id \in Id |-> [level \in Nat |-> Piece(g, id, level)]]
    <2>2. \A id \in Id, level \in Nat : h[id][level] = Piece(g, id, level)
      OBVIOUS
    <2> HIDE DEF h
    <2>3. \A p \in Id : Levels[p] < d => \A l \in Nat : g[p][l] = h[p][l]
      BY <2>1, <2>2 DEF Good
    <2>4. ASSUME NEW id \in Id, NEW level \in Nat, Levels[id] < d + 1
          PROVE  h[id][level] = Piece(h, id, level)
      <3>1. \A p \in Id : Levels[p] < Levels[id] => \A l \in Nat : g[p][l] = h[p][l]
        BY <1>0, <2>3, <2>4
      <3>2. Piece(g, id, level) = Piece(h, id, level)
        BY <3>1, SamePieces
      <3> QED BY <2>2, <3>2
    <2>5. Good(h, d + 1)
      BY <2>4 DEF Good
    <2> QED BY <2>5
  <1>3. Nat \subseteq K
    <2> HIDE DEF K
    <2> QED BY <1>1, <1>2, AllNumbers
  <1> DEFINE W(d) == CHOOSE g : Good(g, d)
             f == [id \in Id |-> [level \in Nat |-> W(Levels[id] + 1)[id][level]]]
  <1>4. \A d \in Nat : Good(W(d), d)
    BY <1>3
  <1>5. \A id \in Id, level \in Nat : f[id][level] = W(Levels[id] + 1)[id][level]
    OBVIOUS
  <1>6. f = [id \in Id |-> [level \in Nat |-> f[id][level]]]
    OBVIOUS
  <1> HIDE DEF W, f
  <1>7. ASSUME NEW id \in Id, NEW level \in Nat PROVE f[id][level] = Piece(f, id, level)
    <2>1. Good(W(Levels[id] + 1), Levels[id] + 1) /\ Levels[id] + 1 \in Nat /\ Levels[id] < Levels[id] + 1
      BY <1>0, <1>4
    <2>2. ASSUME NEW p \in Id, Levels[p] < Levels[id], NEW l \in Nat
          PROVE  W(Levels[id] + 1)[p][l] = f[p][l]
      <3>1. /\ Good(W(Levels[p] + 1), Levels[p] + 1) /\ Levels[p] + 1 \in Nat
            /\ Levels[p] < Levels[p] + 1 /\ Levels[p] < Levels[id] + 1
        BY <1>0, <1>4, <2>2
      <3>2. \A k \in Nat : W(Levels[id] + 1)[p][k] = W(Levels[p] + 1)[p][k]
        BY <2>1, <3>1, OnePiece
      <3> QED BY <1>5, <3>2
    <2>3. Piece(W(Levels[id] + 1), id, level) = Piece(f, id, level)
      BY <2>2, SamePieces
    <2>4. W(Levels[id] + 1)[id][level] = Piece(W(Levels[id] + 1), id, level)
      BY <2>1 DEF Good
    <2> QED BY <1>5, <2>3, <2>4
  <1>8. f = [id \in Id |-> [level \in Nat |-> Piece(f, id, level)]]
    BY <1>6, <1>7
  <1>9. SerializedAt = [id \in Id |-> [level \in Nat |-> Piece(SerializedAt, id, level)]]
    BY <1>8, Zenon DEF SerializedAt, Piece, NameAt, PartsOf
  <1> HIDE DEF f
  <1>10. \A g : g = [id \in Id |-> [level \in Nat |-> Piece(g, id, level)]]
               => \A id \in Id, level \in Nat : g[id][level] = Piece(g, id, level)
    <2> TAKE g
    <2> HAVE g = [id \in Id |-> [level \in Nat |-> Piece(g, id, level)]]
    <2> TAKE id \in Id, level \in Nat
    <2>1. [x \in Id |-> [l \in Nat |-> Piece(g, x, l)]][id][level] = Piece(g, id, level)
      OBVIOUS
    <2> QED BY <2>1
  <1> QED BY <1>9, <1>10

\* What the parts of the text of an identifier are
Parts(id, level) == PartsOf(SerializedAt, id, level)

LEMMA NameText ==
  ASSUME NamesOK, NEW n \in Name
  PROVE  n \in Text /\ n # <<>> /\ Len(n) \in Nat \ {0}
  <1>1. n \in Seq(STRING) /\ n # <<>>
    BY DEF NamesOK, NameOK
  <1>2. n \in Text
    BY <1>1, StringsAreText, Zenon
  <1> QED BY <1>1, <1>2 DEF Text

LEMMA ReplacedText ==
  ASSUME NEW s \in Text, NEW a, NEW b \in Token
  PROVE  /\ Replaced(s, a, b) \in Text /\ Len(Replaced(s, a, b)) = Len(s)
         /\ \A i \in 1..Len(s) : Replaced(s, a, b)[i] = IF s[i] = a THEN b ELSE s[i]
  <1> DEFINE r == [i \in 1..Len(s) |-> IF s[i] = a THEN b ELSE s[i]]
  <1>1. DOMAIN s = 1..Len(s) /\ Len(s) \in Nat /\ \A i \in 1..Len(s) : s[i] \in Token
    BY DEF Text
  <1>2. Replaced(s, a, b) = r
    BY <1>1 DEF Replaced
  <1>3. r \in [1..Len(s) -> Token]
    BY <1>1
  <1>4. \A i \in 1..Len(s) : r[i] = IF s[i] = a THEN b ELSE s[i]
    OBVIOUS
  <1> HIDE DEF r
  <1>5. r \in Seq(Token) /\ Len(r) = Len(s)
    BY <1>1, <1>3
  <1> QED BY <1>2, <1>4, <1>5 DEF Text

LEMMA ReplacedBack ==
  ASSUME NEW s \in Text, NEW a \in Token, NEW b \in Token, \A i \in 1..Len(s) : s[i] # b
  PROVE  Replaced(Replaced(s, a, b), b, a) = s
  <1> DEFINE r == Replaced(s, a, b)
             q == Replaced(r, b, a)
  <1>1. /\ r \in Text /\ Len(r) = Len(s)
        /\ \A i \in 1..Len(s) : r[i] = IF s[i] = a THEN b ELSE s[i]
    BY ReplacedText
  <1> HIDE DEF r
  <1>2. /\ q \in Text /\ Len(q) = Len(s)
        /\ \A i \in 1..Len(s) : q[i] = IF r[i] = b THEN a ELSE r[i]
    BY <1>1, ReplacedText
  <1> HIDE DEF q
  <1>3. \A i \in 1..Len(s) : q[i] = s[i]
    BY <1>1, <1>2
  <1>4. q = s
    BY <1>2, <1>3 DEF Text
  <1> QED BY <1>4 DEF q, r

LEMMA NameAtText ==
  ASSUME NamesOK, IdsOK, NEW id \in Id, NEW level \in Nat
  PROVE  /\ NameAt(id, level) \in Text /\ Len(NameAt(id, level)) = Len(id.name)
         /\ Len(id.name) \in Nat \ {0}
         /\ \A i \in 1..Len(id.name) : NameAt(id, level)[i] # AtSign \/ i = 1
         /\ NameAt(id, level)[1] # Underscore
         /\ (IF level > 0 THEN Replaced(NameAt(id, level), "+", "/") ELSE NameAt(id, level)) = id.name
  <1>1. id.name \in Name /\ id.name \in Text /\ Len(id.name) \in Nat \ {0} /\ NameOK(id.name)
    BY NameText DEF IdsOK, NamesOK
  <1>2. 1 \in 1..Len(id.name) /\ DOMAIN id.name = 1..Len(id.name)
    BY <1>1 DEF Text
  <1>3. \A i \in 1..Len(id.name) : id.name[i] # "+" /\ (id.name[i] = "@" => i = 1)
    BY <1>1, <1>2, Zenon DEF NameOK
  <1>4. id.name[1] # "_"
    BY <1>1, Zenon DEF NameOK
  <1>5. CASE level = 0
    <2>1. NameAt(id, level) = id.name
      BY <1>5 DEF NameAt
    <2>2. ~(level > 0)
      BY <1>5
    <2> QED BY <1>1, <1>3, <1>4, <2>1, <2>2, Zenon DEF AtSign, Underscore
  <1>6. CASE level # 0
    <2> DEFINE r == Replaced(id.name, "/", "+")
    <2>1. NameAt(id, level) = r
      BY <1>6, Zenon DEF NameAt
    <2>0. "/" \in Token /\ "+" \in Token
      BY Tokens
    <2>2. level > 0
      BY <1>6
    <2>3. /\ r \in Text /\ Len(r) = Len(id.name)
          /\ \A i \in 1..Len(id.name) : r[i] = IF id.name[i] = "/" THEN "+" ELSE id.name[i]
      BY <1>1, <2>0, ReplacedText
    <2>4. Replaced(r, "+", "/") = id.name
      BY <1>1, <1>3, <2>0, ReplacedBack
    <2> HIDE DEF r
    <2>5. "+" # "@" /\ "+" # "_"
      OBVIOUS
    <2>6. \A i \in 1..Len(id.name) : r[i] # "@" \/ i = 1
      BY <1>3, <2>3, <2>5, Zenon
    <2>7. r[1] # "_"
      BY <1>2, <1>4, <2>3, <2>5, Zenon
    <2> QED BY <1>1, <2>1, <2>2, <2>3, <2>4, <2>6, <2>7, Zenon DEF AtSign, Underscore
  <1> QED BY <1>5, <1>6

LEMMA FlattenText ==
  ASSUME NEW parts \in Seq(Text)
  PROVE  FlattenSeq(parts) \in Text
  <1>1. CASE parts = <<>>
    BY <1>1 DEF FlattenSeq, Text
  <1>2. CASE parts # <<>>
    <2>1. PICK f \in [1..Len(parts) -> Text] : FlattenSeq(parts) = f[Len(parts)]
      BY <1>2, Flattened
    <2>2. Len(parts) \in 1..Len(parts)
      BY <1>2
    <2> QED BY <2>1, <2>2
  <1> QED BY <1>1, <1>2

LEMMA UnderscoresText ==
  ASSUME NEW level \in Nat
  PROVE  Underscores(level) \in Text /\ Len(Underscores(level)) = level
         /\ \A i \in 1..level : Underscores(level)[i] = Underscore
  <1>1. Underscores(level) \in [1..level -> Token]
    BY Tokens DEF Underscores
  <1>2. Underscores(level) \in Seq(Token) /\ Len(Underscores(level)) = level
    BY <1>1
  <1>3. \A i \in 1..level : Underscores(level)[i] = Underscore
    BY DEF Underscores, Underscore
  <1> QED BY <1>2, <1>3 DEF Text

LEMMA TwoText ==
  ASSUME NEW a \in Token, NEW b \in Token
  PROVE  <<a, b>> \in Text /\ Len(<<a, b>>) = 2
  BY DEF Text

LEMMA SerializedText ==
  ASSUME NamesOK, IdsOK
  PROVE  \A id \in Id, level \in Nat :
            /\ SerializedAt[id][level] \in Text
            /\ Parts(id, level) \in Seq(Text) /\ Len(Parts(id, level)) = Len(id.peers)
            /\ SerializedAt[id][level] = NameAt(id, level) \o <<"@", id.version>> \o FlattenSeq(Parts(id, level))
  <1> DEFINE J == {k \in Nat : \A x \in Id, l \in Nat : Levels[x] < k => SerializedAt[x][l] \in Text}
  <1>0. \A x \in Id : Levels[x] \in Nat
    BY DEF IdsOK
  <1>1. ASSUME NEW x \in Id, NEW l \in Nat,
               \A p \in Id : Levels[p] < Levels[x] => SerializedAt[p][l + 1] \in Text
        PROVE  /\ SerializedAt[x][l] \in Text
               /\ Parts(x, l) \in Seq(Text) /\ Len(Parts(x, l)) = Len(x.peers)
               /\ SerializedAt[x][l] = NameAt(x, l) \o <<"@", x.version>> \o FlattenSeq(Parts(x, l))
    <2>1. x.peers \in Seq(Id) /\ x.version \in Token
      BY Tokens DEF IdsOK, NamesOK
    <2>2. DOMAIN x.peers = 1..Len(x.peers) /\ Len(x.peers) \in Nat
      BY <2>1
    <2>3. ASSUME NEW i \in 1..Len(x.peers)
          PROVE  Underscores(l + 1) \o SerializedAt[x.peers[i]][l + 1] \in Text
      <3>1. x.peers[i] \in Id /\ Levels[x.peers[i]] < Levels[x]
        BY <2>2 DEF IdsOK
      <3>2. SerializedAt[x.peers[i]][l + 1] \in Text
        BY <1>1, <3>1
      <3>3. Underscores(l + 1) \in Text
        <4>1. l + 1 \in Nat
          OBVIOUS
        <4> QED BY <4>1, UnderscoresText
      <3> QED BY <3>2, <3>3 DEF Text
    <2>4. Parts(x, l) \in [1..Len(x.peers) -> Text]
      BY <2>2, <2>3 DEF Parts, PartsOf
    <2>5. Parts(x, l) \in Seq(Text) /\ Len(Parts(x, l)) = Len(x.peers)
      BY <2>2, <2>4
    <2>6. SerializedAt[x][l] = NameAt(x, l) \o <<"@", x.version>> \o FlattenSeq(Parts(x, l))
      BY SerializedIs DEF Piece, Parts
    <2>7. NameAt(x, l) \in Text
      BY NameAtText
    <2>8. FlattenSeq(Parts(x, l)) \in Text
      BY <2>5, FlattenText
    <2>9. NameAt(x, l) \o <<"@", x.version>> \o FlattenSeq(Parts(x, l)) \in Text
      <3>1. \A v \in Token : <<"@", v>> \in Text
        BY Tokens, TwoText, Zenon
      <3> QED BY <2>1, <2>7, <2>8, <3>1 DEF Text
    <2> QED BY <2>5, <2>6, <2>9
  <1>2. 0 \in J
    BY <1>0
  <1>3. ASSUME NEW k \in Nat, k \in J PROVE k + 1 \in J
    <2> SUFFICES ASSUME NEW x \in Id, NEW l \in Nat, Levels[x] < k + 1
                 PROVE  SerializedAt[x][l] \in Text
      OBVIOUS
    <2>1. \A p \in Id : Levels[p] < Levels[x] => SerializedAt[p][l + 1] \in Text
      BY <1>0, <1>3
    <2> QED BY <1>1, <2>1
  <1>4. Nat \subseteq J
    <2> HIDE DEF J
    <2> QED BY <1>2, <1>3, AllNumbers
  <1>5. \A x \in Id, l \in Nat : SerializedAt[x][l] \in Text
    <2> TAKE x \in Id, l \in Nat
    <2>1. Levels[x] + 1 \in J /\ Levels[x] < Levels[x] + 1
      BY <1>0, <1>4
    <2> QED BY <2>1
  <1> QED BY <1>1, <1>5

-----------------------------------------------------------------------------
(* What the parsers read                                                   *)

LEMMA FirstIs ==
  ASSUME NEW S \in SUBSET Nat, NEW m \in S, \A i \in S : m <= i
  PROVE  First(S) = m
  <1>1. \A i \in S : (\A j \in S : i <= j) => i = m
    BY SMT
  <1>2. First(S) \in S /\ \A j \in S : First(S) <= j
    BY DEF First
  <1> QED BY <1>1, <1>2

\* The underscores before anything else
LEMMA DepthIs ==
  ASSUME NEW t \in Text, NEW a \in Nat \ {0}, NEW level \in Nat,
         \A i \in 1..level : t[a + i - 1] = Underscore, a + level <= Len(t), t[a + level] # Underscore
  PROVE  Depth(t, a) = level
  <1> DEFINE S == {i \in a..Len(t) : t[i] # Underscore} \cup {Len(t) + 1}
  <1>1. Len(t) \in Nat
    BY DEF Text
  <1>2. S \subseteq Nat
    BY <1>1
  <1>3. a + level \in S
    BY <1>1
  <1>4. ASSUME NEW i \in S PROVE a + level <= i
    <2>1. CASE i = Len(t) + 1
      BY <1>1, <2>1
    <2>2. CASE i # Len(t) + 1
      <3>1. i \in a..Len(t) /\ t[i] # Underscore
        BY <2>2
      <3>2. SUFFICES ASSUME i < a + level PROVE FALSE
        BY <1>1, <3>1
      <3>3. i - a + 1 \in 1..level /\ a + (i - a + 1) - 1 = i
        BY <1>1, <3>1, <3>2
      <3>4. t[a + (i - a + 1) - 1] = Underscore
        BY <3>3
      <3> QED BY <3>1, <3>3, <3>4
    <2> QED BY <2>1, <2>2
  <1> HIDE DEF S
  <1>5. First(S) = a + level
    BY <1>2, <1>3, <1>4, FirstIs
  <1>6. Depth(t, a) = First(S) - a
    BY Zenon DEF Depth, S, Underscore
  <1> QED BY <1>5, <1>6

LEMMA DepthEnd ==
  ASSUME NEW t \in Text
  PROVE  Depth(t, Len(t) + 1) = 0
  <1>1. Len(t) \in Nat
    BY DEF Text
  <1>2. {i \in (Len(t) + 1)..Len(t) : t[i] # Underscore} \cup {Len(t) + 1} = {Len(t) + 1}
    BY <1>1
  <1>3. First({Len(t) + 1}) = Len(t) + 1
    BY <1>1, FirstIs
  <1>4. Depth(t, Len(t) + 1) = First({Len(t) + 1}) - (Len(t) + 1)
    BY <1>2, Zenon DEF Depth, Underscore
  <1> QED BY <1>1, <1>3, <1>4

LEMMA OccursIs ==
  ASSUME NEW t \in Text, NEW s \in Text, NEW a \in Nat \ {0}, Occurs(t, s, a)
  PROVE  SubSeq(t, a, a + Len(s) - 1) = s
  <1>1. Len(s) \in Nat /\ Len(t) \in Nat /\ s = [i \in 1..Len(s) |-> s[i]]
    BY DEF Text
  <1>2. SubSeq(t, a, a + Len(s) - 1) = [i \in 1..Len(s) |-> t[a + i - 1]]
    <2>1. (a + Len(s) - 1) - a + 1 = Len(s)
      BY <1>1
    <2>2. \A i \in 1..Len(s) : a + i - 1 \in 1..Len(t)
      BY <1>1 DEF Occurs
    <2> QED BY <1>1, <2>1, <2>2 DEF Text
  <1>3. \A i \in 1..Len(s) : t[a + i - 1] = s[i]
    BY DEF Occurs
  <1> QED BY <1>1, <1>2, <1>3

\* A name, an @ and a version are read as such when an underscore or nothing follows.
LEMMA NameOccurs ==
  ASSUME NamesOK, NEW t \in Text, NEW n \in Text, NEW v \in Version, NEW a \in Nat \ {0},
         Len(n) # 0, \A i \in 1..Len(n) : n[i] # AtSign \/ i = 1,
         Occurs(t, n, a), a + Len(n) + 1 <= Len(t), t[a + Len(n)] = AtSign, t[a + Len(n) + 1] = v,
         a + Len(n) + 2 <= Len(t) => t[a + Len(n) + 2] = Underscore
  PROVE  ParseNameAndVersion(t, a) = Parsed([name |-> n, version |-> v], a + Len(n) + 2)
  <1> DEFINE ats == {i \in a + 1..Len(t) : t[i] = AtSign}
             m == a + Len(n)
  <1>1. Len(n) \in Nat \ {0} /\ Len(t) \in Nat /\ m \in Nat
    BY DEF Text
  <1>7. t[m] = AtSign /\ t[m + 1] = v
    OBVIOUS
  <1>8. m \in a + 1..Len(t) /\ m + 1 <= Len(t)
    BY <1>1
  <1>9. ASSUME NEW i \in ats PROVE m <= i
    <2>1. i \in a + 1..Len(t) /\ t[i] = AtSign
      OBVIOUS
    <2>2. SUFFICES ASSUME i < m PROVE FALSE
      BY <1>1, <2>1
    <2>3. i - a + 1 \in 1..Len(n) /\ i - a + 1 # 1 /\ a + (i - a + 1) - 1 = i
      BY <1>1, <2>1, <2>2
    <2>4. t[a + (i - a + 1) - 1] = n[i - a + 1]
      BY <2>3, Zenon DEF Occurs
    <2>5. n[i - a + 1] # AtSign
      BY <2>3, Zenon
    <2> QED BY <2>1, <2>3, <2>4, <2>5, Zenon
  <1>10. m \in ats /\ ats \subseteq Nat
    BY <1>1, <1>7, <1>8
  <1>11. First(ats) = m
    <2> HIDE DEF ats, m
    <2> QED BY <1>9, <1>10, FirstIs
  <1>12. ats # {} /\ m + 1 < Len(t) + 1 /\ (m + 1 < Len(t) => t[m + 1 + 1] = Underscore)
    <2>1. m + 1 < Len(t) => a + Len(n) + 2 <= Len(t)
      BY <1>1
    <2>2. a + Len(n) + 2 = m + 1 + 1
      BY <1>1
    <2>3. m + 1 < Len(t) => t[m + 1 + 1] = Underscore
      <3> HIDE DEF m
      <3> QED BY <2>1, <2>2, Zenon
    <2> QED BY <1>1, <1>8, <1>10, <2>3
  <1>13. SubSeq(t, a, (m + 1) - 2) = n
    <2>1. (m + 1) - 2 = a + Len(n) - 1
      BY <1>1
    <2>2. SubSeq(t, a, a + Len(n) - 1) = n
      BY OccursIs
    <2> HIDE DEF m
    <2> QED BY <2>1, <2>2, Zenon
  <1>14. a + Len(n) + 2 = m + 1 + 1
    BY <1>1
  <1> HIDE DEF m, ats
  <1> DEFINE R(x) == IF ats # {} /\ x <= Len(t) /\ t[x] \in Version /\ (x < Len(t) => t[x + 1] = Underscore)
                     THEN Parsed([name |-> SubSeq(t, a, x - 2), version |-> t[x]], x + 1)
                     ELSE NotRead
  <1>15. ParseNameAndVersion(t, a) = R(First(ats) + 1)
    BY Zenon DEF ParseNameAndVersion, AtSign, Underscore, ats
  <1>16. ParseNameAndVersion(t, a) = R(m + 1)
    <2> HIDE DEF R
    <2> QED BY <1>11, <1>15, Zenon
  <1>17. t[m + 1] \in Version
    BY <1>7, Zenon
  <1> QED BY <1>7, <1>8, <1>12, <1>13, <1>14, <1>16, <1>17, Zenon

LEMMA ParsedIs ==
  ASSUME NEW p, NEW v, NEW x, p = Parsed(v, x)
  PROVE  p.ok /\ p.value = v /\ p.next = x
  BY DEF Parsed

\* One more peer is read, or there is none.
NextPeer(t, level, idAt, at, g, k) ==
    IF k = 0 THEN Parsed(<<>>, at)
    ELSE IF ~g[k - 1].ok \/ Depth(t, g[k - 1].next) # level THEN g[k - 1]
    ELSE IF ~idAt[g[k - 1].next + level].ok THEN NotRead
    ELSE Parsed(Append(g[k - 1].value, idAt[g[k - 1].next + level].value), idAt[g[k - 1].next + level].next)

LEMMA MostIs ==
  ASSUME NEW t \in Text
  PROVE  MostPeers(t) \in Nat /\ \A n \in Nat : 4 * n <= Len(t) => n <= MostPeers(t)
  <1>1. Len(t) \in Nat
    BY DEF Text
  <1>2. \A m \in Nat : m \div 4 \in Nat /\ \A n \in Nat : 4 * n <= m => n <= m \div 4
    OBVIOUS
  <1> QED BY <1>1, <1>2 DEF MostPeers

LEMMA PeersLoop ==
  ASSUME NEW t \in Text, NEW level, NEW idAt, NEW at
  PROVE  \E g : /\ \A k \in 0..MostPeers(t) : g[k] = NextPeer(t, level, idAt, at, g, k)
                /\ ParsePeers(t, level, idAt, at) = g[MostPeers(t)]
  <1> DEFINE Does1(g, m) == g = [k \in 0..m |-> NextPeer(t, level, idAt, at, g, k)]
             K == {m \in Nat : \E g : Does1(g, m)}
  <1>0. MostPeers(t) \in Nat
    BY MostIs
  <1>1. 0 \in K
    <2> DEFINE g == [k \in 0..0 |-> Parsed(<<>>, at)]
    <2>1. ASSUME NEW k \in 0..0 PROVE Parsed(<<>>, at) = NextPeer(t, level, idAt, at, g, k)
      <3>1. k = 0
        OBVIOUS
      <3> QED BY <3>1, Zenon DEF NextPeer
    <2>2. g = [k \in 0..0 |-> NextPeer(t, level, idAt, at, g, k)]
      BY <2>1
    <2> HIDE DEF g
    <2> QED BY <2>2
  <1>2. ASSUME NEW m \in Nat, m \in K PROVE m + 1 \in K
    <2>1. PICK g : Does1(g, m)
      BY <1>2
    <2> DEFINE h == [k \in 0..(m + 1) |-> NextPeer(t, level, idAt, at, g, k)]
    <2>2. ASSUME NEW k \in 0..m PROVE h[k] = g[k]
      <3>1. k \in 0..(m + 1)
        OBVIOUS
      <3>2. g[k] = NextPeer(t, level, idAt, at, g, k)
        BY <2>1
      <3>3. h[k] = NextPeer(t, level, idAt, at, g, k)
        BY <3>1
      <3> QED BY <3>2, <3>3
    <2>3. ASSUME NEW k \in 0..(m + 1)
          PROVE  NextPeer(t, level, idAt, at, g, k) = NextPeer(t, level, idAt, at, h, k)
      <3>1. CASE k = 0
        BY <3>1, Zenon DEF NextPeer
      <3>2. CASE k # 0
        <4>1. k - 1 \in 0..m
          BY <3>2
        <4>2. h[k - 1] = g[k - 1]
          <5> HIDE DEF h
          <5> QED BY <2>2, <4>1
        <4> HIDE DEF h
        <4> QED BY <3>2, <4>2, Zenon DEF NextPeer
      <3> QED BY <3>1, <3>2
    <2>4. h = [k \in 0..(m + 1) |-> NextPeer(t, level, idAt, at, h, k)]
      BY <2>3
    <2> HIDE DEF h
    <2> QED BY <2>4
  <1>3. MostPeers(t) \in K
    <2> HIDE DEF K
    <2> QED BY <1>0, <1>1, <1>2, AllNumbers
  <1> DEFINE G == CHOOSE g : g = [k \in 0..MostPeers(t) |-> NextPeer(t, level, idAt, at, g, k)]
  <1>4. G = [k \in 0..MostPeers(t) |-> NextPeer(t, level, idAt, at, G, k)]
    BY <1>3
  <1>5. ParsePeers(t, level, idAt, at) = G[MostPeers(t)]
    BY Zenon DEF ParsePeers, NextPeer
  <1> HIDE DEF G
  <1>6. \A k \in 0..MostPeers(t) : G[k] = NextPeer(t, level, idAt, at, G, k)
    BY <1>4
  <1> QED BY <1>5, <1>6

\* Peers that begin after their underscores, and are identifiers there, are read one after the other.
PeersAt(t, level, idAt, peers, at) ==
    \A i \in 1..Len(peers) :
       Depth(t, at[i]) = level /\ idAt[at[i] + level] = Parsed(peers[i], at[i + 1])

LEMMA PeersRead ==
  ASSUME NEW t \in Text, NEW level \in Nat, NEW idAt, NEW peers \in Seq(Id),
         NEW at \in [1..(Len(peers) + 1) -> Nat], Len(peers) <= MostPeers(t),
         PeersAt(t, level, idAt, peers, at),
         Depth(t, at[Len(peers) + 1]) # level
  PROVE  ParsePeers(t, level, idAt, at[1]) = Parsed(peers, at[Len(peers) + 1])
  <1>1. PICK g : /\ \A k \in 0..MostPeers(t) : g[k] = NextPeer(t, level, idAt, at[1], g, k)
                 /\ ParsePeers(t, level, idAt, at[1]) = g[MostPeers(t)]
    BY PeersLoop
  <1> DEFINE n == Len(peers)
             J == {k \in Nat : k <= n => g[k] = Parsed(SubSeq(peers, 1, k), at[k + 1])}
             L == {k \in Nat : n + k <= MostPeers(t) => g[n + k] = g[n]}
  <1>2. n \in Nat /\ MostPeers(t) \in Nat /\ n <= MostPeers(t)
    BY MostIs
  <1>4. 0 \in J
    <2>1. 0 \in 0..MostPeers(t)
      BY <1>2
    <2>2. g[0] = Parsed(<<>>, at[1])
      BY <1>1, <2>1, Zenon DEF NextPeer
    <2>3. SubSeq(peers, 1, 0) = <<>> /\ 0 + 1 = 1
      OBVIOUS
    <2>4. g[0] = Parsed(SubSeq(peers, 1, 0), at[0 + 1])
      BY <2>2, <2>3, Zenon
    <2> QED BY <2>4
  <1>5. ASSUME NEW k \in Nat, k \in J PROVE k + 1 \in J
    <2> SUFFICES ASSUME k + 1 <= n PROVE g[k + 1] = Parsed(SubSeq(peers, 1, k + 1), at[k + 1 + 1])
      OBVIOUS
    <2> DEFINE s == SubSeq(peers, 1, k)
               x == at[k + 1]
    <2>1. k + 1 \in 1..n /\ k + 1 \in 0..MostPeers(t) /\ (k + 1) - 1 = k /\ k + 1 # 0 /\ k <= n
      BY <1>2
    <2>2. g[k] = Parsed(s, x)
      BY <1>5, <2>1
    <2>3. Depth(t, x) = level /\ idAt[x + level] = Parsed(peers[k + 1], at[k + 1 + 1])
      BY <2>1 DEF PeersAt
    <2>4. SubSeq(peers, 1, k + 1) = Append(s, peers[k + 1])
      BY <1>2, <2>1
    <2> HIDE DEF s, x, n
    <2>5. g[k].ok /\ g[k].value = s /\ g[k].next = x
      BY <2>2, ParsedIs
    <2>6. /\ idAt[x + level].ok /\ idAt[x + level].value = peers[k + 1]
          /\ idAt[x + level].next = at[k + 1 + 1]
      BY <2>3, ParsedIs
    <2>7. g[k + 1] = NextPeer(t, level, idAt, at[1], g, k + 1)
      BY <1>1, <2>1, Zenon
    <2>8. g[(k + 1) - 1].ok /\ g[(k + 1) - 1].value = s /\ g[(k + 1) - 1].next = x
      BY <2>1, <2>5, Zenon
    <2>9. g[k + 1] = Parsed(Append(s, peers[k + 1]), at[k + 1 + 1])
      BY <2>1, <2>3, <2>6, <2>7, <2>8, Zenon DEF NextPeer
    <2> QED BY <2>4, <2>9, Zenon
  <1>6. Nat \subseteq J
    <2> HIDE DEF J
    <2> QED BY <1>4, <1>5, AllNumbers
  <1>7. g[n] = Parsed(peers, at[n + 1])
    <2>1. g[n] = Parsed(SubSeq(peers, 1, n), at[n + 1])
      BY <1>2, <1>6
    <2>2. SubSeq(peers, 1, n) = peers
      OBVIOUS
    <2> QED BY <2>1, <2>2
  <1>8. g[n].ok /\ Depth(t, g[n].next) # level
    BY <1>7, ParsedIs
  <1>9. 0 \in L
    BY <1>2
  <1>10. ASSUME NEW k \in Nat, k \in L PROVE k + 1 \in L
    <2> SUFFICES ASSUME n + (k + 1) <= MostPeers(t) PROVE g[n + (k + 1)] = g[n]
      OBVIOUS
    <2> DEFINE m == n + (k + 1)
    <2>1. m \in 0..MostPeers(t) /\ m # 0 /\ m - 1 = n + k /\ n + k <= MostPeers(t)
      BY <1>2
    <2>2. g[n + k] = g[n]
      BY <1>10, <2>1
    <2> HIDE DEF m, n
    <2>3. g[m - 1] = g[n]
      BY <2>1, <2>2, Zenon
    <2>4. g[m] = NextPeer(t, level, idAt, at[1], g, m)
      BY <1>1, <2>1, Zenon
    <2>5. ~g[m - 1].ok \/ Depth(t, g[m - 1].next) # level
      BY <1>8, <2>3, Zenon
    <2>6. g[m] = g[m - 1]
      BY <2>1, <2>4, <2>5, Zenon DEF NextPeer
    <2> QED BY <2>3, <2>6 DEF m
  <1>11. Nat \subseteq L
    <2> HIDE DEF L
    <2> QED BY <1>9, <1>10, AllNumbers
  <1>12. MostPeers(t) - n \in L /\ n + (MostPeers(t) - n) = MostPeers(t)
    <2> HIDE DEF L, n
    <2>1. MostPeers(t) - n \in Nat /\ n + (MostPeers(t) - n) = MostPeers(t)
      BY <1>2
    <2> QED BY <1>11, <2>1
  <1>13. g[MostPeers(t)] = g[n]
    <2>1. MostPeers(t) <= MostPeers(t)
      BY <1>2
    <2> QED BY <1>12, <2>1
  <1> QED BY <1>1, <1>7, <1>13

\* What is an identifier of a level, at each place of a text
IdsAt(f, t, level) ==
    [at \in 1..Len(t) + 1 |-> IF level > Len(t) THEN NotRead ELSE ParseId(t, level, f[level + 1], at)]
IdsOf(t) == CHOOSE f : f = [level \in 0..Len(t) + 1 |-> IdsAt(f, t, level)]

LEMMA LevelsRead ==
  ASSUME NEW t \in Text
  PROVE  /\ \A level \in 0..Len(t), at \in 1..Len(t) + 1 :
               IdsOf(t)[level][at] = ParseId(t, level, IdsOf(t)[level + 1], at)
         /\ IdsOf(t)[0][1].ok /\ IdsOf(t)[0][1].next = Len(t) + 1 => FromSerialized(t) = IdsOf(t)[0][1].value
  <1> DEFINE n == Len(t) + 1
             Reads1(f, k) == /\ f = [level \in 0..n |-> f[level]]
                             /\ \A level \in 0..n : level + k >= n => f[level] = IdsAt(f, t, level)
             K == {k \in Nat : \E f : Reads1(f, k)}
  <1>1. n \in Nat /\ Len(t) \in Nat
    BY DEF Text
  <1>2. 0 \in K
    <2> DEFINE none == [at \in 1..Len(t) + 1 |-> NotRead]
               f == [level \in 0..n |-> none]
    <2>1. \A level \in 0..n : level + 0 >= n => level > Len(t)
      BY <1>1
    <2>2. \A level \in 0..n : level > Len(t) => IdsAt(f, t, level) = none
      <3> HIDE DEF f, n
      <3> QED BY DEF IdsAt
    <2>3. \A level \in 0..n : f[level] = none
      OBVIOUS
    <2>4. f = [level \in 0..n |-> f[level]]
      OBVIOUS
    <2> HIDE DEF f, none, n
    <2>5. Reads1(f, 0)
      BY <2>1, <2>2, <2>3, <2>4, Zenon
    <2> QED BY <2>5
  <1>3. ASSUME NEW k \in Nat, k \in K PROVE k + 1 \in K
    <2>1. PICK f : Reads1(f, k)
      BY <1>3
    <2> DEFINE h == [level \in 0..n |-> IF level + k >= n THEN f[level] ELSE IdsAt(f, t, level)]
    <2>2. \A level \in 0..n : h[level] = IF level + k >= n THEN f[level] ELSE IdsAt(f, t, level)
      OBVIOUS
    <2>3. h = [level \in 0..n |-> h[level]]
      OBVIOUS
    <2> HIDE DEF h, n
    <2>4. \A level \in 0..n : h[level] = IdsAt(f, t, level) \/ level + k + 1 < n
      <3> TAKE level \in 0..n
      <3>1. CASE level + k >= n
        BY <2>1, <2>2, <3>1
      <3>2. CASE ~(level + k >= n)
        BY <2>2, <3>2
      <3> QED BY <3>1, <3>2
    <2>5. ASSUME NEW level \in 0..n, level + (k + 1) >= n
          PROVE  h[level] = IdsAt(h, t, level)
      <3>1. h[level] = IdsAt(f, t, level)
        <4>1. ~(level + k + 1 < n)
          BY <1>1, <2>5
        <4> QED BY <2>4, <4>1
      <3>2. CASE level = n
        <4>1. level > Len(t)
          BY <1>1, <3>2 DEF n
        <4> QED BY <3>1, <4>1 DEF IdsAt
      <3>3. CASE level # n
        <4>1. level + 1 \in 0..n /\ (level + 1) + k >= n
          BY <1>1, <2>5, <3>3
        <4>2. h[level + 1] = f[level + 1]
          BY <2>2, <4>1
        <4> QED BY <3>1, <4>2 DEF IdsAt
      <3> QED BY <3>2, <3>3
    <2>6. Reads1(h, k + 1)
      BY <2>3, <2>5
    <2> HIDE DEF Reads1
    <2> QED BY <2>6
  <1>4. n \in K
    <2> HIDE DEF K, n
    <2> QED BY <1>1, <1>2, <1>3, AllNumbers
  <1>5. PICK f : Reads1(f, n)
    BY <1>4
  <1>6. f = [level \in 0..n |-> IdsAt(f, t, level)]
    <2>1. \A level \in 0..n : level + n >= n
      BY <1>1
    <2>2. \A level \in 0..n : f[level] = IdsAt(f, t, level)
      BY <1>5, <2>1
    <2> HIDE DEF n
    <2> QED BY <1>5, <2>2
  <1>7. IdsOf(t) = [level \in 0..n |-> IdsAt(IdsOf(t), t, level)]
    BY <1>6, Zenon DEF IdsOf
  <1> DEFINE I == IdsOf(t)
  <1>8. ASSUME NEW level \in 0..Len(t), NEW at \in 1..Len(t) + 1
        PROVE  I[level][at] = ParseId(t, level, I[level + 1], at)
    <2> HIDE DEF I
    <2>1. level \in 0..n /\ ~(level > Len(t))
      BY <1>1
    <2>2. I[level] = IdsAt(I, t, level)
      BY <1>7, <2>1 DEF I
    <2>3. IdsAt(I, t, level)[at] = ParseId(t, level, I[level + 1], at)
      BY <2>1 DEF IdsAt
    <2> QED BY <2>2, <2>3
  <1>9. FromSerialized(t) = IF I[0][1].ok /\ I[0][1].next = Len(t) + 1 THEN I[0][1].value ELSE NotRead
    BY Zenon DEF FromSerialized, IdsOf, IdsAt
  <1> QED BY <1>8, <1>9

\* Nothing that reads on: the end, or underscores, for a lower level.
Stops(t, e, level) ==
    e \in 1..Len(t) + 1 /\ (e <= Len(t) => t[e] = Underscore) /\ Depth(t, e) \in 0..level

Written(t, id, level, a) ==
    level < a /\ Occurs(t, SerializedAt[id][level], a) /\ Stops(t, a + Len(SerializedAt[id][level]), level)

LEMMA BothText ==
  ASSUME NEW s \in Text, NEW u \in Text
  PROVE  s \o u \in Text /\ Len(s \o u) = Len(s) + Len(u) /\ Len(s) \in Nat /\ Len(u) \in Nat
  BY DEF Text

LEMMA VersionToken ==
  ASSUME NamesOK
  PROVE  Version \subseteq Token
  BY Tokens DEF NamesOK

LEMMA TwoOccurs ==
  ASSUME NEW t \in Text, NEW v \in Token, NEW m \in Nat \ {0}, Occurs(t, <<"@", v>>, m)
  PROVE  m + 1 <= Len(t) /\ t[m] = AtSign /\ t[m + 1] = v
  <1> DEFINE s == <<"@", v>>
  <1>1. Len(s) = 2 /\ s[1] = "@" /\ s[2] = v
    OBVIOUS
  <1>2. 1 \in 1..2 /\ 2 \in 1..2
    OBVIOUS
  <1> HIDE DEF s
  <1>3. m + 2 <= Len(t) + 1 /\ t[m + 1 - 1] = s[1] /\ t[m + 2 - 1] = s[2]
    BY <1>1, <1>2, Zenon DEF Occurs, s
  <1>4. m + 1 - 1 = m /\ m + 2 - 1 = m + 1 /\ (m + 2 <= Len(t) + 1 => m + 1 <= Len(t))
    <2>1. Len(t) \in Nat
      BY DEF Text
    <2> QED BY <2>1
  <1> QED BY <1>1, <1>3, <1>4, Zenon DEF AtSign

\* The text of an identifier, and where its name, its version and its peers are in it
LEMMA WrittenParts ==
  ASSUME NamesOK, IdsOK, NEW t \in Text, NEW id \in Id, NEW level \in Nat, NEW a \in Nat \ {0},
         Occurs(t, SerializedAt[id][level], a)
  PROVE  LET b == a + Len(id.name) + 2
             n == Len(id.peers) IN
         /\ Occurs(t, NameAt(id, level), a)
         /\ a + Len(id.name) + 1 <= Len(t)
         /\ t[a + Len(id.name)] = AtSign /\ t[a + Len(id.name) + 1] = id.version
         /\ \E at \in [1..(n + 1) -> Nat \ {0}] :
               /\ at[1] = b /\ at[n + 1] = a + Len(SerializedAt[id][level])
               /\ \A i \in 1..n :
                     /\ Occurs(t, Underscores(level + 1) \o SerializedAt[id.peers[i]][level + 1], at[i])
                     /\ at[i + 1] = at[i] + (level + 1) + Len(SerializedAt[id.peers[i]][level + 1])
  <1> DEFINE b == a + Len(id.name) + 2
             n == Len(id.peers)
             N == NameAt(id, level)
             two == <<"@", id.version>>
             parts == Parts(id, level)
             F == FlattenSeq(parts)
             S == SerializedAt[id][level]
  <1>1. id.version \in Token /\ id.peers \in Seq(Id) /\ n \in Nat
    <2>1. id.version \in Version /\ id.peers \in Seq(Id)
      BY DEF IdsOK
    <2> QED BY <2>1, VersionToken
  <1>2. N \in Text /\ Len(N) = Len(id.name) /\ Len(id.name) \in Nat \ {0}
    BY NameAtText
  <1>3. two \in Text /\ Len(two) = 2
    <2>1. "@" \in Token
      BY Tokens
    <2> QED BY <1>1, <2>1, TwoText, Zenon
  <1>4. S \in Text /\ parts \in Seq(Text) /\ Len(parts) = n /\ S = (N \o two) \o F
    <2> HIDE DEF S, parts, N, two, F
    <2> QED BY SerializedText, Zenon DEF S, parts, N, two, F, n
  <1>5. F \in Text
    <2> HIDE DEF parts
    <2> QED BY <1>4, FlattenText
  <1> HIDE DEF N, two, parts, F, S
  <1>6. N \o two \in Text /\ Len(N \o two) = Len(N) + 2
    BY <1>2, <1>3, BothText
  <1>7. Occurs(t, (N \o two) \o F, a)
    BY <1>4 DEF S
  <1>8. Occurs(t, N \o two, a) /\ Occurs(t, F, a + Len(N \o two))
    BY <1>5, <1>6, <1>7, OccursBoth
  <1>9. Occurs(t, N, a) /\ Occurs(t, two, a + Len(N))
    BY <1>2, <1>3, <1>8, OccursBoth
  <1>10. a + Len(id.name) + 1 <= Len(t) /\ t[a + Len(id.name)] = AtSign /\ t[a + Len(id.name) + 1] = id.version
    <2> DEFINE m == a + Len(id.name)
    <2>1. m \in Nat \ {0} /\ Occurs(t, two, m)
      BY <1>2, <1>9
    <2> HIDE DEF m
    <2>2. m + 1 <= Len(t) /\ t[m] = AtSign /\ t[m + 1] = id.version
      BY <1>1, <2>1, TwoOccurs, Zenon DEF two
    <2> QED BY <2>2 DEF m
  <1>11. Occurs(t, F, b) /\ b \in Nat \ {0}
    <2>1. a + Len(N \o two) = b
      BY <1>2, <1>6
    <2>2. b \in Nat \ {0}
      BY <1>2
    <2> HIDE DEF b
    <2> QED BY <1>8, <2>1, <2>2
  <1>12. b + Len(F) = a + Len(S)
    <2>1. Len(S) = Len(N \o two) + Len(F) /\ Len(F) \in Nat
      BY <1>4, <1>5, <1>6, BothText
    <2> QED BY <1>2, <1>6, <2>1
  <1> HIDE DEF b, n
  <1>13. PICK at \in [1..(n + 1) -> Nat \ {0}] :
            /\ at[1] = b /\ at[n + 1] = b + Len(F)
            /\ \A i \in 1..n : at[i + 1] = at[i] + Len(parts[i]) /\ Occurs(t, parts[i], at[i])
    <2>1. \E at \in [1..(Len(parts) + 1) -> Nat \ {0}] :
            /\ at[1] = b /\ at[Len(parts) + 1] = b + Len(F)
            /\ \A i \in 1..Len(parts) : at[i + 1] = at[i] + Len(parts[i]) /\ Occurs(t, parts[i], at[i])
      <3>1. Occurs(t, FlattenSeq(parts), b) /\ FlattenSeq(parts) \in Text
        BY <1>5, <1>11, Zenon DEF F
      <3>2. PartsAt(t, parts, b)
        BY <1>4, <1>11, <3>1, PartsOccur
      <3> QED BY <3>2, Zenon DEF F, PartsAt
    <2> QED BY <1>4, <2>1
  <1>14. ASSUME NEW i \in 1..n
         PROVE  /\ Occurs(t, Underscores(level + 1) \o SerializedAt[id.peers[i]][level + 1], at[i])
                /\ at[i + 1] = at[i] + (level + 1) + Len(SerializedAt[id.peers[i]][level + 1])
    <2> DEFINE u == Underscores(level + 1)
               s == SerializedAt[id.peers[i]][level + 1]
    <2>1. i \in DOMAIN id.peers /\ id.peers[i] \in Id /\ level + 1 \in Nat
      BY <1>1 DEF n
    <2>2. parts[i] = u \o s
      BY <2>1 DEF parts, Parts, PartsOf
    <2>3. u \in Text /\ Len(u) = level + 1
      BY <2>1, UnderscoresText
    <2>4. s \in Text
      BY <2>1, SerializedText
    <2> HIDE DEF u, s
    <2>5. Len(u \o s) = (level + 1) + Len(s) /\ Len(s) \in Nat
      BY <2>3, <2>4, BothText
    <2>6. at[i] \in Nat
      BY <1>1 DEF n
    <2>7. at[i + 1] = at[i] + Len(u \o s) /\ Occurs(t, u \o s, at[i])
      BY <1>13, <2>2
    <2>8. at[i] + ((level + 1) + Len(s)) = at[i] + (level + 1) + Len(s)
      BY <2>5, <2>6
    <2> QED BY <2>5, <2>7, <2>8 DEF u, s
  <1>15. at[n + 1] = a + Len(S)
    BY <1>12, <1>13
  <1> QED BY <1>9, <1>10, <1>13, <1>14, <1>15 DEF N, S, b, n

\* One level: an identifier is read if its peers are.
LEMMA IdReads ==
  ASSUME NamesOK, IdsOK, NEW t \in Text, NEW id \in Id, NEW level \in Nat, NEW a \in Nat \ {0},
         Written(t, id, level, a),
         \A p \in Id, x \in Nat \ {0} :
            Levels[p] < Levels[id] /\ Written(t, p, level + 1, x)
            => IdsOf(t)[level + 1][x] = Parsed(p, x + Len(SerializedAt[p][level + 1]))
  PROVE  IdsOf(t)[level][a] = Parsed(id, a + Len(SerializedAt[id][level]))
  <1> DEFINE b == a + Len(id.name) + 2
             n == Len(id.peers)
             e == a + Len(SerializedAt[id][level])
             idAt == IdsOf(t)[level + 1]
             s(i) == SerializedAt[id.peers[i]][level + 1]
  <1>1. /\ id = [name |-> id.name, version |-> id.version, peers |-> id.peers]
        /\ id.version \in Version /\ id.peers \in Seq(Id) /\ n \in Nat
    BY DEF IdsOK
  <1>2. level < a /\ Occurs(t, SerializedAt[id][level], a) /\ Stops(t, e, level)
    BY DEF Written
  <1>3. Len(id.name) \in Nat \ {0} /\ Len(t) \in Nat
    BY NameAtText DEF Text
  <1>4. PICK at \in [1..(n + 1) -> Nat \ {0}] :
           /\ at[1] = b /\ at[n + 1] = e
           /\ \A i \in 1..n : /\ Occurs(t, Underscores(level + 1) \o s(i), at[i])
                              /\ at[i + 1] = at[i] + (level + 1) + Len(s(i))
    BY <1>2, WrittenParts
  <1>5. /\ Occurs(t, NameAt(id, level), a) /\ a + Len(id.name) + 1 <= Len(t)
        /\ t[a + Len(id.name)] = AtSign /\ t[a + Len(id.name) + 1] = id.version
    BY <1>2, WrittenParts
  <1>6. ASSUME NEW i \in 1..n
        PROVE  /\ at[i] \in Nat \ {0} /\ s(i) \in Text /\ Len(s(i)) \in Nat \ {0}
               /\ Len(s(i)) >= 3
               /\ Depth(t, at[i]) = level + 1 /\ t[at[i]] = Underscore /\ at[i] <= Len(t)
               /\ Occurs(t, s(i), at[i] + (level + 1))
    <2> DEFINE p == id.peers[i]
               u == Underscores(level + 1)
               N == NameAt(p, level + 1)
    <2>1. p \in Id /\ level + 1 \in Nat
      BY <1>1
    <2>2. at[i] \in Nat \ {0}
      BY <1>1
    <2>3. s(i) \in Text /\ u \in Text /\ Len(u) = level + 1 /\ \A j \in 1..level + 1 : u[j] = Underscore
      <3>1. s(i) \in Text
        BY <2>1, SerializedText
      <3> QED BY <2>1, <3>1, UnderscoresText
    <2>4. Occurs(t, u, at[i]) /\ Occurs(t, s(i), at[i] + (level + 1))
      <3>1. Occurs(t, u \o s(i), at[i])
        BY <1>4
      <3> HIDE DEF u, s
      <3> QED BY <2>2, <2>3, <3>1, OccursBoth
    <2>5. Len(s(i)) \in Nat \ {0} /\ Len(s(i)) >= 3 /\ s(i)[1] # Underscore
      <3>1. N \in Text /\ Len(N) \in Nat \ {0} /\ N[1] # Underscore
        BY <2>1, NameAtText
      <3> DEFINE two == <<"@", p.version>>
                 F == FlattenSeq(Parts(p, level + 1))
      <3>2. s(i) = (N \o two) \o F
        <4> HIDE DEF p, N
        <4> QED BY <2>1, SerializedText, Zenon DEF N, p
      <3>3. two \in Text /\ F \in Text /\ Len(two) = 2
        <4>1. p.version \in Token /\ "@" \in Token
          BY <2>1, Tokens, VersionToken DEF IdsOK
        <4>2. Parts(p, level + 1) \in Seq(Text)
          BY <2>1, SerializedText
        <4>3. <<"@", p.version>> \in Text /\ Len(<<"@", p.version>>) = 2
          BY <4>1, TwoText, Zenon
        <4>4. FlattenSeq(Parts(p, level + 1)) \in Text
          BY <4>2, FlattenText
        <4> QED BY <4>3, <4>4, Zenon
      <3>4. \A x, y \in Text : /\ Len((N \o x) \o y) >= Len(N) + Len(x)
                               /\ Len((N \o x) \o y) \in Nat \ {0} /\ ((N \o x) \o y)[1] = N[1]
        <4> HIDE DEF N
        <4> QED BY <3>1 DEF Text
      <3> HIDE DEF s, N, two, F
      <3>5. Len(s(i)) \in Nat \ {0} /\ Len(s(i)) >= Len(N) + Len(two) /\ s(i)[1] = N[1]
        <4> DEFINE w == (N \o two) \o F
        <4>1. Len(w) >= Len(N) + Len(two) /\ Len(w) \in Nat \ {0} /\ w[1] = N[1]
          BY <3>3, <3>4, Zenon
        <4>2. s(i) = w
          BY <3>2
        <4> HIDE DEF w
        <4> QED BY <4>1, <4>2
      <3>6. Len(s(i)) >= 3
        BY <3>1, <3>3, <3>5
      <3> QED BY <3>1, <3>5, <3>6
    <2>6. \A j \in 1..level + 1 : t[at[i] + j - 1] = Underscore
      <3> HIDE DEF u
      <3> QED BY <2>3, <2>4 DEF Occurs
    <2>7. t[at[i]] = Underscore
      <3>1. 1 \in 1..level + 1 /\ at[i] + 1 - 1 = at[i]
        BY <2>2
      <3> QED BY <2>6, <3>1, Zenon
    <2>8. at[i] + (level + 1) <= Len(t) /\ t[at[i] + (level + 1)] # Underscore
      <3>1. at[i] + (level + 1) + Len(s(i)) <= Len(t) + 1
        BY <2>4 DEF Occurs
      <3>2. 1 \in 1..Len(s(i)) /\ at[i] + (level + 1) + 1 - 1 = at[i] + (level + 1)
        BY <2>2, <2>5
      <3>3. t[at[i] + (level + 1) + 1 - 1] = s(i)[1]
        BY <2>4, <3>2, Zenon DEF Occurs
      <3>4. t[at[i] + (level + 1)] = s(i)[1]
        BY <3>2, <3>3, Zenon
      <3> HIDE DEF s
      <3> QED BY <1>3, <2>2, <2>5, <3>1, <3>4
    <2>9. Depth(t, at[i]) = level + 1
      BY <2>1, <2>2, <2>6, <2>8, DepthIs
    <2>10. at[i] <= Len(t)
      BY <1>3, <2>2, <2>8
    <2> HIDE DEF s
    <2> QED BY <2>2, <2>3, <2>4, <2>5, <2>7, <2>9, <2>10
  <1>7. ASSUME NEW i \in 1..n
        PROVE  idAt[at[i] + (level + 1)] = Parsed(id.peers[i], at[i + 1])
    <2> DEFINE x == at[i] + (level + 1)
    <2>1. id.peers[i] \in Id /\ Levels[id.peers[i]] < Levels[id] /\ i \in DOMAIN id.peers
      <3>1. i \in DOMAIN id.peers
        BY <1>1
      <3> QED BY <1>1, <3>1 DEF IdsOK
    <2>2. x \in Nat \ {0} /\ level + 1 < x /\ Occurs(t, s(i), x)
      BY <1>6
    <2>3. at[i + 1] = x + Len(s(i))
      BY <1>4
    <2>4. Stops(t, at[i + 1], level + 1)
      <3>1. CASE i = n
        <4>1. at[i + 1] = e
          BY <1>4, <3>1
        <4>2. \A d \in 0..level : d \in 0..level + 1
          OBVIOUS
        <4> HIDE DEF e
        <4> QED BY <1>2, <4>1, <4>2 DEF Stops
      <3>2. CASE i # n
        <4>1. i + 1 \in 1..n
          BY <1>1, <3>2
        <4>2. Depth(t, at[i + 1]) = level + 1 /\ t[at[i + 1]] = Underscore
              /\ at[i + 1] <= Len(t) /\ at[i + 1] \in Nat \ {0}
          BY <1>6, <4>1
        <4>3. level + 1 \in 0..level + 1 /\ at[i + 1] \in 1..Len(t) + 1
          BY <1>3, <4>2
        <4> QED BY <4>2, <4>3, Zenon DEF Stops
      <3> QED BY <3>1, <3>2
    <2>5. Written(t, id.peers[i], level + 1, x)
      <3> HIDE DEF x
      <3> QED BY <2>2, <2>3, <2>4 DEF Written
    <2> HIDE DEF x
    <2>6. idAt[x] = Parsed(id.peers[i], x + Len(s(i)))
      BY <2>1, <2>2, <2>5
    <2> QED BY <2>3, <2>6 DEF x
  <1>8. Depth(t, e) # level + 1
    <2>1. Depth(t, e) \in 0..level
      BY <1>2 DEF Stops
    <2> HIDE DEF e
    <2> QED BY <2>1
  <1>9. n <= MostPeers(t)
    <2> DEFINE J == {k \in Nat : k <= n => at[k + 1] >= 4 * k + 1}
    <2>1. 0 \in J
      BY <1>1, <1>4
    <2>2. ASSUME NEW k \in Nat, k \in J PROVE k + 1 \in J
      <3> SUFFICES ASSUME k + 1 <= n PROVE at[k + 1 + 1] >= 4 * (k + 1) + 1
        OBVIOUS
      <3> HIDE DEF n, s
      <3>1. k + 1 \in 1..n /\ k <= n
        BY <1>1
      <3>2. at[k + 1 + 1] = at[k + 1] + (level + 1) + Len(s(k + 1)) /\ at[k + 1] >= 4 * k + 1
        BY <1>4, <2>2, <3>1
      <3>3. at[k + 1] \in Nat /\ Len(s(k + 1)) \in Nat /\ Len(s(k + 1)) >= 3
        BY <1>6, <3>1
      <3> QED BY <3>2, <3>3
    <2>3. n \in J
      <3> HIDE DEF J
      <3>1. Nat \subseteq J
        BY <2>1, <2>2, AllNumbers
      <3> QED BY <1>1, <3>1
    <2>4. at[n + 1] >= 4 * n + 1
      BY <1>1, <2>3
    <2>5. e \in 1..Len(t) + 1
      BY <1>2 DEF Stops
    <2> HIDE DEF e, n
    <2>6. 4 * n <= Len(t)
      BY <1>1, <1>3, <1>4, <2>4, <2>5
    <2> QED BY <1>1, <2>6, MostIs
  <1>10. ParsePeers(t, level + 1, idAt, b) = Parsed(id.peers, e)
    <2>1. at \in [1..(Len(id.peers) + 1) -> Nat] /\ level + 1 \in Nat /\ Len(id.peers) <= MostPeers(t)
      BY <1>9
    <2>2. PeersAt(t, level + 1, idAt, id.peers, at)
      <3> HIDE DEF idAt
      <3> QED BY <1>6, <1>7 DEF PeersAt
    <2>3. Depth(t, at[Len(id.peers) + 1]) # level + 1
      BY <1>4, <1>8
    <2> HIDE DEF idAt
    <2>4. ParsePeers(t, level + 1, idAt, at[1]) = Parsed(id.peers, at[Len(id.peers) + 1])
      BY <1>1, <2>1, <2>2, <2>3, PeersRead
    <2> HIDE DEF b, e
    <2> QED BY <1>4, <2>4
  <1>11. b <= Len(t) => t[b] = Underscore
    <2>1. CASE n = 0
      <3>1. b = e
        BY <1>4, <2>1
      <3> HIDE DEF b, e
      <3> QED BY <1>2, <3>1 DEF Stops
    <2>2. CASE n # 0
      <3>1. 1 \in 1..n
        BY <1>1, <2>2
      <3> HIDE DEF b, n
      <3> QED BY <1>4, <1>6, <3>1
    <2> QED BY <2>1, <2>2
  <1>12. ParseNameAndVersion(t, a) = Parsed([name |-> NameAt(id, level), version |-> id.version], b)
    <2> DEFINE N == NameAt(id, level)
    <2>1. N \in Text /\ Len(N) = Len(id.name) /\ Len(N) # 0 /\ \A i \in 1..Len(N) : N[i] # AtSign \/ i = 1
      BY NameAtText
    <2> HIDE DEF N
    <2>2. /\ Occurs(t, N, a) /\ a + Len(N) + 1 <= Len(t)
          /\ t[a + Len(N)] = AtSign /\ t[a + Len(N) + 1] = id.version
      BY <1>5, <2>1 DEF N
    <2>3. a + Len(N) + 2 <= Len(t) => t[a + Len(N) + 2] = Underscore
      BY <1>11, <2>1
    <2>4. ParseNameAndVersion(t, a) = Parsed([name |-> N, version |-> id.version], a + Len(N) + 2)
      BY <1>1, <2>1, <2>2, <2>3, NameOccurs
    <2> QED BY <2>1, <2>4 DEF N
  <1>13. ParseId(t, level, idAt, a) = Parsed(id, e)
    <2> DEFINE N == NameAt(id, level)
               nv == ParseNameAndVersion(t, a)
               peers == ParsePeers(t, level + 1, idAt, nv.next)
               both == [name |-> N, version |-> id.version]
               name == IF level > 0 THEN Replaced(nv.value.name, "+", "/") ELSE nv.value.name
    <2> HIDE DEF b, e, idAt, N
    <2>1. ParseId(t, level, idAt, a)
          = IF ~nv.ok \/ ~peers.ok THEN NotRead
            ELSE Parsed([name |-> name, version |-> nv.value.version, peers |-> peers.value], peers.next)
      BY Zenon DEF ParseId
    <2>2. both.name = N /\ both.version = id.version
      OBVIOUS
    <2> HIDE DEF both
    <2>3. nv.ok /\ nv.value = both /\ nv.next = b
      BY <1>12, ParsedIs DEF both, N
    <2>4. peers = Parsed(id.peers, e)
      BY <1>10, <2>3, Zenon
    <2> HIDE DEF peers, nv
    <2>5. peers.ok /\ peers.value = id.peers /\ peers.next = e
      BY <2>4, ParsedIs
    <2>6. name = IF level > 0 THEN Replaced(N, "+", "/") ELSE N
      BY <2>2, <2>3, Zenon
    <2>7. (IF level > 0 THEN Replaced(N, "+", "/") ELSE N) = id.name
      BY NameAtText, Zenon DEF N
    <2>8. name = id.name
      BY <2>6, <2>7, Zenon
    <2> HIDE DEF name
    <2>9. [name |-> name, version |-> nv.value.version, peers |-> peers.value] = id
      BY <1>1, <2>2, <2>3, <2>5, <2>8
    <2> QED BY <2>1, <2>3, <2>5, <2>9, Zenon
  <1>14. level \in 0..Len(t) /\ a \in 1..Len(t) + 1
    BY <1>2, <1>3, <1>5
  <1>15. IdsOf(t)[level][a] = ParseId(t, level, idAt, a)
    <2>1. IdsOf(t)[level][a] = ParseId(t, level, IdsOf(t)[level + 1], a)
      BY <1>14, LevelsRead, Zenon
    <2> QED BY <2>1
  <1> HIDE DEF e
  <1> QED BY <1>13, <1>15 DEF e

\* What is written is read as the same identifier, however deep its peers are.
LEMMA ReadBack ==
  ASSUME NamesOK, IdsOK, NEW id \in Id
  PROVE  FromSerialized(Serialized(id)) = id
  <1> DEFINE t == Serialized(id)
             Reads1(x, l, a) == IdsOf(t)[l][a] = Parsed(x, a + Len(SerializedAt[x][l]))
             J == {k \in Nat : \A x \in Id, l \in Nat, a \in Nat \ {0} :
                                  Levels[x] < k /\ Written(t, x, l, a) => Reads1(x, l, a)}
  <1>1. t \in Text /\ t = SerializedAt[id][0] /\ Len(t) \in Nat
    <2>1. SerializedAt[id][0] \in Text
      BY SerializedText
    <2> QED BY <2>1 DEF Serialized, Text
  <1>2. \A x \in Id : Levels[x] \in Nat
    BY DEF IdsOK
  <1> HIDE DEF t
  <1>3. 0 \in J
    BY <1>2
  <1>4. ASSUME NEW k \in Nat, k \in J PROVE k + 1 \in J
    <2> SUFFICES ASSUME NEW x \in Id, NEW l \in Nat, NEW a \in Nat \ {0}, Levels[x] < k + 1, Written(t, x, l, a)
                 PROVE  Reads1(x, l, a)
      OBVIOUS
    <2>1. \A p \in Id, y \in Nat \ {0} :
             Levels[p] < Levels[x] /\ Written(t, p, l + 1, y) => Reads1(p, l + 1, y)
      <3> HIDE DEF Reads1
      <3> QED BY <1>2, <1>4
    <2> QED BY <1>1, <2>1, IdReads
  <1>5. Nat \subseteq J
    <2> HIDE DEF J
    <2> QED BY <1>3, <1>4, AllNumbers
  <1>6. Written(t, id, 0, 1)
    <2>1. Occurs(t, t, 1)
      <3>1. 1 + Len(t) <= Len(t) + 1 /\ \A i \in 1..Len(t) : 1 + i - 1 = i
        BY <1>1
      <3> QED BY <3>1, Zenon DEF Occurs
    <2>2. Stops(t, 1 + Len(t), 0)
      <3>1. 1 + Len(t) = Len(t) + 1 /\ Len(t) + 1 \in 1..Len(t) + 1 /\ ~(Len(t) + 1 <= Len(t)) /\ 0 \in 0..0
        BY <1>1
      <3>2. Depth(t, Len(t) + 1) = 0
        BY <1>1, DepthEnd
      <3> QED BY <3>1, <3>2, Zenon DEF Stops
    <2>3. 0 < 1
      OBVIOUS
    <2> QED BY <1>1, <2>1, <2>2, <2>3, Zenon DEF Written
  <1>7. Reads1(id, 0, 1)
    <2>1. Levels[id] + 1 \in J /\ Levels[id] < Levels[id] + 1
      BY <1>2, <1>5
    <2> HIDE DEF Reads1
    <2> QED BY <1>6, <2>1
  <1>8. IdsOf(t)[0][1] = Parsed(id, Len(t) + 1)
    <2>1. 1 + Len(t) = Len(t) + 1
      BY <1>1
    <2> QED BY <1>1, <1>7, <2>1
  <1>9. IdsOf(t)[0][1].ok /\ IdsOf(t)[0][1].value = id /\ IdsOf(t)[0][1].next = Len(t) + 1
    BY <1>8, ParsedIs
  <1>10. FromSerialized(t) = id
    BY <1>1, <1>9, LevelsRead
  <1> QED BY <1>10 DEF t

-----------------------------------------------------------------------------
(* Folders                                                                 *)

Slash == "/"

LEMMA OneText ==
  ASSUME NEW a \in Token
  PROVE  <<a>> \in Text /\ Len(<<a>>) = 1 /\ <<a>>[1] = a
  BY DEF Text

LEMMA OccursJoined ==
  ASSUME NEW t \in Text, NEW s \in Text, NEW u \in Text, NEW a \in Nat \ {0},
         Occurs(t, s, a), Occurs(t, u, a + Len(s))
  PROVE  Occurs(t, s \o u, a)
  <1>1. Len(s \o u) = Len(s) + Len(u) /\ Len(s) \in Nat /\ Len(u) \in Nat /\ Len(t) \in Nat
    BY BothText DEF Text
  <1>2. ASSUME NEW i \in 1..Len(s \o u) PROVE t[a + i - 1] = (s \o u)[i]
    <2>1. CASE i <= Len(s)
      <3>1. (s \o u)[i] = s[i] /\ i \in 1..Len(s)
        BY <1>1, <2>1 DEF Text
      <3> QED BY <3>1 DEF Occurs
    <2>2. CASE ~(i <= Len(s))
      <3>1. i - Len(s) \in 1..Len(u) /\ a + Len(s) + (i - Len(s)) - 1 = a + i - 1
        BY <1>1, <2>2
      <3>2. (s \o u)[i] = u[i - Len(s)]
        BY <1>1, <2>2, <3>1 DEF Text
      <3>3. t[a + Len(s) + (i - Len(s)) - 1] = u[i - Len(s)]
        BY <3>1 DEF Occurs
      <3> QED BY <3>1, <3>2, <3>3
    <2> QED BY <2>1, <2>2
  <1>3. a + Len(s \o u) <= Len(t) + 1
    BY <1>1 DEF Occurs
  <1> QED BY <1>2, <1>3 DEF Occurs

LEMMA SubOccurs ==
  ASSUME NEW t \in Text, NEW a \in Nat \ {0}, NEW b \in Nat, a <= b + 1, b <= Len(t)
  PROVE  /\ SubSeq(t, a, b) \in Text /\ Len(SubSeq(t, a, b)) = b + 1 - a
         /\ Occurs(t, SubSeq(t, a, b), a)
  <1> DEFINE s == SubSeq(t, a, b)
  <1>1. Len(t) \in Nat /\ b + 1 - a \in Nat
    BY DEF Text
  <1>2. s \in Text /\ Len(s) = b + 1 - a
    BY <1>1 DEF Text
  <1>3. \A i \in 1..b + 1 - a : s[i] = t[a + i - 1]
    BY <1>1 DEF Text
  <1> HIDE DEF s
  <1>4. a + Len(s) <= Len(t) + 1
    BY <1>1, <1>2
  <1> QED BY <1>2, <1>3, <1>4 DEF Occurs, s

\* A name is one folder or, with a scope, two.
LEMMA SplitIs ==
  ASSUME NamesOK, NEW n \in Name
  PROVE  \/ n[1] # AtSign /\ Split(n) = <<n>>
         \/ /\ n[1] = AtSign
            /\ \E x, y \in Text :
                  Split(n) = <<x, y>> /\ x # <<>> /\ x[1] = AtSign /\ x \o <<Slash>> \o y = n
  <1> DEFINE slashes == {i \in DOMAIN n : n[i] = Slash}
  <1>1. n \in Text /\ Len(n) \in Nat \ {0} /\ DOMAIN n = 1..Len(n) /\ NameOK(n)
    <2>1. n \in Text /\ Len(n) \in Nat \ {0}
      BY NameText
    <2>2. DOMAIN n = 1..Len(n)
      BY <2>1 DEF Text
    <2>3. NameOK(n)
      BY Zenon DEF NamesOK
    <2> QED BY <2>1, <2>2, <2>3, Zenon
  <1>2. Split(n) = IF slashes = {} THEN <<n>>
                   ELSE <<SubSeq(n, 1, First(slashes) - 1), SubSeq(n, First(slashes) + 1, Len(n))>>
    BY Zenon DEF Split, Slash
  <1>3. CASE n[1] # AtSign
    <2>1. \A i \in DOMAIN n : n[i] # Slash
      BY <1>1, <1>3, Zenon DEF NameOK, Slash, AtSign
    <2>2. slashes = {}
      BY <2>1, Zenon
    <2> HIDE DEF slashes
    <2> QED BY <1>2, <1>3, <2>2, Zenon
  <1>4. CASE n[1] = AtSign
    <2>1. \E i \in DOMAIN n \ {1, Len(n)} : \A j \in DOMAIN n : n[j] = Slash <=> j = i
      BY <1>1, <1>4, Zenon DEF NameOK, Slash, AtSign
    <2>2. PICK k \in DOMAIN n \ {1, Len(n)} : \A j \in DOMAIN n : n[j] = Slash <=> j = k
      BY <2>1
    <2>3. k \in 2..Len(n) - 1 /\ k \in DOMAIN n
      BY <1>1, <2>2
    <2>4. slashes = {k}
      BY <2>2, <2>3, Zenon
    <2>5. First({k}) = k
      BY <2>3, FirstIs
    <2> DEFINE x == SubSeq(n, 1, k - 1)
               y == SubSeq(n, k + 1, Len(n))
    <2>6. Split(n) = <<x, y>>
      <3>1. slashes # {} /\ First(slashes) = k
        BY <2>4, <2>5
      <3> HIDE DEF slashes
      <3> QED BY <1>2, <3>1
    <2>7. /\ x \in Text /\ Len(x) = k - 1 /\ Occurs(n, x, 1)
          /\ y \in Text /\ Len(y) = Len(n) - k /\ Occurs(n, y, k + 1)
      <3>1. /\ 1 \in Nat \ {0} /\ k - 1 \in Nat /\ 1 <= (k - 1) + 1 /\ k - 1 <= Len(n)
            /\ k + 1 \in Nat \ {0} /\ Len(n) \in Nat /\ k + 1 <= Len(n) + 1 /\ Len(n) <= Len(n)
            /\ (k - 1) + 1 - 1 = k - 1 /\ Len(n) + 1 - (k + 1) = Len(n) - k
        BY <1>1, <2>3
      <3>2. x \in Text /\ Len(x) = (k - 1) + 1 - 1 /\ Occurs(n, x, 1)
        BY <1>1, <3>1, SubOccurs
      <3>3. y \in Text /\ Len(y) = Len(n) + 1 - (k + 1) /\ Occurs(n, y, k + 1)
        BY <1>1, <3>1, SubOccurs
      <3> HIDE DEF x, y
      <3> QED BY <3>1, <3>2, <3>3
    <2>8. x[1] = n[1] /\ x # <<>>
      BY <1>1, <2>3 DEF Text
    <2>9. x \o <<Slash>> \o y = n
      <3> DEFINE s == <<Slash>>
      <3>1. s \in Text /\ Len(s) = 1 /\ s[1] = Slash
        <4>1. Slash \in Token
          BY Tokens DEF Slash
        <4> QED BY <4>1, OneText
      <3> HIDE DEF x, y, s
      <3>2. Occurs(n, s, k)
        <4>1. n[k] = Slash
          BY <2>2, <2>3
        <4>2. k + 1 <= Len(n) + 1 /\ \A i \in 1..1 : i = 1 /\ k + i - 1 = k
          BY <1>1, <2>3
        <4> QED BY <3>1, <4>1, <4>2 DEF Occurs
      <3>3. k = 1 + Len(x) /\ k + 1 = 1 + Len(x \o s) /\ x \o s \in Text
        <4>1. x \o s \in Text /\ Len(x \o s) = Len(x) + Len(s)
          BY <2>7, <3>1, BothText, Zenon
        <4>2. k = 1 + Len(x)
          BY <2>3, <2>7
        <4>3. k + 1 = 1 + (Len(x) + 1)
          BY <2>3, <4>2
        <4> QED BY <3>1, <4>1, <4>2, <4>3, Zenon
      <3>0. 1 \in Nat \ {0}
        OBVIOUS
      <3>4. Occurs(n, x \o s, 1)
        <4>1. Occurs(n, s, 1 + Len(x))
          BY <3>2, <3>3, Zenon
        <4> QED BY <1>1, <2>7, <3>0, <3>1, <4>1, OccursJoined, Zenon
      <3> DEFINE u == x \o s
                 m == u \o y
      <3> HIDE DEF u, m
      <3>5. u \in Text /\ Occurs(n, u, 1) /\ Occurs(n, y, 1 + Len(u)) /\ k + 1 = 1 + Len(u)
        BY <2>7, <3>3, <3>4, Zenon DEF u
      <3>6. m \in Text /\ Len(m) = Len(n) /\ Occurs(n, m, 1)
        <4>1. m \in Text /\ Len(m) = Len(u) + Len(y) /\ Len(u) \in Nat
          BY <2>7, <3>5, BothText, Zenon DEF m
        <4>2. Occurs(n, u \o y, 1)
          BY <1>1, <2>7, <3>5, <3>0, OccursJoined, Zenon
        <4>3. Len(u) + Len(y) = Len(n)
          BY <1>1, <2>3, <2>7, <3>5, <4>1
        <4> QED BY <4>1, <4>2, <4>3, Zenon DEF m
      <3>7. SubSeq(n, 1, 1 + Len(m) - 1) = m
        BY <1>1, <3>5, <3>0, <3>6, OccursIs, Zenon
      <3>8. 1 + Len(m) - 1 = Len(n)
        BY <1>1, <3>6
      <3>9. SubSeq(n, 1, Len(n)) = n
        BY <1>1 DEF Text
      <3> QED BY <3>7, <3>8, <3>9, Zenon DEF m, u, s
    <2> HIDE DEF x, y
    <2>10. Split(n) = <<x, y>> /\ x # <<>> /\ x[1] = AtSign /\ x \o <<Slash>> \o y = n
      BY <1>4, <2>6, <2>8, <2>9, Zenon
    <2> QED BY <1>4, <2>7, <2>10, Zenon
  <1> QED BY <1>3, <1>4

\* A path: folders q, a folder b and what is in it
LEMMA PathIs ==
  ASSUME NEW S, NEW q \in Seq(S), NEW b \in S, NEW file \in Seq(S)
  PROVE  /\ Append(q, b) \o file = q \o (<<b>> \o file)
         /\ <<b>> \o file \in Seq(S) /\ Len(<<b>> \o file) \in Nat \ {0} /\ (<<b>> \o file)[1] = b
  <1>1. <<b>> \in Seq(S) /\ Len(<<b>>) = 1 /\ <<b>>[1] = b
    OBVIOUS
  <1>2. Append(q, b) = q \o <<b>>
    BY AppendIsConcat, Zenon
  <1>3. (q \o <<b>>) \o file = q \o (<<b>> \o file)
    <2> DEFINE s == <<b>>
    <2>1. s \in Seq(S)
      OBVIOUS
    <2> HIDE DEF s
    <2>2. (q \o s) \o file = q \o (s \o file)
      BY <2>1, ConcatAssociative
    <2> QED BY <2>2 DEF s
  <1>4. <<b>> \o file \in Seq(S) /\ Len(<<b>> \o file) \in Nat \ {0} /\ (<<b>> \o file)[1] = b
    BY <1>1
  <1> QED BY <1>2, <1>3, <1>4, Zenon

LEMMA InPath ==
  ASSUME NEW S, NEW q \in Seq(S), NEW r \in Seq(S), Len(r) # 0
  PROVE  /\ q \o r \in Seq(S) /\ Len(q \o r) = Len(q) + Len(r)
         /\ \A i \in 1..Len(q) : (q \o r)[i] = q[i]
         /\ (q \o r)[Len(q) + 1] = r[1]
  OBVIOUS

LEMMA TailOfPath ==
  ASSUME NEW S, NEW a \in S, NEW r \in Seq(S)
  PROVE  Tail(<<a>> \o r) = r
  <1> DEFINE p == <<a>> \o r
  <1>1. <<a>> \in Seq(S) /\ Len(<<a>>) = 1
    OBVIOUS
  <1>2. /\ p \in Seq(S) /\ Len(p) = 1 + Len(r) /\ Len(r) \in Nat
        /\ \A i \in 1..Len(r) : p[i + 1] = r[i]
    BY <1>1
  <1> HIDE DEF p
  <1>3. p # <<>>
    BY <1>2
  <1>4. /\ Tail(p) \in Seq(S) /\ Len(Tail(p)) = Len(p) - 1
        /\ \A i \in 1..Len(Tail(p)) : Tail(p)[i] = p[i + 1]
    BY <1>2, <1>3, HeadTailProperties
  <1>5. Len(Tail(p)) = Len(r)
    BY <1>2, <1>4
  <1>6. Tail(p) = r
    BY <1>2, <1>4, <1>5, SeqEqual
  <1> QED BY <1>6 DEF p

LEMMA ThreeText ==
  ASSUME NEW a \in Token, NEW b \in Token, NEW c \in Token
  PROVE  /\ <<a>> \o <<b, c>> \in Text /\ <<a>> \o <<b, c>> # <<>>
         /\ (<<a>> \o <<b, c>>)[1] = a /\ (<<a>> \o <<b, c>>)[3] = c
         /\ Len(<<a>> \o <<b, c>>) = 3
  <1> DEFINE x == <<a>>
             y == <<b, c>>
  <1>1. x \in Text /\ Len(x) = 1 /\ x[1] = a
    BY OneText
  <1>2. y \in Text /\ Len(y) = 2 /\ y[2] = c
    BY DEF Text
  <1> HIDE DEF x, y
  <1>3. /\ x \o y \in Text /\ Len(x \o y) = Len(x) + Len(y)
        /\ \A i \in 1..Len(x) + Len(y) : (x \o y)[i] = IF i <= Len(x) THEN x[i] ELSE y[i - Len(x)]
    BY <1>1, <1>2, ConcatProperties DEF Text
  <1> DEFINE p == x \o y
  <1>4. p \in Text /\ Len(p) = 3 /\ p[1] = a /\ p[3] = c
    <2> HIDE DEF p
    <2>1. Len(x) + Len(y) = 3 /\ 3 - Len(x) = 2 /\ 1 <= Len(x) /\ ~(3 <= Len(x))
          /\ 1 \in 1..3 /\ 3 \in 1..3
      BY <1>1, <1>2
    <2> QED BY <1>1, <1>2, <1>3, <2>1, Zenon DEF p
  <1> HIDE DEF p
  <1>5. p # <<>>
    BY <1>4
  <1> QED BY <1>4, <1>5, Zenon DEF p, x, y

\* What a version's folder says
LEMMA VersionFolderIs ==
  ASSUME NamesOK, NEW f, FolderOK(f)
  PROVE  /\ VersionFolder(f) \in Text /\ VersionFolder(f) # <<>>
         /\ VersionFolder(f)[1] = f.version /\ f.version \in Version
         /\ Len(VersionFolder(f)) \in {1, 3}
         /\ (IF Len(VersionFolder(f)) = 3 THEN VersionFolder(f)[3] ELSE "0") = f.copy
  <1>1. f.version \in Version /\ f.version \in Token /\ f.copy \in Token
    <2>1. f.version \in Version /\ f.copy \in STRING
      BY DEF FolderOK
    <2> QED BY <2>1, VersionToken, Tokens
  <1> DEFINE v == f.version
             c == f.copy
             u == "_"
             V == VersionFolder(f)
  <1>2. V = <<v>> \o (IF c = "0" THEN <<>> ELSE <<u, c>>)
    BY Zenon DEF VersionFolder
  <1> HIDE DEF v, c, u, V
  <1>3. v \in Token /\ c \in Token /\ u \in Token
    BY <1>1, Tokens, Zenon DEF v, c, u
  <1>4. V \in Text /\ V # <<>> /\ V[1] = v /\ Len(V) \in {1, 3} /\ (IF Len(V) = 3 THEN V[3] ELSE "0") = c
    <2>1. CASE c = "0"
      <3> DEFINE p == <<v>>
      <3>1. V = p
        <4>1. <<v>> \o <<>> = <<v>>
          OBVIOUS
        <4> QED BY <1>2, <2>1, <4>1, Zenon
      <3>2. p \in Text /\ p # <<>> /\ p[1] = v /\ Len(p) = 1
        <4>1. p \in Text /\ p[1] = v /\ Len(p) = 1
          BY <1>3, OneText, Zenon
        <4>2. p # <<>>
          OBVIOUS
        <4> QED BY <4>1, <4>2, Zenon
      <3>3. Len(p) \in {1, 3} /\ Len(p) # 3
        <4>1. 1 # 3
          OBVIOUS
        <4> QED BY <3>2, <4>1, Zenon
      <3> HIDE DEF p
      <3> QED BY <2>1, <3>1, <3>2, <3>3, Zenon
    <2>2. CASE c # "0"
      <3> DEFINE p == <<v>> \o <<u, c>>
      <3>1. V = p
        BY <1>2, <2>2, Zenon
      <3>2. p \in Text /\ p # <<>> /\ p[1] = v /\ Len(p) = 3 /\ p[3] = c
        BY <1>3, ThreeText
      <3>3. Len(p) \in {1, 3}
        BY <3>2, Zenon
      <3> HIDE DEF p
      <3> QED BY <3>1, <3>2, <3>3, Zenon
    <2> QED BY <2>1, <2>2
  <1> QED BY <1>1, <1>4, Zenon DEF v, c, V

\* The folder of a path, when its name is not encoded
Scoped(all) == all[1] # <<>> /\ all[1][1] = AtSign /\ Len(all) > 2
FolderOf(all) ==
    LET many == IF Scoped(all) THEN 3 ELSE 2
        last == all[many] IN
    IF Len(all) < 2 THEN NotRead
    ELSE IF last = <<>> \/ last[1] \notin Version \/ Len(last) \notin {1, 3} THEN NotRead
    ELSE [name |-> IF many = 3 THEN all[1] \o <<Slash>> \o all[2] ELSE all[1], version |-> last[1],
          copy |-> IF Len(last) = 3 THEN last[3] ELSE "0"]

LEMMA FolderOfAll ==
  ASSUME NamesOK, NEW f, FolderOK(f), NEW file \in Seq(Text)
  PROVE  FolderOf(Split(f.name) \o (<<VersionFolder(f)>> \o file)) = f
  <1> DEFINE V == VersionFolder(f)
             r == <<V>> \o file
             all == Split(f.name) \o r
             many == IF Scoped(all) THEN 3 ELSE 2
             name == IF many = 3 THEN all[1] \o <<Slash>> \o all[2] ELSE all[1]
  <1>1. /\ f = [name |-> f.name, version |-> f.version, copy |-> f.copy]
        /\ f.name \in Name
    BY Zenon DEF FolderOK
  <1>2. /\ V \in Text /\ V # <<>> /\ V[1] = f.version /\ f.version \in Version /\ Len(V) \in {1, 3}
        /\ (IF Len(V) = 3 THEN V[3] ELSE "0") = f.copy
    BY VersionFolderIs, Zenon
  <1>3. f.name \in Text /\ f.name # <<>>
    BY <1>1, NameText
  <1> HIDE DEF V
  <1>4. r \in Seq(Text) /\ Len(r) \in Nat \ {0} /\ r[1] = V
    <2>1. <<>> \in Seq(Text)
      OBVIOUS
    <2> QED BY <1>2, <2>1, PathIs
  <1> HIDE DEF r
  <1>5. ~(Len(all) < 2) /\ all[many] = V /\ name = f.name
    <2>1. CASE f.name[1] # AtSign /\ Split(f.name) = <<f.name>>
      <3> DEFINE q == <<f.name>>
      <3>1. q \in Seq(Text) /\ Len(q) = 1 /\ q[1] = f.name
        BY <1>3
      <3>2. Split(f.name) = q
        BY <2>1, Zenon
      <3> HIDE DEF q
      <3>3. /\ q \o r \in Seq(Text) /\ Len(q \o r) = Len(q) + Len(r)
            /\ \A i \in 1..Len(q) : (q \o r)[i] = q[i]
            /\ (q \o r)[Len(q) + 1] = r[1]
        BY <1>4, <3>1, InPath
      <3>4. 1 \in 1..Len(q) /\ Len(q) + 1 = 2 /\ ~(Len(q) + Len(r) < 2) /\ 2 # 3
        BY <1>4, <3>1
      <3>5. all = q \o r
        BY <3>2, Zenon
      <3> HIDE DEF all
      <3>6. all[1] = f.name /\ all[2] = V /\ ~(Len(all) < 2)
        BY <1>4, <3>1, <3>3, <3>4, <3>5, Zenon
      <3>7. ~Scoped(all)
        BY <2>1, <3>6, Zenon DEF Scoped
      <3> QED BY <3>4, <3>6, <3>7, Zenon
    <2>2. ASSUME NEW x \in Text, NEW y \in Text, Split(f.name) = <<x, y>>, x # <<>>, x[1] = AtSign,
                 x \o <<Slash>> \o y = f.name
          PROVE  ~(Len(all) < 2) /\ all[many] = V /\ name = f.name
      <3> DEFINE q == <<x, y>>
      <3>1. q \in Seq(Text) /\ Len(q) = 2 /\ q[1] = x /\ q[2] = y
        OBVIOUS
      <3>2. Split(f.name) = q
        BY <2>2, Zenon
      <3> HIDE DEF q
      <3>3. /\ q \o r \in Seq(Text) /\ Len(q \o r) = Len(q) + Len(r)
            /\ \A i \in 1..Len(q) : (q \o r)[i] = q[i]
            /\ (q \o r)[Len(q) + 1] = r[1]
        BY <1>4, <3>1, InPath
      <3>4. /\ 1 \in 1..Len(q) /\ 2 \in 1..Len(q) /\ Len(q) + 1 = 3
            /\ ~(Len(q) + Len(r) < 2) /\ Len(q) + Len(r) > 2
        BY <1>4, <3>1
      <3>5. all = q \o r
        BY <3>2, Zenon
      <3> HIDE DEF all
      <3>6. all[1] = x /\ all[2] = y /\ all[3] = V /\ ~(Len(all) < 2) /\ Len(all) > 2
        BY <1>4, <3>1, <3>3, <3>4, <3>5, Zenon
      <3>7. Scoped(all)
        BY <2>2, <3>6, Zenon DEF Scoped
      <3> QED BY <2>2, <3>6, <3>7, Zenon
    <2> QED BY <1>1, <2>1, <2>2, SplitIs
  <1> HIDE DEF name, all, many
  <1>6. FolderOf(all) = IF Len(all) < 2 THEN NotRead
                        ELSE IF all[many] = <<>> \/ all[many][1] \notin Version \/ Len(all[many]) \notin {1, 3}
                        THEN NotRead
                        ELSE [name |-> name, version |-> all[many][1],
                              copy |-> IF Len(all[many]) = 3 THEN all[many][3] ELSE "0"]
    BY Zenon DEF FolderOf, name, many
  <1>7. FolderOf(all) = [name |-> name, version |-> V[1], copy |-> IF Len(V) = 3 THEN V[3] ELSE "0"]
    BY <1>2, <1>5, <1>6, Zenon
  <1>8. FolderOf(all) = [name |-> f.name, version |-> f.version, copy |-> f.copy]
    BY <1>2, <1>5, <1>7, Zenon
  <1> QED BY <1>1, <1>8, Zenon DEF all, r, V

LEMMA SplitText ==
  ASSUME NamesOK, NEW n \in Name
  PROVE  Split(n) \in Seq(Text) /\ Len(Split(n)) \in Nat \ {0} /\ Split(n)[1][1] # Underscore
  <1>1. n \in Text /\ n[1] # Underscore
    <2>1. NameOK(n)
      BY Zenon DEF NamesOK
    <2> QED BY <2>1, NameText, Zenon DEF NameOK, Underscore
  <1>2. AtSign # Underscore
    BY DEF AtSign, Underscore
  <1>3. CASE Split(n) = <<n>>
    <2> DEFINE q == <<n>>
    <2>1. q \in Seq(Text) /\ Len(q) \in Nat \ {0} /\ q[1] = n
      BY <1>1
    <2>2. Split(n) = q
      BY <1>3
    <2> HIDE DEF q
    <2> QED BY <1>1, <2>1, <2>2, Zenon
  <1>4. ASSUME NEW x \in Text, NEW y \in Text, Split(n) = <<x, y>>, x[1] = AtSign
        PROVE  Split(n) \in Seq(Text) /\ Len(Split(n)) \in Nat \ {0} /\ Split(n)[1][1] # Underscore
    <2> DEFINE q == <<x, y>>
    <2>1. q \in Seq(Text) /\ Len(q) \in Nat \ {0} /\ q[1] = x
      OBVIOUS
    <2>2. Split(n) = q
      BY <1>4
    <2> HIDE DEF q
    <2> QED BY <1>2, <1>4, <2>1, <2>2, Zenon
  <1> QED BY <1>3, <1>4, SplitIs

LEMMA EncodedIs ==
  ASSUME NamesOK, NEW n \in Name, Mixed(n)
  PROVE  /\ Encoded(n) \in Text /\ Len(Encoded(n)) = 2 /\ Encoded(n) # <<>>
         /\ Encoded(n)[1] = Underscore /\ Encoded(n)[2] = Base32(n) /\ Decoded(Base32(n)) = {n}
  <1>1. Base32(n) \in Token
    <2>1. Base32(n) \in STRING
      BY DEF NamesOK
    <2> QED BY <2>1, Tokens
  <1>2. Underscore \in Token
    BY Tokens DEF Underscore
  <1> DEFINE b == Base32(n)
             p == <<Underscore, b>>
  <1>3. Encoded(n) = p
    BY Zenon DEF Encoded, Underscore
  <1> HIDE DEF b
  <1>4. p \in Text /\ Len(p) = 2 /\ p # <<>> /\ p[1] = Underscore /\ p[2] = b
    <2>1. b \in Token
      BY <1>1 DEF b
    <2> QED BY <1>2, <2>1 DEF Text
  <1>5. Decoded(Base32(n)) = {n}
    BY Zenon DEF Decoded, NamesOK
  <1> HIDE DEF p
  <1> QED BY <1>3, <1>4, <1>5, Zenon DEF b

\* A module of the cache belongs to the package in whose folder it is.
LEMMA FolderFound ==
  ASSUME NamesOK, NEW f, FolderOK(f), NEW file \in Seq(Text)
  PROVE  FolderIdOf(CacheFolder(f) \o file) = f
  <1> DEFINE n == f.name
             V == VersionFolder(f)
             r == <<V>> \o file
             q == PackageNameFolder(n)
             path == CacheFolder(f) \o file
             first == path[1]
             mixed == first # <<>> /\ first[1] = Underscore
             names == Decoded(IF Len(first) = 2 THEN first[2] ELSE "")
             all == IF mixed THEN Split(CHOOSE m \in names : TRUE) \o Tail(path) ELSE path
  <1>1. n \in Name
    BY Zenon DEF FolderOK
  <1>2. V \in Text
    BY VersionFolderIs, Zenon
  <1>3. r \in Seq(Text) /\ Len(r) \in Nat \ {0}
    <2> HIDE DEF V
    <2>1. <<>> \in Seq(Text)
      OBVIOUS
    <2> QED BY <1>2, <2>1, PathIs
  <1>4. q \in Seq(Text)
    <2>1. CASE Mixed(n)
      <3>1. Encoded(n) \in Text
        BY <1>1, <2>1, EncodedIs, Zenon
      <3>2. q = <<Encoded(n)>>
        BY <2>1, Zenon DEF PackageNameFolder
      <3> HIDE DEF q
      <3> QED BY <3>1, <3>2
    <2>2. CASE ~Mixed(n)
      <3>1. q = Split(n)
        BY <2>2, Zenon DEF PackageNameFolder
      <3> HIDE DEF q
      <3> QED BY <1>1, <3>1, SplitText
    <2> QED BY <2>1, <2>2
  <1>5. path = q \o r
    <2>1. CacheFolder(f) = Append(q, V)
      BY Zenon DEF CacheFolder
    <2> HIDE DEF V, q
    <2>2. Append(q, V) \o file = q \o (<<V>> \o file)
      BY <1>2, <1>4, PathIs
    <2> QED BY <2>1, <2>2, Zenon
  <1>6. FolderIdOf(path) = IF (mixed /\ names = {}) \/ Len(all) < 2 THEN NotRead ELSE FolderOf(all)
    <2> HIDE DEF path
    <2> QED BY Zenon DEF FolderIdOf, FolderOf, Scoped, AtSign, Slash, Underscore
  <1>7. FolderOf(Split(n) \o r) = f
    BY FolderOfAll, Zenon
  <1>8. ~(mixed /\ names = {}) /\ all = Split(n) \o r
    <2> HIDE DEF r, V, n
    <2>1. CASE Mixed(n)
      <3> DEFINE word == Encoded(n)
      <3>1. /\ word \in Text /\ Len(word) = 2 /\ word # <<>> /\ word[1] = Underscore
            /\ word[2] = Base32(n) /\ Decoded(Base32(n)) = {n}
        BY <1>1, <2>1, EncodedIs, Zenon
      <3>2. path = <<word>> \o r
        <4>1. q = <<word>>
          BY <2>1, Zenon DEF PackageNameFolder
        <4> HIDE DEF path, q, word
        <4> QED BY <1>5, <4>1, Zenon
      <3> HIDE DEF path, word
      <3>3. first = word /\ Tail(path) = r
        <4>1. Tail(<<word>> \o r) = r
          BY <1>3, <3>1, TailOfPath
        <4>2. <<word>> \in Seq(Text) /\ Len(<<word>>) = 1 /\ <<word>>[1] = word
          BY <3>1
        <4>3. (<<word>> \o r)[1] = word
          BY <1>3, <4>2
        <4> QED BY <3>2, <4>1, <4>3, Zenon
      <3>4. mixed
        BY <3>1, <3>3, Zenon
      <3>5. names = {n}
        BY <3>1, <3>3, Zenon
      <3> HIDE DEF mixed, names
      <3>6. (CHOOSE m \in names : TRUE) = n
        <4>1. (CHOOSE m \in {n} : TRUE) = n
          OBVIOUS
        <4> QED BY <3>5, <4>1, Zenon
      <3> QED BY <3>3, <3>4, <3>5, <3>6, Zenon
    <2>2. CASE ~Mixed(n)
      <3> DEFINE w == Split(n)
      <3>1. w \in Seq(Text) /\ Len(w) \in Nat \ {0} /\ w[1][1] # Underscore
        BY <1>1, SplitText
      <3>2. path = w \o r
        <4>1. q = w
          BY <2>2, Zenon DEF PackageNameFolder
        <4> HIDE DEF path, q, w
        <4> QED BY <1>5, <4>1, Zenon
      <3> HIDE DEF path, w
      <3>3. first = w[1]
        <4>1. (w \o r)[1] = w[1]
          BY <1>3, <3>1, InPath
        <4> QED BY <3>2, <4>1, Zenon
      <3>4. ~mixed
        BY <3>1, <3>3, Zenon
      <3> HIDE DEF mixed
      <3> QED BY <3>2, <3>4, Zenon DEF w
    <2> QED BY <2>1, <2>2
  <1>9. ~(Len(Split(n) \o r) < 2)
    <2> DEFINE w == Split(n)
    <2>1. w \in Seq(Text) /\ Len(w) \in Nat \ {0}
      BY <1>1, SplitText
    <2> HIDE DEF w, r
    <2>2. Len(w \o r) = Len(w) + Len(r)
      BY <1>3, <2>1, InPath
    <2> QED BY <1>3, <2>1, <2>2 DEF w
  <1> HIDE DEF all, mixed, names
  <1> QED BY <1>6, <1>7, <1>8, <1>9, Zenon

LEMMA CacheFoldersApart ==
  ASSUME NamesOK, NEW f, FolderOK(f), NEW g, FolderOK(g), CacheFolder(f) = CacheFolder(g)
  PROVE  f = g
  <1>1. <<>> \in Seq(Text)
    OBVIOUS
  <1>2. FolderIdOf(CacheFolder(f) \o <<>>) = f
    BY <1>1, FolderFound
  <1>3. FolderIdOf(CacheFolder(g) \o <<>>) = g
    BY <1>1, FolderFound
  <1> QED BY <1>2, <1>3

Plus == "+"

LEMMA Characters ==
  /\ AtSign # Slash /\ AtSign # Underscore /\ AtSign # Plus
  /\ Slash # Underscore /\ Slash # Plus /\ Underscore # Plus
  /\ {AtSign, Slash, Underscore, Plus} = Mark
  BY DEF AtSign, Slash, Underscore, Plus, Mark

\* What the name of a folder of node_modules begins with
Base(n) == IF Mixed(n) THEN Encoded(n) ELSE n

LEMMA BaseIs ==
  ASSUME NamesOK, NEW n \in Name
  PROVE  /\ Base(n) \in Text /\ Len(Base(n)) \in Nat \ {0}
         /\ \A i \in 1..Len(Base(n)) : Base(n)[i] # Plus /\ (Base(n)[i] = AtSign => i = 1)
         /\ (Base(n)[1] = Underscore <=> Mixed(n))
  <1>1. CASE Mixed(n)
    <2> DEFINE b == Encoded(n)
    <2>1. b \in Text /\ Len(b) = 2 /\ b[1] = Underscore /\ b[2] = Base32(n)
      BY <1>1, EncodedIs, Zenon
    <2>2. Base32(n) \notin Mark
      BY <1>1, Zenon DEF NamesOK
    <2>3. Base(n) = b
      BY <1>1, Zenon DEF Base
    <2> HIDE DEF b
    <2>4. \A i \in 1..2 : i = 1 \/ i = 2
      OBVIOUS
    <2>5. \A i \in 1..2 : b[i] # Plus /\ b[i] # AtSign
      BY <2>1, <2>2, <2>4, Characters, Zenon
    <2>6. 2 \in Nat \ {0}
      OBVIOUS
    <2> QED BY <1>1, <2>1, <2>3, <2>5, <2>6, Zenon
  <1>2. CASE ~Mixed(n)
    <2>1. Base(n) = n
      BY <1>2, Zenon DEF Base
    <2>2. NameOK(n)
      BY Zenon DEF NamesOK
    <2>3. n \in Text /\ Len(n) \in Nat \ {0}
      BY NameText
    <2>4. DOMAIN n = 1..Len(n)
      BY <2>3 DEF Text
    <2>5. n[1] # Underscore /\ \A i \in DOMAIN n : n[i] # Plus /\ (n[i] = AtSign => i = 1)
      BY <2>2, Zenon DEF NameOK, Plus, AtSign, Underscore
    <2> QED BY <1>2, <2>1, <2>3, <2>4, <2>5, Zenon
  <1> QED BY <1>1, <1>2

LEMMA BaseApart ==
  ASSUME NamesOK, NEW m \in Name, NEW n \in Name, Base(m) = Base(n)
  PROVE  m = n
  <1>1. Mixed(m) <=> Mixed(n)
    BY BaseIs
  <1>2. CASE Mixed(m)
    <2>1. Encoded(m) = Encoded(n)
      BY <1>1, <1>2, Zenon DEF Base
    <2>2. Base32(m) = Base32(n)
      BY <1>1, <1>2, <2>1, EncodedIs, Zenon
    <2> QED BY <1>1, <1>2, <2>2, Zenon DEF NamesOK
  <1>3. CASE ~Mixed(m)
    BY <1>1, <1>3, Zenon DEF Base
  <1> QED BY <1>2, <1>3

\* What is where in the name of a folder of node_modules
LocalAt(R, b, v, c) ==
    /\ R \in Text
    /\ \A i \in 1..Len(b) : R[i] = IF b[i] = Slash THEN Plus ELSE b[i]
    /\ R[Len(b) + 1] = AtSign /\ R[Len(b) + 2] = v
    /\ \/ c = "0" /\ Len(R) = Len(b) + 2
       \/ Len(R) = Len(b) + 4 /\ R[Len(b) + 3] = Underscore /\ R[Len(b) + 4] = c /\ c # "0"

\* w is s with two more tokens.
WithTwo(w, s, a, c) ==
    /\ w \in Text /\ Len(w) = Len(s) + 2 /\ w[Len(s) + 1] = a /\ w[Len(s) + 2] = c
    /\ \A i \in 1..Len(s) : w[i] = s[i]

LEMMA TwoAfter ==
  ASSUME NEW s \in Text, NEW a \in Token, NEW c \in Token
  PROVE  WithTwo(s \o <<a, c>>, s, a, c)
  <1> DEFINE u == <<a, c>>
             w == s \o u
  <1>1. u \in Text /\ Len(u) = 2 /\ u[1] = a /\ u[2] = c
    BY TwoText
  <1> HIDE DEF u
  <1>2. /\ w \in Text /\ Len(w) = Len(s) + Len(u) /\ Len(s) \in Nat
        /\ \A i \in 1..Len(s) : w[i] = s[i]
        /\ \A j \in 1..Len(u) : w[Len(s) + j] = u[j]
    <2>1. u \in Text
      BY <1>1
    <2> QED BY <2>1 DEF Text
  <1> HIDE DEF w
  <1>3. 1 \in 1..Len(u) /\ 2 \in 1..Len(u)
    BY <1>1
  <1>4. w[Len(s) + 1] = a /\ w[Len(s) + 2] = c
    BY <1>1, <1>2, <1>3, Zenon
  <1>5. Len(w) = Len(s) + 2
    BY <1>1, <1>2, Zenon
  <1>6. WithTwo(w, s, a, c)
    BY <1>2, <1>4, <1>5, Zenon DEF WithTwo
  <1> QED BY <1>6, Zenon DEF w, u

LEMMA SameText ==
  ASSUME NEW s \in Text
  PROVE  s \o <<>> = s
  BY DEF Text

LEMMA LocalNameIs ==
  ASSUME NamesOK, NEW f, FolderOK(f)
  PROVE  LocalAt(LocalFolderName(f), Base(f.name), f.version, f.copy)
  <1> DEFINE b == Base(f.name)
             v == f.version
             c == f.copy
             two == <<AtSign, v>>
             suffix == IF c = "0" THEN <<>> ELSE <<Underscore, c>>
             W == b \o two \o suffix
             R == LocalFolderName(f)
  <1>1. f.name \in Name /\ v \in Token /\ v \notin Mark /\ c \in Token /\ c \notin Mark
    <2>1. f.name \in Name /\ v \in Version /\ c \in STRING /\ c \notin Mark
      BY Zenon DEF FolderOK
    <2>2. v \notin Mark
      BY <2>1, Zenon DEF NamesOK
    <2>3. v \in Token /\ c \in Token
      BY <2>1, VersionToken, Tokens
    <2> QED BY <2>1, <2>2, <2>3, Zenon
  <1>2. b \in Text /\ Len(b) \in Nat \ {0}
    BY <1>1, BaseIs, Zenon
  <1>3. R = Replaced(W, Slash, Plus)
    BY Zenon DEF LocalFolderName, Base, AtSign, Underscore, Slash, Plus
  <1>4. AtSign \in Token /\ Underscore \in Token /\ Plus \in Token
    BY Tokens, Zenon DEF AtSign, Underscore, Plus
  <1>5. v # Slash /\ c # Slash /\ AtSign # Slash /\ Underscore # Slash
    BY <1>1, Characters, Zenon
  <1> HIDE DEF b, v, c, R
  <1> DEFINE u == b \o two
  <1>7. /\ u \in Text /\ Len(u) = Len(b) + 2 /\ u[Len(b) + 1] = AtSign /\ u[Len(b) + 2] = v
        /\ \A i \in 1..Len(b) : u[i] = b[i]
    <2>1. WithTwo(b \o <<AtSign, v>>, b, AtSign, v)
      BY <1>1, <1>2, <1>4, TwoAfter
    <2> QED BY <2>1, Zenon DEF WithTwo
  <1> HIDE DEF u
  <1>8. CASE c = "0"
    <2>1. W = u
      <3>1. W = u \o <<>>
        BY <1>8, Zenon DEF u
      <3> HIDE DEF W
      <3> QED BY <1>7, <3>1, SameText, Zenon
    <2> HIDE DEF W
    <2>2. /\ R \in Text /\ Len(R) = Len(u)
          /\ \A i \in 1..Len(u) : R[i] = IF u[i] = Slash THEN Plus ELSE u[i]
      <3>1. R = Replaced(u, Slash, Plus)
        BY <1>3, <2>1, Zenon
      <3> DEFINE q == Replaced(u, Slash, Plus)
      <3>2. /\ q \in Text /\ Len(q) = Len(u)
            /\ \A i \in 1..Len(u) : q[i] = IF u[i] = Slash THEN Plus ELSE u[i]
        BY <1>4, <1>7, ReplacedText
      <3> QED BY <3>1, <3>2, Zenon
    <2>3. /\ Len(b) + 1 \in 1..Len(u) /\ Len(b) + 2 \in 1..Len(u)
          /\ \A i \in 1..Len(b) : i \in 1..Len(u)
      BY <1>2, <1>7
    <2> QED BY <1>5, <1>7, <1>8, <2>2, <2>3, Zenon DEF LocalAt, b, v, c, R
  <1>9. CASE c # "0"
    <2> DEFINE s == <<Underscore, c>>
    <2>1. W = u \o s
      BY <1>9, Zenon DEF u
    <2> HIDE DEF W
    <2> DEFINE x == u \o s
    <2>3. /\ x \in Text /\ Len(x) = Len(u) + 2 /\ x[Len(u) + 1] = Underscore /\ x[Len(u) + 2] = c
          /\ \A i \in 1..Len(u) : x[i] = u[i]
      <3>1. WithTwo(u \o <<Underscore, c>>, u, Underscore, c)
        BY <1>1, <1>4, <1>7, TwoAfter
      <3> QED BY <3>1, Zenon DEF WithTwo
    <2> HIDE DEF x
    <2>4. /\ R \in Text /\ Len(R) = Len(x)
          /\ \A i \in 1..Len(x) : R[i] = IF x[i] = Slash THEN Plus ELSE x[i]
      <3>1. R = Replaced(x, Slash, Plus)
        BY <1>3, <2>1, Zenon DEF x
      <3> DEFINE q == Replaced(x, Slash, Plus)
      <3>2. /\ q \in Text /\ Len(q) = Len(x)
            /\ \A i \in 1..Len(x) : q[i] = IF x[i] = Slash THEN Plus ELSE x[i]
        BY <1>4, <2>3, ReplacedText
      <3> QED BY <3>1, <3>2, Zenon
    <2>5. /\ Len(b) + 1 \in 1..Len(u) /\ Len(b) + 2 \in 1..Len(u)
          /\ \A i \in 1..Len(u) : i \in 1..Len(x)
          /\ \A i \in 1..Len(b) : i \in 1..Len(u)
          /\ Len(u) + 1 = Len(b) + 3 /\ Len(u) + 2 = Len(b) + 4
          /\ Len(b) + 3 \in 1..Len(x) /\ Len(b) + 4 \in 1..Len(x) /\ Len(x) = Len(b) + 4
      BY <1>2, <1>7, <2>3
    <2>6. x[Len(b) + 3] = Underscore /\ x[Len(b) + 4] = c
      BY <2>3, <2>5, Zenon
    <2>7. R[Len(b) + 1] = AtSign /\ R[Len(b) + 2] = v
      BY <1>5, <1>7, <2>3, <2>4, <2>5, Zenon
    <2>8. R[Len(b) + 3] = Underscore /\ R[Len(b) + 4] = c
      BY <1>5, <2>4, <2>5, <2>6, Zenon
    <2>9. \A i \in 1..Len(b) : R[i] = IF b[i] = Slash THEN Plus ELSE b[i]
      BY <1>7, <2>3, <2>4, <2>5, Zenon
    <2> QED BY <1>9, <2>4, <2>5, <2>7, <2>8, <2>9, Zenon DEF LocalAt, b, v, c, R
  <1> QED BY <1>8, <1>9

\* A base, and what follows it, have no @ but at the very beginning and between them.
Follows(R, b, v, c) ==
    /\ LocalAt(R, b, v, c)
    /\ b \in Text /\ Len(b) \in Nat \ {0} /\ v \notin Mark /\ c \notin Mark
    /\ \A i \in 1..Len(b) : b[i] # Plus /\ (b[i] = AtSign => i = 1)

LEMMA LocalFollows ==
  ASSUME NamesOK, NEW f, FolderOK(f)
  PROVE  Follows(LocalFolderName(f), Base(f.name), f.version, f.copy)
  <1>1. f.name \in Name /\ f.version \in Version /\ f.copy \notin Mark
    BY Zenon DEF FolderOK
  <1>2. f.version \notin Mark
    BY <1>1, Zenon DEF NamesOK
  <1>3. LocalAt(LocalFolderName(f), Base(f.name), f.version, f.copy)
    BY LocalNameIs
  <1> QED BY <1>1, <1>2, <1>3, BaseIs, Zenon DEF Follows

LEMMA AtOnce ==
  ASSUME NEW R, NEW b, NEW v, NEW c, Follows(R, b, v, c), NEW i \in 1..Len(R), i # 1, R[i] = AtSign
  PROVE  i = Len(b) + 1
  <1>1. Len(b) \in Nat \ {0} /\ AtSign \in Mark /\ v \notin Mark /\ c \notin Mark
    BY Characters, Zenon DEF Follows
  <1>2. ASSUME i \in 1..Len(b) PROVE FALSE
    <2>1. R[i] = IF b[i] = Slash THEN Plus ELSE b[i]
      BY <1>2, Zenon DEF Follows, LocalAt
    <2>2. b[i] = AtSign => i = 1
      BY <1>2, Zenon DEF Follows
    <2> QED BY <2>1, <2>2, Characters, Zenon
  <1>3. i # Len(b) + 2
    BY <1>1, Zenon DEF Follows, LocalAt
  <1>4. CASE Len(R) = Len(b) + 2
    BY <1>1, <1>2, <1>3, <1>4
  <1>5. CASE Len(R) # Len(b) + 2
    <2>1. Len(R) = Len(b) + 4 /\ R[Len(b) + 3] = Underscore /\ R[Len(b) + 4] = c
      BY <1>5, Zenon DEF Follows, LocalAt
    <2>2. i # Len(b) + 3 /\ i # Len(b) + 4
      BY <1>1, <2>1, Characters, Zenon
    <2>3. Len(R) = Len(b) + 4
      BY <2>1, Zenon
    <2> QED BY <1>1, <1>2, <1>3, <2>2, <2>3
  <1> QED BY <1>4, <1>5

LEMMA SameFolders ==
  ASSUME NEW R, NEW b, NEW v, NEW c, Follows(R, b, v, c),
         NEW d, NEW w, NEW k, Follows(R, d, w, k)
  PROVE  b = d /\ v = w /\ c = k
  <1>1. Len(b) \in Nat \ {0} /\ Len(d) \in Nat \ {0} /\ b \in Text /\ d \in Text
    BY Zenon DEF Follows
  <1>2. R[Len(b) + 1] = AtSign /\ (Len(R) = Len(b) + 2 \/ Len(R) = Len(b) + 4)
    BY Zenon DEF Follows, LocalAt
  <1>3. Len(b) + 1 \in 1..Len(R) /\ Len(b) + 1 # 1
    <2>1. Len(R) = Len(b) + 2 \/ Len(R) = Len(b) + 4
      BY <1>2, Zenon
    <2> QED BY <1>1, <2>1
  <1>4. Len(b) + 1 = Len(d) + 1
    BY <1>2, <1>3, AtOnce
  <1>5. Len(b) = Len(d)
    BY <1>1, <1>4
  <1>6. v = w
    BY <1>5, Zenon DEF Follows, LocalAt
  <1>7. c = k
    <2>1. Len(b) + 2 # Len(b) + 4
      BY <1>1
    <2> QED BY <1>5, <2>1, Zenon DEF Follows, LocalAt
  <1>8. \A i \in 1..Len(b) : b[i] = d[i]
    <2> TAKE i \in 1..Len(b)
    <2>1. i \in 1..Len(d)
      BY <1>5
    <2>2. b[i] # Plus /\ d[i] # Plus
      BY <2>1, Zenon DEF Follows
    <2>3. R[i] = IF b[i] = Slash THEN Plus ELSE b[i]
      BY Zenon DEF Follows, LocalAt
    <2>4. R[i] = IF d[i] = Slash THEN Plus ELSE d[i]
      BY <2>1, Zenon DEF Follows, LocalAt
    <2> QED BY <2>2, <2>3, <2>4, Zenon
  <1>9. b \in Seq(Token) /\ d \in Seq(Token)
    BY <1>1 DEF Text
  <1>10. b = d
    BY <1>5, <1>8, <1>9, SeqEqual
  <1> QED BY <1>6, <1>7, <1>10

LEMMA LocalFoldersApart ==
  ASSUME NamesOK, NEW f, FolderOK(f), NEW g, FolderOK(g), LocalFolderName(f) = LocalFolderName(g)
  PROVE  f = g
  <1> DEFINE R == LocalFolderName(f)
  <1>1. Follows(R, Base(f.name), f.version, f.copy)
    BY LocalFollows
  <1>2. Follows(R, Base(g.name), g.version, g.copy)
    BY LocalFollows, Zenon
  <1> HIDE DEF R
  <1>3. Base(f.name) = Base(g.name) /\ f.version = g.version /\ f.copy = g.copy
    BY <1>1, <1>2, SameFolders, Zenon
  <1>4. f.name \in Name /\ g.name \in Name
    BY Zenon DEF FolderOK
  <1>5. f.name = g.name
    BY <1>3, <1>4, BaseApart
  <1>6. /\ f = [name |-> f.name, version |-> f.version, copy |-> f.copy]
        /\ g = [name |-> g.name, version |-> g.version, copy |-> g.copy]
    BY Zenon DEF FolderOK
  <1> QED BY <1>3, <1>5, <1>6, Zenon

-----------------------------------------------------------------------------
(* The specification                                                       *)

\* What has been written is what the case asks for, what has been read is what was meant.
Kept ==
    /\ case \in Cases /\ stage \in {"new", "written", "read"}
    /\ stage = "new" => written = <<>> /\ read = NotRead
    /\ case.kind = "id" /\ stage = "written" => written = Serialized(case.id)
    /\ case.kind = "id" /\ stage = "read" => read = case.id
    /\ case.kind = "folder" /\ stage = "written" => written.cache = CacheFolder(case.folder)
    /\ case.kind = "folder" /\ stage = "read" => read.id = case.folder

LEMMA KeptInit == Init => Kept
  BY Zenon DEF Init, Kept

LEMMA KeptNext == ASSUME ConstantsOK, Kept, [Next]_vars PROVE Kept'
  <1>0. NamesOK /\ IdsOK /\ \A k \in Cases : CaseOK(k)
    BY DEF ConstantsOK
  <1>1. CaseOK(case)
    BY <1>0, Zenon DEF Kept
  <1>2. CASE WriteId
    BY <1>2, Zenon DEF Kept, WriteId, Does
  <1>3. CASE ReadId
    <2>1. case.id \in Id
      BY <1>1, <1>3, Zenon DEF CaseOK, ReadId, Does
    <2>2. FromSerialized(Serialized(case.id)) = case.id
      BY <1>0, <2>1, ReadBack
    <2> QED BY <1>3, <2>2, Zenon DEF Kept, ReadId, Does
  <1>4. CASE FindFolder
    <2>1. written'.cache = CacheFolder(case.folder)
      BY <1>4 DEF FindFolder
    <2> QED BY <1>4, <2>1, Zenon DEF Kept, FindFolder, Does
  <1>5. CASE FromModule
    <2>1. FolderOK(case.folder) /\ case.file \in Seq(Seq(STRING))
      BY <1>1, <1>5, Zenon DEF CaseOK, FromModule, Does
    <2>2. case.file \in Seq(Text)
      BY <2>1, StringsAreText, SeqOfMore, Zenon
    <2>3. FolderIdOf(CacheFolder(case.folder) \o case.file) = case.folder
      BY <1>0, <2>1, <2>2, FolderFound
    <2>4. written.cache = CacheFolder(case.folder)
      BY <1>5, Zenon DEF Kept, FromModule, Does
    <2>5. read'.id = FolderIdOf(written.cache \o case.file)
      BY <1>5 DEF FromModule
    <2> QED BY <1>5, <2>3, <2>4, <2>5, Zenon DEF Kept, FromModule, Does
  <1>6. CASE UNCHANGED vars
    BY <1>6, Zenon DEF Kept, vars
  <1> QED BY <1>2, <1>3, <1>4, <1>5, <1>6, Zenon DEF Next

LEMMA KeptHolds == ASSUME ConstantsOK, Kept PROVE IdentifiersReadBack /\ FoldersApart
  <1>0. NamesOK /\ IdsOK /\ \A k \in Cases : CaseOK(k)
    BY DEF ConstantsOK
  <1>1. CaseOK(case)
    BY <1>0, Zenon DEF Kept
  <1>2. Read("folder") => read.id = case.folder
    BY Zenon DEF Kept, Read
  <1>3. ASSUME case.kind = "folder", case.other # case.folder
        PROVE  /\ CacheFolder(case.other) # CacheFolder(case.folder)
               /\ LocalFolderName(case.other) # LocalFolderName(case.folder)
    <2>1. FolderOK(case.folder) /\ FolderOK(case.other)
      BY <1>1, <1>3, Zenon DEF CaseOK
    <2> QED BY <1>0, <1>3, <2>1, CacheFoldersApart, LocalFoldersApart
  <1>4. IdentifiersReadBack
    BY Zenon DEF Kept, IdentifiersReadBack, Read
  <1> QED BY <1>2, <1>3, <1>4, Zenon DEF FoldersApart

\* IdentifiersReadBack and FoldersApart: what is written of an identifier or of a package is
\* read back, whatever it is called and however deep its peers are.
THEOREM NamesReadBack == ASSUME ConstantsOK PROVE Spec => [](IdentifiersReadBack /\ FoldersApart)
  <1>1. Kept /\ [Next]_vars => Kept'
    BY KeptNext
  <1>2. Kept => IdentifiersReadBack /\ FoldersApart
    BY KeptHolds
  <1> QED BY <1>1, <1>2, KeptInit, PTL DEF Spec
=============================================================================
