----------------------------- MODULE ListLemmas -----------------------------
(***************************************************************************)
(* What the linked-list operations of Lists do to the elements of a list   *)
(* and to its length.                                                      *)
(***************************************************************************)
EXTENDS Lists, TLAPS

\* Lists without repetition, that grow at the head and shrink anywhere.
LEMMA ListSet ==
    ASSUME NEW S, NEW s \in Seq(S)
    PROVE  /\ Range(s) \subseteq S
           /\ \A x : x \in Range(s) <=> \E i \in 1 .. Len(s) : s[i] = x
           /\ Range(s) = {} <=> s = << >>
           /\ IsInjective(s) <=> \A i, j \in 1 .. Len(s) : s[i] = s[j] => i = j
  <1>1. DOMAIN s = 1 .. Len(s) /\ Len(s) \in Nat
    OBVIOUS
  <1>2. \A x : x \in Range(s) <=> \E i \in 1 .. Len(s) : s[i] = x
    BY <1>1, Zenon DEF Range
  <1>3. Range(s) \subseteq S
    BY <1>2
  <1>4. IsInjective(s) <=> \A i, j \in 1 .. Len(s) : s[i] = s[j] => i = j
    BY <1>1, Zenon DEF IsInjective
  <1>5. s # << >> => s[1] \in Range(s)
    BY <1>1, <1>2
  <1>6. s = << >> => Range(s) = {}
    BY <1>2
  <1>7. QED
    BY <1>2, <1>3, <1>4, <1>5, <1>6, Zenon

LEMMA PushList ==
    ASSUME NEW S, NEW s \in Seq(S), NEW c \in S
    PROVE  /\ Pushed(s, c) \in Seq(S) /\ Len(Pushed(s, c)) = Len(s) + 1
           /\ Range(Pushed(s, c)) = Range(s) \cup {c}
           /\ IsInjective(s) /\ c \notin Range(s) => IsInjective(Pushed(s, c))
  <1>1. <<c>> \in Seq(S) /\ Len(<<c>>) = 1 /\ <<c>>[1] = c
    OBVIOUS
  <1>2. /\ Pushed(s, c) \in Seq(S) /\ Len(Pushed(s, c)) = Len(s) + 1
        /\ \A i \in 1 .. Len(s) + 1 : Pushed(s, c)[i] = IF i <= 1 THEN c ELSE s[i - 1]
    BY <1>1 DEF Pushed
  <1>3. PICK r : r = Pushed(s, c)
    BY Zenon
  <1>4. Len(s) \in Nat
    OBVIOUS
  <1>5. /\ r \in Seq(S) /\ Len(r) = Len(s) + 1 /\ r[1] = c
        /\ \A i \in 1 .. Len(s) : r[i + 1] = s[i]
        /\ \A i \in 1 .. Len(r) : i = 1 \/ (i - 1 \in 1 .. Len(s) /\ r[i] = s[i - 1])
    <2>1. /\ r \in Seq(S) /\ Len(r) = Len(s) + 1
          /\ \A i \in 1 .. Len(s) + 1 : r[i] = IF i <= 1 THEN c ELSE s[i - 1]
      BY <1>2, <1>3, Zenon
    <2>2. r[1] = c
      BY <1>4, <2>1
    <2>3. ASSUME NEW i \in 1 .. Len(s)
          PROVE  r[i + 1] = s[i]
      <3>1. i + 1 \in 1 .. Len(s) + 1 /\ ~(i + 1 <= 1) /\ i + 1 - 1 = i
        BY <1>4
      <3>2. QED
        BY <2>1, <3>1
    <2>4. ASSUME NEW i \in 1 .. Len(r), i # 1
          PROVE  i - 1 \in 1 .. Len(s) /\ r[i] = s[i - 1]
      BY <1>4, <2>1, <2>4
    <2>5. QED
      BY <2>1, <2>2, <2>3, <2>4, Zenon
  <1>6. Range(r) = Range(s) \cup {c}
    <2>1. \A x : x \in Range(r) => x \in Range(s) \cup {c}
      <3>1. \A x : x \in Range(r) => \E i \in 1 .. Len(r) : r[i] = x
        BY <1>5, ListSet, Zenon
      <3>2. \A i \in 1 .. Len(s) : s[i] \in Range(s)
        BY ListSet, Zenon
      <3>3. QED
        BY <1>5, <3>1, <3>2, SMTT(30)
    <2>2. c \in Range(r)
      BY <1>4, <1>5, ListSet, SMTT(30)
    <2>3. \A x : x \in Range(s) => x \in Range(r)
      <3>1. SUFFICES ASSUME NEW i \in 1 .. Len(s)
                     PROVE  s[i] \in Range(r)
        BY ListSet, SMTT(30)
      <3>2. i + 1 \in 1 .. Len(r) /\ r[i + 1] = s[i]
        BY <1>4, <1>5, SMTT(30)
      <3>3. QED
        BY <1>5, <3>2, ListSet, ZenonT(30)
    <2>4. QED
      BY <2>1, <2>2, <2>3, ZenonT(30)
  <1>7. ASSUME IsInjective(s), c \notin Range(s)
        PROVE  IsInjective(r)
    <2>1. SUFFICES ASSUME NEW i \in 1 .. Len(r), NEW j \in 1 .. Len(r), r[i] = r[j]
                   PROVE  i = j
      BY <1>5, ListSet, Zenon
    <2>2. \A k \in 1 .. Len(s) : s[k] # c
      BY <1>7, ListSet, Zenon
    <2>3. \A k, l \in 1 .. Len(s) : s[k] = s[l] => k = l
      BY <1>7, ListSet, Zenon
    <2>4. CASE i = 1 \/ j = 1
      BY <1>5, <2>1, <2>2, <2>4, Zenon
    <2>5. CASE i # 1 /\ j # 1
      <3>1. i - 1 = j - 1
        BY <1>5, <2>1, <2>3, <2>5, SMTT(30)
      <3>2. QED
        BY <3>1
    <2>6. QED
      BY <2>4, <2>5, Zenon
  <1>8. QED
    BY <1>2, <1>3, <1>6, <1>7, Zenon

LEMMA DropList ==
    ASSUME NEW S, NEW s \in Seq(S), NEW n \in 1 .. Len(s)
    PROVE  /\ Unlinked(s, n) \in Seq(S) /\ Len(Unlinked(s, n)) = Len(s) - 1
           /\ Range(Unlinked(s, n)) \subseteq Range(s)
           /\ Range(s) \subseteq Range(Unlinked(s, n)) \cup {s[n]}
           /\ IsInjective(s) => /\ IsInjective(Unlinked(s, n))
                                /\ Range(Unlinked(s, n)) = Range(s) \ {s[n]}
  <1>1. Len(s) \in Nat /\ \A i \in 1 .. Len(s) : s[i] \in S
    OBVIOUS
  <1>2. PICK f : f = SubSeq(s, 1, n - 1)
    BY Zenon
  <1>3. PICK g : g = SubSeq(s, n + 1, Len(s))
    BY Zenon
  <1>4. f \in Seq(S) /\ Len(f) = n - 1 /\ \A i \in 1 .. n - 1 : f[i] = s[i]
    <2>1. \A i \in 1 .. n - 1 : s[i] \in S
      BY <1>1
    <2>2. /\ SubSeq(s, 1, n - 1) \in Seq(S)
          /\ Len(SubSeq(s, 1, n - 1)) = IF 1 <= n - 1 THEN n - 1 - 1 + 1 ELSE 0
          /\ \A i \in 1 .. n - 1 - 1 + 1 : SubSeq(s, 1, n - 1)[i] = s[1 + i - 1]
      BY <1>1, <2>1
    <2>3. QED
      BY <1>1, <1>2, <2>2, SMTT(30)
  <1>5. g \in Seq(S) /\ Len(g) = Len(s) - n /\ \A i \in 1 .. Len(s) - n : g[i] = s[n + i]
    <2>1. \A i \in n + 1 .. Len(s) : s[i] \in S
      BY <1>1
    <2>2. /\ SubSeq(s, n + 1, Len(s)) \in Seq(S)
          /\ Len(SubSeq(s, n + 1, Len(s))) = IF n + 1 <= Len(s) THEN Len(s) - (n + 1) + 1 ELSE 0
          /\ \A i \in 1 .. Len(s) - (n + 1) + 1 : SubSeq(s, n + 1, Len(s))[i] = s[n + 1 + i - 1]
      BY <1>1, <2>1, SMTT(30)
    <2>3. QED
      BY <1>1, <1>3, <2>2, SMTT(30)
  <1>6. PICK r : r = Unlinked(s, n)
    BY Zenon
  <1>7. /\ r \in Seq(S) /\ Len(r) = Len(f) + Len(g)
        /\ \A i \in 1 .. Len(f) + Len(g) : r[i] = IF i <= Len(f) THEN f[i] ELSE g[i - Len(f)]
    <2>1. r = f \o g
      BY <1>2, <1>3, <1>6, Zenon DEF Unlinked
    <2>2. f \in Seq(S) /\ g \in Seq(S)
      BY <1>4, <1>5, Zenon
    <2>3. r \in Seq(S) /\ Len(r) = Len(f) + Len(g)
      BY <2>1, <2>2, SMTT(30)
    <2>4. \A i \in 1 .. Len(f) + Len(g) : r[i] = IF i <= Len(f) THEN f[i] ELSE g[i - Len(f)]
      BY <2>1, <2>2, SMTT(30)
    <2>5. QED
      BY <2>3, <2>4, Zenon
  <1>8. /\ Len(r) = Len(s) - 1
        /\ \A i \in 1 .. Len(r) : r[i] = IF i < n THEN s[i] ELSE s[i + 1]
    <2>1. Len(r) = Len(s) - 1
      BY <1>1, <1>4, <1>5, <1>7, SMTT(30)
    <2>2. ASSUME NEW i \in 1 .. Len(r), i < n
          PROVE  r[i] = s[i]
      BY <1>1, <1>4, <1>5, <1>7, <2>1, <2>2, SMTT(30)
    <2>3. ASSUME NEW i \in 1 .. Len(r), ~(i < n)
          PROVE  r[i] = s[i + 1]
      <3>1. i - Len(f) \in 1 .. Len(s) - n /\ n + (i - Len(f)) = i + 1
        BY <1>1, <1>4, <2>1, <2>3
      <3>2. g[i - Len(f)] = s[i + 1]
        BY <1>5, <3>1, Zenon
      <3>3. QED
        BY <1>1, <1>4, <1>5, <1>7, <2>1, <2>3, <3>2, SMTT(30)
    <2>4. QED
      BY <2>1, <2>2, <2>3, Zenon
  <1>9. Range(r) \subseteq Range(s)
    <2>1. SUFFICES ASSUME NEW i \in 1 .. Len(r)
                   PROVE  r[i] \in Range(s)
      <3>1. \A x : x \in Range(r) => \E i \in 1 .. Len(r) : r[i] = x
        BY <1>7, ListSet, Zenon
      <3>2. QED
        BY <3>1, Zenon
    <2>2. i \in 1 .. Len(s) /\ i + 1 \in 1 .. Len(s)
      BY <1>1, <1>8, SMTT(30)
    <2>3. s[i] \in Range(s) /\ s[i + 1] \in Range(s)
      BY <2>2, ListSet, Zenon
    <2>4. QED
      BY <1>8, <2>3, Zenon
  <1>10. Range(s) \subseteq Range(r) \cup {s[n]}
    <2>1. SUFFICES ASSUME NEW i \in 1 .. Len(s), i # n
                   PROVE  s[i] \in Range(r)
      BY ListSet, SMTT(30)
    <2>2. CASE i < n
      <3>1. i \in 1 .. Len(r) /\ r[i] = s[i]
        BY <1>1, <1>8, <2>2, SMTT(30)
      <3>2. QED
        BY <1>7, <3>1, ListSet, Zenon
    <2>3. CASE i > n
      <3>1. i - 1 \in 1 .. Len(r) /\ r[i - 1] = s[i]
        BY <1>1, <1>8, <2>3, SMTT(30)
      <3>2. QED
        BY <1>7, <3>1, ListSet, Zenon
    <2>4. QED
      BY <1>1, <2>1, <2>2, <2>3
  <1>11. ASSUME IsInjective(s)
         PROVE  IsInjective(r) /\ s[n] \notin Range(r)
    <2>1. \A i, j \in 1 .. Len(s) : s[i] = s[j] => i = j
      BY <1>11, ListSet, Zenon
    <2>2. \A i \in 1 .. Len(r) : \E k \in 1 .. Len(s) : r[i] = s[k] /\ k # n /\ k = IF i < n THEN i ELSE i + 1
      BY <1>1, <1>8, SMTT(30)
    <2>3. ASSUME NEW i \in 1 .. Len(r), NEW j \in 1 .. Len(r), r[i] = r[j]
          PROVE  i = j
      <3>1. PICK k \in 1 .. Len(s) : r[i] = s[k] /\ k = IF i < n THEN i ELSE i + 1
        BY <2>2, Zenon
      <3>2. PICK l \in 1 .. Len(s) : r[j] = s[l] /\ l = IF j < n THEN j ELSE j + 1
        BY <2>2, Zenon
      <3>3. k = l
        BY <2>1, <2>3, <3>1, <3>2, Zenon
      <3>4. QED
        BY <3>1, <3>2, <3>3, SMTT(30)
    <2>4. \A i \in 1 .. Len(r) : r[i] # s[n]
      BY <2>1, <2>2, Zenon
    <2>5. QED
      BY <1>7, <2>3, <2>4, ListSet, Zenon
  <1>12. QED
    BY <1>6, <1>7, <1>8, <1>9, <1>10, <1>11, Zenon

LEMMA TailList ==
    ASSUME NEW S, NEW s \in Seq(S), s # << >>
    PROVE  /\ Tail(s) \in Seq(S) /\ Len(Tail(s)) = Len(s) - 1 /\ Head(s) \in Range(s)
           /\ Range(s) = Range(Tail(s)) \cup {Head(s)}
           /\ IsInjective(s) => IsInjective(Tail(s)) /\ Head(s) \notin Range(Tail(s))
  <1>1. /\ Tail(s) \in Seq(S) /\ Len(Tail(s)) = Len(s) - 1 /\ Len(s) \in Nat \ {0}
        /\ \A i \in 1 .. Len(Tail(s)) : Tail(s)[i] = s[i + 1]
    OBVIOUS
  <1>2. Head(s) = s[1]
    BY <1>1
  <1>3. PICK r : r = Tail(s)
    BY Zenon
  <1>4. /\ r \in Seq(S) /\ Len(r) = Len(s) - 1
        /\ \A i \in 1 .. Len(r) : i + 1 \in 1 .. Len(s) /\ r[i] = s[i + 1]
        /\ \A i \in 1 .. Len(s) : i = 1 \/ (i - 1 \in 1 .. Len(r) /\ r[i - 1] = s[i])
    <2>1. r \in Seq(S) /\ Len(r) = Len(s) - 1 /\ \A i \in 1 .. Len(r) : r[i] = s[i + 1]
      BY <1>1, <1>3, Zenon
    <2>2. \A i \in 1 .. Len(r) : i + 1 \in 1 .. Len(s)
      BY <1>1, <2>1
    <2>3. ASSUME NEW i \in 1 .. Len(s), i # 1
          PROVE  i - 1 \in 1 .. Len(r) /\ r[i - 1] = s[i]
      <3>1. i - 1 \in 1 .. Len(r) /\ i - 1 + 1 = i
        BY <1>1, <2>1, <2>3
      <3>2. QED
        BY <2>1, <3>1, Zenon
    <2>4. QED
      BY <2>1, <2>2, <2>3, Zenon
  <1>5. s[1] \in Range(s)
    BY <1>1, ListSet, SMTT(30)
  <1>6. Range(s) = Range(r) \cup {s[1]}
    <2>1. \A x : x \in Range(s) => x \in Range(r) \cup {s[1]}
      <3>1. \A x : x \in Range(s) => \E i \in 1 .. Len(s) : s[i] = x
        BY ListSet, Zenon
      <3>2. \A i \in 1 .. Len(r) : r[i] \in Range(r)
        BY <1>4, ListSet, Zenon
      <3>3. QED
        BY <1>4, <3>1, <3>2, SMTT(30)
    <2>2. \A x : x \in Range(r) => x \in Range(s)
      <3>1. \A x : x \in Range(r) => \E i \in 1 .. Len(r) : r[i] = x
        BY <1>4, ListSet, Zenon
      <3>2. \A i \in 1 .. Len(s) : s[i] \in Range(s)
        BY ListSet, Zenon
      <3>3. QED
        BY <1>4, <3>1, <3>2, SMTT(30)
    <2>3. QED
      BY <1>5, <2>1, <2>2, Zenon
  <1>7. ASSUME IsInjective(s)
        PROVE  IsInjective(r) /\ s[1] \notin Range(r)
    <2>1. \A i, j \in 1 .. Len(s) : s[i] = s[j] => i = j
      BY <1>7, ListSet, Zenon
    <2>2. \A i, j \in 1 .. Len(r) : r[i] = r[j] => i = j
      BY <1>1, <1>4, <2>1, SMTT(30)
    <2>3. \A i \in 1 .. Len(r) : r[i] # s[1]
      BY <1>1, <1>4, <2>1, SMTT(30)
    <2>4. QED
      BY <1>4, <2>2, <2>3, ListSet, Zenon
  <1>8. QED
    BY <1>1, <1>2, <1>3, <1>5, <1>6, <1>7, Zenon

\* PlaceOf finds an element of a list without repetition.
LEMMA PlaceList ==
    ASSUME NEW S, NEW s \in Seq(S), NEW x \in Range(s), IsInjective(s)
    PROVE  PlaceOf(s, x) \in 1 .. Len(s) /\ s[PlaceOf(s, x)] = x
  <1>1. DOMAIN s = 1 .. Len(s) /\ Len(s) \in Nat
    OBVIOUS
  <1>2. PICK k \in 1 .. Len(s) : s[k] = x
    BY ListSet, Zenon
  <1>3. \A m \in 1 .. k - 1 : s[m] # x
    <2>1. \A m \in 1 .. k - 1 : m \in 1 .. Len(s) /\ m # k
      BY <1>1, <1>2
    <2>2. \A i, j \in 1 .. Len(s) : s[i] = s[j] => i = j
      BY ListSet, Zenon
    <2>3. QED
      BY <1>2, <2>1, <2>2, Zenon
  <1>4. QED
    BY <1>1, <1>2, <1>3, Zenon DEF PlaceOf
=============================================================================
