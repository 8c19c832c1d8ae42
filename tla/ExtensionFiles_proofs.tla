---------------------------- MODULE ExtensionFiles_proofs ---------------------------
(***************************************************************************)
(* Proofs about the files of extensions: listing and reading them          *)
(* (ExtensionListing), unpacking them (TempFiles), and loading the         *)
(* libraries among them (LibraryStore).                                    *)
(***************************************************************************)
EXTENDS TempFiles, ExtensionListing, LibraryStore, NumberInduction, SequenceTheorems

-----------------------------------------------------------------------------
(* Paths, for any names that are parts of paths: the parts that a path       *)
(* begins with, and the longest of some paths.                               *)

Part == STRING

\* The first k parts of a path.
LEMMA Cut ==
  ASSUME NEW p \in Seq(Part), NEW k \in 0..Len(p)
  PROVE  /\ SubSeq(p, 1, k) \in Seq(Part) /\ Len(SubSeq(p, 1, k)) = k
         /\ \A n \in 1..k : SubSeq(p, 1, k)[n] = p[n]
<1>1. 1 \in Int /\ k \in Int /\ Len(p) \in Nat /\ k - 1 + 1 = k
  OBVIOUS
<1>2. \A n \in 1..k : p[n] \in Part
  BY ElementOfSeq
<1>3. /\ SubSeq(p, 1, k) \in Seq(Part)
      /\ Len(SubSeq(p, 1, k)) = IF 1 <= k THEN k - 1 + 1 ELSE 0
      /\ \A n \in 1..(k - 1 + 1) : SubSeq(p, 1, k)[n] = p[1 + n - 1]
  BY <1>1, <1>2, SubSeqProperties
<1>4. Len(SubSeq(p, 1, k)) = k
  BY <1>1, <1>3
<1>5. \A n \in 1..k : SubSeq(p, 1, k)[n] = p[n]
  <2> TAKE n \in 1..k
  <2>1. 1 + n - 1 = n
    OBVIOUS
  <2> QED
    BY <1>1, <1>3, <2>1
<1> QED
  BY <1>3, <1>4, <1>5

LEMMA CutTwice ==
  ASSUME NEW p \in Seq(Part), NEW k \in 0..Len(p), NEW j \in 0..k
  PROVE  SubSeq(SubSeq(p, 1, k), 1, j) = SubSeq(p, 1, j)
<1> DEFINE c == SubSeq(p, 1, k)
<1>1. c \in Seq(Part) /\ Len(c) = k /\ \A n \in 1..k : c[n] = p[n]
  BY Cut
<1> HIDE DEF c
<1>2. j \in 0..Len(c) /\ j \in 0..Len(p)
  BY <1>1
<1>3. SubSeq(c, 1, j) \in Seq(Part) /\ Len(SubSeq(c, 1, j)) = j /\ \A n \in 1..j : SubSeq(c, 1, j)[n] = c[n]
  BY <1>1, <1>2, Cut
<1>4. SubSeq(p, 1, j) \in Seq(Part) /\ Len(SubSeq(p, 1, j)) = j /\ \A n \in 1..j : SubSeq(p, 1, j)[n] = p[n]
  BY <1>2, Cut
<1>5. \A n \in 1..j : SubSeq(c, 1, j)[n] = SubSeq(p, 1, j)[n]
  BY <1>1, <1>3, <1>4
<1>6. SubSeq(c, 1, j) = SubSeq(p, 1, j)
  BY <1>3, <1>4, <1>5, SeqEqual
<1> QED
  BY <1>6 DEF c

LEMMA CutAll ==
  ASSUME NEW p \in Seq(Part)
  PROVE  SubSeq(p, 1, Len(p)) = p
BY SubSeqFull

LEMMA PrefixIsCut ==
  ASSUME NEW q \in Seq(Part), NEW p \in Seq(Part)
  PROVE  /\ IsPrefix(q, p) <=> Len(q) <= Len(p) /\ q = SubSeq(p, 1, Len(q))
         /\ IsStrictPrefix(q, p) <=> Len(q) < Len(p) /\ q = SubSeq(p, 1, Len(q))
<1>1. SubSeq(q, 1, Len(q)) = q /\ SubSeq(p, 1, Len(p)) = p
  BY CutAll
<1>2. Len(q) \in Nat /\ Len(p) \in Nat
  OBVIOUS
<1>3. IsPrefix(q, p) <=> Len(q) <= Len(p) /\ q = SubSeq(p, 1, Len(q))
  BY <1>1 DEF IsPrefix
<1>4. ASSUME IsPrefix(q, p) PROVE q # p <=> Len(q) < Len(p)
  BY <1>1, <1>2, <1>3, <1>4
<1> QED
  BY <1>2, <1>3, <1>4 DEF IsStrictPrefix

LEMMA PlaceIs ==
  ASSUME NEW p \in Place
  PROVE  /\ p \in Seq(Part) /\ Len(p) \in Nat \ {0} /\ p # <<>>
         /\ Front(p) = SubSeq(p, 1, Len(p) - 1)
         /\ Front(p) \in Place \cup {<<>>}
<1>1. Place \subseteq Seq(Part) /\ Len(p) > 0 /\ Front(p) \in Place \cup {<<>>}
  BY ListingAssumption DEF Part
<1>2. p \in Seq(Part) /\ Len(p) \in Nat
  BY <1>1
<1> QED
  BY <1>1, <1>2 DEF Front

-----------------------------------------------------------------------------
\* A tree has the directories that its files and directories are in.
LEMMA Ancestors ==
  ASSUME NEW t, IsTree(t), NEW p \in Place, t[p] # "nothing", NEW k \in 0..(Len(p) - 1)
  PROVE  SubSeq(p, 1, k) \in Dirs(t)
<1> DEFINE n == Len(p)
           S == {j \in 0..(n - 1) : SubSeq(p, 1, n - 1 - j) \in Dirs(t)}
<1>1. p \in Seq(Part) /\ n \in Nat \ {0} /\ Front(p) = SubSeq(p, 1, n - 1)
  BY PlaceIs
<1> HIDE DEF n
<1>2. 0 \in S
  <2>1. Front(p) \in Dirs(t)
    BY DEF IsTree
  <2>2. 0 \in 0..(n - 1) /\ n - 1 - 0 = n - 1
    BY <1>1
  <2> QED
    BY <1>1, <2>1, <2>2
<1>3. \A j \in Nat : 0 <= j /\ j < n - 1 /\ j \in S => j + 1 \in S
  <2> TAKE j \in Nat
  <2> HAVE 0 <= j /\ j < n - 1 /\ j \in S
  <2> DEFINE m == n - 1 - j
             d == SubSeq(p, 1, m)
  <2>1. m \in 1..n /\ m - 1 = n - 1 - (j + 1) /\ m - 1 \in 0..m /\ j + 1 \in 0..(n - 1)
    BY <1>1
  <2>2. d \in Dirs(t)
    OBVIOUS
  <2> HIDE DEF m
  <2>3. d \in Seq(Part) /\ Len(d) = m /\ SubSeq(d, 1, m - 1) = SubSeq(p, 1, m - 1)
    <3>1. m \in 0..Len(p)
      BY <1>1, <2>1 DEF n
    <3> QED
      BY <1>1, <2>1, <3>1, Cut, CutTwice
  <2> HIDE DEF d
  <2>4. d # <<>>
    BY <2>1, <2>3
  <2>5. d \in Place /\ t[d] = "directory"
    BY <2>2, <2>4 DEF Dirs
  <2>6. Front(d) = SubSeq(d, 1, m - 1) /\ Front(d) \in Dirs(t)
    BY <2>3, <2>5, PlaceIs DEF IsTree
  <2> QED
    BY <2>1, <2>3, <2>6
<1>4. \A j \in 0..(n - 1) : j \in S
  <2>1. 0 \in Nat /\ n - 1 \in Nat
    BY <1>1
  <2> HIDE DEF S
  <2> QED
    BY <1>2, <1>3, <2>1, UpTo
<1>5. n - 1 - k \in 0..(n - 1) /\ n - 1 - (n - 1 - k) = k
  BY <1>1 DEF n
<1>6. n - 1 - k \in S
  BY <1>4, <1>5
<1> QED
  BY <1>5, <1>6

\* There is a longest path.
LEMMA LongestPlace == \E m \in Nat : \A p \in Place : Len(p) <= m
<1>1. PICK all \in Seq(Place) : \A p \in Place : \E i \in 1..Len(all) : all[i] = p
  BY ListingAssumption DEF IsFiniteSet
<1> DEFINE n == Len(all)
           S == {k \in 0..n : \E m \in Nat : \A i \in 1..k : Len(all[i]) <= m}
<1>2. n \in Nat /\ \A i \in 1..n : Len(all[i]) \in Nat
  <2>1. \A i \in 1..n : all[i] \in Place
    BY ElementOfSeq
  <2> QED
    BY <2>1, PlaceIs
<1> HIDE DEF n
<1>3. 0 \in S
  BY <1>2
<1>4. \A k \in Nat : 0 <= k /\ k < n /\ k \in S => k + 1 \in S
  <2> TAKE k \in Nat
  <2> HAVE 0 <= k /\ k < n /\ k \in S
  <2>1. PICK m \in Nat : \A i \in 1..k : Len(all[i]) <= m
    OBVIOUS
  <2> DEFINE l == Len(all[k + 1])
             m1 == IF l <= m THEN m ELSE l
  <2>2. k + 1 \in 0..n /\ k + 1 \in 1..n /\ l \in Nat
    BY <1>2
  <2>3. m1 \in Nat /\ m <= m1 /\ l <= m1
    BY <2>2
  <2>4. \A i \in 1..(k + 1) : Len(all[i]) <= m1
    <3> TAKE i \in 1..(k + 1)
    <3> HIDE DEF m1, l
    <3>1. CASE i = k + 1
      BY <2>3, <3>1 DEF l
    <3>2. CASE i # k + 1
      <4>1. i \in 1..k /\ i \in 1..n
        <5>1. i \in 1..(k + 1) /\ n \in Nat /\ k + 1 <= n
          BY <1>2, <2>2
        <5> HIDE DEF S
        <5> QED
          BY <3>2, <5>1
      <4>2. Len(all[i]) \in Nat /\ Len(all[i]) <= m
        BY <1>2, <2>1, <4>1
      <4> QED
        BY <2>3, <4>2
    <3> QED
      BY <3>1, <3>2
  <2> HIDE DEF m1
  <2> QED
    BY <2>2, <2>3, <2>4
<1>5. n \in S
  <2> HIDE DEF S
  <2>1. \A k \in 0..n : k \in S
    BY <1>2, <1>3, <1>4, UpTo
  <2>2. n \in 0..n
    BY <1>2
  <2> QED
    BY <2>1, <2>2
<1>6. PICK m \in Nat : \A i \in 1..n : Len(all[i]) <= m
  BY <1>5
<1> QED
  BY <1>1, <1>6 DEF n

\* Of some places, one is the longest.
LEMMA LongestOf ==
  ASSUME NEW X, X \subseteq Place, X # {}
  PROVE  \E e \in X : \A p \in X : Len(p) <= Len(e)
<1>1. PICK m \in Nat : \A p \in Place : Len(p) <= m
  BY LongestPlace
<1>2. \A p \in X : Len(p) \in Nat /\ Len(p) <= m
  BY <1>1, PlaceIs
<1> DEFINE S == {k \in 0..m : \E p \in X : k = m - Len(p)}
<1>3. S \subseteq Nat /\ S # {}
  <2>1. PICK p \in X : TRUE
    OBVIOUS
  <2>2. m - Len(p) \in 0..m
    BY <1>2
  <2>3. m - Len(p) \in S
    BY <2>2
  <2>4. \A k \in S : k \in 0..m
    OBVIOUS
  <2>5. \A k \in 0..m : k \in Nat
    BY <1>1
  <2> HIDE DEF S
  <2> QED
    BY <2>3, <2>4, <2>5
<1>4. PICK k \in S : \A j \in S : k <= j
  <2> HIDE DEF S
  <2> QED
    BY <1>3, LeastNumber
<1>5. PICK e \in X : k = m - Len(e)
  BY <1>4
<1>6. ASSUME NEW p \in X PROVE Len(p) <= Len(e)
  <2>1. m - Len(p) \in S
    BY <1>2
  <2>2. k <= m - Len(p)
    BY <1>4, <2>1
  <2>3. m - Len(e) <= m - Len(p) /\ Len(e) \in Nat /\ Len(p) \in Nat
    BY <1>2, <1>5, <2>2
  <2> QED
    BY <2>3
<1> QED
  BY <1>6

\* A directory has an entry of its own, or one somewhere below it.
LEMMA HasEntry ==
  ASSUME NEW t, NEW E \in Packed(t), NEW d \in Dirs(t) \ {<<>>}
  PROVE  \E e \in E : IsPrefix(d, e)
<1> DEFINE there == Files(t) \cup (Dirs(t) \ {<<>>})
           X == {p \in there : IsPrefix(d, p)}
<1>1. there \subseteq Place /\ d \in Place /\ d \in Seq(Part)
  BY PlaceIs DEF Files, Dirs
<1>2. d \in X
  BY <1>1, PrefixIsCut, CutAll
<1>3. X \subseteq Place /\ X # {}
  BY <1>1, <1>2
<1>4. PICK e \in X : \A p \in X : Len(p) <= Len(e)
  <2> HIDE DEF X
  <2> QED
    BY <1>3, LongestOf
<1>5. SUFFICES ASSUME e \notin E PROVE FALSE
  BY <1>4
<1>6. /\ E \in SUBSET there /\ Files(t) \subseteq E
      /\ \A c \in Dirs(t) \ {<<>>} : c \in E \/ \E p \in Files(t) \cup Dirs(t) : InDir(p, c)
  BY DEF Packed
<1>7. PICK p \in Files(t) \cup Dirs(t) : p # <<>> /\ Front(p) = e
  BY <1>4, <1>5, <1>6 DEF InDir
<1>8. p \in there /\ p \in Place
  BY <1>1, <1>7
<1>9. p \in Seq(Part) /\ Len(p) \in Nat \ {0} /\ e = SubSeq(p, 1, Len(p) - 1)
  BY <1>7, <1>8, PlaceIs
<1>10. e \in Seq(Part) /\ Len(e) = Len(p) - 1
  <2>1. Len(p) - 1 \in 0..Len(p)
    BY <1>9
  <2> QED
    BY <1>9, <2>1, Cut
<1>11. IsPrefix(d, p)
  <2>1. IsPrefix(d, e)
    BY <1>4
  <2>2. Len(d) <= Len(e) /\ d = SubSeq(e, 1, Len(d)) /\ Len(d) \in Nat
    BY <1>1, <1>10, <2>1, PrefixIsCut
  <2>3. Len(p) - 1 \in 0..Len(p) /\ Len(d) \in 0..(Len(p) - 1) /\ Len(d) <= Len(p)
    BY <1>9, <1>10, <2>2
  <2>4. SubSeq(e, 1, Len(d)) = SubSeq(p, 1, Len(d))
    BY <1>9, <2>3, CutTwice
  <2> QED
    BY <1>1, <1>9, <2>2, <2>3, <2>4, PrefixIsCut
<1>12. Len(p) <= Len(e)
  BY <1>4, <1>8, <1>11
<1> QED
  BY <1>9, <1>10, <1>12

-----------------------------------------------------------------------------
\* What the entries visited so far show of a directory.
Shown(V, t, q) ==
  [exists |-> q.path = <<>> \/ \E e \in V :
                IsStrictPrefix(q.path, e) \/ (t[e] = "directory" /\ e = q.path),
   paths |->
     {c \in Place : \E e \in V :
        /\ IsStrictPrefix(q.path, e)
        /\ c = SubSeq(e, 1, Len(q.path) + 1)
        /\ q.directories = (t[e] = "directory" \/ e # c)}]

Children(t, q) ==
  {p \in Place : InDir(p, q.path) /\ t[p] = IF q.directories THEN "directory" ELSE "file"}

Query == [path : Seq(Part), directories : BOOLEAN]

LEMMA ShownExists ==
  ASSUME NEW t, IsTree(t), NEW E \in Packed(t), NEW q \in Query
  PROVE  Shown(E, t, q).exists <=> q.path \in Dirs(t)
<1> DEFINE d == q.path
<1>1. d \in Seq(Part) /\ Len(d) \in Nat
  BY DEF Query
<1>2. E \subseteq Files(t) \cup (Dirs(t) \ {<<>>})
  BY DEF Packed
<1>3. Shown(E, t, q).exists <=> d = <<>> \/ \E e \in E : IsStrictPrefix(d, e) \/ (t[e] = "directory" /\ e = d)
  BY DEF Shown
<1> HIDE DEF d
<1>4. ASSUME NEW e \in E PROVE e \in Place /\ e \in Seq(Part) /\ t[e] # "nothing"
  <2>1. e \in Place /\ t[e] # "nothing"
    BY <1>2 DEF Files, Dirs
  <2> QED
    BY <2>1, PlaceIs
<1>5. <<>> \in Dirs(t)
  BY DEF Dirs
<1>6. ASSUME NEW e \in E, IsStrictPrefix(d, e) PROVE d \in Dirs(t)
  <2>1. Len(d) < Len(e) /\ d = SubSeq(e, 1, Len(d)) /\ Len(e) \in Nat
    BY <1>1, <1>4, <1>6, PrefixIsCut
  <2>2. Len(d) \in 0..(Len(e) - 1)
    BY <1>1, <2>1
  <2> QED
    BY <1>4, <2>1, <2>2, Ancestors
<1>7. ASSUME NEW e \in E, t[e] = "directory", e = d PROVE d \in Dirs(t)
  BY <1>4, <1>7 DEF Dirs
<1>8. ASSUME d \in Dirs(t), d # <<>>
      PROVE  \E e \in E : IsStrictPrefix(d, e) \/ (t[e] = "directory" /\ e = d)
  <2>1. PICK e \in E : IsPrefix(d, e)
    BY <1>8, HasEntry
  <2> QED
    BY <1>8, <2>1 DEF IsStrictPrefix, Dirs
<1> QED
  BY <1>3, <1>5, <1>6, <1>7, <1>8 DEF d

LEMMA ShownPaths ==
  ASSUME NEW t, IsTree(t), NEW E \in Packed(t), NEW q \in Query
  PROVE  Shown(E, t, q).paths = Children(t, q)
<1> DEFINE d == q.path
           m == Len(d) + 1
<1>1. d \in Seq(Part) /\ Len(d) \in Nat /\ m \in Nat /\ m - 1 = Len(d) /\ q.directories \in BOOLEAN
  BY DEF Query
<1>2. E \subseteq Files(t) \cup (Dirs(t) \ {<<>>}) /\ Files(t) \subseteq E
  BY DEF Packed
<1>3. Shown(E, t, q).paths =
        {c \in Place : \E e \in E : /\ IsStrictPrefix(d, e) /\ c = SubSeq(e, 1, m)
                                  /\ q.directories = (t[e] = "directory" \/ e # c)}
  BY DEF Shown
<1>4. Children(t, q) = {p \in Place : InDir(p, d) /\ t[p] = IF q.directories THEN "directory" ELSE "file"}
  BY DEF Children
<1>5. ASSUME NEW e \in E
      PROVE  e \in Place /\ e \in Seq(Part) /\ Len(e) \in Nat /\ (t[e] = "directory" \/ t[e] = "file")
  <2>1. e \in Place /\ (t[e] = "directory" \/ t[e] = "file")
    BY <1>2 DEF Files, Dirs
  <2> QED
    BY <2>1, PlaceIs
<1> HIDE DEF d, m
<1>6. ASSUME NEW c \in Place, NEW e \in E, IsStrictPrefix(d, e), c = SubSeq(e, 1, m),
             q.directories = (t[e] = "directory" \/ e # c)
      PROVE  InDir(c, d) /\ t[c] = IF q.directories THEN "directory" ELSE "file"
  <2>1. e \in Place /\ e \in Seq(Part) /\ Len(e) \in Nat /\ (t[e] = "directory" \/ t[e] = "file")
    BY <1>5
  <2>2. Len(d) < Len(e) /\ d = SubSeq(e, 1, Len(d))
    BY <1>1, <1>6, <2>1, PrefixIsCut
  <2>3. m \in 0..Len(e) /\ m - 1 \in 0..m
    BY <1>1, <2>1, <2>2
  <2>4. c \in Seq(Part) /\ Len(c) = m /\ SubSeq(c, 1, m - 1) = SubSeq(e, 1, m - 1)
    BY <1>6, <2>1, <2>3, Cut, CutTwice
  <2>5. c # <<>> /\ Front(c) = d
    <3>1. Front(c) = SubSeq(c, 1, m - 1) /\ c # <<>>
      BY <2>4, PlaceIs
    <3> QED
      BY <1>1, <2>2, <2>4, <3>1
  <2>6. t[c] = IF q.directories THEN "directory" ELSE "file"
    <3>1. CASE e = c
      BY <1>6, <2>1, <3>1
    <3>2. CASE e # c
      <4>1. m # Len(e)
        BY <1>6, <2>1, <3>2, CutAll
      <4>2. m \in 0..(Len(e) - 1)
        BY <2>1, <2>3, <4>1
      <4>3. c \in Dirs(t)
        BY <1>6, <2>1, <4>2, Ancestors
      <4>4. t[c] = "directory"
        BY <2>5, <4>3 DEF Dirs
      <4> QED
        BY <1>6, <3>2, <4>4
    <3> QED
      BY <3>1, <3>2
  <2> QED
    BY <2>5, <2>6 DEF InDir
<1>7. ASSUME NEW p \in Place, InDir(p, d), t[p] = IF q.directories THEN "directory" ELSE "file"
      PROVE  \E e \in E : /\ IsStrictPrefix(d, e) /\ p = SubSeq(e, 1, m)
                         /\ q.directories = (t[e] = "directory" \/ e # p)
  <2>1. /\ p \in Seq(Part) /\ Len(p) \in Nat \ {0} /\ p # <<>>
        /\ d = SubSeq(p, 1, Len(p) - 1)
    BY <1>7, PlaceIs DEF InDir
  <2>2. Len(d) = Len(p) - 1 /\ Len(p) = m
    <3>1. Len(p) - 1 \in 0..Len(p)
      BY <2>1
    <3>2. Len(d) = Len(p) - 1
      BY <2>1, <3>1, Cut
    <3> QED
      BY <2>1, <3>2 DEF m
  <2>3. ASSUME NEW e \in E, IsPrefix(p, e) PROVE IsStrictPrefix(d, e) /\ p = SubSeq(e, 1, m)
    <3>1. e \in Seq(Part) /\ Len(e) \in Nat
      BY <1>5
    <3>2. Len(p) <= Len(e) /\ p = SubSeq(e, 1, Len(p))
      BY <2>1, <2>3, <3>1, PrefixIsCut
    <3>3. m \in 0..Len(e) /\ m - 1 \in 0..m /\ Len(d) < Len(e) /\ m - 1 = Len(d)
      BY <1>1, <2>1, <2>2, <3>1, <3>2
    <3>4. SubSeq(SubSeq(e, 1, m), 1, m - 1) = SubSeq(e, 1, m - 1)
      BY <3>1, <3>3, CutTwice
    <3>5. d = SubSeq(e, 1, Len(d))
      BY <2>1, <2>2, <3>2, <3>3, <3>4
    <3> QED
      BY <1>1, <2>2, <3>1, <3>2, <3>3, <3>5, PrefixIsCut
  <2>4. CASE q.directories
    <3>1. p \in Dirs(t) \ {<<>>}
      BY <1>7, <2>1, <2>4 DEF Dirs
    <3>2. PICK e \in E : IsPrefix(p, e)
      BY <3>1, HasEntry
    <3>3. t[e] = "directory" \/ e # p
      BY <1>7, <2>4
    <3> QED
      BY <2>3, <2>4, <3>2, <3>3
  <2>5. CASE ~q.directories
    <3>1. p \in E /\ t[p] = "file"
      BY <1>2, <1>7, <2>5 DEF Files
    <3>2. IsPrefix(p, p)
      BY <2>1, PrefixIsCut, CutAll
    <3> QED
      BY <1>1, <2>3, <2>5, <3>1, <3>2
  <2> QED
    BY <2>4, <2>5
<1> QED
  BY <1>3, <1>4, <1>6, <1>7

LEMMA ChildIsPlace ==
  ASSUME NEW t, IsTree(t), NEW e \in Place, t[e] # "nothing", NEW d \in Seq(Part), IsStrictPrefix(d, e)
  PROVE  SubSeq(e, 1, Len(d) + 1) \in Place
<1> DEFINE m == Len(d) + 1
<1>1. e \in Seq(Part) /\ Len(e) \in Nat /\ Len(d) \in Nat /\ Len(d) < Len(e)
  BY PlaceIs, PrefixIsCut
<1>2. m \in Nat /\ m >= 1 /\ m <= Len(e)
  BY <1>1
<1> HIDE DEF m
<1>3. CASE m = Len(e)
  BY <1>1, <1>3, CutAll DEF m
<1>4. CASE m # Len(e)
  <2>1. m \in 0..(Len(e) - 1) /\ m \in 0..Len(e)
    BY <1>1, <1>2, <1>4
  <2>2. SubSeq(e, 1, m) \in Dirs(t) /\ Len(SubSeq(e, 1, m)) = m
    BY <1>1, <2>1, Ancestors, Cut
  <2>3. SubSeq(e, 1, m) # <<>>
    BY <1>2, <2>2
  <2> QED
    BY <2>2, <2>3 DEF Dirs, m
<1> QED
  BY <1>3, <1>4

\* Visiting one more entry shows what that entry shows.
LEMMA AddShows ==
  ASSUME NEW t, IsTree(t), NEW V, NEW e \in Place, t[e] # "nothing", NEW q \in Query, NEW c,
         c.exists <=> Shown(V, t, q).exists, c.paths = Shown(V, t, q).paths
  PROVE  LET new == Add(c, q, e, t[e] = "directory")
         IN  (new.exists <=> Shown(V \cup {e}, t, q).exists) /\ new.paths = Shown(V \cup {e}, t, q).paths
<1> DEFINE new   == Add(c, q, e, t[e] = "directory")
           child == SubSeq(e, 1, Len(q.path) + 1)
           shows(x, k) == /\ IsStrictPrefix(q.path, x) /\ k = SubSeq(x, 1, Len(q.path) + 1)
                          /\ q.directories = (t[x] = "directory" \/ x # k)
<1>1. new.exists <=> c.exists \/ IsStrictPrefix(q.path, e) \/ (t[e] = "directory" /\ e = q.path)
  BY DEF Add
<1>2. new.paths = c.paths \cup
        IF IsStrictPrefix(q.path, e) /\ q.directories = (t[e] = "directory" \/ e # child) THEN {child} ELSE {}
  BY DEF Add
<1>3. \A W : Shown(W, t, q).exists <=>
        q.path = <<>> \/ \E x \in W : IsStrictPrefix(q.path, x) \/ (t[x] = "directory" /\ x = q.path)
  BY DEF Shown
<1>4. \A W : Shown(W, t, q).paths = {k \in Place : \E x \in W : shows(x, k)}
  BY DEF Shown
<1>5. IsStrictPrefix(q.path, e) => child \in Place
  BY ChildIsPlace DEF Query
<1>6. new.exists <=> Shown(V \cup {e}, t, q).exists
  BY <1>1, <1>3
<1>7. ASSUME NEW k PROVE k \in new.paths <=> k \in Shown(V \cup {e}, t, q).paths
  <2>1. k \in new.paths <=> k \in Shown(V, t, q).paths \/ shows(e, k)
    BY <1>2
  <2>2. shows(e, k) => k \in Place
    BY <1>5
  <2> HIDE DEF shows
  <2> QED
    BY <1>4, <2>1, <2>2
<1> QED
  BY <1>6, <1>7

LEMMA NothingShown ==
  ASSUME NEW t, NEW q \in Query
  PROVE  (Shown({}, t, q).exists <=> q.path = <<>>) /\ Shown({}, t, q).paths = {}
BY DEF Shown

-----------------------------------------------------------------------------
\* relativePath returns a path.
LEMMA RelativePathIsPath ==
  ASSUME NEW path \in Seq(Part)
  PROVE  RelativePath(path) \in Seq(Part)
<1> DEFINE V == Seq(Part)
           n == Len(path)
           skips == {"", "."}
           step == [x \in V \X Part |-> IF x[2] \in skips THEN x[1] ELSE Append(x[1], x[2])]
           Def(g) == [i \in 0..n |-> IF i = 0 THEN <<>>
                                     ELSE IF path[i] \in skips THEN g[i - 1] ELSE Append(g[i - 1], path[i])]
<1> HIDE DEF skips
<1>1. n \in Nat /\ \A i \in 1..n : path[i] \in Part
  BY ElementOfSeq
<1>2. step \in [V \X Part -> V] /\ <<>> \in V
  BY EmptySeq, AppendProperties
<1> HIDE DEF V, n, step
<1>3. FoldsOf(V, <<>>, step, path) # {}
  BY <1>2, FoldExists
<1>4. PICK f \in [0..n -> V] : f[0] = <<>> /\ \A i \in 1..n : f[i] = step[<<f[i - 1], path[i]>>]
  BY <1>3 DEF FoldsOf, n
<1>5. \A i \in 1..n : f[i] = IF path[i] \in skips THEN f[i - 1] ELSE Append(f[i - 1], path[i])
  <2> TAKE i \in 1..n
  <2>1. i - 1 \in 0..n
    BY <1>1
  <2>2. f[i - 1] \in V /\ path[i] \in Part
    BY <1>1, <1>4, <2>1
  <2>3. step[<<f[i - 1], path[i]>>] = IF path[i] \in skips THEN f[i - 1] ELSE Append(f[i - 1], path[i])
    BY <2>2 DEF step
  <2> QED
    BY <1>4, <2>3
<1>6. f = Def(f)
  <2> DEFINE h == Def(f)
  <2>1. f = [i \in 0..n |-> f[i]]
    BY <1>4
  <2>2. ASSUME NEW i \in 0..n PROVE f[i] = h[i]
    <3>1. i # 0 => i \in 1..n
      BY <1>1
    <3>2. h[i] = IF i = 0 THEN <<>> ELSE IF path[i] \in skips THEN f[i - 1] ELSE Append(f[i - 1], path[i])
      OBVIOUS
    <3> QED
      BY <1>4, <1>5, <3>1, <3>2
  <2>3. h = [i \in 0..n |-> h[i]]
    OBVIOUS
  <2> HIDE DEF h
  <2>4. [i \in 0..n |-> f[i]] = [i \in 0..n |-> h[i]]
    BY <2>2
  <2>5. f = h
    BY <2>1, <2>3, <2>4
  <2> QED
    BY <2>5 DEF h
<1> DEFINE g == CHOOSE g : g = Def(g)
<1>7. g = Def(g)
  <2> HIDE DEF Def
  <2> QED
    BY <1>6
<1>8. RelativePath(path) = g[n]
  BY DEF RelativePath, n, skips
<1> HIDE DEF g
<1> DEFINE S == {i \in 0..n : g[i] \in V}
<1>9. 0 \in S
  <2>1. 0 \in 0..n /\ g[0] = <<>>
    BY <1>1, <1>7
  <2> QED
    BY <1>2, <2>1
<1>10. \A i \in Nat : 0 <= i /\ i < n /\ i \in S => i + 1 \in S
  <2> TAKE i \in Nat
  <2> HAVE 0 <= i /\ i < n /\ i \in S
  <2>1. i + 1 \in 0..n /\ i + 1 \in 1..n /\ i + 1 # 0 /\ (i + 1) - 1 = i /\ g[i] \in V
    BY <1>1
  <2>2. g[i + 1] = IF path[i + 1] \in skips THEN g[i] ELSE Append(g[i], path[i + 1])
    BY <1>7, <2>1
  <2>3. path[i + 1] \in Part
    BY <1>1, <2>1
  <2>4. Append(g[i], path[i + 1]) \in V
    BY <2>1, <2>3, AppendProperties DEF V
  <2> QED
    BY <2>1, <2>2, <2>4
<1>11. n \in S
  <2> HIDE DEF S
  <2>1. \A i \in 0..n : i \in S
    BY <1>1, <1>9, <1>10, UpTo
  <2>2. n \in 0..n
    BY <1>1
  <2> QED
    BY <2>1, <2>2
<1> QED
  BY <1>8, <1>11 DEF V
-----------------------------------------------------------------------------
\* The invariant.  An archive lists what its entries that were visited show, a folder
\* lists what is in it; the one entry that can be open is open while it is visited or
\* read, and nothing is answered before.
ListingTypeOK ==
  /\ IsTree(tree)
  /\ handle \in {"zip", "folder"}
  /\ handle = "zip" => entries \in Packed(tree)
  /\ handle = "folder" => entries = {}
  /\ rest \subseteq entries
  /\ query \in Query
  /\ read.size \in Nat

Listed ==
  outcome = "listing" =>
    /\ entry # NoEntry => entry \in rest
    /\ handle = "zip" => /\ children.exists <=> Shown(entries \ rest, tree, query).exists
                         /\ children.paths = Shown(entries \ rest, tree, query).paths
    /\ handle = "folder" => children = Folder(query)

Opened ==
  /\ outcome \notin {"listing", "reading"} => entry = NoEntry
  /\ outcome = "reading" => handle = "zip" /\ entry \in entries /\ EntryName(entry) = query.path
  /\ outcome \in {"idle", "listing", "reading", "failed"} => answer = -1

ListingInv == ListingTypeOK /\ Listed /\ Opened /\ ListsTheTree /\ ReadsTheFile

LEMMA EntryIsThere ==
  ASSUME ListingTypeOK, NEW e \in entries
  PROVE  handle = "zip" /\ e \in Place /\ e # NoEntry /\ tree[e] # "nothing"
<1>1. handle = "zip" /\ entries \in Packed(tree)
  BY DEF ListingTypeOK
<1>2. entries \subseteq Files(tree) \cup (Dirs(tree) \ {<<>>})
  BY <1>1 DEF Packed
<1> QED
  BY <1>1, <1>2, ListingAssumption DEF Files, Dirs

LEMMA ListingInitOK == ListingInit => ListingInv
<1> HAVE ListingInit
<1>1. <<>> \in Seq(Part)
  BY EmptySeq
<1>2. query \in Query
  BY <1>1 DEF ListingInit, Query
<1>3. ListingTypeOK
  BY <1>2 DEF ListingInit, ListingTypeOK, Nothing
<1>4. outcome = "idle" /\ entry = NoEntry /\ answer = -1
  BY DEF ListingInit
<1>5. Listed /\ Opened /\ ListsTheTree /\ ReadsTheFile
  BY <1>4 DEF Listed, Opened, ListsTheTree, ReadsTheFile
<1> QED
  BY <1>3, <1>5 DEF ListingInv

LEMMA ListOK ==
  ASSUME ListingInv, NEW path \in Asked, NEW directories \in BOOLEAN, List(path, directories)
  PROVE  ListingInv'
<1>1. outcome = "idle" /\ ListingTypeOK /\ entry = NoEntry /\ answer = -1
  BY DEF List, ListingInv, Opened
<1>2. query'.path = RelativePath(path) /\ query'.directories = directories
  BY DEF List
<1>3. query' \in Query
  <2>1. path \in Seq(Part)
    BY ListingAssumption DEF Part
  <2>2. RelativePath(path) \in Seq(Part)
    BY <2>1, RelativePathIsPath
  <2> QED
    BY <2>2 DEF List, Query
<1>4. tree' = tree /\ handle' = handle /\ entries' = entries /\ read' = read /\ answer' = answer /\ entry' = entry
  BY DEF List, content, reading
<1>5. CASE Invalid(path)
  <2>1. outcome' = "invalid" /\ rest' = rest
    BY <1>5 DEF List
  <2>2. ListingTypeOK'
    BY <1>1, <1>3, <1>4, <2>1 DEF ListingTypeOK
  <2>3. Listed' /\ Opened' /\ ReadsTheFile'
    BY <1>1, <1>4, <2>1 DEF Listed, Opened, ReadsTheFile
  <2>4. ListsTheTree'
    BY <1>2, <1>5, <2>1 DEF ListsTheTree
  <2> QED
    BY <2>2, <2>3, <2>4 DEF ListingInv
<1>6. CASE ~Invalid(path)
  <2>1. /\ outcome' = "listing" /\ rest' = entries
        /\ children' = IF handle = "folder" THEN Folder(query') ELSE [exists |-> query'.path = <<>>, paths |-> {}]
    BY <1>6 DEF List
  <2>2. ListingTypeOK'
    BY <1>1, <1>3, <1>4, <2>1 DEF ListingTypeOK
  <2>3. ListsTheTree' /\ ReadsTheFile' /\ Opened'
    BY <1>1, <1>4, <2>1 DEF ListsTheTree, ReadsTheFile, Opened
  <2>4. handle = "folder" => children' = Folder(query)'
    BY <1>4, <2>1 DEF Folder
  <2>5. entries' \ rest' = {}
    BY <1>4, <2>1
  <2>6. handle = "zip" => /\ children'.exists <=> Shown({}, tree', query').exists
                          /\ children'.paths = Shown({}, tree', query').paths
    BY <1>3, <2>1, NothingShown
  <2>7. Listed'
    BY <1>1, <1>4, <2>1, <2>4, <2>5, <2>6 DEF Listed
  <2> QED
    BY <2>2, <2>3, <2>7 DEF ListingInv
<1> QED
  BY <1>5, <1>6

LEMMA FailOK ==
  ASSUME ListingInv, outcome = "listing", Fail, entry' = NoEntry,
         UNCHANGED <<content, reading>>, UNCHANGED <<query, rest>>
  PROVE  ListingInv'
<1>1. outcome' = "failed" /\ ListingTypeOK /\ answer = -1
  BY DEF Fail, ListingInv, Opened
<1>2. ListingTypeOK'
  BY <1>1 DEF ListingTypeOK, content, reading
<1>3. Listed' /\ Opened' /\ ListsTheTree' /\ ReadsTheFile'
  BY <1>1 DEF Listed, Opened, ListsTheTree, ReadsTheFile, reading
<1> QED
  BY <1>2, <1>3 DEF ListingInv

LEMMA OpenEntryOK == ASSUME ListingInv, OpenEntry PROVE ListingInv'
<1>1. outcome = "listing" /\ UNCHANGED <<content, reading>> /\ UNCHANGED <<query, rest, children>>
  BY DEF OpenEntry
<1>2. CASE entry' = NoEntry /\ Fail
  BY <1>1, <1>2, FailOK
<1>3. CASE \E e \in rest : entry' = e /\ UNCHANGED <<outcome, result>>
  <2>1. ListingTypeOK /\ Listed /\ answer = -1
    BY <1>1 DEF ListingInv, Opened
  <2>2. outcome' = "listing" /\ entry' \in rest
    BY <1>1, <1>3
  <2>3. ListingTypeOK'
    BY <1>1, <2>1 DEF ListingTypeOK, content, reading
  <2>4. Listed'
    BY <1>1, <2>1, <2>2 DEF Listed, content, Folder
  <2>5. Opened' /\ ListsTheTree' /\ ReadsTheFile'
    BY <1>1, <2>1, <2>2 DEF Opened, ListsTheTree, ReadsTheFile, reading
  <2> QED
    BY <2>3, <2>4, <2>5 DEF ListingInv
<1> QED
  BY <1>2, <1>3 DEF OpenEntry

LEMMA VisitOK == ASSUME ListingInv, Visit PROVE ListingInv'
<1>1. outcome = "listing" /\ entry # NoEntry /\ entry' = NoEntry /\ UNCHANGED <<content, reading>> /\ UNCHANGED query
  BY DEF Visit
<1>2. CASE Fail /\ UNCHANGED <<rest, children>>
  BY <1>1, <1>2, FailOK
<1>3. CASE /\ children' = Add(children, query, entry, tree[entry] = "directory")
           /\ rest' = rest \ {entry}
           /\ UNCHANGED <<outcome, result>>
  <2>1. ListingTypeOK /\ Listed /\ answer = -1
    BY <1>1 DEF ListingInv, Opened
  <2>2. outcome' = "listing" /\ entry \in rest /\ entry \in entries
    BY <1>1, <1>3, <2>1 DEF Listed, ListingTypeOK
  <2>3. handle = "zip" /\ entry \in Place /\ tree[entry] # "nothing"
    BY <2>1, <2>2, EntryIsThere
  <2>4. ListingTypeOK'
    BY <1>1, <1>3, <2>1 DEF ListingTypeOK, content, reading
  <2>5. /\ children'.exists <=> Shown((entries \ rest) \cup {entry}, tree, query).exists
        /\ children'.paths = Shown((entries \ rest) \cup {entry}, tree, query).paths
    <3> DEFINE V == entries \ rest
    <3>1. (children.exists <=> Shown(V, tree, query).exists) /\ children.paths = Shown(V, tree, query).paths
      BY <1>1, <2>1, <2>3 DEF Listed
    <3>2. IsTree(tree) /\ query \in Query
      BY <2>1 DEF ListingTypeOK
    <3> HIDE DEF V
    <3>3. LET new == Add(children, query, entry, tree[entry] = "directory")
          IN  /\ new.exists <=> Shown(V \cup {entry}, tree, query).exists
              /\ new.paths = Shown(V \cup {entry}, tree, query).paths
      BY <2>3, <3>1, <3>2, AddShows
    <3> QED
      BY <1>3, <3>3 DEF V
  <2>6. entries' \ rest' = (entries \ rest) \cup {entry}
    BY <1>1, <1>3, <2>2 DEF content
  <2>7. Listed'
    BY <1>1, <2>3, <2>5, <2>6 DEF Listed, content
  <2>8. Opened' /\ ListsTheTree' /\ ReadsTheFile'
    BY <1>1, <2>1, <2>2 DEF Opened, ListsTheTree, ReadsTheFile, reading
  <2> QED
    BY <2>4, <2>7, <2>8 DEF ListingInv
<1> QED
  BY <1>1, <1>2, <1>3 DEF Visit

LEMMA ReturnOK == ASSUME ListingInv, Return PROVE ListingInv'
<1>1. /\ outcome = "listing" /\ rest = {} /\ entry = NoEntry
      /\ UNCHANGED <<content, reading>> /\ UNCHANGED <<query, rest, entry, children>>
      /\ ListingTypeOK /\ Listed
  BY DEF Return, ListingInv
<1>2. ListingTypeOK'
  BY <1>1 DEF ListingTypeOK, content, reading
<1>3. (children.exists <=> query.path \in Dirs(tree)) /\ children.paths = Children(tree, query)
  <2>1. CASE handle = "folder"
    <3>1. children = Folder(query)
      BY <1>1, <2>1 DEF Listed
    <3> QED
      BY <3>1 DEF Folder, Children
  <2>2. CASE handle = "zip"
    <3>1. entries \in Packed(tree) /\ IsTree(tree) /\ query \in Query /\ entries \ rest = entries
      BY <1>1, <2>2 DEF ListingTypeOK
    <3>2. /\ children.exists <=> Shown(entries, tree, query).exists
          /\ children.paths = Shown(entries, tree, query).paths
      BY <1>1, <2>2, <3>1 DEF Listed
    <3> QED
      BY <3>1, <3>2, ShownExists, ShownPaths
  <2> QED
    BY <1>1, <2>1, <2>2 DEF ListingTypeOK
<1>4. CASE children.exists
  <2>1. outcome' = "returned" /\ result' = Children(tree, query)
    BY <1>3, <1>4 DEF Return
  <2>2. ListsTheTree'
    BY <1>1, <1>3, <1>4, <2>1 DEF ListsTheTree, Children, Dirs, content
  <2>3. Listed' /\ Opened' /\ ReadsTheFile'
    BY <1>1, <2>1 DEF Listed, Opened, ReadsTheFile
  <2> QED
    BY <1>2, <2>2, <2>3 DEF ListingInv
<1>5. CASE ~children.exists
  <2>1. outcome' = "invalid"
    BY <1>5 DEF Return
  <2>2. ListsTheTree'
    BY <1>1, <1>3, <1>5, <2>1 DEF ListsTheTree, Dirs, content
  <2>3. Listed' /\ Opened' /\ ReadsTheFile'
    BY <1>1, <2>1 DEF Listed, Opened, ReadsTheFile
  <2> QED
    BY <1>2, <2>2, <2>3 DEF ListingInv
<1> QED
  BY <1>4, <1>5

\* What a folder and what an archive answers for a file that is there.
LEMMA AnswersOK ==
  ASSUME NEW r, r.size \in Nat, NEW file \in Place, tree[file] = "file", NEW h \in {"zip", "folder"},
         NEW a, a = IF h = "zip" THEN ZipReads(r, file) ELSE FolderReads(r, file)
  PROVE  /\ r.what # "contents" => a = FileSize[file]
         /\ r.what = "contents" =>
              /\ r.size = FileSize[file] => a = IF h = "folder" /\ FileSize[file] = 0 THEN -1 ELSE FileSize[file]
              /\ r.size > FileSize[file] => a = -1
              /\ r.size < FileSize[file] => a \in {-1, r.size}
<1>1. FileSize[file] \in Nat
  BY ListingAssumption
<1> QED
  BY <1>1 DEF ZipReads, FolderReads

\* A place with a slash at the end is the name of no file.
LEMMA SlashIsNoFile ==
  ASSUME NEW d \in Place
  PROVE  Append(d, "") \notin Place
<1> DEFINE S == STRING \cup {""}
           z == ""
<1>1. d \in Seq(STRING) /\ z \in S
  BY ListingAssumption
<1>2. Len(d) \in Nat /\ d \in [1..Len(d) -> STRING]
  BY <1>1
<1>3. d \in Seq(S)
  <2> HIDE DEF z
  <2>1. d \in [1..Len(d) -> S]
    BY <1>2
  <2> HIDE DEF S
  <2> QED
    BY <1>2, <2>1
<1> HIDE DEF S, z
<1>4. Len(Append(d, z)) = Len(d) + 1 /\ Append(d, z)[Len(d) + 1] = z
  BY <1>1, <1>2, <1>3
<1>5. \A p \in Place : p[Len(p)] # z
  BY ListingAssumption DEF z
<1>6. Append(d, z) \notin Place
  BY <1>4, <1>5
<1> QED
  BY <1>6 DEF z

\* The file at a path: the entry that the path names, unless that is a directory.
LEMMA EntryNamed ==
  ASSUME ListingTypeOK, NEW e \in entries
  PROVE  /\ tree[e] = "file" => EntryName(e) = e /\ e \in Files(tree)
         /\ tree[e] # "file" => tree[e] = "directory" /\ EntryName(e) = Append(e, "") /\ EntryName(e) \notin Files(tree)
<1>1. e \in Place /\ tree[e] \in {"file", "directory"}
  <2>1. entries \in Packed(tree)
    BY DEF ListingTypeOK
  <2>2. entries \subseteq Files(tree) \cup (Dirs(tree) \ {<<>>})
    BY <2>1 DEF Packed
  <2> QED
    BY <2>2 DEF Files, Dirs
<1>2. Append(e, "") \notin Place
  BY <1>1, SlashIsNoFile
<1> QED
  BY <1>1, <1>2 DEF EntryName, Files

LEMMA ReadOK ==
  ASSUME ListingInv, NEW path \in Sanitized, NEW r, r.size \in Nat, Read(r, path)
  PROVE  ListingInv'
<1>1. /\ outcome = "idle" /\ read' = r /\ query' = [path |-> path, directories |-> FALSE]
      /\ UNCHANGED content /\ UNCHANGED <<rest, children, result>>
  BY DEF Read
<1>2. ListingTypeOK /\ entry = NoEntry /\ answer = -1
  BY <1>1 DEF ListingInv, Opened
<1>3. query' \in Query
  <2>1. path \in Seq(Part)
    BY ListingAssumption DEF Part, Sanitized
  <2> QED
    BY <1>1, <2>1 DEF Query
<1>4. ListingTypeOK'
  BY <1>1, <1>2, <1>3 DEF ListingTypeOK, content
<1>5. tree' = tree /\ handle' = handle /\ entries' = entries /\ handle \in {"zip", "folder"} /\ query'.path = path
  BY <1>1, <1>2 DEF content, ListingTypeOK
<1>6. CASE handle = "folder" /\ path \notin Files(tree)
  <2>1. outcome' = "answered" /\ entry' = NoEntry /\ answer' = -1 /\ entries = {}
    BY <1>2, <1>6 DEF Read, ListingTypeOK
  <2>2. ReadsTheFile'
    BY <1>5, <1>6, <2>1 DEF ReadsTheFile, Files
  <2>3. Listed' /\ Opened' /\ ListsTheTree'
    BY <2>1 DEF Listed, Opened, ListsTheTree
  <2> QED
    BY <1>4, <2>2, <2>3 DEF ListingInv
<1>7. CASE handle = "zip" /\ \E e \in entries : EntryName(e) = path /\ entry' = e /\ outcome' = "reading" /\ answer' = answer
  <2>1. outcome' = "reading" /\ entry' \in entries /\ EntryName(entry') = path /\ answer' = -1
    BY <1>2, <1>7
  <2>2. Opened'
    BY <1>5, <1>7, <2>1 DEF Opened, EntryName
  <2>3. Listed' /\ ListsTheTree' /\ ReadsTheFile'
    BY <2>1 DEF Listed, ListsTheTree, ReadsTheFile
  <2> QED
    BY <1>4, <2>2, <2>3 DEF ListingInv
<1>9. CASE /\ handle = "zip" /\ outcome' = "answered" /\ UNCHANGED <<entry, answer>>
           /\ \A e \in entries : EntryName(e) # path
  <2>1. path \notin Files(tree)
    <3> SUFFICES ASSUME path \in Files(tree) PROVE FALSE
      OBVIOUS
    <3>1. entries \in Packed(tree)
      BY <1>2, <1>9 DEF ListingTypeOK
    <3>2. path \in entries
      BY <3>1 DEF Packed
    <3>3. tree[path] = "file"
      BY DEF Files
    <3> QED
      BY <1>2, <1>9, <3>2, <3>3, EntryNamed
  <2>2. \A d \in entries : tree[d] = "directory" => path # Append(d, "")
    BY <1>9 DEF EntryName
  <2>3. ReadsTheFile'
    BY <1>2, <1>5, <1>9, <2>1, <2>2 DEF ReadsTheFile, Files
  <2>4. Listed' /\ Opened' /\ ListsTheTree'
    BY <1>2, <1>9 DEF Listed, Opened, ListsTheTree
  <2> QED
    BY <1>4, <2>3, <2>4 DEF ListingInv
<1>8. CASE path \in Files(tree) /\ handle = "folder"
  <2>1. outcome' = "answered" /\ answer' = FolderReads(r, path) /\ entry' = NoEntry
    BY <1>2, <1>8 DEF Read
  <2>2. path \in Place /\ tree[path] = "file"
    BY <1>8 DEF Files
  <2> DEFINE size == FileSize[path]
  <2>3. /\ r.what # "contents" => answer' = size
        /\ r.what = "contents" => /\ r.size = size => answer' = IF size = 0 THEN -1 ELSE size
                                  /\ r.size > size => answer' = -1
                                  /\ r.size < size => answer' \in {-1, r.size}
    BY <2>1, <2>2, AnswersOK
  <2>4. ReadsTheFile'
    <3> HIDE DEF size
    <3>1. FileSize[query.path]' = size
      BY <1>5 DEF size
    <3> QED
      BY <1>1, <1>5, <1>8, <2>1, <2>3, <3>1 DEF ReadsTheFile, Files
  <2>5. Listed' /\ Opened' /\ ListsTheTree'
    BY <2>1 DEF Listed, Opened, ListsTheTree
  <2> QED
    BY <1>4, <2>4, <2>5 DEF ListingInv
<1>10. CASE handle = "zip"
  <2>1. \/ \E e \in entries : EntryName(e) = path /\ entry' = e /\ outcome' = "reading" /\ answer' = answer
        \/ /\ outcome' = "answered" /\ UNCHANGED <<entry, answer>>
           /\ \A e \in entries : EntryName(e) # path
    BY <1>10 DEF Read
  <2> QED
    BY <1>7, <1>9, <1>10, <2>1
<1> QED
  BY <1>5, <1>6, <1>8, <1>10

LEMMA CloseReadOK == ASSUME ListingInv, CloseRead PROVE ListingInv'
<1>1. /\ outcome = "reading" /\ entry' = NoEntry
      /\ UNCHANGED content /\ UNCHANGED <<query, rest, children, result, read>>
  BY DEF CloseRead
<1>2. /\ ListingTypeOK /\ handle = "zip" /\ entry \in entries /\ EntryName(entry) = query.path
      /\ answer = -1 /\ entry \in Place
  <2>1. ListingTypeOK /\ handle = "zip" /\ entry \in entries /\ EntryName(entry) = query.path /\ answer = -1
    BY <1>1 DEF ListingInv, Opened
  <2> QED
    BY <2>1, EntryIsThere
<1>3. ListingTypeOK'
  BY <1>1, <1>2 DEF ListingTypeOK, content
<1>4. CASE outcome' = "failed" /\ UNCHANGED answer
  <2>1. Listed' /\ Opened' /\ ListsTheTree' /\ ReadsTheFile'
    BY <1>1, <1>2, <1>4 DEF Listed, Opened, ListsTheTree, ReadsTheFile
  <2> QED
    BY <1>3, <2>1 DEF ListingInv
<1>5. CASE outcome' = "answered" /\ answer' = ZipReads(read, entry) /\ tree[entry] = "file"
  <2>1. read.size \in Nat /\ entry = query.path /\ query.path \in Files(tree)
    BY <1>2, <1>5, EntryNamed DEF ListingTypeOK
  <2> DEFINE size == FileSize[entry]
  <2>2. /\ read.what # "contents" => answer' = size
        /\ read.what = "contents" => /\ read.size = size => answer' = size
                                     /\ read.size > size => answer' = -1
                                     /\ read.size < size => answer' \in {-1, read.size}
    BY <1>2, <1>5, <2>1, AnswersOK
  <2>3. ReadsTheFile'
    <3> HIDE DEF size
    <3>1. FileSize[query.path]' = size
      BY <1>1, <2>1 DEF size
    <3> QED
      BY <1>1, <1>2, <1>5, <2>1, <2>2, <3>1 DEF ReadsTheFile, Files, content
  <2>4. Listed' /\ Opened' /\ ListsTheTree'
    BY <1>1, <1>5 DEF Listed, Opened, ListsTheTree
  <2> QED
    BY <1>3, <2>3, <2>4 DEF ListingInv
<1>6. CASE outcome' = "answered" /\ answer' = ZipReads(read, entry) /\ tree[entry] # "file"
  <2>1. tree[entry] = "directory" /\ query.path = Append(entry, "") /\ query.path \notin Files(tree)
    BY <1>2, <1>6, EntryNamed
  <2>2. answer' = IF read.what # "contents" THEN 0 ELSE -1
    BY <1>6, <2>1 DEF ZipReads
  <2>3. /\ tree' = tree /\ entries' = entries /\ query' = query /\ read' = read
        /\ Files(tree)' = Files(tree)
    BY <1>1 DEF content, Files
  <2>4. \E d \in entries : tree[d] = "directory" /\ query.path = Append(d, "")
    BY <1>2, <2>1
  <2>5. ReadsTheFile'
    BY <1>1, <1>6, <2>1, <2>2, <2>3, <2>4 DEF ReadsTheFile
  <2>6. Listed' /\ Opened' /\ ListsTheTree'
    BY <1>1, <1>6 DEF Listed, Opened, ListsTheTree
  <2> QED
    BY <1>3, <2>5, <2>6 DEF ListingInv
<1> QED
  BY <1>4, <1>5, <1>6 DEF CloseRead

LEMMA DoneOK == ASSUME ListingInv, Done PROVE ListingInv'
<1>1. /\ outcome' = "idle" /\ query' = [path |-> <<>>, directories |-> FALSE] /\ rest' = {}
      /\ read' = Nothing /\ answer' = -1 /\ UNCHANGED content /\ UNCHANGED entry
      /\ outcome \notin {"listing", "reading"}
  BY DEF Done
<1>2. ListingTypeOK /\ entry = NoEntry
  BY <1>1 DEF ListingInv, Opened
<1>3. query' \in Query
  BY <1>1, EmptySeq DEF Query
<1>4. ListingTypeOK'
  BY <1>1, <1>2, <1>3 DEF ListingTypeOK, content, Nothing
<1>5. Listed' /\ Opened' /\ ListsTheTree' /\ ReadsTheFile'
  BY <1>1, <1>2 DEF Listed, Opened, ListsTheTree, ReadsTheFile
<1> QED
  BY <1>4, <1>5 DEF ListingInv

LEMMA ListingStep == ListingInv /\ [ListingNext]_listingVars => ListingInv'
<1> SUFFICES ASSUME ListingInv, [ListingNext]_listingVars PROVE ListingInv'
  OBVIOUS
<1>1. ASSUME NEW path \in Asked, NEW directories \in BOOLEAN, List(path, directories) PROVE ListingInv'
  BY <1>1, ListOK
<1>2. CASE OpenEntry
  BY <1>2, OpenEntryOK
<1>3. CASE Visit
  BY <1>3, VisitOK
<1>4. CASE Return
  BY <1>4, ReturnOK
<1>5. CASE CloseRead
  BY <1>5, CloseReadOK
<1>6. CASE Done
  BY <1>6, DoneOK
<1>7. ASSUME NEW path \in Sanitized, NEW what \in {"size", "contents", "descriptor"}, NEW size \in AskedSize,
             Read([what |-> what, size |-> IF what = "contents" THEN size ELSE 0], path)
      PROVE  ListingInv'
  <2> DEFINE r == [what |-> what, size |-> IF what = "contents" THEN size ELSE 0]
  <2>1. r.size \in Nat
    BY ListingAssumption
  <2> HIDE DEF r
  <2>2. Read(r, path)
    BY <1>7 DEF r
  <2> QED
    BY <2>1, <2>2, ReadOK
<1>8. CASE UNCHANGED listingVars
  BY <1>8 DEF listingVars, content, reading, ListingInv, ListingTypeOK, Listed, Opened, ListsTheTree,
              ReadsTheFile, Folder, Files, Dirs, EntryName
<1> QED
  BY <1>1, <1>2, <1>3, <1>4, <1>5, <1>6, <1>7, <1>8 DEF ListingNext

\* A listing has exactly the files, or the directories, in the directory, and a missing
\* directory is an error, for every tree, every archive packed from it and every order
\* in which its entries are visited (DirectoryListing.h, ZipDirectoryListing.h).
THEOREM ListingIsTheTree == ListingSpec => []ListsTheTree
<1>1. ListingInv => ListsTheTree
  BY DEF ListingInv
<1> QED
  BY <1>1, ListingInitOK, ListingStep, PTL DEF ListingSpec

\* What is read of a file is all of it or an error, from a folder and from an archive,
\* for files and buffers of every size, and no entry stays open
\* (FolderFileExtensionHandle.h, TempFileExtensionHandle.h).
THEOREM FilesAreRead == ListingSpec => []ReadsTheFile
<1>1. ListingInv => ReadsTheFile
  BY DEF ListingInv
<1> QED
  BY <1>1, ListingInitOK, ListingStep, PTL DEF ListingSpec

-----------------------------------------------------------------------------
(* Unpacking, for any number of processes, entries and names.                *)

Steps == {"idle", "read", "name", "create", "write", "open"}

FilesTypeOK ==
  /\ disk \in [Name -> [by : Proc \cup {None}, has : Contents \cup {"nothing"}]]
  /\ alive \subseteq Proc
  /\ at \in [Proc -> Steps]
  /\ job \in [Proc -> Thing \cup {None}]
  /\ name \in [Proc -> Name \cup {None}]
  /\ mapping \in [Proc -> [Thing -> Name \cup {None}]]
  /\ fds \subseteq [proc : Proc, of : Thing, file : Name]

\* What a process that is between two steps of openFileDescriptor has in hand.
\* Whoever unpacks has not unpacked before, and whoever opens has.
JobInHand ==
  \A p \in Proc :
    at[p] # "idle" =>
      /\ p \in alive
      /\ job[p] \in Thing
      /\ at[p] = "open" <=> mapping[p][job[p]] # None
      /\ at[p] \in {"create", "write"} => name[p] \in Name

\* The file that is written to is held by its writer, and nothing is mapped to it.
WriterAlone ==
  \A p \in Proc :
    at[p] = "write" =>
      /\ disk[name[p]].by = p
      /\ \A q \in Proc, t \in Thing : mapping[q][t] # name[p]

\* What is mapped is held by its process, complete.
MappedComplete ==
  \A p \in Proc, t \in Thing :
    mapping[p][t] # None =>
      /\ p \in alive
      /\ disk[mapping[p][t]] = [by |-> p, has |-> t]

\* Descriptors are of mapped files.
OpenAreMapped ==
  \A fd \in fds : mapping[fd.proc][fd.of] = fd.file

FilesInv == FilesTypeOK /\ JobInHand /\ WriterAlone /\ MappedComplete /\ OpenAreMapped

-----------------------------------------------------------------------------
\* No mapped file is touched by a step that leaves mapping, descriptors and the
\* processes alone and changes, on disk, only what nothing is mapped to.
LEMMA MappedUntouched ==
  ASSUME FilesInv, UNCHANGED <<alive, mapping, fds>>,
         \A q \in Proc, t \in Thing :
           mapping[q][t] # None => disk'[mapping[q][t]] = disk[mapping[q][t]]
  PROVE  MappedComplete' /\ OpenAreMapped'
BY DEF FilesInv, MappedComplete, OpenAreMapped

\* A process that returns to its caller, with the disk as it was.
LEMMA FailKeeps ==
  ASSUME FilesInv, NEW p \in Proc, Fails(p), UNCHANGED disk
  PROVE  FilesInv'
<1>1. FilesTypeOK'
  BY DEF FilesInv, FilesTypeOK, Fails, Goto, Steps
<1>2. JobInHand'
  BY DEF FilesInv, FilesTypeOK, JobInHand, Fails, Goto
<1>3. WriterAlone'
  BY DEF FilesInv, FilesTypeOK, WriterAlone, Fails, Goto
<1>4. MappedComplete' /\ OpenAreMapped'
  BY MappedUntouched DEF Fails
<1> QED BY <1>1, <1>2, <1>3, <1>4 DEF FilesInv

\* Processes that end take their handles and mappings with them; nothing that the
\* others hold is touched.
LEMMA EndKeeps ==
  ASSUME FilesInv, NEW P \in SUBSET alive, Gone(P), Forgotten(P),
         disk' \in [Name -> [by : Proc \cup {None}, has : Contents \cup {"nothing"}]],
         \A n \in Name : disk[n].by \in alive \ P => disk'[n] = disk[n]
  PROVE  FilesInv'
<1>1. FilesTypeOK'
  BY DEF FilesInv, FilesTypeOK, Gone, Forgotten, Steps
<1>2. JobInHand'
  BY DEF FilesInv, FilesTypeOK, JobInHand, Gone, Forgotten
<1>3. WriterAlone'
  <2> SUFFICES ASSUME NEW p \in Proc, at'[p] = "write"
               PROVE  /\ disk'[name'[p]].by = p
                      /\ \A q \in Proc, t \in Thing : mapping'[q][t] # name'[p]
    BY DEF WriterAlone
  <2>1. p \notin P /\ at[p] = "write" /\ name'[p] = name[p]
    BY DEF FilesInv, FilesTypeOK, Gone
  <2>2. p \in alive \ P /\ name[p] \in Name
    BY <2>1 DEF FilesInv, JobInHand
  <2>3. disk[name[p]].by = p /\ \A q \in Proc, t \in Thing : mapping[q][t] # name[p]
    BY <2>1 DEF FilesInv, WriterAlone
  <2>4. disk'[name'[p]].by = p
    BY <2>1, <2>2, <2>3
  <2>5. ASSUME NEW q \in Proc, NEW t \in Thing PROVE mapping'[q][t] # name'[p]
    BY <2>1, <2>2, <2>3, TempAssumption DEF Forgotten
  <2> QED BY <2>4, <2>5
<1>4. MappedComplete'
  <2> SUFFICES ASSUME NEW p \in Proc, NEW t \in Thing, mapping'[p][t] # None
               PROVE  p \in alive' /\ disk'[mapping'[p][t]] = [by |-> p, has |-> t]
    BY DEF MappedComplete
  <2>1. p \notin P /\ mapping'[p][t] = mapping[p][t]
    BY DEF Forgotten
  <2>2. p \in alive /\ disk[mapping[p][t]] = [by |-> p, has |-> t] /\ mapping[p][t] \in Name
    BY <2>1 DEF FilesInv, FilesTypeOK, MappedComplete
  <2> QED BY <2>1, <2>2 DEF Gone
<1>5. OpenAreMapped'
  BY DEF FilesInv, FilesTypeOK, OpenAreMapped, Gone, Forgotten
<1> QED BY <1>1, <1>2, <1>3, <1>4, <1>5 DEF FilesInv

-----------------------------------------------------------------------------
LEMMA FilesInitial == Init => FilesInv
BY DEF Init, FilesInv, FilesTypeOK, JobInHand, WriterAlone, MappedComplete, OpenAreMapped, NoFile,
       Steps, Thing

\* Steps that change neither the disk nor what is mapped or open: a process goes
\* on to its next step.
LEMMA AdvanceKeeps ==
  ASSUME FilesInv, NEW p \in Proc,
         \/ Start(p) \/ DrawName(p)
         \/ \E t \in Entry : Open(p, t)
         \/ \E t \in Text : Make(p, t) \/ OpenMade(p, t)
  PROVE  FilesInv'
<1>0. Entry \subseteq Thing /\ Text \subseteq Thing
  BY DEF Thing
<1>1. CASE Start(p)
  <2>1. FilesTypeOK'
    BY <1>1 DEF Start, FilesInv, FilesTypeOK
  <2>2. JobInHand'
    BY <1>1 DEF Start, FilesInv, JobInHand
  <2>3. WriterAlone' /\ MappedComplete' /\ OpenAreMapped'
    BY <1>1 DEF Start, FilesInv, WriterAlone, MappedComplete, OpenAreMapped
  <2> QED BY <2>1, <2>2, <2>3 DEF FilesInv
<1>2. CASE DrawName(p)
  <2>1. FilesTypeOK'
    BY <1>2 DEF DrawName, Goto, FilesInv, FilesTypeOK, Steps
  <2>2. JobInHand'
    BY <1>2 DEF DrawName, Goto, FilesInv, FilesTypeOK, JobInHand
  <2>3. WriterAlone'
    BY <1>2 DEF DrawName, Goto, FilesInv, FilesTypeOK, WriterAlone
  <2>4. MappedComplete' /\ OpenAreMapped'
    BY <1>2, MappedUntouched DEF DrawName
  <2> QED BY <2>1, <2>2, <2>3, <2>4 DEF FilesInv
<1>3. CASE \E t \in Entry : Open(p, t)
  <2>1. FilesTypeOK'
    BY <1>0, <1>3 DEF Open, Goto, FilesInv, FilesTypeOK, Steps
  <2>2. JobInHand'
    BY <1>0, <1>3 DEF Open, Goto, FilesInv, FilesTypeOK, JobInHand
  <2>3. WriterAlone'
    BY <1>3 DEF Open, Goto, FilesInv, FilesTypeOK, WriterAlone
  <2>4. MappedComplete' /\ OpenAreMapped'
    BY <1>3, MappedUntouched DEF Open
  <2> QED BY <2>1, <2>2, <2>3, <2>4 DEF FilesInv
<1>4. CASE \E t \in Text : Make(p, t) \/ OpenMade(p, t)
  <2>1. FilesTypeOK'
    <3>1. ASSUME NEW t \in Text, Make(p, t) PROVE FilesTypeOK'
      BY <1>0, <3>1 DEF Make, Goto, FilesInv, FilesTypeOK, Steps
    <3>2. ASSUME NEW t \in Text, OpenMade(p, t) PROVE FilesTypeOK'
      BY <1>0, <3>2 DEF OpenMade, Goto, FilesInv, FilesTypeOK, Steps
    <3> QED
      BY <1>4, <3>1, <3>2
  <2>2. JobInHand'
    <3>1. ASSUME NEW t \in Text, Make(p, t) PROVE JobInHand'
      BY <1>0, <3>1 DEF Make, Goto, FilesInv, FilesTypeOK, JobInHand
    <3>2. ASSUME NEW t \in Text, OpenMade(p, t) PROVE JobInHand'
      BY <1>0, <3>2 DEF OpenMade, Goto, FilesInv, FilesTypeOK, JobInHand
    <3> QED
      BY <1>4, <3>1, <3>2
  <2>3. WriterAlone'
    BY <1>4 DEF Make, OpenMade, Goto, FilesInv, FilesTypeOK, WriterAlone
  <2>4. MappedComplete' /\ OpenAreMapped'
    BY <1>4, MappedUntouched DEF Make, OpenMade
  <2> QED BY <2>1, <2>2, <2>3, <2>4 DEF FilesInv
<1> QED BY <1>1, <1>2, <1>3, <1>4

LEMMA ReadKeeps ==
  ASSUME FilesInv, NEW p \in Proc, ReadEntry(p)
  PROVE  FilesInv'
<1>1. CASE Fails(p)
  BY <1>1, FailKeeps DEF ReadEntry
<1>2. CASE Goto(p, "name") /\ UNCHANGED <<alive, job, name, mapping, fds>>
  <2>1. FilesTypeOK'
    BY <1>2 DEF ReadEntry, Goto, FilesInv, FilesTypeOK, Steps
  <2>2. JobInHand'
    BY <1>2 DEF ReadEntry, Goto, FilesInv, FilesTypeOK, JobInHand
  <2>3. WriterAlone'
    BY <1>2 DEF ReadEntry, Goto, FilesInv, FilesTypeOK, WriterAlone
  <2>4. MappedComplete' /\ OpenAreMapped'
    BY <1>2, MappedUntouched DEF ReadEntry
  <2> QED BY <2>1, <2>2, <2>3, <2>4 DEF FilesInv
<1> QED BY <1>1, <1>2 DEF ReadEntry

\* A file that nobody holds is mapped by nobody: it can be emptied.
LEMMA CreateKeeps ==
  ASSUME FilesInv, NEW p \in Proc, Create(p)
  PROVE  FilesInv'
<1>1. CASE Fails(p) /\ UNCHANGED disk
  BY <1>1, FailKeeps
<1>2. CASE /\ disk[name[p]].by = None
           /\ disk' = [disk EXCEPT ![name[p]] = [by |-> p, has |-> "empty"]]
           /\ Goto(p, "write") /\ UNCHANGED <<alive, job, name, mapping, fds>>
  <2>1. at[p] = "create" /\ name[p] \in Name
    BY DEF Create, FilesInv, JobInHand
  <2>2. \A q \in Proc, t \in Thing : mapping[q][t] # None => mapping[q][t] # name[p]
    <3>1. ASSUME NEW q \in Proc, NEW t \in Thing, mapping[q][t] # None
          PROVE  disk[mapping[q][t]].by = q
      <4>1. disk[mapping[q][t]] = [by |-> q, has |-> t]
        BY <3>1 DEF FilesInv, MappedComplete
      <4> QED BY <4>1
    <3>2. \A q \in Proc : q # None
      BY TempAssumption
    <3> QED BY <1>2, <3>1, <3>2
  <2>3. name[p] # None
    BY <2>1, TempAssumption
  <2>4. FilesTypeOK'
    BY <1>2 DEF Goto, FilesInv, FilesTypeOK, Steps, Contents
  <2>5. JobInHand'
    BY <1>2, <2>1 DEF Goto, FilesInv, FilesTypeOK, JobInHand
  <2>6. WriterAlone'
    <3> SUFFICES ASSUME NEW q \in Proc, at'[q] = "write"
                 PROVE  /\ disk'[name'[q]].by = q
                        /\ \A r \in Proc, t \in Thing : mapping'[r][t] # name'[q]
      BY DEF WriterAlone
    <3>1. CASE q = p
      BY <1>2, <2>1, <2>2, <2>3, <3>1 DEF FilesInv, FilesTypeOK
    <3>2. CASE q # p
      <4>1. at[q] = "write" /\ name[q] \in Name
        BY <1>2, <3>2 DEF Goto, FilesInv, FilesTypeOK, JobInHand
      <4>2. disk[name[q]].by = q
        BY <4>1 DEF FilesInv, WriterAlone
      <4>3. name[q] # name[p]
        BY <1>2, <4>2, TempAssumption
      <4> QED BY <1>2, <4>1, <4>2, <4>3 DEF FilesInv, FilesTypeOK, WriterAlone
    <3> QED BY <3>1, <3>2
  <2>7. MappedComplete' /\ OpenAreMapped'
    <3>1. \A q \in Proc, t \in Thing :
            mapping[q][t] # None => disk'[mapping[q][t]] = disk[mapping[q][t]]
      BY <1>2, <2>2 DEF FilesInv, FilesTypeOK
    <3> QED BY <1>2, <3>1, MappedUntouched
  <2> QED BY <2>4, <2>5, <2>6, <2>7 DEF FilesInv
<1> QED BY <1>1, <1>2 DEF Create

\* The writer is alone with its file, and maps it only when it is complete.
LEMMA WriteKeeps ==
  ASSUME FilesInv, NEW p \in Proc, Write(p)
  PROVE  FilesInv'
<1>1. /\ at[p] = "write" /\ p \in alive /\ name[p] \in Name /\ job[p] \in Thing
      /\ mapping[p][job[p]] = None
      /\ disk[name[p]].by = p
      /\ \A q \in Proc, t \in Thing : mapping[q][t] # name[p]
  BY DEF Write, FilesInv, JobInHand, WriterAlone
<1>2. \A c : Filled(p, c) =>
        \A q \in Proc, t \in Thing :
          mapping[q][t] # None => disk'[mapping[q][t]] = disk[mapping[q][t]]
  BY <1>1 DEF Filled, FilesInv, FilesTypeOK
<1>3. \A c \in Contents : Filled(p, c) =>
        /\ disk' \in [Name -> [by : Proc \cup {None}, has : Contents \cup {"nothing"}]]
        /\ disk'[name[p]] = [by |-> p, has |-> c]
        /\ \A n \in Name : disk'[n].by = disk[n].by
  BY <1>1 DEF Filled, FilesInv, FilesTypeOK
<1>4. name[p] # None /\ job[p] \in Contents /\ "partial" \in Contents
  BY <1>1, TempAssumption DEF Contents
<1>5. CASE Filled(p, "partial") /\ Fails(p)
  <2>1. FilesTypeOK'
    BY <1>3, <1>4, <1>5 DEF FilesInv, FilesTypeOK, Fails, Goto, Steps
  <2>2. JobInHand'
    BY <1>5 DEF FilesInv, FilesTypeOK, JobInHand, Fails, Goto
  <2>3. WriterAlone'
    <3> SUFFICES ASSUME NEW q \in Proc, at'[q] = "write"
                 PROVE  /\ disk'[name'[q]].by = q
                        /\ \A r \in Proc, t \in Thing : mapping'[r][t] # name'[q]
      BY DEF WriterAlone
    <3>1. at[q] = "write" /\ name'[q] = name[q] /\ name[q] \in Name
      BY <1>5 DEF Fails, Goto, FilesInv, FilesTypeOK, JobInHand
    <3>2. /\ disk[name[q]].by = q
          /\ \A r \in Proc, t \in Thing : mapping[r][t] # name[q]
      BY <3>1 DEF FilesInv, WriterAlone
    <3>3. disk'[name[q]].by = disk[name[q]].by
      BY <1>3, <1>4, <1>5, <3>1
    <3>4. mapping' = mapping
      BY <1>5 DEF Fails
    <3> QED BY <3>1, <3>2, <3>3, <3>4
  <2>4. MappedComplete' /\ OpenAreMapped'
    BY <1>2, <1>5, MappedUntouched DEF Fails
  <2> QED BY <2>1, <2>2, <2>3, <2>4 DEF FilesInv
<1>6. CASE /\ Filled(p, job[p])
           /\ mapping' = [mapping EXCEPT ![p][job[p]] = name[p]]
           /\ Goto(p, IF job[p] \in Entry THEN "open" ELSE "idle")
           /\ name' = [name EXCEPT ![p] = None]
           /\ job' = IF job[p] \in Entry THEN job ELSE [job EXCEPT ![p] = None]
           /\ UNCHANGED <<alive, fds>>
  <2>1. \A q \in Proc, t \in Thing :
          mapping'[q][t] = IF q = p /\ t = job[p] THEN name[p] ELSE mapping[q][t]
    BY <1>1, <1>6 DEF FilesInv, FilesTypeOK
  <2>2. FilesTypeOK'
    BY <1>1, <1>3, <1>4, <1>6 DEF FilesInv, FilesTypeOK, Goto, Steps
  <2>3. JobInHand'
    <3> SUFFICES ASSUME NEW q \in Proc, at'[q] # "idle"
                 PROVE  /\ q \in alive'
                        /\ job'[q] \in Thing
                        /\ at'[q] = "open" <=> mapping'[q][job'[q]] # None
                        /\ at'[q] \in {"create", "write"} => name'[q] \in Name
      BY DEF JobInHand
    <3>1. CASE q = p
      BY <1>1, <1>4, <1>6, <2>1, <3>1 DEF Goto, FilesInv, FilesTypeOK
    <3>2. CASE q # p
      <4>1. at'[q] = at[q] /\ job'[q] = job[q] /\ name'[q] = name[q]
        BY <1>6, <3>2 DEF Goto, FilesInv, FilesTypeOK
      <4> QED BY <1>6, <2>1, <3>2, <4>1 DEF FilesInv, JobInHand
    <3> QED BY <3>1, <3>2
  <2>4. WriterAlone'
    <3> SUFFICES ASSUME NEW q \in Proc, at'[q] = "write"
                 PROVE  /\ disk'[name'[q]].by = q
                        /\ \A r \in Proc, t \in Thing : mapping'[r][t] # name'[q]
      BY DEF WriterAlone
    <3>1. q # p /\ at[q] = "write" /\ name'[q] = name[q] /\ name[q] \in Name
      BY <1>6 DEF Goto, FilesInv, FilesTypeOK, JobInHand
    <3>2. /\ disk[name[q]].by = q
          /\ \A r \in Proc, t \in Thing : mapping[r][t] # name[q]
      BY <3>1 DEF FilesInv, WriterAlone
    <3>3. name[q] # name[p]
      BY <1>1, <3>1, <3>2
    <3>4. disk'[name[q]].by = disk[name[q]].by
      BY <1>3, <1>4, <1>6, <3>1
    <3>5. \A r \in Proc, t \in Thing : mapping'[r][t] # name[q]
      BY <2>1, <3>2, <3>3
    <3> QED BY <3>1, <3>2, <3>4, <3>5
  <2>5. MappedComplete'
    <3> SUFFICES ASSUME NEW q \in Proc, NEW t \in Thing, mapping'[q][t] # None
                 PROVE  q \in alive' /\ disk'[mapping'[q][t]] = [by |-> q, has |-> t]
      BY DEF MappedComplete
    <3>1. CASE q = p /\ t = job[p]
      BY <1>1, <1>3, <1>4, <1>6, <2>1, <3>1
    <3>2. CASE ~(q = p /\ t = job[p])
      BY <1>2, <1>6, <2>1, <3>2 DEF FilesInv, MappedComplete
    <3> QED BY <3>1, <3>2
  <2>6. OpenAreMapped'
    <3> SUFFICES ASSUME NEW fd \in fds PROVE mapping'[fd.proc][fd.of] = fd.file
      BY <1>6 DEF OpenAreMapped
    <3>1. /\ fd.proc \in Proc /\ fd.of \in Thing /\ fd.file \in Name
          /\ mapping[fd.proc][fd.of] = fd.file
      BY DEF FilesInv, FilesTypeOK, OpenAreMapped
    <3>2. ~(fd.proc = p /\ fd.of = job[p])
      BY <1>1, <3>1, TempAssumption
    <3> QED BY <2>1, <3>1, <3>2
  <2> QED BY <2>2, <2>3, <2>4, <2>5, <2>6 DEF FilesInv
<1> QED BY <1>5, <1>6 DEF Write

LEMMA OpenMappedKeeps ==
  ASSUME FilesInv, NEW p \in Proc, OpenMapped(p)
  PROVE  FilesInv'
<1>1. CASE Fails(p)
  BY <1>1, FailKeeps DEF OpenMapped
<1>2. CASE /\ fds' = fds \cup {[proc |-> p, of |-> job[p], file |-> mapping[p][job[p]]]}
           /\ Goto(p, "idle") /\ job' = [job EXCEPT ![p] = None]
           /\ UNCHANGED <<alive, name, mapping>>
  <2>1. job[p] \in Thing /\ mapping[p][job[p]] \in Name
    BY DEF OpenMapped, FilesInv, FilesTypeOK, JobInHand
  <2>2. FilesTypeOK'
    BY <1>2, <2>1 DEF OpenMapped, Goto, FilesInv, FilesTypeOK, Steps
  <2>3. JobInHand'
    BY <1>2 DEF Goto, FilesInv, FilesTypeOK, JobInHand
  <2>4. WriterAlone'
    BY <1>2 DEF OpenMapped, Goto, FilesInv, FilesTypeOK, WriterAlone
  <2>5. MappedComplete'
    BY <1>2 DEF OpenMapped, FilesInv, MappedComplete
  <2>6. OpenAreMapped'
    BY <1>2 DEF FilesInv, OpenAreMapped
  <2> QED BY <2>2, <2>3, <2>4, <2>5, <2>6 DEF FilesInv
<1> QED BY <1>1, <1>2 DEF OpenMapped

LEMMA CloseKeeps ==
  ASSUME FilesInv, NEW fd \in fds, Close(fd)
  PROVE  FilesInv'
<1>1. FilesTypeOK' /\ OpenAreMapped'
  BY DEF Close, FilesInv, FilesTypeOK, OpenAreMapped
<1>2. JobInHand' /\ WriterAlone' /\ MappedComplete'
  BY DEF Close, FilesInv, JobInHand, WriterAlone, MappedComplete
<1> QED BY <1>1, <1>2 DEF FilesInv

LEMMA DieKeeps ==
  ASSUME FilesInv, NEW p \in Proc, Die(p)
  PROVE  FilesInv'
<1>1. {p} \in SUBSET alive /\ Gone({p}) /\ Forgotten({p})
  BY DEF Die
<1>2. NoFile \in [by : Proc \cup {None}, has : Contents \cup {"nothing"}]
  BY DEF NoFile
<1>3. disk' \in [Name -> [by : Proc \cup {None}, has : Contents \cup {"nothing"}]]
  BY <1>2 DEF Die, FilesInv, FilesTypeOK
<1>4. \A n \in Name : disk[n].by \in alive \ {p} => disk'[n] = disk[n]
  BY DEF Die
<1> QED BY <1>1, <1>3, <1>4, EndKeeps

LEMMA PowerLossKeeps ==
  ASSUME FilesInv, PowerLoss
  PROVE  FilesInv'
<1>1. alive \in SUBSET alive /\ Gone(alive) /\ Forgotten(alive)
  BY DEF PowerLoss
<1>2. PICK lost \in SUBSET {n \in Name : OnDisk(n)} :
        disk' = [n \in Name |->
                   IF ~OnDisk(n) THEN NoFile
                   ELSE [by |-> None, has |-> IF n \in lost THEN "partial" ELSE disk[n].has]]
  BY DEF PowerLoss
<1>3. disk' \in [Name -> [by : Proc \cup {None}, has : Contents \cup {"nothing"}]]
  BY <1>2 DEF NoFile, Contents, FilesInv, FilesTypeOK
<1>4. \A n \in Name : disk[n].by \in alive \ alive => disk'[n] = disk[n]
  OBVIOUS
<1> QED BY <1>1, <1>3, <1>4, EndKeeps

LEMMA FilesInductive == Spec => []FilesInv
<1>1. ASSUME FilesInv, [Next]_vars PROVE FilesInv'
  <2>1. CASE \E p \in Proc :
               Start(p) \/ DrawName(p) \/ (\E t \in Entry : Open(p, t))
                 \/ (\E t \in Text : Make(p, t) \/ OpenMade(p, t))
    BY <1>1, <2>1, AdvanceKeeps
  <2>2. CASE \E p \in Proc : ReadEntry(p)
    BY <1>1, <2>2, ReadKeeps
  <2>3. CASE \E p \in Proc : Create(p)
    BY <1>1, <2>3, CreateKeeps
  <2>4. CASE \E p \in Proc : Write(p)
    BY <1>1, <2>4, WriteKeeps
  <2>5. CASE \E p \in Proc : OpenMapped(p)
    BY <1>1, <2>5, OpenMappedKeeps
  <2>6. CASE \E p \in Proc : Die(p)
    BY <1>1, <2>6, DieKeeps
  <2>7. CASE \E fd \in fds : Close(fd)
    BY <1>1, <2>7, CloseKeeps
  <2>8. CASE PowerLoss
    BY <1>1, <2>8, PowerLossKeeps
  <2>9. CASE UNCHANGED vars
    BY <1>1, <2>9 DEF vars, FilesInv, FilesTypeOK, JobInHand, WriterAlone, MappedComplete, OpenAreMapped
  <2> QED BY <1>1, <2>1, <2>2, <2>3, <2>4, <2>5, <2>6, <2>7, <2>8, <2>9 DEF Next
<1> QED BY <1>1, FilesInitial, PTL DEF Spec

-----------------------------------------------------------------------------
\* For any number of processes that unpack into one folder: what a descriptor
\* reads is the entry it was opened for, complete, and so is every file that a
\* process will open without unpacking it again.
THEOREM DescriptorsAreSound == Spec => []DescriptorsReadTheirEntry
<1>1. FilesInv => DescriptorsReadTheirEntry
  <2> SUFFICES ASSUME FilesInv PROVE DescriptorsReadTheirEntry
    OBVIOUS
  <2>1. ASSUME NEW p \in Proc, NEW t \in Thing, mapping[p][t] # None
        PROVE  disk[mapping[p][t]] = [by |-> p, has |-> t]
    BY <2>1 DEF FilesInv, MappedComplete
  <2>2. ASSUME NEW fd \in fds PROVE disk[fd.file] = [by |-> fd.proc, has |-> fd.of]
    <3>1. fd.proc \in Proc /\ fd.of \in Thing /\ fd.file \in Name
      BY DEF FilesInv, FilesTypeOK
    <3>2. mapping[fd.proc][fd.of] = fd.file /\ fd.file # None
      BY <3>1, TempAssumption DEF FilesInv, OpenAreMapped
    <3> QED BY <2>1, <3>1, <3>2
  <2> QED BY <2>1, <2>2 DEF DescriptorsReadTheirEntry
<1> QED BY <1>1, FilesInductive, PTL

\* However processes fail, end and start again, a process that goes on keeps the
\* file of each entry it unpacked.
THEOREM FilesAreKept == Spec => UnpackedOnce
<1> DEFINE Keeps == \A p \in Proc, t \in Thing :
                      mapping[p][t] # None /\ p \in alive' => mapping'[p][t] = mapping[p][t]
<1>1. ASSUME FilesInv, [Next]_vars PROVE Keeps
  <2>1. CASE UNCHANGED mapping
    BY <2>1
  <2>2. CASE \E p \in Proc : Write(p)
    <3>1. PICK p \in Proc : Write(p)
      BY <2>2
    <3>2. mapping[p][job[p]] = None
      BY <1>1, <3>1 DEF Write, FilesInv, JobInHand
    <3>3. mapping' = mapping \/ mapping' = [mapping EXCEPT ![p][job[p]] = name[p]]
      BY <3>1 DEF Write, Fails
    <3> QED BY <1>1, <3>2, <3>3 DEF FilesInv, FilesTypeOK
  <2>3. CASE \E P \in SUBSET alive : Gone(P) /\ Forgotten(P)
    BY <1>1, <2>3 DEF Gone, Forgotten, FilesInv, FilesTypeOK
  <2> QED BY <1>1, <2>1, <2>2, <2>3 DEF Next, vars, Start, ReadEntry, DrawName, Create,
             OpenMapped, Open, Make, OpenMade, Close, Fails, Die, PowerLoss
<1> QED BY <1>1, FilesInductive, PTL DEF Spec, UnpackedOnce

-----------------------------------------------------------------------------
(* Libraries, for any modules, file names and worlds whose imports have no   *)
(* cycles.  Both theorems rest on the same fact about the mappings in        *)
(* progress: the library of each is needed by the one below it, so their     *)
(* ranks fall, and while the top one asks for imports nobody stores a        *)
(* library that is still being mapped.                                       *)

\* No library needs itself, by way of others either: there is a rank that falls
\* from each library to what it imports.
IsRank(r, w) ==
  /\ r \in [DllName -> Nat]
  /\ \A n \in DllName : \A m \in w.imports[n] : r[m] < r[n]

AcyclicWorlds == \A w \in Worlds : \E r : IsRank(r, w)

Rank(w) == CHOOSE r : IsRank(r, w)

Maps == UNION {[D -> Libs] : D \in SUBSET DllName}

Frames ==
  [lib : Libs, todo : SUBSET DllName, depth : Nat, got : Maps, retry : SUBSET DllName]

\* Live, and what is kept of it, of a state that is given by its parts.
LiveIn(lib, b, o) ==
  IF IsCustom(lib) THEN lib \in DOMAIN b
  ELSE lib.name \in DOMAIN o /\ o[lib.name].owner = lib.owner

Sound(lib, fl, b, o) == lib \in Libs /\ (~fl => LiveIn(lib, b, o))

OsOK ==
  /\ DOMAIN os \subseteq DllName
  /\ \A n \in DOMAIN os : os[n] \in [owner : Owners \ Zipped, refs : Int]

StoreOK ==
  /\ DOMAIN store \subseteq DllName
  /\ \A n \in DOMAIN store : store[n].name = n /\ Sound(store[n], failed, bound, os)

BoundOK ==
  \A l \in DOMAIN bound :
    /\ DOMAIN bound[l] = world.imports[l.name]
    /\ \A n \in DOMAIN bound[l] : Sound(bound[l][n], failed, bound, os)

LoadedOK == \A u \in DOMAIN loaded : Sound(loaded[u], failed, bound, os)

\* A library that is being mapped comes from a zip and is not stored yet; what it
\* imports it has, or has still to ask for.
FrameOK(f, w, st, fl, b, o) ==
  /\ f.lib.owner \in Zipped
  /\ f.lib.name \notin DOMAIN st
  /\ f.retry \subseteq f.todo
  /\ DOMAIN f.got \cup f.todo = w.imports[f.lib.name]
  /\ \A n \in DOMAIN f.got : Sound(f.got[n], fl, b, o)

\* Each mapping is of what the one below it still needs, and ranks fall.
ChainOK(s, w) ==
  /\ \A k \in 1 .. Len(s) - 1 : s[k + 1].lib.name \in s[k].todo
  /\ \A j, k \in 1 .. Len(s) : j < k => Rank(w)[s[k].lib.name] < Rank(w)[s[j].lib.name]

StackOK ==
  /\ stack \in Seq(Frames)
  /\ \A k \in 1 .. Len(stack) : FrameOK(stack[k], world, store, failed, bound, os)
  /\ ChainOK(stack, world)

StoreInv ==
  /\ world \in Worlds /\ failed \in BOOLEAN
  /\ OsOK /\ StoreOK /\ BoundOK /\ LoadedOK /\ StackOK

\* What could be called into still can, unless a mapping has failed.
LiveKept == \A l \in Libs : Sound(l, failed, bound, os) => Sound(l, failed', bound', os')

Stays == \A n \in DOMAIN store : n \in DOMAIN store' /\ store'[n] = store[n]

-----------------------------------------------------------------------------
(* Sequences and functions.                                                  *)

LEMMA OneLess ==
  ASSUME NEW n \in Nat, n # 0
  PROVE  n - 1 \in Int /\ (1 <= n - 1 \/ n - 1 = 0)
OBVIOUS

LEMMA Popped ==
  ASSUME NEW S, NEW s \in Seq(S), s # << >>
  PROVE  LET r == SubSeq(s, 1, Len(s) - 1)
         IN  /\ r \in Seq(S) /\ Len(r) = Len(s) - 1
             /\ \A k \in 1 .. Len(s) - 1 : r[k] = s[k]
<1>1. Len(s) \in Nat /\ Len(s) # 0
  BY EmptySeq, LenProperties
<1>2. \A k \in 1 .. Len(s) - 1 : s[k] \in S
  BY <1>1, ElementOfSeq
<1> DEFINE h == Len(s) - 1
<1>3. h \in Int /\ (1 <= h \/ h = 0) /\ \A k \in 1 .. h : s[k] \in S
  BY <1>1, <1>2, OneLess
<1> HIDE DEF h
<1>4. /\ SubSeq(s, 1, h) \in Seq(S)
      /\ Len(SubSeq(s, 1, h)) = IF 1 <= h THEN h - 1 + 1 ELSE 0
      /\ \A i \in 1 .. h - 1 + 1 : SubSeq(s, 1, h)[i] = s[1 + i - 1]
  BY ONLY <1>3, SubSeqProperties
<1>5. Len(SubSeq(s, 1, h)) = h /\ \A k \in 1 .. h : SubSeq(s, 1, h)[k] = s[k]
  BY <1>3, <1>4
<1> QED
  BY <1>4, <1>5 DEF h

\* s with e on top instead.
LEMMA Replaced ==
  ASSUME NEW S, NEW s \in Seq(S), s # << >>, NEW e \in S
  PROVE  LET r == Append(SubSeq(s, 1, Len(s) - 1), e)
         IN  /\ r \in Seq(S) /\ Len(r) = Len(s)
             /\ r[Len(s)] = e /\ \A k \in 1 .. Len(s) - 1 : r[k] = s[k]
<1> DEFINE b == SubSeq(s, 1, Len(s) - 1)
<1>1. b \in Seq(S) /\ Len(b) = Len(s) - 1 /\ \A k \in 1 .. Len(s) - 1 : b[k] = s[k]
  BY Popped
<1>2. Len(s) \in Nat
  BY LenProperties
<1> HIDE DEF b
<1>3. /\ Append(b, e) \in Seq(S) /\ Len(Append(b, e)) = Len(b) + 1
      /\ \A k \in 1 .. Len(b) : Append(b, e)[k] = b[k]
      /\ Append(b, e)[Len(b) + 1] = e
  BY <1>1, AppendProperties
<1>4. Append(b, e)[Len(s)] = e /\ Len(Append(b, e)) = Len(s)
  BY <1>1, <1>2, <1>3
<1> QED
  BY <1>1, <1>2, <1>3, <1>4 DEF b

LEMMA WithIs ==
  ASSUME NEW f, NEW k, NEW v
  PROVE  /\ DOMAIN With(f, k, v) = DOMAIN f \cup {k}
         /\ With(f, k, v)[k] = v
         /\ \A x \in DOMAIN f : x # k => With(f, k, v)[x] = f[x]
BY DEF With

\* A map to libraries with one more stays one.
LEMMA WithIsMap ==
  ASSUME NEW f \in Maps, NEW k \in DllName, NEW v \in Libs
  PROVE  With(f, k, v) \in Maps
<1>1. PICK D \in SUBSET DllName : f \in [D -> Libs]
  BY DEF Maps
<1>2. With(f, k, v) \in [D \cup {k} -> Libs]
  BY <1>1 DEF With
<1>3. D \cup {k} \in SUBSET DllName
  OBVIOUS
<1> QED
  BY <1>2, <1>3 DEF Maps

LEMMA RankFalls ==
  ASSUME AcyclicWorlds, NEW w \in Worlds, NEW n \in DllName, NEW m \in w.imports[n]
  PROVE  Rank(w)[m] < Rank(w)[n]
<1>1. \E r : IsRank(r, w)
  BY DEF AcyclicWorlds
<1>2. IsRank(Rank(w), w)
  BY <1>1 DEF Rank
<1> QED
  BY <1>2 DEF IsRank

LEMMA RankNat ==
  ASSUME AcyclicWorlds, NEW w \in Worlds, NEW n \in DllName
  PROVE  Rank(w)[n] \in Nat
<1>1. \E r : IsRank(r, w)
  BY DEF AcyclicWorlds
<1>2. IsRank(Rank(w), w)
  BY <1>1 DEF Rank
<1> QED
  BY <1>2 DEF IsRank

LEMMA LibIs ==
  ASSUME NEW n \in DllName, NEW m \in Owners
  PROVE  Lib(n, m) \in Libs /\ Lib(n, m).name = n /\ Lib(n, m).owner = m
BY DEF Lib, Libs

LEMMA FrameChanges ==
  ASSUME NEW f \in Frames, NEW T \in SUBSET DllName, NEW G \in Maps
  PROVE  LET g == [f EXCEPT !.todo = T, !.got = G, !.retry = {}]
         IN  /\ g \in Frames /\ g.lib = f.lib /\ g.todo = T /\ g.got = G /\ g.retry = {}
BY DEF Frames

LEMMA FrameFields ==
  ASSUME NEW f \in Frames
  PROVE  /\ f.lib \in Libs /\ f.lib.name \in DllName /\ f.lib.owner \in Owners
         /\ f.todo \subseteq DllName /\ f.retry \subseteq DllName /\ f.got \in Maps
         /\ f.depth \in Nat
BY DEF Frames, Libs

-----------------------------------------------------------------------------
(* The chain of the mappings when its top changes, goes, or gets one above.   *)

LEMMA ChainTop ==
  ASSUME NEW w, NEW s \in Seq(Frames), NEW r \in Seq(Frames), ChainOK(s, w),
         Len(s) \in Nat, Len(s) # 0,
         Len(r) = Len(s), r[Len(s)].lib = s[Len(s)].lib,
         \A k \in 1 .. Len(s) - 1 : r[k] = s[k]
  PROVE  ChainOK(r, w)
<1>1. \A k \in 1 .. Len(s) : r[k].lib = s[k].lib
  OBVIOUS
<1>2. ASSUME NEW k \in 1 .. Len(r) - 1
      PROVE  r[k + 1].lib.name \in r[k].todo
  <2>1. k + 1 \in 1 .. Len(s) /\ k \in 1 .. Len(s) - 1
    OBVIOUS
  <2>2. s[k + 1].lib.name \in s[k].todo
    BY <2>1 DEF ChainOK
  <2> QED
    BY <1>1, <2>1, <2>2
<1>3. ASSUME NEW j \in 1 .. Len(r), NEW k \in 1 .. Len(r), j < k
      PROVE  Rank(w)[r[k].lib.name] < Rank(w)[r[j].lib.name]
  <2>1. Rank(w)[s[k].lib.name] < Rank(w)[s[j].lib.name]
    BY <1>3 DEF ChainOK
  <2> QED
    BY <1>1, <2>1
<1> QED
  BY <1>2, <1>3 DEF ChainOK

LEMMA ChainBelow ==
  ASSUME NEW w, NEW s, NEW r, ChainOK(s, w),
         Len(s) \in Nat, Len(r) \in Nat, Len(r) <= Len(s),
         \A k \in 1 .. Len(r) : r[k] = s[k]
  PROVE  ChainOK(r, w)
<1>1. ASSUME NEW k \in 1 .. Len(r) - 1
      PROVE  r[k + 1].lib.name \in r[k].todo
  <2>1. k + 1 \in 1 .. Len(r) /\ k \in 1 .. Len(s) - 1 /\ k \in 1 .. Len(r)
    OBVIOUS
  <2> QED
    BY <2>1 DEF ChainOK
<1>2. ASSUME NEW j \in 1 .. Len(r), NEW k \in 1 .. Len(r), j < k
      PROVE  Rank(w)[r[k].lib.name] < Rank(w)[r[j].lib.name]
  <2>1. j \in 1 .. Len(s) /\ k \in 1 .. Len(s)
    OBVIOUS
  <2> QED
    BY <1>2, <2>1 DEF ChainOK
<1> QED
  BY <1>1, <1>2 DEF ChainOK

LEMMA ChainPushed ==
  ASSUME AcyclicWorlds, NEW w \in Worlds, NEW s \in Seq(Frames), NEW r, ChainOK(s, w),
         Len(s) \in Nat, Len(s) # 0, NEW e \in Frames,
         Len(r) = Len(s) + 1, r[Len(s) + 1] = e,
         \A k \in 1 .. Len(s) : r[k] = s[k],
         e.lib.name \in s[Len(s)].todo, e.lib.name \in w.imports[s[Len(s)].lib.name]
  PROVE  ChainOK(r, w)
<1>1. ASSUME NEW k \in 1 .. Len(s)
      PROVE  /\ s[k].lib.name \in DllName
             /\ Rank(w)[s[k].lib.name] \in Nat
  <2>1. s[k] \in Frames
    BY ElementOfSeq
  <2> QED
    BY <2>1, FrameFields, RankNat
<1>2. e.lib.name \in DllName /\ Rank(w)[e.lib.name] \in Nat
  BY FrameFields, RankNat
<1>3. Rank(w)[e.lib.name] < Rank(w)[s[Len(s)].lib.name]
  BY <1>1, RankFalls
<1>4. ASSUME NEW k \in 1 .. Len(r) - 1
      PROVE  r[k + 1].lib.name \in r[k].todo
  <2>1. CASE k = Len(s)
    BY <2>1
  <2>2. CASE k # Len(s)
    <3>1. k \in 1 .. Len(s) - 1 /\ k + 1 \in 1 .. Len(s) /\ k \in 1 .. Len(s)
      BY <2>2
    <3> QED
      BY <3>1 DEF ChainOK
  <2> QED
    BY <2>1, <2>2
<1>5. ASSUME NEW j \in 1 .. Len(r), NEW k \in 1 .. Len(r), j < k
      PROVE  Rank(w)[r[k].lib.name] < Rank(w)[r[j].lib.name]
  <2>1. j \in 1 .. Len(s)
    BY <1>5
  <2>2. CASE k \in 1 .. Len(s)
    BY <1>5, <2>1, <2>2 DEF ChainOK
  <2>3. CASE k = Len(s) + 1
    <3>1. CASE j = Len(s)
      BY <1>3, <2>3, <3>1
    <3>2. CASE j # Len(s)
      <4>1. Rank(w)[s[Len(s)].lib.name] < Rank(w)[s[j].lib.name]
        BY <2>1, <3>2 DEF ChainOK
      <4>2. Rank(w)[e.lib.name] < Rank(w)[s[j].lib.name]
        BY <1>1, <1>2, <1>3, <2>1, <4>1
      <4> QED
        BY <2>1, <2>3, <4>2
    <3> QED
      BY <3>1, <3>2
  <2> QED
    BY <2>2, <2>3
<1> QED
  BY <1>4, <1>5 DEF ChainOK

\* What the top mapping asks for is none of the mappings in progress.
LEMMA AsksForAnother ==
  ASSUME AcyclicWorlds, NEW w \in Worlds, NEW s \in Seq(Frames), ChainOK(s, w),
         Len(s) \in Nat, Len(s) # 0, NEW n \in w.imports[s[Len(s)].lib.name],
         NEW k \in 1 .. Len(s)
  PROVE  s[k].lib.name # n
<1>1. s[k] \in Frames /\ s[Len(s)] \in Frames
  BY ElementOfSeq
<1>2. s[k].lib.name \in DllName /\ s[Len(s)].lib.name \in DllName
  BY <1>1, FrameFields
<1>3. Rank(w)[n] < Rank(w)[s[Len(s)].lib.name]
  BY <1>2, RankFalls
<1>4. n \in DllName
  BY <1>2, StoreAssumption
<1>5. /\ Rank(w)[n] \in Nat /\ Rank(w)[s[k].lib.name] \in Nat
      /\ Rank(w)[s[Len(s)].lib.name] \in Nat
  BY <1>2, <1>4, RankNat
<1>6. CASE k = Len(s)
  BY <1>3, <1>5, <1>6
<1>7. CASE k # Len(s)
  <2>1. Rank(w)[s[Len(s)].lib.name] < Rank(w)[s[k].lib.name]
    BY <1>7 DEF ChainOK
  <2> QED
    BY <1>3, <1>5, <2>1
<1> QED
  BY <1>6, <1>7

\* Nor is the top one any of those below it.
LEMMA TopIsAnother ==
  ASSUME AcyclicWorlds, NEW w \in Worlds, NEW s \in Seq(Frames), ChainOK(s, w),
         Len(s) \in Nat, Len(s) # 0, NEW k \in 1 .. Len(s) - 1
  PROVE  s[k].lib.name # s[Len(s)].lib.name
<1>1. s[k] \in Frames /\ s[Len(s)] \in Frames
  BY ElementOfSeq
<1>2. s[k].lib.name \in DllName /\ s[Len(s)].lib.name \in DllName
  BY <1>1, FrameFields
<1>3. Rank(w)[s[k].lib.name] \in Nat /\ Rank(w)[s[Len(s)].lib.name] \in Nat
  BY <1>2, RankNat
<1>4. Rank(w)[s[Len(s)].lib.name] < Rank(w)[s[k].lib.name]
  BY DEF ChainOK
<1> QED
  BY <1>3, <1>4

-----------------------------------------------------------------------------
(* One mapping when the others, the store and what is loaded change.          *)

LEMMA FrameKept ==
  ASSUME NEW f, NEW w, NEW st, NEW fl, NEW b, NEW o, FrameOK(f, w, st, fl, b, o),
         NEW st2, NEW fl2, NEW b2, NEW o2, f.lib.name \notin DOMAIN st2,
         \A l \in Libs : Sound(l, fl, b, o) => Sound(l, fl2, b2, o2)
  PROVE  FrameOK(f, w, st2, fl2, b2, o2)
BY DEF FrameOK, Sound

\* The top mapping gets an import.
LEMMA FrameGets ==
  ASSUME NEW f \in Frames, NEW w, NEW st, NEW fl, NEW b, NEW o, FrameOK(f, w, st, fl, b, o),
         NEW n \in f.todo, NEW l, Sound(l, fl, b, o)
  PROVE  /\ Gets(f, n, l) \in Frames /\ Gets(f, n, l).lib = f.lib
         /\ FrameOK(Gets(f, n, l), w, st, fl, b, o)
<1> DEFINE G == With(f.got, n, l)
           g == Gets(f, n, l)
<1>1. l \in Libs /\ n \in DllName /\ f.todo \ {n} \in SUBSET DllName
  BY FrameFields DEF Sound
<1>2. G \in Maps
  BY <1>1, FrameFields, WithIsMap
<1>3. /\ g \in Frames /\ g.lib = f.lib /\ g.todo = f.todo \ {n} /\ g.got = G
      /\ g.retry = {}
  <2> HIDE DEF G
  <2> QED
    BY <1>1, <1>2, FrameChanges DEF Gets, G
<1>5. /\ DOMAIN G = DOMAIN f.got \cup {n} /\ G[n] = l
      /\ \A x \in DOMAIN f.got : x # n => G[x] = f.got[x]
  BY DEF With
<1> HIDE DEF g, G
<1>6. DOMAIN g.got \cup g.todo = w.imports[g.lib.name]
  BY <1>3, <1>5 DEF FrameOK
<1>7. \A x \in DOMAIN g.got : Sound(g.got[x], fl, b, o)
  <2> TAKE x \in DOMAIN g.got
  <2>1. CASE x = n
    BY <1>3, <1>5, <2>1
  <2>2. CASE x # n
    BY <1>3, <1>5, <2>2 DEF FrameOK
  <2> QED
    BY <2>1, <2>2
<1>8. FrameOK(g, w, st, fl, b, o)
  BY <1>3, <1>6, <1>7 DEF FrameOK
<1> QED
  BY <1>3, <1>8 DEF g

\* It counts one more name, or is told to finish one by other means.
LEMMA FrameDeeper ==
  ASSUME NEW f \in Frames, NEW w, NEW st, NEW fl, NEW b, NEW o, FrameOK(f, w, st, fl, b, o)
  PROVE  /\ Deeper(f) \in Frames /\ Deeper(f).lib = f.lib /\ Deeper(f).todo = f.todo
         /\ FrameOK(Deeper(f), w, st, fl, b, o)
<1> DEFINE g == Deeper(f)
<1>1. /\ g \in Frames /\ g.lib = f.lib /\ g.todo = f.todo /\ g.got = f.got
      /\ g.retry = f.retry
  BY DEF Deeper, Frames
<1> HIDE DEF g
<1>2. FrameOK(g, w, st, fl, b, o)
  BY <1>1 DEF FrameOK
<1> QED
  BY <1>1, <1>2 DEF g

LEMMA FrameRetries ==
  ASSUME NEW f \in Frames, NEW w, NEW st, NEW fl, NEW b, NEW o, FrameOK(f, w, st, fl, b, o),
         NEW n \in f.todo
  PROVE  LET g == [f EXCEPT !.retry = {n}]
         IN  g \in Frames /\ g.lib = f.lib /\ FrameOK(g, w, st, fl, b, o)
<1> DEFINE g == [f EXCEPT !.retry = {n}]
<1>1. {n} \in SUBSET DllName
  BY FrameFields
<1>2. /\ g \in Frames /\ g.lib = f.lib /\ g.todo = f.todo /\ g.got = f.got
      /\ g.retry = {n}
  BY <1>1 DEF Frames
<1> HIDE DEF g
<1>3. FrameOK(g, w, st, fl, b, o)
  BY <1>2 DEF FrameOK
<1> QED
  BY <1>2, <1>3 DEF g

-----------------------------------------------------------------------------
(* The store, what is loaded, and what refers to either.                      *)

LEMMA StoreGains ==
  ASSUME StoreOK, LiveKept, NEW n \in DllName, NEW l, l.name = n,
         store' = With(store, n, l), Sound(l, failed', bound', os')
  PROVE  StoreOK' /\ DOMAIN store' = DOMAIN store \cup {n}
<1>1. /\ DOMAIN store' = DOMAIN store \cup {n} /\ store'[n] = l
      /\ \A x \in DOMAIN store : x # n => store'[x] = store[x]
  BY DEF With
<1>2. ASSUME NEW x \in DOMAIN store'
      PROVE  store'[x].name = x /\ Sound(store'[x], failed', bound', os')
  <2>1. CASE x = n
    BY <1>1, <2>1
  <2>2. CASE x # n
    <3>1. x \in DOMAIN store /\ store'[x] = store[x]
      BY <1>1, <2>2
    <3>2. store[x].name = x /\ Sound(store[x], failed, bound, os)
      BY <3>1 DEF StoreOK
    <3>3. store[x] \in Libs
      BY <3>2 DEF Sound
    <3> QED
      BY <3>1, <3>2, <3>3 DEF LiveKept
  <2> QED
    BY <2>1, <2>2
<1>3. DOMAIN store' \subseteq DllName
  BY <1>1 DEF StoreOK
<1> QED
  BY <1>1, <1>2, <1>3 DEF StoreOK

LEMMA StoreKept ==
  ASSUME StoreOK, LiveKept, store' = store
  PROVE  StoreOK'
<1>1. ASSUME NEW x \in DOMAIN store
      PROVE  store[x].name = x /\ Sound(store[x], failed', bound', os')
  <2>1. store[x].name = x /\ Sound(store[x], failed, bound, os)
    BY DEF StoreOK
  <2>2. store[x] \in Libs
    BY <2>1 DEF Sound
  <2> QED
    BY <2>1, <2>2 DEF LiveKept
<1> QED
  BY <1>1 DEF StoreOK

LEMMA OthersKept ==
  ASSUME BoundOK, LoadedOK, LiveKept, UNCHANGED <<world, bound, loaded>>
  PROVE  BoundOK' /\ LoadedOK'
<1>1. ASSUME NEW l \in DOMAIN bound
      PROVE  /\ DOMAIN bound[l] = world.imports[l.name]
             /\ \A n \in DOMAIN bound[l] : Sound(bound[l][n], failed', bound, os')
  BY DEF BoundOK, LiveKept, Sound
<1>2. ASSUME NEW u \in DOMAIN loaded
      PROVE  Sound(loaded[u], failed', bound, os')
  BY DEF LoadedOK, LiveKept, Sound
<1> QED
  BY <1>1, <1>2 DEF BoundOK, LoadedOK

LEMMA FetchedIs ==
  ASSUME StoreOK, OsOK, NEW n \in DllName, Found(n)
  PROVE  Fetched(n).name = n /\ Sound(Fetched(n), failed, bound, os)
<1>1. CASE n \in DOMAIN store
  BY <1>1 DEF Fetched, StoreOK
<1>2. CASE n \notin DOMAIN store
  <2>1. n \in DOMAIN os /\ Fetched(n) = Lib(n, os[n].owner)
    BY <1>2 DEF Fetched, Found
  <2>2. os[n].owner \in Owners \ Zipped
    BY <2>1 DEF OsOK
  <2>3. Fetched(n) \in Libs /\ Fetched(n).name = n /\ Fetched(n).owner = os[n].owner
    BY <2>1, <2>2, LibIs
  <2> QED
    BY <2>1, <2>2, <2>3 DEF Sound, LiveIn, IsCustom
<1> QED
  BY <1>1, <1>2

LEMMA NothingLeaves ==
  ASSUME UNCHANGED <<os, bound, failed>>
  PROVE  LiveKept
BY DEF LiveKept

LEMMA OsGrows ==
  ASSUME UNCHANGED <<bound, failed>>, DOMAIN os \subseteq DOMAIN os',
         \A n \in DOMAIN os : os'[n] = os[n]
  PROVE  LiveKept
BY DEF LiveKept, Sound, LiveIn

\* A name that was not stored is, or one that was gets what it had.
LEMMA WithStays ==
  ASSUME NEW n, NEW l, store' = With(store, n, l), n \in DOMAIN store => l = store[n]
  PROVE  Stays
BY DEF Stays, With

LEMMA LoadFileIs ==
  ASSUME OsOK, NEW n \in DllName, ~Found(n), NEW o \in Owners \ Zipped, NEW files \in SUBSET DllName,
         LoadFile(n, o, files), UNCHANGED <<bound, failed>>
  PROVE  /\ OsOK' /\ LiveKept /\ n \notin DOMAIN store
         /\ Lib(n, o).name = n /\ Sound(Lib(n, o), failed', bound', os')
<1>1. PICK more \in SUBSET (files \ (DOMAIN os \cup {n})) :
        os' = [x \in DOMAIN os \cup more \cup {n} |->
                 IF x \in DOMAIN os THEN os[x] ELSE [owner |-> o, refs |-> 1]]
  BY DEF LoadFile
<1>2. n \notin DOMAIN os /\ n \notin DOMAIN store
  BY DEF Found
<1>3. /\ DOMAIN os' = DOMAIN os \cup more \cup {n}
      /\ \A x \in DOMAIN os : os'[x] = os[x]
      /\ \A x \in DOMAIN os' : x \notin DOMAIN os => os'[x] = [owner |-> o, refs |-> 1]
  BY <1>1
<1>4. LiveKept
  BY <1>3, OsGrows
<1>5. [owner |-> o, refs |-> 1] \in [owner : Owners \ Zipped, refs : Int]
  OBVIOUS
<1>6. OsOK'
  BY <1>3, <1>5 DEF OsOK
<1>7. Lib(n, o) \in Libs /\ Lib(n, o).name = n /\ Lib(n, o).owner = o
  BY LibIs
<1>8. n \in DOMAIN os' /\ os'[n].owner = o
  BY <1>2, <1>3
<1>9. Sound(Lib(n, o), failed', bound', os')
  BY <1>7, <1>8 DEF Sound, LiveIn, IsCustom
<1> QED
  BY <1>2, <1>4, <1>6, <1>7, <1>9

LEMMA OriginIs == ASSUME NEW n PROVE Origin(n) \in Owners \ Zipped
BY StoreAssumption DEF Origin, Owners

LEMMA DefaultLoadIs ==
  ASSUME OsOK, world \in Worlds, NEW n \in DllName, ~Found(n), DefaultLoad(n), UNCHANGED <<bound, failed>>
  PROVE  /\ OsOK' /\ LiveKept /\ n \notin DOMAIN store
         /\ Lib(n, Origin(n)).name = n /\ Sound(Lib(n, Origin(n)), failed', bound', os')
<1>1. CASE n \in world.game
  <2>1. LoadFile(n, Game, world.game) /\ Origin(n) = Game
    BY <1>1 DEF DefaultLoad, Origin
  <2>2. world.game \in SUBSET DllName /\ Game \in Owners \ Zipped
    BY <2>1, OriginIs, StoreAssumption
  <2> QED
    BY <2>1, <2>2, LoadFileIs
<1>2. CASE n \notin world.game
  <2> DEFINE e == [owner |-> System, refs |-> 1]
  <2>1. os' = With(os, n, e) /\ Origin(n) = System
    BY <1>2 DEF DefaultLoad, Origin
  <2>2. n \notin DOMAIN os /\ n \notin DOMAIN store
    BY DEF Found
  <2>3. DOMAIN os' = DOMAIN os \cup {n} /\ os'[n] = e /\ \A x \in DOMAIN os : os'[x] = os[x]
    BY <2>1, <2>2 DEF With
  <2>4. System \in Owners \ Zipped
    BY <2>1, OriginIs
  <2>5. e \in [owner : Owners \ Zipped, refs : Int] /\ e.owner = System
    BY <2>4
  <2> HIDE DEF e
  <2>6. OsOK'
    BY <2>3, <2>5 DEF OsOK
  <2>7. LiveKept
    BY <2>3, OsGrows
  <2>8. Lib(n, System) \in Libs /\ Lib(n, System).name = n /\ Lib(n, System).owner = System
    BY <2>4, LibIs
  <2>9. Sound(Lib(n, System), failed', bound', os')
    BY <2>3, <2>4, <2>5, <2>8 DEF Sound, LiveIn, IsCustom
  <2> QED
    BY <2>1, <2>2, <2>6, <2>7, <2>8, <2>9
<1> QED
  BY <1>1, <1>2

LEMMA PutLibraryIs ==
  ASSUME NEW n, PutLibrary(n)
  PROVE  DefaultLoad(n) /\ store' = With(store, n, Lib(n, Origin(n)))
BY DEF PutLibrary, DefaultLoad

-----------------------------------------------------------------------------
(* The mappings in progress, in a step.                                       *)

LEMMA StackLen ==
  ASSUME StackOK, stack # << >>
  PROVE  /\ stack \in Seq(Frames) /\ Len(stack) \in Nat /\ Len(stack) # 0
         /\ Len(stack) \in 1 .. Len(stack) /\ Top \in Frames
         /\ FrameOK(Top, world, store, failed, bound, os)
<1>1. stack \in Seq(Frames)
  BY DEF StackOK
<1>2. Len(stack) \in Nat /\ Len(stack) # 0
  BY <1>1, EmptySeq, LenProperties
<1>3. Len(stack) \in 1 .. Len(stack)
  BY <1>2
<1>4. stack[Len(stack)] \in Frames
  BY <1>1, <1>3, ElementOfSeq
<1> QED
  BY <1>1, <1>2, <1>3, <1>4 DEF StackOK, Top

\* When only a library that none of them is gets stored, the mappings stay right.
LEMMA AllKept ==
  ASSUME AcyclicWorlds, StoreInv, stack # << >>, LiveKept,
         NEW n \in world.imports[Top.lib.name], DOMAIN store' \subseteq DOMAIN store \cup {n}
  PROVE  \A k \in 1 .. Len(stack) : FrameOK(stack[k], world, store', failed', bound', os')
<1> TAKE k \in 1 .. Len(stack)
<1>1. StackOK /\ world \in Worlds
  BY DEF StoreInv
<1>2. stack \in Seq(Frames) /\ Len(stack) \in Nat /\ Len(stack) # 0 /\ ChainOK(stack, world)
  BY <1>1, StackLen DEF StackOK
<1>3. n \in world.imports[stack[Len(stack)].lib.name]
  BY DEF Top
<1>4. stack[k].lib.name # n
  BY <1>1, <1>2, <1>3, AsksForAnother
<1>5. FrameOK(stack[k], world, store, failed, bound, os)
  BY <1>1 DEF StackOK
<1>6. stack[k].lib.name \notin DOMAIN store'
  BY <1>4, <1>5 DEF FrameOK
<1> QED
  BY <1>5, <1>6, FrameKept DEF LiveKept

LEMMA TopReplaced ==
  ASSUME StackOK, stack # << >>, world' = world,
         \A k \in 1 .. Len(stack) : FrameOK(stack[k], world, store', failed', bound', os'),
         NEW e \in Frames, e.lib = Top.lib, FrameOK(e, world, store', failed', bound', os'),
         stack' = Append(Below, e)
  PROVE  StackOK'
<1>1. stack \in Seq(Frames) /\ Len(stack) \in Nat /\ Len(stack) # 0
  BY StackLen
<1>2. /\ stack' \in Seq(Frames) /\ Len(stack') = Len(stack) /\ stack'[Len(stack)] = e
      /\ \A k \in 1 .. Len(stack) - 1 : stack'[k] = stack[k]
  BY <1>1, Replaced DEF Below
<1>3. ChainOK(stack', world)
  BY <1>1, <1>2, ChainTop DEF StackOK, Top
<1>4. ASSUME NEW k \in 1 .. Len(stack')
      PROVE  FrameOK(stack'[k], world, store', failed', bound', os')
  <2>1. CASE k = Len(stack)
    BY <1>2, <2>1
  <2>2. CASE k # Len(stack)
    <3>1. k \in 1 .. Len(stack) - 1 /\ k \in 1 .. Len(stack)
      BY <1>1, <1>2, <2>2
    <3> QED
      BY <1>2, <3>1
  <2> QED
    BY <2>1, <2>2
<1> QED
  BY <1>2, <1>3, <1>4 DEF StackOK

\* A mapping ends: it goes, and the one below may change.
LEMMA TopGoes ==
  ASSUME StackOK, stack # << >>, world' = world,
         \A k \in 1 .. Len(stack) - 1 : FrameOK(stack[k], world, store', failed', bound', os'),
         NEW e, stack' = IF Below = << >> THEN << >> ELSE [Below EXCEPT ![Len(Below)] = e],
         Below # << >> => /\ e \in Frames /\ e.lib = Below[Len(Below)].lib
                          /\ FrameOK(e, world, store', failed', bound', os')
  PROVE  StackOK'
<1>1. stack \in Seq(Frames) /\ Len(stack) \in Nat /\ Len(stack) # 0
  BY StackLen
<1>2. /\ Below \in Seq(Frames) /\ Len(Below) = Len(stack) - 1
      /\ \A k \in 1 .. Len(stack) - 1 : Below[k] = stack[k]
  BY <1>1, Popped DEF Below
<1>3. CASE Below = << >>
  <2>1. stack' = << >>
    BY <1>3
  <2> QED
    BY <2>1, EmptySeq DEF StackOK, ChainOK
<1>4. CASE Below # << >>
  <2>1. Len(Below) \in Nat /\ Len(Below) # 0
    BY <1>2, <1>4, EmptySeq, LenProperties
  <2>2. ChainOK(Below, world)
    BY <1>1, <1>2, <2>1, ChainBelow DEF StackOK
  <2>3. /\ stack' \in Seq(Frames) /\ Len(stack') = Len(Below) /\ stack'[Len(Below)] = e
        /\ \A k \in 1 .. Len(Below) - 1 : stack'[k] = Below[k]
    BY <1>2, <1>4, <2>1, ExceptSeq
  <2>4. ChainOK(stack', world)
    BY <1>2, <1>4, <2>1, <2>2, <2>3, ChainTop
  <2>5. ASSUME NEW k \in 1 .. Len(stack')
        PROVE  FrameOK(stack'[k], world, store', failed', bound', os')
    <3>1. CASE k = Len(Below)
      BY <1>4, <2>3, <3>1
    <3>2. CASE k # Len(Below)
      <4>1. k \in 1 .. Len(Below) - 1 /\ k \in 1 .. Len(stack) - 1
        BY <1>2, <2>1, <2>3, <3>2
      <4>2. stack'[k] = stack[k]
        BY <1>2, <2>3, <4>1
      <4> QED
        BY <4>1, <4>2
    <3> QED
      BY <3>1, <3>2
  <2> QED
    BY <2>3, <2>4, <2>5 DEF StackOK
<1> QED
  BY <1>3, <1>4

LEMMA StackEmpty ==
  ASSUME stack' = << >>
  PROVE  StackOK'
BY EmptySeq DEF StackOK, ChainOK

-----------------------------------------------------------------------------
(* The steps.                                                                 *)

\* A mapping that begins, of a library that is not known yet.
LEMMA FreshFrame ==
  ASSUME world \in Worlds, NEW n \in DllName, NEW m \in Zipped, ~Found(n)
  PROVE  /\ Frame(n, m) \in Frames /\ Frame(n, m).lib.name = n
         /\ FrameOK(Frame(n, m), world, store, failed, bound, os)
<1> DEFINE f == Frame(n, m)
<1>1. /\ f.lib = Lib(n, m) /\ f.todo = world.imports[n] /\ f.got = << >> /\ f.retry = {}
  BY DEF Frame
<1>2. m \in Module /\ m \in Owners /\ world.imports[n] \subseteq DllName
  BY StoreAssumption DEF Owners
<1>3. Lib(n, m) \in Libs /\ Lib(n, m).name = n /\ Lib(n, m).owner = m
  BY <1>2, LibIs
<1>4. << >> \in [{} -> Libs] /\ {} \in SUBSET DllName /\ DOMAIN << >> = {}
  OBVIOUS
<1>5. << >> \in Maps
  BY <1>4 DEF Maps
<1>6. f \in Frames
  BY <1>2, <1>3, <1>5 DEF Frame, Frames
<1>7. n \notin DOMAIN store
  BY DEF Found
<1> HIDE DEF f
<1>8. FrameOK(f, world, store, failed, bound, os)
  BY <1>1, <1>3, <1>4, <1>7 DEF FrameOK
<1> QED
  BY <1>1, <1>3, <1>6, <1>8 DEF f

LEMMA OpenSteps ==
  ASSUME StoreInv, NEW m \in Module, NEW n \in DllName, LoadLibrary(m, n)
  PROVE  StoreInv' /\ Stays
<1> USE DEF StoreInv
<1>1. stack = << >> /\ UNCHANGED <<world, bound, failed, loaded>>
  BY DEF LoadLibrary
<1>2. CASE OpenFetched(n)
  <2>1. Found(n) /\ store' = With(store, n, Fetched(n)) /\ UNCHANGED <<os, stack>>
    BY <1>2 DEF OpenFetched, Fetch
  <2>2. Fetched(n).name = n /\ Sound(Fetched(n), failed, bound, os)
    BY <2>1, FetchedIs
  <2>3. LiveKept
    BY <1>1, <2>1, NothingLeaves
  <2>4. StoreOK'
    BY <1>1, <2>1, <2>2, <2>3, StoreGains
  <2>5. Stays
    BY <2>1, WithStays DEF Fetched
  <2> QED
    BY <1>1, <2>1, <2>3, <2>4, <2>5, OthersKept, StackEmpty DEF OsOK
<1>3. CASE OpenFromZip(m, n)
  <2> DEFINE f == Frame(n, m)
  <2>1. /\ ~Found(n) /\ m \in Zipped /\ stack' = <<f>> /\ UNCHANGED <<store, os>>
    BY <1>3 DEF OpenFromZip
  <2>2. LiveKept
    BY <1>1, <2>1, NothingLeaves
  <2>3. f \in Frames /\ FrameOK(f, world, store, failed, bound, os)
    BY <2>1, FreshFrame
  <2> HIDE DEF f
  <2>4. stack' \in Seq(Frames) /\ Len(stack') = 1 /\ stack'[1] = f
    BY <2>1, <2>3
  <2>5. ChainOK(stack', world)
    BY <2>4 DEF ChainOK
  <2>6. StackOK'
    BY <1>1, <2>1, <2>3, <2>4, <2>5 DEF StackOK
  <2> QED
    BY <1>1, <2>1, <2>2, <2>6, OthersKept, StoreKept DEF OsOK, Stays
<1>4. CASE OpenByName(m, n)
  <2>1. ~Found(n) /\ DefaultLoad(n) /\ store' = With(store, n, Lib(n, Origin(n))) /\ stack' = stack
    BY <1>4, PutLibraryIs DEF OpenByName
  <2>2. /\ OsOK' /\ LiveKept /\ n \notin DOMAIN store
        /\ Lib(n, Origin(n)).name = n /\ Sound(Lib(n, Origin(n)), failed', bound', os')
    BY <1>1, <2>1, DefaultLoadIs
  <2>3. StoreOK'
    BY <2>1, <2>2, StoreGains
  <2>4. Stays
    BY <2>1, <2>2, WithStays
  <2> QED
    BY <1>1, <2>1, <2>2, <2>3, <2>4, OthersKept, StackEmpty
<1>5. CASE OpenFromFolder(m, n)
  <2>1. /\ ~Found(n) /\ m \notin Zipped
        /\ store' = With(store, n, Lib(n, m)) /\ stack' = stack
    BY <1>5 DEF OpenFromFolder
  <2>2. LoadFile(n, m, world.files[m])
    BY <1>5 DEF OpenFromFolder
  <2>3. m \in Owners \ Zipped /\ world.files[m] \in SUBSET DllName
    BY <2>1, StoreAssumption DEF Owners
  <2>4. /\ OsOK' /\ LiveKept /\ n \notin DOMAIN store
        /\ Lib(n, m).name = n /\ Sound(Lib(n, m), failed', bound', os')
    BY <1>1, <2>1, <2>2, <2>3, LoadFileIs
  <2>5. StoreOK'
    BY <2>1, <2>4, StoreGains
  <2>6. Stays
    BY <2>1, <2>4, WithStays
  <2> QED
    BY <1>1, <2>1, <2>4, <2>5, <2>6, OthersKept, StackEmpty
<1>6. CASE OpenFails(m, n)
  <2>1. UNCHANGED <<store, os, stack>>
    BY <1>6 DEF OpenFails
  <2>2. LiveKept
    BY <1>1, <2>1, NothingLeaves
  <2> QED
    BY <1>1, <2>1, <2>2, OthersKept, StoreKept, StackEmpty DEF OsOK, Stays
<1> QED
  BY <1>2, <1>3, <1>4, <1>5, <1>6 DEF LoadLibrary

\* What a pending import is.
LEMMA PendingIs ==
  ASSUME StoreInv, stack # << >>, NEW n \in Pending
  PROVE  n \in Top.todo /\ n \in world.imports[Top.lib.name] /\ n \in DllName
<1>1. Top \in Frames /\ FrameOK(Top, world, store, failed, bound, os)
  BY StackLen DEF StoreInv
<1>2. n \in Top.todo
  BY <1>1 DEF Pending, FrameOK
<1>3. n \in DllName
  BY <1>1, <1>2, FrameFields
<1> QED
  BY <1>1, <1>2, <1>3 DEF FrameOK

LEMMA ImportSteps ==
  ASSUME AcyclicWorlds, StoreInv, Import
  PROVE  StoreInv' /\ Stays
<1>1. stack # << >> /\ UNCHANGED <<world, bound, failed, loaded>>
  BY DEF Import
<1>2. PICK n \in Pending :
        ImportFetched(n) \/ ImportFromZip(n) \/ ImportByName(n) \/ ImportDefault(n)
  BY DEF Import
<1>3. n \in Top.todo /\ n \in world.imports[Top.lib.name] /\ n \in DllName
  BY <1>1, <1>2, PendingIs
<1>4. /\ stack \in Seq(Frames) /\ Len(stack) \in Nat /\ Len(stack) # 0
      /\ Len(stack) \in 1 .. Len(stack) /\ Top \in Frames
      /\ world \in Worlds /\ ChainOK(stack, world)
  BY <1>1, StackLen DEF StoreInv, StackOK
<1> DEFINE Kept == \A k \in 1 .. Len(stack) :
                     FrameOK(stack[k], world, store', failed', bound', os')
<1>5. ASSUME Kept, OsOK', StoreOK', LiveKept, Stays, NEW l, Sound(l, failed', bound', os'),
             stack' = Append(Below, Gets(Top, n, l)) \/ stack' = Append(Below, Gets(Deeper(Top), n, l))
      PROVE  StoreInv' /\ Stays
  <2>1. FrameOK(Top, world, store', failed', bound', os')
    BY <1>4, <1>5 DEF Top
  <2>2. BoundOK' /\ LoadedOK'
    BY <1>1, <1>5, OthersKept DEF StoreInv
  <2>3. PICK f \in {Top, Deeper(Top)} : stack' = Append(Below, Gets(f, n, l))
    BY <1>5
  <2>4. /\ f \in Frames /\ f.lib = Top.lib /\ f.todo = Top.todo
        /\ FrameOK(f, world, store', failed', bound', os')
    BY <1>4, <2>1, <2>3, FrameDeeper
  <2>5. n \in f.todo
    BY <1>3, <2>4
  <2>6. /\ Gets(f, n, l) \in Frames /\ Gets(f, n, l).lib = Top.lib
        /\ FrameOK(Gets(f, n, l), world, store', failed', bound', os')
    BY <1>5, <2>4, <2>5, FrameGets
  <2>7. StackOK'
    BY <1>1, <1>5, <2>3, <2>6, TopReplaced DEF StoreInv
  <2> QED
    BY <1>1, <1>5, <2>2, <2>7 DEF StoreInv
<1>6. CASE ImportFetched(n)
  <2>1. /\ Found(n) /\ store' = With(store, n, Fetched(n)) /\ os' = os
        /\ stack' = Append(Below, Gets(Top, n, Fetched(n)))
    BY <1>6 DEF ImportFetched, Fetch
  <2>2. Fetched(n).name = n /\ Sound(Fetched(n), failed, bound, os)
    BY <1>3, <2>1, FetchedIs DEF StoreInv
  <2>3. LiveKept
    BY <1>1, <2>1, NothingLeaves
  <2>4. StoreOK' /\ DOMAIN store' = DOMAIN store \cup {n}
    BY <1>1, <1>3, <2>1, <2>2, <2>3, StoreGains DEF StoreInv
  <2>5. Stays
    BY <2>1, WithStays DEF Fetched
  <2>6. Kept
    BY <1>1, <1>3, <2>3, <2>4, AllKept
  <2>7. OsOK'
    BY <2>1 DEF StoreInv, OsOK
  <2> QED
    BY <1>1, <1>5, <2>1, <2>2, <2>3, <2>4, <2>5, <2>6, <2>7
<1>7. CASE ImportFromZip(n)
  <2> DEFINE d == Deeper(Top)
             f == Frame(n, Top.lib.owner)
             s == Append(Below, d)
  <2>1. ~Found(n) /\ stack' = Append(s, f) /\ UNCHANGED <<store, os>>
    BY <1>7 DEF ImportFromZip
  <2>2. FrameOK(Top, world, store, failed, bound, os)
    BY <1>1, StackLen DEF StoreInv
  <2>3. Top.lib.owner \in Zipped
    BY <2>2 DEF FrameOK
  <2>4. /\ f \in Frames /\ f.lib.name = n
        /\ FrameOK(f, world, store, failed, bound, os)
    BY <1>3, <1>4, <2>1, <2>3, FreshFrame
  <2>5. /\ d \in Frames /\ d.lib = Top.lib /\ d.todo = Top.todo
        /\ FrameOK(d, world, store, failed, bound, os)
    BY <1>4, <2>2, FrameDeeper
  <2> HIDE DEF d, f
  <2>6. /\ s \in Seq(Frames) /\ Len(s) = Len(stack) /\ s[Len(stack)] = d
        /\ \A k \in 1 .. Len(stack) - 1 : s[k] = stack[k]
    BY <1>1, <1>4, <2>5, Replaced DEF Below
  <2> HIDE DEF s
  <2>7. ChainOK(s, world)
    BY <1>4, <2>5, <2>6, ChainTop DEF Top
  <2>8. /\ stack' \in Seq(Frames) /\ Len(stack') = Len(s) + 1 /\ stack'[Len(s) + 1] = f
        /\ \A k \in 1 .. Len(s) : stack'[k] = s[k]
    BY <2>1, <2>4, <2>6, AppendProperties
  <2>9. f.lib.name \in s[Len(s)].todo /\ f.lib.name \in world.imports[s[Len(s)].lib.name]
    BY <1>3, <2>4, <2>5, <2>6
  <2>10. ChainOK(stack', world)
    BY <1>4, <2>4, <2>6, <2>7, <2>8, <2>9, ChainPushed
  <2>11. ASSUME NEW k \in 1 .. Len(stack')
         PROVE  FrameOK(stack'[k], world, store, failed, bound, os)
    <3>1. CASE k = Len(s) + 1
      BY <2>4, <2>8, <3>1
    <3>2. CASE k = Len(s)
      BY <1>4, <2>5, <2>6, <2>8, <3>2
    <3>3. CASE k \notin {Len(s), Len(s) + 1}
      <4>1. k \in 1 .. Len(stack) - 1 /\ k \in 1 .. Len(s) /\ k \in 1 .. Len(stack)
        BY <1>4, <2>6, <2>8, <3>3
      <4>2. stack'[k] = stack[k]
        BY <2>6, <2>8, <4>1
      <4> QED
        BY <4>1, <4>2 DEF StoreInv, StackOK
    <3> QED
      BY <3>1, <3>2, <3>3
  <2>12. StackOK'
    BY <1>1, <2>1, <2>8, <2>10, <2>11 DEF StackOK
  <2>13. LiveKept
    BY <1>1, <2>1, NothingLeaves
  <2>14. BoundOK' /\ LoadedOK' /\ StoreOK'
    BY <1>1, <2>1, <2>13, OthersKept, StoreKept DEF StoreInv
  <2> QED
    BY <1>1, <2>1, <2>12, <2>14 DEF StoreInv, OsOK, Stays
<1>8. CASE ImportByName(n)
  <2>1. /\ ~Found(n) /\ DefaultLoad(n) /\ store' = With(store, n, Lib(n, Origin(n)))
        /\ stack' = Append(Below, Gets(Deeper(Top), n, Lib(n, Origin(n))))
    BY <1>8, PutLibraryIs DEF ImportByName
  <2>2. /\ OsOK' /\ LiveKept /\ n \notin DOMAIN store
        /\ Lib(n, Origin(n)).name = n /\ Sound(Lib(n, Origin(n)), failed', bound', os')
    BY <1>1, <1>3, <2>1, DefaultLoadIs DEF StoreInv
  <2>3. StoreOK' /\ DOMAIN store' = DOMAIN store \cup {n}
    BY <1>3, <2>1, <2>2, StoreGains DEF StoreInv
  <2>4. Stays
    BY <2>1, <2>2, WithStays
  <2>5. Kept
    BY <1>1, <1>3, <2>2, <2>3, AllKept
  <2> QED
    BY <1>5, <2>1, <2>2, <2>3, <2>4, <2>5
<1>9. CASE ImportDefault(n)
  <2>1. /\ ~Found(n) /\ DefaultLoad(n) /\ store' = store
        /\ stack' = Append(Below, Gets(Deeper(Top), n, Lib(n, Origin(n))))
    BY <1>9 DEF ImportDefault
  <2>2. OsOK' /\ LiveKept /\ Sound(Lib(n, Origin(n)), failed', bound', os')
    BY <1>1, <1>3, <2>1, DefaultLoadIs DEF StoreInv
  <2>3. StoreOK' /\ Stays
    BY <2>1, <2>2, StoreKept DEF StoreInv, Stays
  <2>4. Kept
    BY <1>1, <1>3, <2>1, <2>2, AllKept
  <2> QED
    BY <1>5, <2>1, <2>2, <2>3, <2>4
<1> QED
  BY <1>2, <1>6, <1>7, <1>8, <1>9

LEMMA SucceedStep ==
  ASSUME AcyclicWorlds, StoreInv, MapSucceeds
  PROVE  StoreInv' /\ Stays
<1> DEFINE t == Top
           n == t.lib.name
<1>1. /\ stack # << >> /\ t.todo = {} /\ store' = With(store, n, t.lib)
      /\ bound' = With(bound, t.lib, t.got)
      /\ stack' = IF Below = << >> THEN << >>
                  ELSE [Below EXCEPT ![Len(Below)] = Gets(@, n, t.lib)]
      /\ UNCHANGED <<world, os, failed, loaded>>
  BY DEF MapSucceeds
<1>2. /\ stack \in Seq(Frames) /\ Len(stack) \in Nat /\ Len(stack) # 0
      /\ Len(stack) \in 1 .. Len(stack) /\ t \in Frames
      /\ FrameOK(t, world, store, failed, bound, os)
      /\ world \in Worlds /\ ChainOK(stack, world)
  BY <1>1, StackLen DEF StoreInv, StackOK
<1>3. t.lib \in Libs /\ n \in DllName /\ t.lib.owner \in Zipped /\ n \notin DOMAIN store
      /\ DOMAIN t.got = world.imports[n] /\ \A x \in DOMAIN t.got : Sound(t.got[x], failed, bound, os)
  BY <1>1, <1>2, FrameFields DEF FrameOK
<1>4. t = stack[Len(stack)]
  BY DEF Top
<1> HIDE DEF t
<1>5. /\ DOMAIN bound' = DOMAIN bound \cup {t.lib} /\ bound'[t.lib] = t.got
      /\ \A l \in DOMAIN bound : l # t.lib => bound'[l] = bound[l]
  BY <1>1 DEF With
<1>6. LiveKept
  BY <1>1, <1>5 DEF LiveKept, Sound, LiveIn
<1>7. Sound(t.lib, failed', bound', os')
  BY <1>3, <1>5 DEF Sound, LiveIn, IsCustom
<1>8. StoreOK' /\ DOMAIN store' = DOMAIN store \cup {n}
  BY <1>1, <1>3, <1>6, <1>7, StoreGains DEF StoreInv
<1>9. Stays
  BY <1>1, <1>3, WithStays
<1>10. BoundOK'
  <2>1. ASSUME NEW l \in DOMAIN bound'
        PROVE  /\ DOMAIN bound'[l] = world.imports[l.name]
               /\ \A x \in DOMAIN bound'[l] : Sound(bound'[l][x], failed', bound', os')
    <3>1. CASE l = t.lib
      BY <1>3, <1>5, <1>6, <3>1 DEF LiveKept, Sound
    <3>2. CASE l # t.lib
      <4>1. l \in DOMAIN bound /\ bound'[l] = bound[l]
        BY <1>5, <3>2
      <4>2. /\ DOMAIN bound[l] = world.imports[l.name]
            /\ \A x \in DOMAIN bound[l] : Sound(bound[l][x], failed, bound, os)
        BY <4>1 DEF StoreInv, BoundOK
      <4>3. \A x \in DOMAIN bound[l] : Sound(bound[l][x], failed', bound', os')
        BY <1>6, <4>2 DEF LiveKept, Sound
      <4> QED
        BY <4>1, <4>2, <4>3
    <3> QED
      BY <3>1, <3>2
  <2> QED
    BY <1>1, <2>1 DEF BoundOK
<1>11. LoadedOK'
  <2>1. \A u \in DOMAIN loaded : Sound(loaded[u], failed', bound', os')
    BY <1>6 DEF StoreInv, LoadedOK, LiveKept, Sound
  <2> QED
    BY <1>1, <2>1 DEF LoadedOK
<1>12. ASSUME NEW k \in 1 .. Len(stack) - 1
       PROVE  FrameOK(stack[k], world, store', failed', bound', os')
  <2>1. k \in 1 .. Len(stack)
    BY <1>2
  <2>2. stack[k].lib.name # n
    BY <1>2, <1>4, TopIsAnother
  <2>3. FrameOK(stack[k], world, store, failed, bound, os)
    BY <2>1 DEF StoreInv, StackOK
  <2>4. stack[k].lib.name \notin DOMAIN store'
    BY <1>8, <2>2, <2>3 DEF FrameOK
  <2> QED
    BY <1>6, <2>3, <2>4, FrameKept DEF LiveKept
<1>13. StackOK'
  <2> DEFINE b == Below[Len(Below)]
             e == Gets(b, n, t.lib)
  <2>1. stack' = IF Below = << >> THEN << >> ELSE [Below EXCEPT ![Len(Below)] = e]
    BY <1>1
  <2>2. ASSUME Below # << >>
        PROVE  /\ e \in Frames /\ e.lib = b.lib
               /\ FrameOK(e, world, store', failed', bound', os')
    <3>1. /\ Below \in Seq(Frames) /\ Len(Below) = Len(stack) - 1
          /\ \A k \in 1 .. Len(stack) - 1 : Below[k] = stack[k]
      BY <1>1, <1>2, Popped DEF Below
    <3>2. Len(Below) \in Nat /\ Len(Below) # 0
      BY <2>2, <3>1, EmptySeq, LenProperties
    <3>3. Len(Below) \in 1 .. Len(stack) - 1 /\ Len(Below) \in 1 .. Len(stack)
          /\ Len(Below) + 1 = Len(stack)
      BY <1>2, <3>1, <3>2
    <3>4. b = stack[Len(Below)]
      BY <3>1, <3>3
    <3>5. b \in Frames
      BY <1>2, <3>3, <3>4, ElementOfSeq
    <3>6. FrameOK(b, world, store', failed', bound', os')
      BY <1>12, <3>3, <3>4
    <3>7. n \in b.todo
      BY <1>2, <1>4, <3>3, <3>4 DEF ChainOK
    <3> HIDE DEF b
    <3> QED
      BY <1>7, <3>5, <3>6, <3>7, FrameGets
  <2> HIDE DEF e
  <2> QED
    BY <1>1, <1>12, <2>1, <2>2, TopGoes DEF StoreInv
<1>14. OsOK'
  BY <1>1 DEF StoreInv, OsOK
<1> QED
  BY <1>1, <1>8, <1>9, <1>10, <1>11, <1>13, <1>14 DEF StoreInv

LEMMA FailStep ==
  ASSUME AcyclicWorlds, StoreInv, MapFails
  PROVE  StoreInv' /\ Stays
<1> DEFINE t == Top
           n == t.lib.name
<1>1. /\ stack # << >> /\ os' = Unreferenced(t) /\ failed' = TRUE
      /\ stack' = IF Below = << >> THEN << >>
                  ELSE [Below EXCEPT ![Len(Below)] = [@ EXCEPT !.retry = {n}]]
      /\ UNCHANGED <<world, store, bound, loaded>>
  BY DEF MapFails
<1>2. /\ stack \in Seq(Frames) /\ Len(stack) \in Nat /\ Len(stack) # 0
      /\ ChainOK(stack, world)
  BY <1>1, StackLen DEF StoreInv, StackOK
<1>3. LiveKept
  BY <1>1 DEF LiveKept, Sound
<1>4. OsOK'
  <2> DEFINE freed == {x \in DOMAIN t.got : x \in DOMAIN os /\ ~IsCustom(t.got[x])}
             left  == [x \in DOMAIN os |->
                         [os[x] EXCEPT !.refs = IF x \in freed \ world.pinned THEN @ - 1 ELSE @]]
  <2>1. os' = [x \in {y \in DOMAIN os : left[y].refs > 0} |-> left[x]]
    BY <1>1 DEF Unreferenced
  <2>2. ASSUME NEW x \in DOMAIN os
        PROVE  left[x] \in [owner : Owners \ Zipped, refs : Int]
    <3>1. os[x] \in [owner : Owners \ Zipped, refs : Int]
      BY DEF StoreInv, OsOK
    <3>2. left[x] = [os[x] EXCEPT !.refs = IF x \in freed \ world.pinned THEN @ - 1 ELSE @]
      OBVIOUS
    <3> HIDE DEF left, freed
    <3> QED
      BY <3>1, <3>2
  <2>3. DOMAIN os \subseteq DllName
    BY DEF StoreInv, OsOK
  <2> HIDE DEF left
  <2> QED
    BY <2>1, <2>2, <2>3 DEF OsOK
<1>5. ASSUME NEW k \in 1 .. Len(stack) - 1
      PROVE  FrameOK(stack[k], world, store', failed', bound', os')
  <2>1. k \in 1 .. Len(stack)
    BY <1>2
  <2>2. FrameOK(stack[k], world, store, failed, bound, os)
    BY <2>1 DEF StoreInv, StackOK
  <2>3. stack[k].lib.name \notin DOMAIN store'
    BY <1>1, <2>2 DEF FrameOK
  <2> QED
    BY <1>3, <2>2, <2>3, FrameKept DEF LiveKept
<1>6. StackOK'
  <2> DEFINE b == Below[Len(Below)]
             e == [b EXCEPT !.retry = {n}]
  <2>1. stack' = IF Below = << >> THEN << >> ELSE [Below EXCEPT ![Len(Below)] = e]
    BY <1>1
  <2>2. ASSUME Below # << >>
        PROVE  /\ e \in Frames /\ e.lib = b.lib
               /\ FrameOK(e, world, store', failed', bound', os')
    <3>1. /\ Below \in Seq(Frames) /\ Len(Below) = Len(stack) - 1
          /\ \A k \in 1 .. Len(stack) - 1 : Below[k] = stack[k]
      BY <1>1, <1>2, Popped DEF Below
    <3>2. Len(Below) \in Nat /\ Len(Below) # 0
      BY <2>2, <3>1, EmptySeq, LenProperties
    <3>3. Len(Below) \in 1 .. Len(stack) - 1 /\ Len(Below) \in 1 .. Len(stack)
          /\ Len(Below) + 1 = Len(stack)
      BY <1>2, <3>1, <3>2
    <3>4. b = stack[Len(Below)]
      BY <3>1, <3>3
    <3>5. b \in Frames
      BY <1>2, <3>3, <3>4, ElementOfSeq
    <3>6. FrameOK(b, world, store', failed', bound', os')
      BY <1>5, <3>3, <3>4
    <3>7. n \in b.todo
      BY <1>2, <3>3, <3>4 DEF ChainOK, Top
    <3> HIDE DEF b
    <3> QED
      BY <3>5, <3>6, <3>7, FrameRetries
  <2> HIDE DEF e
  <2> QED
    BY <1>1, <1>5, <2>1, <2>2, TopGoes DEF StoreInv
<1>7. BoundOK' /\ LoadedOK' /\ StoreOK'
  BY <1>1, <1>3, OthersKept, StoreKept DEF StoreInv
<1> QED
  BY <1>1, <1>4, <1>6, <1>7 DEF StoreInv, Stays

LEMMA RequireStep ==
  ASSUME StoreInv, NEW n \in DllName, NEW u \in LuaName, RequireLuaModule(n, u)
  PROVE  StoreInv' /\ Stays
<1>1. /\ stack = << >> /\ n \in DOMAIN store
      /\ loaded' = With(loaded, u, LuaModule(store[n], u))
      /\ UNCHANGED <<world, store, os, bound, stack, failed>>
  BY DEF RequireLuaModule
<1>2. Sound(store[n], failed, bound, os)
  BY <1>1 DEF StoreInv, StoreOK
<1>3. ASSUME NEW x \in DOMAIN loaded'
      PROVE  Sound(loaded'[x], failed, bound, os)
  <2>1. x \in DOMAIN loaded \cup {u}
        /\ loaded'[x] = IF x = u THEN LuaModule(store[n], u) ELSE loaded[x]
    BY <1>1 DEF With
  <2>2. loaded'[x] = store[n] \/ (x \in DOMAIN loaded /\ loaded'[x] = loaded[x])
    BY <2>1 DEF LuaModule
  <2> QED
    BY <1>2, <2>2 DEF StoreInv, LoadedOK
<1>4. LoadedOK'
  BY <1>1, <1>3 DEF LoadedOK
<1>5. LiveKept
  BY <1>1, NothingLeaves
<1>6. BoundOK' /\ StoreOK' /\ OsOK' /\ StackOK'
  <2>1. StoreOK'
    BY <1>1, <1>5, StoreKept DEF StoreInv
  <2>2. BoundOK'
    BY <1>1 DEF StoreInv, BoundOK
  <2>3. OsOK' /\ StackOK'
    BY <1>1, StackEmpty DEF StoreInv, OsOK
  <2> QED
    BY <2>1, <2>2, <2>3
<1> QED
  BY <1>1, <1>4, <1>6 DEF StoreInv, Stays

LEMMA StutterStep ==
  ASSUME StoreInv, UNCHANGED storeVars
  PROVE  StoreInv' /\ Stays
<1>1. UNCHANGED <<world, store, os, bound, stack, failed, loaded>>
  BY DEF storeVars
<1>2. OsOK' /\ StoreOK'
  BY <1>1 DEF StoreInv, OsOK, StoreOK
<1>3. BoundOK' /\ LoadedOK'
  BY <1>1 DEF StoreInv, BoundOK, LoadedOK
<1>4. StackOK'
  BY <1>1 DEF StoreInv, StackOK
<1> QED
  BY <1>1, <1>2, <1>3, <1>4 DEF StoreInv, Stays

LEMMA StoreInitial ==
  ASSUME StoreInit
  PROVE  StoreInv
<1>1. /\ world \in Worlds /\ store = << >> /\ bound = << >> /\ stack = << >>
      /\ failed = FALSE /\ loaded = << >>
      /\ os = [n \in world.pinned |-> [owner |-> System, refs |-> 1]]
  BY DEF StoreInit
<1>2. DOMAIN << >> = {}
  OBVIOUS
<1>3. OsOK
  BY <1>1, StoreAssumption DEF OsOK, Owners
<1>4. StoreOK /\ BoundOK /\ LoadedOK
  BY <1>1, <1>2 DEF StoreOK, BoundOK, LoadedOK
<1>5. StackOK
  BY <1>1, EmptySeq DEF StackOK, ChainOK
<1> QED
  BY <1>1, <1>3, <1>4, <1>5 DEF StoreInv

LEMMA StoreStep ==
  ASSUME AcyclicWorlds, StoreInv, [StoreNext]_storeVars
  PROVE  StoreInv' /\ Stays
<1>1. ASSUME NEW m \in Module, NEW n \in DllName, LoadLibrary(m, n)
      PROVE  StoreInv' /\ Stays
  BY <1>1, OpenSteps
<1>2. ASSUME NEW n \in DllName, NEW u \in LuaName, RequireLuaModule(n, u)
      PROVE  StoreInv' /\ Stays
  BY <1>2, RequireStep
<1> QED
  BY <1>1, <1>2, ImportSteps, SucceedStep, FailStep, StutterStep DEF StoreNext

-----------------------------------------------------------------------------
(* The theorems.                                                              *)

\* Where imports have no cycles, what a store holds, mapped libraries were bound
\* to and scripts share is what it should be, and the mappings in progress are of
\* libraries that are not stored yet, each needed by the one below it.
THEOREM StoreIsSound == AcyclicWorlds => (StoreSpec => []StoreInv)
<1> SUFFICES ASSUME AcyclicWorlds PROVE StoreSpec => []StoreInv
  OBVIOUS
<1>1. StoreInit => StoreInv
  BY StoreInitial
<1>2. StoreInv /\ [StoreNext]_storeVars => StoreInv'
  BY StoreStep
<1> QED
  BY <1>1, <1>2, PTL DEF StoreSpec

\* Where imports have no cycles, every stored handle, every binding and every shared
\* Lua module can be called into as long as no mapping has failed.
THEOREM StoredIsLive == AcyclicWorlds => (StoreSpec => []StoredAndBoundAreLive)
<1> SUFFICES ASSUME AcyclicWorlds PROVE StoreSpec => []StoredAndBoundAreLive
  OBVIOUS
<1>1. StoreInv => StoredAndBoundAreLive
  <2> SUFFICES ASSUME StoreInv, ~failed PROVE StoredAndBoundAreLive
    BY DEF StoredAndBoundAreLive
  <2>1. \A l \in Libs : Sound(l, failed, bound, os) => Live(l)
    BY DEF Sound, LiveIn, Live
  <2>2. \A n \in DOMAIN store : Live(store[n])
    BY <2>1 DEF StoreInv, StoreOK, Sound
  <2>3. \A u \in DOMAIN loaded : Live(loaded[u])
    BY <2>1 DEF StoreInv, LoadedOK, Sound
  <2>4. ASSUME NEW l \in DOMAIN bound
        PROVE  /\ DOMAIN bound[l] = world.imports[l.name]
               /\ \A n \in DOMAIN bound[l] : Live(bound[l][n])
    BY <2>1 DEF StoreInv, BoundOK, Sound
  <2> QED
    BY <2>2, <2>3, <2>4 DEF StoredAndBoundAreLive
<1> QED
  BY <1>1, StoreIsSound, PTL

\* Where imports have no cycles, the handle of a name never changes.
THEOREM HandlesOfNamesStay == AcyclicWorlds => (StoreSpec => LibrariesStay)
<1> SUFFICES ASSUME AcyclicWorlds PROVE StoreSpec => LibrariesStay
  OBVIOUS
<1>1. StoreInv /\ [StoreNext]_storeVars =>
        [\A n \in DOMAIN store : n \in DOMAIN store' /\ store'[n] = store[n]]_storeVars
  BY StoreStep DEF Stays
<1> QED
  BY <1>1, StoreIsSound, PTL DEF StoreSpec, LibrariesStay
=============================================================================
