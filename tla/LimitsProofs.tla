---------------------------- MODULE LimitsProofs ----------------------------
(***************************************************************************)
(* Theorems about the two limits of a server, for every number of servers, *)
(* comparisons, connections, places and faults: the claims and folders of  *)
(* comparison jobs (RevisionJobs); and the listener (Admission, as         *)
(* MCLimits composes it), whose admission state stays valid, whose open    *)
(* sockets hold a place each, and which nobody enters behind a fatal cause.*)
(***************************************************************************)
EXTENDS MCLimits, FiniteSetTheorems, TLAPS

-----------------------------------------------------------------------------
(* Pruning counts, for each folder, those ahead of it.  A finite set in    *)
(* which everybody has fewer than n ahead of him has at most n members:    *)
(* the last one has all the others ahead.                                  *)
Ahead(A, R, x)  == {y \in A : <<y, x>> \in R}
Behind(A, R, x) == {y \in A : <<x, y>> \in R}
IsOrdered(A, R) ==
  /\ \A x, y \in A : <<x, y>> \in R => <<y, x>> \notin R
  /\ \A x, y \in A : x # y => <<x, y>> \in R \/ <<y, x>> \in R
  /\ \A x, y, z \in A : <<x, y>> \in R /\ <<y, z>> \in R => <<x, z>> \in R

LEMMA SomebodyIsLast ==
  ASSUME NEW A, IsFiniteSet(A), A # {}, NEW R, IsOrdered(A, R)
  PROVE  \E x \in A : A = Ahead(A, R, x) \cup {x}
<1> DEFINE T == {Behind(A, R, x) : x \in A}
<1>1. T \subseteq FiniteSubsetsOf(A) /\ T # {}
  <2>1. \A x \in A : Behind(A, R, x) \in SUBSET A
    BY DEF Behind
  <2>2. T \subseteq SUBSET A
    BY <2>1
  <2>3. QED BY <2>2, FS_FiniteSubsetsOfFinite
<1>2. PICK B \in T : \A C \in T : ~ (<<C, B>> \in StrictSubsetOrdering(A))
  <2>1. IsWellFoundedOn(StrictSubsetOrdering(A), FiniteSubsetsOf(A))
    BY FS_StrictSubsetOrderingWellFounded
  <2> HIDE DEF T
  <2>2. QED BY <1>1, <2>1, WFMin
<1>3. PICK x \in A : B = Behind(A, R, x)
  OBVIOUS
<1>4. Behind(A, R, x) = {}
  <2> SUFFICES ASSUME NEW y \in Behind(A, R, x) PROVE FALSE
    OBVIOUS
  <2>1. y \in A /\ <<x, y>> \in R
    BY DEF Behind
  <2>2. Behind(A, R, y) \in T
    BY <2>1
  <2>3. Behind(A, R, y) \subseteq Behind(A, R, x) /\ y \notin Behind(A, R, y)
    BY <2>1 DEF Behind, IsOrdered
  <2>4. Behind(A, R, y) # Behind(A, R, x)
    BY <2>3
  <2>5. Behind(A, R, x) \in SUBSET A /\ Behind(A, R, y) \in SUBSET A
    BY DEF Behind
  <2>6. <<Behind(A, R, y), B>> \in StrictSubsetOrdering(A)
    BY <1>3, <2>3, <2>4, <2>5 DEF StrictSubsetOrdering
  <2>7. QED BY <1>2, <2>2, <2>6
<1>5. \A y \in A \ {x} : y \in Ahead(A, R, x)
  BY <1>4 DEF Behind, Ahead, IsOrdered
<1>6. QED BY <1>5 DEF Ahead

LEMMA FewAhead ==
  ASSUME NEW A, IsFiniteSet(A), NEW R, IsOrdered(A, R), NEW n \in Nat,
         \A x \in A : Cardinality(Ahead(A, R, x)) < n
  PROVE  Cardinality(A) <= n
<1>1. CASE A = {}
  BY <1>1, FS_EmptySet
<1>2. CASE A # {}
  <2>1. PICK x \in A : A = Ahead(A, R, x) \cup {x}
    BY <1>2, SomebodyIsLast
  <2>2. Ahead(A, R, x) \in SUBSET A
    BY DEF Ahead
  <2>3. IsFiniteSet(Ahead(A, R, x)) /\ Cardinality(Ahead(A, R, x)) \in Nat
    BY <2>2, FS_Subset, FS_CardinalityType
  <2>4. Cardinality(A) <= Cardinality(Ahead(A, R, x)) + 1
    BY <2>1, <2>3, FS_AddElement
  <2>5. Cardinality(Ahead(A, R, x)) < n
    OBVIOUS
  <2>6. Cardinality(A) \in Nat
    BY FS_CardinalityType
  <2>7. QED BY <2>3, <2>4, <2>5, <2>6
<1>3. QED BY <1>1, <1>2

-----------------------------------------------------------------------------
(* What a prune leaves of a document no job is running for, and the folder *)
(* that is then made, fit the limits.                                      *)
Rest(s, k, c) == {j \in Folders(DocOf[k]) \ (Pruned(s, k) \cup {k}) : Kind(j) = c}
Taken(k, c)   == IF c = KeepClass(k) THEN 1 ELSE 0

LEMMA ClassKept ==
  ASSUME TypeOK, FoldersAreOrdered, NEW s \in Servers, NEW k \in Keys, NEW c \in Classes,
         \A j \in Folders(DocOf[k]) : j \notin active[s]
  PROVE  /\ IsFiniteSet(Rest(s, k, c))
         /\ Cardinality(Rest(s, k, c)) <= Room(DocOf[k], c) - Taken(k, c)
<1> DEFINE d == DocOf[k]
           A == Rest(s, k, c)
           n == Limit[c] - Taken(k, c)
           others == {j \in Keys \ {k} : /\ folder[j].there /\ DocOf[j] = DocOf[k]
                                         /\ j \notin active[s]}
           ahead(j) == {i \in others : /\ Newer(i, j) /\ ~folder[i].old
                                       /\ Kind(i) = Kind(j)}
<1>1. A \subseteq Keys /\ IsFiniteSet(A)
  <2>1. A \in SUBSET Keys
    BY DEF Rest, Folders
  <2>2. QED BY <2>1, FS_Subset, CacheAssumption
<1>2. Limit[c] \in Nat \ {0} /\ n \in Nat
  BY CacheAssumption DEF Taken
<1>3. IsOrdered(A, newer)
  <2>1. \A j \in A : j \in Keys /\ j \in Folders(d)
    BY DEF Rest, Folders
  <2>2. d \in Docs
    BY DEF Docs
  <2> HIDE DEF A
  <2>3. \A x, y \in A : <<x, y>> \in newer => <<y, x>> \notin newer
    BY <2>1 DEF FoldersAreOrdered, Newer
  <2>4. \A x, y \in A : x # y => <<x, y>> \in newer \/ <<y, x>> \in newer
    BY <2>1, <2>2 DEF FoldersAreOrdered, Newer
  <2>5. \A x, y, z \in A : <<x, y>> \in newer /\ <<y, z>> \in newer => <<x, z>> \in newer
    BY <2>1 DEF FoldersAreOrdered, Newer
  <2>6. QED BY <2>3, <2>4, <2>5 DEF IsOrdered
<1>4. ASSUME NEW j \in A
      PROVE  Cardinality(Ahead(A, newer, j)) < n
  <2>1. /\ j \in others /\ Kind(j) = c /\ j \notin Pruned(s, k)
        /\ \A i \in A : i \in others /\ Kind(i) = c /\ i \notin Pruned(s, k)
    BY DEF Rest, Folders
  <2>2. Pruned(s, k) = {i \in others :
          \/ folder[i].old
          \/ Cardinality(ahead(i)) + Taken(k, Kind(i)) >= Limit[Kind(i)]}
    BY DEF Pruned, Taken
  <2>3. \A i \in A : ~folder[i].old
    BY <2>1, <2>2
  <2>4. ~ (Cardinality(ahead(j)) + Taken(k, c) >= Limit[c])
    BY <2>1, <2>2
  <2>5. Ahead(A, newer, j) \in SUBSET ahead(j)
    BY <2>1, <2>3 DEF Ahead, Newer
  <2>6. IsFiniteSet(ahead(j)) /\ Cardinality(ahead(j)) \in Nat
    <3>1. ahead(j) \in SUBSET Keys
      OBVIOUS
    <3>2. QED BY <3>1, FS_Subset, FS_CardinalityType, CacheAssumption
  <2> HIDE DEF A, ahead
  <2>7. /\ Cardinality(Ahead(A, newer, j)) <= Cardinality(ahead(j))
        /\ Cardinality(Ahead(A, newer, j)) \in Nat
    BY <2>5, <2>6, FS_Subset, FS_CardinalityType
  <2>8. Taken(k, c) \in Nat
    BY DEF Taken
  <2>9. QED BY <1>2, <2>4, <2>6, <2>7, <2>8
<1>5. Cardinality(A) <= n
  <2> HIDE DEF A, n
  <2>1. QED BY <1>1, <1>2, <1>3, <1>4, FewAhead
<1>6. CASE A = {}
  <2>1. Cardinality(A) = 0
    BY <1>6, FS_EmptySet
  <2>2. Taken(k, c) = 1 => Room(d, c) = Limit[c]
    BY CacheAssumption DEF Taken, KeepClass, Room
  <2>3. Room(d, c) \in Nat
    BY <1>2 DEF Room
  <2>4. Taken(k, c) \in {0, 1}
    BY DEF Taken
  <2>5. QED BY <1>1, <1>2, <2>1, <2>2, <2>3, <2>4
<1>7. CASE A # {}
  <2>1. PICK j \in A : TRUE
    BY <1>7
  <2>2. j \in Keys /\ DocOf[j] = d /\ Kind(j) = c
    BY <2>1 DEF Rest, Folders
  <2>3. Room(d, c) = Limit[c]
    BY <2>2 DEF Room, Kind
  <2>4. QED BY <1>1, <1>5, <2>3
<1>8. QED BY <1>6, <1>7

LEMMA PruneMakesRoom ==
  ASSUME TypeOK, FoldersAreOrdered, NEW s \in Servers, NEW k \in Keys,
         \A j \in Folders(DocOf[k]) : j \notin active[s],
         NEW F \in SUBSET ((Folders(DocOf[k]) \ Pruned(s, k)) \cup {k})
  PROVE  Cardinality(F) <= Room(DocOf[k], "whole") + Room(DocOf[k], "scoped")
                             + Room(DocOf[k], "ranged")
<1> DEFINE W == Rest(s, k, "whole")
           S == Rest(s, k, "scoped")
           R == Rest(s, k, "ranged")
           U == (W \cup S) \cup R
<1>1. /\ IsFiniteSet(W) /\ Cardinality(W) <= Room(DocOf[k], "whole") - Taken(k, "whole")
      /\ IsFiniteSet(S) /\ Cardinality(S) <= Room(DocOf[k], "scoped") - Taken(k, "scoped")
      /\ IsFiniteSet(R) /\ Cardinality(R) <= Room(DocOf[k], "ranged") - Taken(k, "ranged")
  <2>1. "whole" \in Classes /\ "scoped" \in Classes /\ "ranged" \in Classes
    BY DEF Classes
  <2>2. QED BY <2>1, ClassKept
<1>2. \A c \in Classes : Room(DocOf[k], c) \in Nat
  BY CacheAssumption DEF Room
<1>3. Taken(k, "whole") + Taken(k, "scoped") + Taken(k, "ranged") = 1
  BY DEF Taken, KeepClass
<1>4. F \subseteq U \cup {k}
  <2>1. \A j \in Keys : Kind(j) \in Classes
    BY CacheAssumption DEF Kind, Classes
  <2>2. \A j \in F : j = k \/ (j \in Folders(DocOf[k]) /\ j \notin Pruned(s, k) /\ j \in Keys)
    BY DEF Folders
  <2>3. QED BY <2>1, <2>2 DEF Rest, Classes
<1> HIDE DEF W, S, R
<1>5. /\ IsFiniteSet(U)
      /\ Cardinality(U) <= Cardinality(W) + Cardinality(S) + Cardinality(R)
  <2>1. /\ Cardinality(W) \in Nat /\ Cardinality(S) \in Nat /\ Cardinality(R) \in Nat
        /\ IsFiniteSet(W \cap S) /\ IsFiniteSet((W \cup S) \cap R)
    BY <1>1, FS_Subset, FS_CardinalityType
  <2>2. Cardinality(W \cap S) \in Nat /\ Cardinality((W \cup S) \cap R) \in Nat
    BY <2>1, FS_CardinalityType
  <2>3. /\ IsFiniteSet(W \cup S)
        /\ Cardinality(W \cup S) = Cardinality(W) + Cardinality(S) - Cardinality(W \cap S)
    BY <1>1, FS_Union
  <2>4. /\ IsFiniteSet(U)
        /\ Cardinality(U) = Cardinality(W \cup S) + Cardinality(R) - Cardinality((W \cup S) \cap R)
    BY <1>1, <2>3, FS_Union
  <2>5. QED BY <2>1, <2>2, <2>3, <2>4
<1> HIDE DEF U
<1>6. /\ IsFiniteSet(U \cup {k}) /\ Cardinality(U \cup {k}) <= Cardinality(U) + 1
      /\ Cardinality(U) \in Nat
  <2>1. Cardinality(U) \in Nat
    BY <1>5, FS_CardinalityType
  <2>2. /\ IsFiniteSet(U \cup {k})
        /\ Cardinality(U \cup {k}) = IF k \in U THEN Cardinality(U) ELSE Cardinality(U) + 1
    BY <1>5, FS_AddElement
  <2>3. QED BY <2>1, <2>2
<1>7. Cardinality(F) <= Cardinality(U \cup {k}) /\ Cardinality(F) \in Nat
  BY <1>4, <1>6, FS_Subset, FS_CardinalityType
<1>8. /\ Cardinality(U \cup {k}) \in Nat /\ Cardinality(W) \in Nat
      /\ Cardinality(S) \in Nat /\ Cardinality(R) \in Nat
  BY <1>1, <1>6, FS_CardinalityType
<1>9. /\ Taken(k, "whole") \in Nat /\ Taken(k, "scoped") \in Nat /\ Taken(k, "ranged") \in Nat
      /\ Room(DocOf[k], "whole") \in Nat /\ Room(DocOf[k], "scoped") \in Nat
      /\ Room(DocOf[k], "ranged") \in Nat
  BY <1>2 DEF Taken, Classes
<1>10. QED BY <1>1, <1>3, <1>5, <1>6, <1>7, <1>8, <1>9

-----------------------------------------------------------------------------
(* What a removal and a write make of the cache.                           *)
FolderType == [there : BOOLEAN, result : Results, marked : BOOLEAN, old : BOOLEAN]
CacheTyped == folder \in [Keys -> FolderType] /\ newer \subseteq Keys \X Keys
Bound(d)   == Room(d, "whole") + Room(d, "scoped") + Room(d, "ranged")

LEMMA FewerFit ==
  ASSUME CacheIsBounded, NEW d \in Docs, NEW F \in SUBSET Folders(d)
  PROVE  Cardinality(F) <= Bound(d)
<1>1. Folders(d) \in SUBSET Keys
  BY DEF Folders
<1>2. IsFiniteSet(Folders(d)) /\ Cardinality(Folders(d)) \in Nat
  BY <1>1, FS_Subset, FS_CardinalityType, CacheAssumption
<1>3. Cardinality(F) <= Cardinality(Folders(d)) /\ Cardinality(F) \in Nat
  BY <1>2, FS_Subset, FS_CardinalityType
<1>4. \A c \in Classes : Room(d, c) \in Nat
  BY CacheAssumption DEF Room
<1>5. Bound(d) \in Nat
  BY <1>4 DEF Bound, Classes
<1>6. Cardinality(Folders(d)) <= Bound(d)
  BY DEF CacheIsBounded, Bound
<1>7. QED BY <1>2, <1>3, <1>5, <1>6

LEMMA RemovalKeepsCache ==
  ASSUME TypeOK, FoldersAreOrdered, CacheIsBounded, NEW S,
         folder' = Without(S), newer' = Unlisted(S)
  PROVE  /\ CacheTyped' /\ FoldersAreOrdered' /\ CacheIsBounded'
         /\ \A j \in Keys \ S : folder'[j] = folder[j]
<1>1. Absent \in FolderType /\ ~Absent.there
  BY DEF Absent, FolderType, Results
<1>2. folder \in [Keys -> FolderType] /\ newer \subseteq Keys \X Keys
  BY DEF TypeOK, FolderType
<1>3. /\ folder' \in [Keys -> FolderType]
      /\ \A j \in Keys \ S : folder'[j] = folder[j]
      /\ \A j \in Keys : folder'[j].there <=> folder[j].there /\ j \notin S
  BY <1>1, <1>2 DEF Without
<1>4. newer' \subseteq Keys \X Keys
  BY <1>2 DEF Unlisted
<1>5. \A i, j \in Keys : <<i, j>> \in newer' <=> <<i, j>> \in newer /\ i \notin S /\ j \notin S
  BY DEF Unlisted
<1>6. \A d \in Docs : Folders(d)' = Folders(d) \ S
  BY <1>3 DEF Folders
<1>7. FoldersAreOrdered'
  <2>1. \A j, k \in Keys : Newer(j, k)' =>
          /\ DocOf[j] = DocOf[k] /\ folder'[j].there /\ folder'[k].there
          /\ ~Newer(k, j)'
    BY <1>3, <1>5 DEF FoldersAreOrdered, Newer
  <2>2. \A d \in Docs : \A j, k \in Folders(d)' : j # k => Newer(j, k)' \/ Newer(k, j)'
    <3> SUFFICES ASSUME NEW d \in Docs, NEW j \in Folders(d)', NEW k \in Folders(d)', j # k
                 PROVE  <<j, k>> \in newer' \/ <<k, j>> \in newer'
      BY DEF Newer
    <3>1. j \in Folders(d) /\ k \in Folders(d) /\ j \notin S /\ k \notin S
      BY <1>6
    <3>2. j \in Keys /\ k \in Keys
      BY <3>1 DEF Folders
    <3>3. <<j, k>> \in newer \/ <<k, j>> \in newer
      BY <3>1 DEF FoldersAreOrdered, Newer
    <3>4. QED BY <1>5, <3>1, <3>2, <3>3
  <2>3. \A i, j, k \in Keys : Newer(i, j)' /\ Newer(j, k)' => Newer(i, k)'
    BY <1>5 DEF FoldersAreOrdered, Newer
  <2>4. QED BY <2>1, <2>2, <2>3 DEF FoldersAreOrdered
<1>8. CacheIsBounded'
  <2>1. \A d \in Docs : Folders(d)' \in SUBSET Folders(d)
    BY <1>6
  <2>2. \A d \in Docs : Cardinality(Folders(d)') <= Bound(d)
    BY <2>1, FewerFit
  <2>3. QED BY <2>2 DEF CacheIsBounded, Bound, Room, Classes
<1>9. QED BY <1>3, <1>4, <1>7, <1>8 DEF CacheTyped

LEMMA WriteKeepsOrder ==
  ASSUME TypeOK, FoldersAreOrdered, NEW S, NEW k \in Keys, NEW f \in FolderType, f.there,
         folder' = [Without(S) EXCEPT ![k] = f], newer' = Touched(k, S)
  PROVE  /\ CacheTyped' /\ FoldersAreOrdered'
         /\ folder'[k] = f /\ \A j \in Keys \ (S \cup {k}) : folder'[j] = folder[j]
         /\ \A d \in Docs : Folders(d)' \subseteq (Folders(d) \ S) \cup {k}
         /\ \A d \in Docs : d # DocOf[k] => Folders(d)' \subseteq Folders(d)
<1>1. Absent \in FolderType /\ ~Absent.there
  BY DEF Absent, FolderType, Results
<1>2. folder \in [Keys -> FolderType] /\ newer \subseteq Keys \X Keys
  BY DEF TypeOK, FolderType
<1>3. Without(S) \in [Keys -> FolderType]
  BY <1>1, <1>2 DEF Without
<1>4. /\ folder' \in [Keys -> FolderType] /\ folder'[k] = f
      /\ \A j \in Keys \ {k} : folder'[j] = Without(S)[j]
  BY <1>3
<1>5. /\ \A j \in Keys \ (S \cup {k}) : folder'[j] = folder[j]
      /\ \A j \in Keys : folder'[j].there <=> j = k \/ (folder[j].there /\ j \notin S)
  BY <1>1, <1>4 DEF Without
<1>6. \A i, j \in Keys : <<i, j>> \in newer' <=>
        \/ <<i, j>> \in newer /\ i \notin S \cup {k} /\ j \notin S \cup {k}
        \/ i = k /\ j \in Folders(DocOf[k]) /\ j \notin S \cup {k}
  BY DEF Touched, Unlisted
<1>7. newer' \subseteq Keys \X Keys
  BY <1>2 DEF Touched, Unlisted, Folders
<1>8. \A d \in Docs : Folders(d)' = {j \in Keys : DocOf[j] = d /\
                                       (j = k \/ (folder[j].there /\ j \notin S))}
  BY <1>5 DEF Folders
<1>9. FoldersAreOrdered'
  <2>1. \A i, j \in Keys : Newer(i, j)' =>
          /\ DocOf[i] = DocOf[j] /\ folder'[i].there /\ folder'[j].there
          /\ ~Newer(j, i)'
    BY <1>5, <1>6 DEF FoldersAreOrdered, Newer, Folders
  <2>2. \A d \in Docs : \A i, j \in Folders(d)' : i # j => Newer(i, j)' \/ Newer(j, i)'
    <3> SUFFICES ASSUME NEW d \in Docs, NEW i \in Folders(d)', NEW j \in Folders(d)', i # j
                 PROVE  <<i, j>> \in newer' \/ <<j, i>> \in newer'
      BY DEF Newer
    <3>1. /\ i \in Keys /\ DocOf[i] = d /\ (i = k \/ (folder[i].there /\ i \notin S))
          /\ j \in Keys /\ DocOf[j] = d /\ (j = k \/ (folder[j].there /\ j \notin S))
      BY <1>8
    <3>2. CASE i = k
      BY <1>6, <3>1, <3>2 DEF Folders
    <3>3. CASE j = k
      BY <1>6, <3>1, <3>3 DEF Folders
    <3>4. CASE i # k /\ j # k
      <4>1. i \in Folders(d) /\ j \in Folders(d)
        BY <3>1, <3>4 DEF Folders
      <4>2. <<i, j>> \in newer \/ <<j, i>> \in newer
        BY <4>1 DEF FoldersAreOrdered, Newer
      <4>3. QED BY <1>6, <3>1, <3>4, <4>2
    <3>5. QED BY <3>2, <3>3, <3>4
  <2>3. \A i, j, l \in Keys : Newer(i, j)' /\ Newer(j, l)' => Newer(i, l)'
    <3> SUFFICES ASSUME NEW i \in Keys, NEW j \in Keys, NEW l \in Keys,
                        <<i, j>> \in newer', <<j, l>> \in newer'
                 PROVE  <<i, l>> \in newer'
      BY DEF Newer
    <3>1. /\ <<j, l>> \in newer /\ j \notin S \cup {k} /\ l \notin S \cup {k}
          /\ l \in Folders(DocOf[j])
      BY <1>6 DEF FoldersAreOrdered, Newer, Folders
    <3>2. CASE i = k
      BY <1>6, <3>1, <3>2 DEF Folders
    <3>3. CASE i # k
      BY <1>6, <3>1, <3>3 DEF FoldersAreOrdered, Newer
    <3>4. QED BY <3>2, <3>3
  <2>4. QED BY <2>1, <2>2, <2>3 DEF FoldersAreOrdered
<1>10. /\ \A d \in Docs : Folders(d)' \subseteq (Folders(d) \ S) \cup {k}
       /\ \A d \in Docs : d # DocOf[k] => Folders(d)' \subseteq Folders(d)
  BY <1>8 DEF Folders
<1>11. QED BY <1>4, <1>5, <1>7, <1>9, <1>10 DEF CacheTyped

(* A folder written again takes no new room. *)
LEMMA RewriteKeepsCache ==
  ASSUME TypeOK, FoldersAreOrdered, CacheIsBounded, NEW S, NEW k \in Keys,
         folder[k].there, NEW f \in FolderType, f.there,
         folder' = [Without(S) EXCEPT ![k] = f], newer' = Touched(k, S)
  PROVE  CacheIsBounded'
<1>1. \A d \in Docs : Folders(d)' \subseteq (Folders(d) \ S) \cup {k}
  BY WriteKeepsOrder
<1>2. \A d \in Docs : d # DocOf[k] => Folders(d)' \subseteq Folders(d)
  BY WriteKeepsOrder
<1>3. k \in Folders(DocOf[k])
  BY DEF Folders
<1>4. \A d \in Docs : Folders(d)' \in SUBSET Folders(d)
  BY <1>1, <1>2, <1>3
<1>5. \A d \in Docs : Cardinality(Folders(d)') <= Bound(d)
  BY <1>4, FewerFit
<1>6. QED BY <1>5 DEF CacheIsBounded, Bound, Room, Classes

(* A folder made after a prune takes the room the prune made. *)
LEMMA NewFolderFits ==
  ASSUME TypeOK, FoldersAreOrdered, CacheIsBounded, NEW s \in Servers, NEW k \in Keys,
         \A j \in Folders(DocOf[k]) : j \notin active[s],
         NEW f \in FolderType, f.there,
         folder' = [Without(Pruned(s, k)) EXCEPT ![k] = f],
         newer' = Touched(k, Pruned(s, k))
  PROVE  CacheIsBounded'
<1>1. /\ \A d \in Docs : Folders(d)' \subseteq (Folders(d) \ Pruned(s, k)) \cup {k}
      /\ \A d \in Docs : d # DocOf[k] => Folders(d)' \subseteq Folders(d)
  <2> DEFINE gone == Pruned(s, k)
  <2>1. folder' = [Without(gone) EXCEPT ![k] = f] /\ newer' = Touched(k, gone)
    OBVIOUS
  <2> HIDE DEF gone
  <2>2. /\ \A d \in Docs : Folders(d)' \subseteq (Folders(d) \ gone) \cup {k}
        /\ \A d \in Docs : d # DocOf[k] => Folders(d)' \subseteq Folders(d)
    BY <2>1, WriteKeepsOrder
  <2>3. QED BY <2>2 DEF gone
<1>2. \A d \in Docs : d # DocOf[k] => Folders(d)' \in SUBSET Folders(d)
  BY <1>1
<1>3. ASSUME NEW d \in Docs, d # DocOf[k]
      PROVE  Cardinality(Folders(d)') <= Bound(d)
  BY <1>2, <1>3, FewerFit
<1>4. DocOf[k] \in Docs
  BY DEF Docs
<1>5. Folders(DocOf[k])' \in SUBSET ((Folders(DocOf[k]) \ Pruned(s, k)) \cup {k})
  BY <1>1, <1>4
<1>6. Cardinality(Folders(DocOf[k])') <= Bound(DocOf[k])
  BY <1>5, PruneMakesRoom DEF Bound
<1>7. \A d \in Docs : Cardinality(Folders(d)') <= Bound(d)
  BY <1>3, <1>6
<1>8. QED BY <1>7 DEF CacheIsBounded, Bound, Room, Classes

-----------------------------------------------------------------------------
(* A document whose build lock is free has no job, on any server.          *)
LEMMA FreeDocument ==
  ASSUME ClaimsMatchJobs, NEW k \in Keys, held[DocOf[k]] = NoServer
  PROVE  /\ \A t \in Servers : \A j \in Working(t) : DocOf[j] # DocOf[k]
         /\ \A t \in Servers : \A j \in Folders(DocOf[k]) : j \notin active[t]
<1>1. DocOf[k] \in Docs
  BY DEF Docs
<1>2. \A t \in Servers : held[DocOf[k]] # t
  BY NamesAssumption
<1>3. \A t \in Servers : \A j \in Working(t) : DocOf[j] # DocOf[k]
  BY <1>1, <1>2 DEF ClaimsMatchJobs
<1>4. \A t \in Servers : active[t] = Working(t)
  BY DEF ClaimsMatchJobs
<1>5. QED BY <1>3, <1>4 DEF Folders

(* A prune takes folders of the document only, none of them a job's. *)
LEMMA PruneStaysIn ==
  ASSUME NEW s \in Servers, NEW k \in Keys
  PROVE  \A j \in Pruned(s, k) : /\ j \in Keys \ {k} /\ folder[j].there
                                 /\ DocOf[j] = DocOf[k] /\ j \notin active[s]
BY DEF Pruned

LEMMA TornIsThere ==
  ASSUME NEW f \in FolderType, NEW g \in Torn(f)
  PROVE  g \in FolderType /\ g.there
<1>1. f.result \in Results /\ f.marked \in BOOLEAN
  BY DEF FolderType
<1>2. QED BY <1>1 DEF Torn, FolderType, Results

LEMMA EmptyIsThere ==
  ASSUME NEW m \in BOOLEAN
  PROVE  Empty(m) \in FolderType /\ Empty(m).there
<1>1. Empty(m) = [Absent EXCEPT !.there = TRUE, !.marked = m]
  BY DEF Empty
<1>2. Absent = [there |-> FALSE, result |-> "retry", marked |-> FALSE, old |-> FALSE]
  BY DEF Absent
<1>3. Empty(m) = [there |-> TRUE, result |-> "retry", marked |-> m, old |-> FALSE]
  BY <1>1, <1>2
<1>4. QED BY <1>3 DEF FolderType, Results

(* A start that raises, wherever it does, leaves the cache in order and    *)
(* within its limits, and touches the one document only.                   *)
CacheKept(k) == /\ CacheTyped' /\ FoldersAreOrdered' /\ CacheIsBounded'
                /\ \A j \in Keys : DocOf[j] # DocOf[k] => folder'[j] = folder[j]

LEMMA StoppedKeepsCache ==
  ASSUME JobsHold, NEW s \in Servers, NEW k \in Keys, held[DocOf[k]] = NoServer,
         Stopped(s, k)
  PROVE  CacheKept(k)
<1>1. TypeOK /\ FoldersAreOrdered /\ CacheIsBounded /\ ClaimsMatchJobs
  BY DEF JobsHold, ClaimsMatchJobs
<1>2. folder \in [Keys -> FolderType] /\ newer \subseteq Keys \X Keys
  BY <1>1 DEF TypeOK, FolderType
<1>3. \A j \in Folders(DocOf[k]) : j \notin active[s]
  BY <1>1, FreeDocument
<1>4. ASSUME NEW S, \A j \in S : DocOf[j] = DocOf[k],
             folder' = Without(S), newer' = Unlisted(S)
      PROVE  CacheKept(k)
  <2>1. /\ CacheTyped' /\ FoldersAreOrdered' /\ CacheIsBounded'
        /\ \A j \in Keys \ S : folder'[j] = folder[j]
    BY <1>1, <1>4, RemovalKeepsCache
  <2>2. QED BY <1>4, <2>1 DEF CacheKept
<1>5. ASSUME NEW S, \A j \in S : DocOf[j] = DocOf[k],
             NEW i \in Keys, DocOf[i] = DocOf[k], NEW f \in FolderType, f.there,
             folder' = [Without(S) EXCEPT ![i] = f], newer' = Touched(i, S)
      PROVE  /\ CacheTyped' /\ FoldersAreOrdered'
             /\ \A j \in Keys : DocOf[j] # DocOf[k] => folder'[j] = folder[j]
             /\ folder[i].there => CacheIsBounded'
  <2>1. /\ CacheTyped' /\ FoldersAreOrdered'
        /\ \A j \in Keys \ (S \cup {i}) : folder'[j] = folder[j]
    BY <1>1, <1>5, WriteKeepsOrder
  <2>2. folder[i].there => CacheIsBounded'
    BY <1>1, <1>5, RewriteKeepsCache
  <2>3. QED BY <1>5, <2>1, <2>2
<1>6. CASE StoppedInPrune(s, k)
  <2>1. PICK j \in Pruned(s, k) :
          LET gone == {i \in Pruned(s, k) : Newer(i, j)}
          IN  \/ folder' = Without(gone) /\ newer' = Unlisted(gone)
              \/ \E f \in Torn(folder[j]) : /\ folder' = [Without(gone) EXCEPT ![j] = f]
                                            /\ newer' = Touched(j, gone)
    BY <1>6 DEF StoppedInPrune
  <2> DEFINE gone == {i \in Pruned(s, k) : Newer(i, j)}
  <2>2. \A i \in gone : DocOf[i] = DocOf[k]
    BY PruneStaysIn
  <2>3. j \in Keys /\ folder[j].there /\ DocOf[j] = DocOf[k] /\ folder[j] \in FolderType
    BY <1>2, PruneStaysIn
  <2>4. \/ folder' = Without(gone) /\ newer' = Unlisted(gone)
        \/ \E f \in Torn(folder[j]) : /\ folder' = [Without(gone) EXCEPT ![j] = f]
                                      /\ newer' = Touched(j, gone)
    BY <2>1
  <2> HIDE DEF gone
  <2>5. CASE folder' = Without(gone) /\ newer' = Unlisted(gone)
    BY <1>4, <2>2, <2>5
  <2>6. ASSUME NEW f \in Torn(folder[j]), folder' = [Without(gone) EXCEPT ![j] = f],
               newer' = Touched(j, gone)
        PROVE  CacheKept(k)
    <3>1. f \in FolderType /\ f.there
      BY <2>3, TornIsThere
    <3>2. QED BY <1>5, <2>2, <2>3, <2>6, <3>1 DEF CacheKept
  <2>7. QED BY <2>4, <2>5, <2>6
<1>7. CASE StoppedInFolder(s, k)
  <2> DEFINE gone == Pruned(s, k)
  <2>1. /\ \A i \in gone : DocOf[i] = DocOf[k]
        /\ \A i \in gone \cup {k} : DocOf[i] = DocOf[k]
    BY PruneStaysIn
  <2>2. CASE folder' = Without(gone) /\ newer' = Unlisted(gone)
    BY <1>4, <2>1, <2>2
  <2>3. CASE folder' = Without(gone \cup {k}) /\ newer' = Unlisted(gone \cup {k})
    BY <1>4, <2>1, <2>3
  <2>4. ASSUME NEW f \in {Empty(m) : m \in BOOLEAN}
                          \cup (IF folder[k].there THEN Torn(folder[k]) ELSE {}),
               folder' = [Without(gone) EXCEPT ![k] = f], newer' = Touched(k, gone)
        PROVE  CacheKept(k)
    <3>1. f \in FolderType /\ f.there
      BY <1>2, TornIsThere, EmptyIsThere
    <3>2. CacheIsBounded'
      BY <1>1, <1>3, <2>4, <3>1, NewFolderFits
    <3> HIDE DEF gone
    <3>3. QED BY <1>5, <2>1, <2>4, <3>1, <3>2 DEF CacheKept
  <2>5. QED BY <1>7, <2>2, <2>3, <2>4 DEF StoppedInFolder
<1>8. CASE UNCHANGED cache
  <2>1. folder' = folder /\ newer' = newer
    BY <1>8 DEF cache
  <2>2. CacheTyped' /\ \A j \in Keys : folder'[j] = folder[j]
    BY <1>2, <2>1 DEF CacheTyped
  <2>3. FoldersAreOrdered'
    BY <1>1, <2>1 DEF FoldersAreOrdered, Folders, Newer
  <2>4. CacheIsBounded'
    BY <1>1, <2>1 DEF CacheIsBounded, Folders, Room
  <2>5. QED BY <2>2, <2>3, <2>4 DEF CacheKept
<1>9. QED BY <1>6, <1>7, <1>8 DEF Stopped

-----------------------------------------------------------------------------
(* What is claimed, apart from the types and the cache.                    *)
Accounts ==
  \A s \in Servers : /\ active[s] = Working(s)
                     /\ free[s] = Slots - Cardinality(Working(s))
                     /\ \A d \in Docs :
                          held[d] = s <=> \E k \in Working(s) : DocOf[k] = d

LEMMA JobsHoldParts ==
  JobsHold <=> /\ TypeOK /\ FoldersAreOrdered /\ Accounts
               /\ BuildsAreAlone /\ CacheIsBounded
BY DEF JobsHold, ClaimsMatchJobs, Accounts

LEMMA JobsAreFinite ==
  ASSUME NEW s \in Servers
  PROVE  IsFiniteSet(Working(s)) /\ Cardinality(Working(s)) \in Nat
<1>1. Working(s) \in SUBSET Keys
  BY DEF Working
<1>2. QED BY <1>1, FS_Subset, FS_CardinalityType, CacheAssumption

(* A step that starts and ends no job and claims nothing. *)
LEMMA SameJobs ==
  ASSUME Accounts, BuildsAreAlone, UNCHANGED claims,
         \A t \in Servers : Working(t)' = Working(t),
         \A t \in Servers : \A j \in Working(t) : folder'[j].there
  PROVE  Accounts' /\ BuildsAreAlone'
<1>1. free' = free /\ held' = held /\ active' = active
  BY DEF claims
<1>2. Accounts'
  BY <1>1 DEF Accounts
<1>3. BuildsAreAlone'
  BY DEF BuildsAreAlone
<1>4. QED BY <1>2, <1>3

LEMMA SameCache ==
  ASSUME TypeOK, FoldersAreOrdered, CacheIsBounded, UNCHANGED cache
  PROVE  CacheTyped' /\ FoldersAreOrdered' /\ CacheIsBounded'
<1>1. folder' = folder /\ newer' = newer
  BY DEF cache
<1>2. CacheTyped'
  BY <1>1 DEF CacheTyped, TypeOK, FolderType
<1>3. FoldersAreOrdered'
  BY <1>1 DEF FoldersAreOrdered, Folders, Newer
<1>4. CacheIsBounded'
  BY <1>1 DEF CacheIsBounded, Folders, Room
<1>5. QED BY <1>2, <1>3, <1>4

-----------------------------------------------------------------------------
(* One lemma for each kind of step. *)
LEMMA LookKeepsJobs ==
  ASSUME JobsHold, NEW s \in Servers, NEW k \in Keys, Look(s, k)
  PROVE  JobsHold'
<1>1. TypeOK /\ FoldersAreOrdered /\ Accounts /\ BuildsAreAlone /\ CacheIsBounded
  BY JobsHoldParts
<1>2. /\ UNCHANGED cache /\ UNCHANGED claims
      /\ call' = [call EXCEPT ![s] = k] /\ stage' = stage /\ faults' = faults
      /\ folder' = folder /\ newer' = newer /\ free' = free /\ held' = held /\ active' = active
  BY DEF Look, cache, claims
<1>3. Accounts' /\ BuildsAreAlone'
  <2>1. \A t \in Servers : Working(t)' = Working(t)
    BY <1>2 DEF Working, Works
  <2>2. \A t \in Servers : \A j \in Working(t) : folder'[j].there
    BY <1>1, <1>2 DEF BuildsAreAlone
  <2>3. QED BY <1>1, <1>2, <2>1, <2>2, SameJobs
<1>4. TypeOK'
  BY <1>1, <1>2 DEF TypeOK
<1>5. FoldersAreOrdered' /\ CacheIsBounded'
  BY <1>1, <1>2, SameCache
<1>6. (JobsHold <=> /\ TypeOK /\ FoldersAreOrdered /\ Accounts
                    /\ BuildsAreAlone /\ CacheIsBounded)'
  BY JobsHoldParts, PTL
<1>7. QED BY <1>3, <1>4, <1>5, <1>6

LEMMA RefuseKeepsJobs ==
  ASSUME JobsHold, NEW s \in Servers, Refuse(s)
  PROVE  JobsHold'
<1>1. TypeOK /\ FoldersAreOrdered /\ Accounts /\ BuildsAreAlone /\ CacheIsBounded
  BY JobsHoldParts
<1>2. /\ UNCHANGED cache /\ UNCHANGED claims
      /\ call' = [call EXCEPT ![s] = NoKey] /\ stage' = stage /\ faults' = faults
      /\ folder' = folder /\ newer' = newer /\ free' = free /\ held' = held /\ active' = active
  BY DEF Refuse, Returns, cache, claims
<1>3. Accounts' /\ BuildsAreAlone'
  <2>1. \A t \in Servers : Working(t)' = Working(t)
    BY <1>2 DEF Working, Works
  <2>2. \A t \in Servers : \A j \in Working(t) : folder'[j].there
    BY <1>1, <1>2 DEF BuildsAreAlone
  <2>3. QED BY <1>1, <1>2, <2>1, <2>2, SameJobs
<1>4. TypeOK'
  BY <1>1, <1>2 DEF TypeOK
<1>5. FoldersAreOrdered' /\ CacheIsBounded'
  BY <1>1, <1>2, SameCache
<1>6. (JobsHold <=> /\ TypeOK /\ FoldersAreOrdered /\ Accounts
                    /\ BuildsAreAlone /\ CacheIsBounded)'
  BY JobsHoldParts, PTL
<1>7. QED BY <1>3, <1>4, <1>5, <1>6

LEMMA StartKeepsJobs ==
  ASSUME JobsHold, NEW s \in Servers, Start(s)
  PROVE  JobsHold'
<1>1. TypeOK /\ FoldersAreOrdered /\ Accounts /\ BuildsAreAlone /\ CacheIsBounded
      /\ ClaimsMatchJobs
  BY JobsHoldParts DEF JobsHold
<1>2. PICK k \in Keys : k = call[s]
  BY <1>1 DEF Start, TypeOK
<1>3. /\ free[s] > 0 /\ held[DocOf[k]] = NoServer
      /\ folder' = [Without(Pruned(s, k)) EXCEPT ![k] = Empty(ClassOf[k] # "whole")]
      /\ newer' = Touched(k, Pruned(s, k))
      /\ free' = [free EXCEPT ![s] = @ - 1]
      /\ held' = [held EXCEPT ![DocOf[k]] = s]
      /\ active' = [active EXCEPT ![s] = @ \cup {k}]
      /\ stage' = [stage EXCEPT ![s][k] = "building"]
      /\ call' = [call EXCEPT ![s] = NoKey] /\ faults' = faults
  BY <1>2 DEF Start, CanClaim, Claims, Returns
<1> DEFINE f == Empty(ClassOf[k] # "whole")
           gone == Pruned(s, k)
<1>4. f \in FolderType /\ f.there
  BY EmptyIsThere
<1>5. /\ \A t \in Servers : \A j \in Working(t) : DocOf[j] # DocOf[k]
      /\ \A j \in Folders(DocOf[k]) : j \notin active[s]
  BY <1>1, <1>3, FreeDocument
<1>6. \A j \in gone : DocOf[j] = DocOf[k]
  BY PruneStaysIn
<1>7. folder' = [Without(gone) EXCEPT ![k] = f] /\ newer' = Touched(k, gone)
  BY <1>3
<1> HIDE DEF f
<1>8. CacheIsBounded'
  BY <1>1, <1>4, <1>5, <1>7, NewFolderFits
<1> HIDE DEF gone
<1>9. /\ CacheTyped' /\ FoldersAreOrdered' /\ folder'[k] = f
      /\ \A j \in Keys \ (gone \cup {k}) : folder'[j] = folder[j]
  <2>1. TypeOK /\ FoldersAreOrdered
    BY <1>1
  <2>2. CacheTyped' /\ FoldersAreOrdered'
    BY <1>4, <1>7, <2>1, WriteKeepsOrder
  <2>3. \A j \in Keys \ (gone \cup {k}) : folder'[j] = folder[j]
    BY <1>4, <1>7, <2>1, WriteKeepsOrder
  <2>4. folder'[k] = f
    BY <1>7 DEF Without
  <2>5. QED BY <2>2, <2>3, <2>4
<1>10. DocOf[k] \in Docs
  BY DEF Docs
<1>11. /\ Working(s)' = Working(s) \cup {k} /\ k \notin Working(s)
       /\ \A t \in Servers \ {s} : Working(t)' = Working(t)
  <2>1. k \notin Working(s)
    BY <1>5
  <2>2. \A j \in Keys : stage'[s][j] = IF j = k THEN "building" ELSE stage[s][j]
    BY <1>1, <1>3 DEF TypeOK
  <2>3. \A t \in Servers \ {s} : stage'[t] = stage[t]
    BY <1>1, <1>3 DEF TypeOK
  <2>4. QED BY <2>1, <2>2, <2>3 DEF Working, Works
<1>12. Cardinality(Working(s)') = Cardinality(Working(s)) + 1
  BY <1>11, JobsAreFinite, FS_AddElement
<1>13. Accounts'
  <2>1. \A t \in Servers : active'[t] = Working(t)'
    BY <1>1, <1>3, <1>11 DEF Accounts, TypeOK
  <2>2. free'[s] = free[s] - 1 /\ \A t \in Servers \ {s} : free'[t] = free[t]
    BY <1>1, <1>3 DEF TypeOK
  <2>3. free'[s] = Slots - Cardinality(Working(s)')
    BY <1>1, <1>12, <2>2, JobsAreFinite, BoundsAssumption DEF Accounts
  <2>4. \A t \in Servers \ {s} : free'[t] = Slots - Cardinality(Working(t)')
    BY <1>1, <1>11, <2>2 DEF Accounts
  <2>5. /\ held'[DocOf[k]] = s
        /\ \A d \in Docs \ {DocOf[k]} : held'[d] = held[d]
    BY <1>1, <1>3, <1>10 DEF TypeOK
  <2>6. ASSUME NEW t \in Servers, NEW d \in Docs
        PROVE  held'[d] = t <=> \E j \in Working(t)' : DocOf[j] = d
    <3>1. held[d] = t <=> \E j \in Working(t) : DocOf[j] = d
      BY <1>1 DEF Accounts
    <3>2. QED BY <1>5, <1>11, <2>5, <3>1
  <2>7. QED BY <2>1, <2>3, <2>4, <2>6 DEF Accounts
<1>14. BuildsAreAlone'
  <2> SUFFICES ASSUME NEW t \in Servers, NEW u \in Servers,
                      NEW i \in Working(t)', NEW j \in Working(u)'
               PROVE  folder'[i].there /\ (DocOf[i] = DocOf[j] => t = u /\ i = j)
    BY DEF BuildsAreAlone
  <2>1. /\ i \in Working(t) \/ (t = s /\ i = k)
        /\ j \in Working(u) \/ (u = s /\ j = k)
    BY <1>11
  <2>2. i \in Working(t) => folder'[i].there
    <3>1. i \in Working(t) => DocOf[i] # DocOf[k] /\ i \in Keys /\ folder[i].there
      BY <1>1, <1>5 DEF BuildsAreAlone, Working
    <3>2. QED BY <1>6, <1>9, <3>1
  <2>3. QED BY <1>1, <1>4, <1>5, <1>9, <2>1, <2>2 DEF BuildsAreAlone
<1>15. TypeOK'
  <2>1. free[s] \in 0..Slots /\ free[s] - 1 \in 0..Slots
    BY <1>1, <1>3, BoundsAssumption DEF TypeOK
  <2>2. free' \in [Servers -> 0..Slots]
    BY <1>1, <1>3, <2>1 DEF TypeOK
  <2>3. /\ held' \in [Docs -> Servers \cup {NoServer}]
        /\ active' \in [Servers -> SUBSET Keys]
        /\ call' \in [Servers -> Keys \cup {NoKey}]
    BY <1>1, <1>3 DEF TypeOK
  <2>4. stage' \in [Servers -> [Keys -> {"none", "building", "stored"} \cup Results]]
    BY <1>1, <1>3 DEF TypeOK
  <2>5. QED BY <1>1, <1>3, <1>9, <2>2, <2>3, <2>4 DEF TypeOK, CacheTyped, FolderType
<1>16. (JobsHold <=> /\ TypeOK /\ FoldersAreOrdered /\ Accounts
                     /\ BuildsAreAlone /\ CacheIsBounded)'
  BY JobsHoldParts, PTL
<1>17. QED BY <1>8, <1>9, <1>13, <1>14, <1>15, <1>16

LEMMA StartFailsKeepsJobs ==
  ASSUME JobsHold, NEW s \in Servers, StartFails(s)
  PROVE  JobsHold'
<1>1. TypeOK /\ FoldersAreOrdered /\ Accounts /\ BuildsAreAlone /\ CacheIsBounded
      /\ ClaimsMatchJobs
  BY JobsHoldParts DEF JobsHold
<1>2. PICK k \in Keys : k = call[s]
  BY <1>1 DEF StartFails, TypeOK
<1>3. /\ held[DocOf[k]] = NoServer /\ Stopped(s, k)
      /\ faults < MaxFaults /\ faults' = faults + 1
      /\ call' = [call EXCEPT ![s] = NoKey] /\ stage' = stage
      /\ free' = free /\ held' = held /\ active' = active
  BY <1>2 DEF StartFails, CanClaim, Returns, claims
<1>4. CacheKept(k)
  BY <1>3, StoppedKeepsCache
<1>5. \A t \in Servers : Working(t)' = Working(t)
  BY <1>3 DEF Working, Works
<1>6. \A t \in Servers : \A j \in Working(t) : folder'[j].there
  <2>1. \A t \in Servers : \A j \in Working(t) : DocOf[j] # DocOf[k]
    BY <1>1, <1>3, FreeDocument
  <2>2. \A t \in Servers : \A j \in Working(t) : j \in Keys /\ folder[j].there
    BY <1>1 DEF BuildsAreAlone, Working
  <2>3. QED BY <1>4, <2>1, <2>2 DEF CacheKept
<1>7. UNCHANGED claims
  BY <1>3 DEF claims
<1>8. Accounts' /\ BuildsAreAlone'
  BY <1>1, <1>5, <1>6, <1>7, SameJobs
<1>9. TypeOK'
  <2>1. faults' \in 0..MaxFaults
    BY <1>1, <1>3, BoundsAssumption DEF TypeOK
  <2>2. CacheTyped'
    BY <1>4 DEF CacheKept
  <2>3. call' \in [Servers -> Keys \cup {NoKey}]
    BY <1>1, <1>3 DEF TypeOK
  <2>4. QED BY <1>1, <1>3, <2>1, <2>2, <2>3 DEF TypeOK, CacheTyped, FolderType
<1>10. FoldersAreOrdered' /\ CacheIsBounded'
  BY <1>4 DEF CacheKept
<1>11. (JobsHold <=> /\ TypeOK /\ FoldersAreOrdered /\ Accounts
                     /\ BuildsAreAlone /\ CacheIsBounded)'
  BY JobsHoldParts, PTL
<1>12. QED BY <1>8, <1>9, <1>10, <1>11

LEMMA CompileKeepsJobs ==
  ASSUME JobsHold, NEW s \in Servers, NEW k \in Keys, Compile(s, k)
  PROVE  JobsHold'
<1>1. TypeOK /\ FoldersAreOrdered /\ Accounts /\ BuildsAreAlone /\ CacheIsBounded
  BY JobsHoldParts
<1>2. PICK r \in Results : stage' = [stage EXCEPT ![s][k] = r]
  BY DEF Compile
<1>3. /\ UNCHANGED cache /\ UNCHANGED claims /\ call' = call /\ faults' = faults
      /\ folder' = folder /\ newer' = newer /\ free' = free /\ held' = held /\ active' = active
      /\ stage[s][k] = "building"
  BY DEF Compile, cache, claims
<1>4. \A t \in Servers, j \in Keys : (stage'[t][j] # "none") = (stage[t][j] # "none")
  BY <1>1, <1>2, <1>3 DEF TypeOK, Results
<1>5. Accounts' /\ BuildsAreAlone'
  <2>1. \A t \in Servers : Working(t)' = Working(t)
    BY <1>4 DEF Working, Works
  <2>2. \A t \in Servers : \A j \in Working(t) : folder'[j].there
    BY <1>1, <1>3 DEF BuildsAreAlone
  <2>3. QED BY <1>1, <1>3, <2>1, <2>2, SameJobs
<1>6. TypeOK'
  BY <1>1, <1>2, <1>3 DEF TypeOK
<1>7. FoldersAreOrdered' /\ CacheIsBounded'
  BY <1>1, <1>3, SameCache
<1>8. (JobsHold <=> /\ TypeOK /\ FoldersAreOrdered /\ Accounts
                    /\ BuildsAreAlone /\ CacheIsBounded)'
  BY JobsHoldParts, PTL
<1>9. QED BY <1>5, <1>6, <1>7, <1>8

LEMMA StoreKeepsJobs ==
  ASSUME JobsHold, NEW s \in Servers, NEW k \in Keys, Store(s, k)
  PROVE  JobsHold'
<1>1. TypeOK /\ FoldersAreOrdered /\ Accounts /\ BuildsAreAlone /\ CacheIsBounded
  BY JobsHoldParts
<1>2. /\ stage[s][k] \in Results /\ stage' = [stage EXCEPT ![s][k] = "stored"]
      /\ UNCHANGED claims /\ call' = call
      /\ free' = free /\ held' = held /\ active' = active
      /\ \/ /\ folder[k].there
            /\ folder' = [folder EXCEPT ![k].result = stage[s][k]]
            /\ newer' = Touched(k, {})
            /\ faults' = faults
         \/ /\ UNCHANGED cache
            /\ faults < MaxFaults /\ faults' = faults + 1
  BY DEF Store, claims
<1>3. folder \in [Keys -> FolderType]
  BY <1>1 DEF TypeOK, FolderType
<1>4. CacheTyped' /\ FoldersAreOrdered' /\ CacheIsBounded'
      /\ \A j \in Keys : folder[j].there => folder'[j].there
  <2>1. CASE UNCHANGED cache
    BY <1>1, <2>1, SameCache DEF cache
  <2>2. CASE /\ folder[k].there
             /\ folder' = [folder EXCEPT ![k].result = stage[s][k]]
             /\ newer' = Touched(k, {})
    <3> DEFINE f == [folder[k] EXCEPT !.result = stage[s][k]]
    <3>1. f \in FolderType /\ f.there
      BY <1>2, <1>3, <2>2 DEF FolderType
    <3>2. folder' = [folder EXCEPT ![k] = f]
      BY <2>2
    <3>3. Without({}) = folder
      BY <1>3 DEF Without
    <3>4. folder' = [Without({}) EXCEPT ![k] = f]
      BY <3>2, <3>3
    <3> HIDE DEF f
    <3>5. CacheTyped' /\ FoldersAreOrdered'
      BY <1>1, <2>2, <3>1, <3>4, WriteKeepsOrder
    <3>6. CacheIsBounded'
      BY <1>1, <2>2, <3>1, <3>4, RewriteKeepsCache
    <3>7. \A j \in Keys : folder[j].there => folder'[j].there
      BY <1>3, <3>1, <3>2
    <3>8. QED BY <3>5, <3>6, <3>7
  <2>3. QED BY <1>2, <2>1, <2>2
<1>5. \A t \in Servers, j \in Keys : (stage'[t][j] # "none") = (stage[t][j] # "none")
  BY <1>1, <1>2 DEF TypeOK, Results
<1>6. Accounts' /\ BuildsAreAlone'
  <2>1. \A t \in Servers : Working(t)' = Working(t)
    BY <1>5 DEF Working, Works
  <2>2. \A t \in Servers : \A j \in Working(t) : folder'[j].there
    BY <1>1, <1>4 DEF BuildsAreAlone, Working
  <2>3. QED BY <1>1, <1>2, <2>1, <2>2, SameJobs
<1>7. TypeOK'
  <2>1. faults' \in 0..MaxFaults
    BY <1>1, <1>2, BoundsAssumption DEF TypeOK
  <2>2. stage' \in [Servers -> [Keys -> {"none", "building", "stored"} \cup Results]]
    BY <1>1, <1>2 DEF TypeOK
  <2>3. QED BY <1>1, <1>2, <1>4, <2>1, <2>2 DEF TypeOK, CacheTyped, FolderType
<1>8. (JobsHold <=> /\ TypeOK /\ FoldersAreOrdered /\ Accounts
                    /\ BuildsAreAlone /\ CacheIsBounded)'
  BY JobsHoldParts, PTL
<1>9. QED BY <1>4, <1>6, <1>7, <1>8

LEMMA ReleaseKeepsJobs ==
  ASSUME JobsHold, NEW s \in Servers, NEW k \in Keys, Release(s, k)
  PROVE  JobsHold'
<1>1. TypeOK /\ FoldersAreOrdered /\ Accounts /\ BuildsAreAlone /\ CacheIsBounded
  BY JobsHoldParts
<1>2. /\ stage[s][k] = "stored" /\ stage' = [stage EXCEPT ![s][k] = "none"]
      /\ free' = [free EXCEPT ![s] = @ + 1]
      /\ held' = [held EXCEPT ![DocOf[k]] = NoServer]
      /\ active' = [active EXCEPT ![s] = @ \ {k}]
      /\ UNCHANGED cache /\ folder' = folder /\ newer' = newer
      /\ call' = call /\ faults' = faults
  BY DEF Release, cache
<1>3. DocOf[k] \in Docs
  BY DEF Docs
<1>4. /\ k \in Working(s) /\ Working(s)' = Working(s) \ {k}
      /\ \A t \in Servers \ {s} : Working(t)' = Working(t)
  <2>1. \A j \in Keys : stage'[s][j] = IF j = k THEN "none" ELSE stage[s][j]
    BY <1>1, <1>2 DEF TypeOK
  <2>2. \A t \in Servers \ {s} : stage'[t] = stage[t]
    BY <1>1, <1>2 DEF TypeOK
  <2>3. QED BY <1>2, <2>1, <2>2 DEF Working, Works
<1>5. Cardinality(Working(s)') = Cardinality(Working(s)) - 1
  BY <1>4, JobsAreFinite, FS_RemoveElement
<1>6. free'[s] = free[s] + 1 /\ \A t \in Servers \ {s} : free'[t] = free[t]
  BY <1>1, <1>2 DEF TypeOK
<1>7. Cardinality(Working(s)') \in Nat
  BY <1>4, JobsAreFinite, FS_RemoveElement, FS_CardinalityType
<1>8. free'[s] = Slots - Cardinality(Working(s)')
  BY <1>1, <1>5, <1>6, JobsAreFinite, BoundsAssumption DEF Accounts
<1>9. Accounts'
  <2>1. \A t \in Servers : active'[t] = Working(t)'
    BY <1>1, <1>2, <1>4 DEF Accounts, TypeOK
  <2>2. \A t \in Servers \ {s} : free'[t] = Slots - Cardinality(Working(t)')
    BY <1>1, <1>4, <1>6 DEF Accounts
  <2>3. /\ held'[DocOf[k]] = NoServer
        /\ \A d \in Docs \ {DocOf[k]} : held'[d] = held[d]
    BY <1>1, <1>2, <1>3 DEF TypeOK
  <2>4. held[DocOf[k]] = s
    BY <1>1, <1>3, <1>4 DEF Accounts
  <2>5. ASSUME NEW t \in Servers, NEW d \in Docs
        PROVE  held'[d] = t <=> \E j \in Working(t)' : DocOf[j] = d
    <3>1. held[d] = t <=> \E j \in Working(t) : DocOf[j] = d
      BY <1>1 DEF Accounts
    <3>2. CASE d = DocOf[k]
      <4>1. held'[d] # t
        BY <2>3, <3>2, NamesAssumption
      <4>2. t # s => ~ \E j \in Working(t) : DocOf[j] = d
        BY <2>4, <3>1, <3>2
      <4>3. \A j \in Working(s) : DocOf[j] = d => j = k
        BY <1>1, <1>4, <3>2 DEF BuildsAreAlone
      <4>4. QED BY <1>4, <4>1, <4>2, <4>3
    <3>3. CASE d # DocOf[k]
      BY <1>4, <2>3, <3>1, <3>3
    <3>4. QED BY <3>2, <3>3
  <2>6. QED BY <1>8, <2>1, <2>2, <2>5 DEF Accounts
<1>10. BuildsAreAlone'
  <2>1. \A t \in Servers : Working(t)' \subseteq Working(t)
    BY <1>4
  <2>2. QED BY <1>1, <1>2, <2>1 DEF BuildsAreAlone
<1>11. TypeOK'
  <2>1. free'[s] \in 0..Slots
    BY <1>1, <1>6, <1>7, <1>8, BoundsAssumption DEF TypeOK
  <2>2. free' \in [Servers -> 0..Slots]
    BY <1>1, <1>2, <1>6, <2>1 DEF TypeOK
  <2>3. /\ held' \in [Docs -> Servers \cup {NoServer}]
        /\ active' \in [Servers -> SUBSET Keys]
    BY <1>1, <1>2 DEF TypeOK
  <2>4. stage' \in [Servers -> [Keys -> {"none", "building", "stored"} \cup Results]]
    BY <1>1, <1>2 DEF TypeOK
  <2>5. QED BY <1>1, <1>2, <2>2, <2>3, <2>4 DEF TypeOK
<1>12. FoldersAreOrdered' /\ CacheIsBounded'
  BY <1>1, <1>2, SameCache
<1>13. (JobsHold <=> /\ TypeOK /\ FoldersAreOrdered /\ Accounts
                     /\ BuildsAreAlone /\ CacheIsBounded)'
  BY JobsHoldParts, PTL
<1>14. QED BY <1>9, <1>10, <1>11, <1>12, <1>13

LEMMA CrashKeepsJobs ==
  ASSUME JobsHold, NEW s \in Servers, Crash(s)
  PROVE  JobsHold'
<1>1. TypeOK /\ FoldersAreOrdered /\ Accounts /\ BuildsAreAlone /\ CacheIsBounded
  BY JobsHoldParts
<1>2. /\ faults < MaxFaults /\ faults' = faults + 1
      /\ free' = [free EXCEPT ![s] = Slots]
      /\ held' = [d \in Docs |-> IF held[d] = s THEN NoServer ELSE held[d]]
      /\ active' = [active EXCEPT ![s] = {}]
      /\ call' = [call EXCEPT ![s] = NoKey]
      /\ stage' = [stage EXCEPT ![s] = [k \in Keys |-> "none"]]
      /\ UNCHANGED cache /\ folder' = folder /\ newer' = newer
  BY DEF Crash, cache
<1>3. Working(s)' = {} /\ \A t \in Servers \ {s} : Working(t)' = Working(t)
  <2>1. stage'[s] = [k \in Keys |-> "none"] /\ \A t \in Servers \ {s} : stage'[t] = stage[t]
    BY <1>1, <1>2 DEF TypeOK
  <2>2. QED BY <2>1 DEF Working, Works
<1>4. Accounts'
  <2>1. \A t \in Servers : active'[t] = Working(t)'
    BY <1>1, <1>2, <1>3 DEF Accounts, TypeOK
  <2>2. free'[s] = Slots /\ \A t \in Servers \ {s} : free'[t] = free[t]
    BY <1>1, <1>2 DEF TypeOK
  <2>3. Cardinality(Working(s)') = 0
    BY <1>3, FS_EmptySet
  <2>4. free'[s] = Slots - Cardinality(Working(s)')
    BY <2>2, <2>3, BoundsAssumption
  <2>5. \A t \in Servers \ {s} : free'[t] = Slots - Cardinality(Working(t)')
    BY <1>1, <1>3, <2>2 DEF Accounts
  <2>6. \A t \in Servers, d \in Docs :
          held'[d] = t <=> \E j \in Working(t)' : DocOf[j] = d
    BY <1>1, <1>2, <1>3, NamesAssumption DEF Accounts
  <2>7. QED BY <2>1, <2>4, <2>5, <2>6 DEF Accounts
<1>5. BuildsAreAlone'
  <2>1. \A t \in Servers : Working(t)' \subseteq Working(t)
    BY <1>3
  <2>2. QED BY <1>1, <1>2, <2>1 DEF BuildsAreAlone
<1>6. TypeOK'
  <2>1. faults' \in 0..MaxFaults
    BY <1>1, <1>2, BoundsAssumption DEF TypeOK
  <2>2. free' \in [Servers -> 0..Slots]
    BY <1>1, <1>2, BoundsAssumption DEF TypeOK
  <2>3. /\ held' \in [Docs -> Servers \cup {NoServer}]
        /\ active' \in [Servers -> SUBSET Keys]
        /\ call' \in [Servers -> Keys \cup {NoKey}]
    BY <1>1, <1>2 DEF TypeOK
  <2>4. stage' \in [Servers -> [Keys -> {"none", "building", "stored"} \cup Results]]
    BY <1>1, <1>2 DEF TypeOK
  <2>5. QED BY <1>1, <1>2, <2>1, <2>2, <2>3, <2>4 DEF TypeOK
<1>7. FoldersAreOrdered' /\ CacheIsBounded'
  BY <1>1, <1>2, SameCache
<1>8. (JobsHold <=> /\ TypeOK /\ FoldersAreOrdered /\ Accounts
                    /\ BuildsAreAlone /\ CacheIsBounded)'
  BY JobsHoldParts, PTL
<1>9. QED BY <1>4, <1>5, <1>6, <1>7, <1>8

LEMMA ExpireKeepsJobs ==
  ASSUME JobsHold, NEW k \in Keys, Expire(k)
  PROVE  JobsHold'
<1>1. TypeOK /\ FoldersAreOrdered /\ Accounts /\ BuildsAreAlone /\ CacheIsBounded
  BY JobsHoldParts
<1>2. /\ folder' = [folder EXCEPT ![k].old = TRUE] /\ newer' = newer
      /\ UNCHANGED claims /\ call' = call /\ stage' = stage /\ faults' = faults
      /\ free' = free /\ held' = held /\ active' = active
  BY DEF Expire, claims
<1>3. folder \in [Keys -> FolderType]
  BY <1>1 DEF TypeOK, FolderType
<1>4. /\ folder' \in [Keys -> FolderType]
      /\ \A j \in Keys : folder'[j].there = folder[j].there
  BY <1>2, <1>3 DEF FolderType
<1>5. \A d \in Docs : Folders(d)' = Folders(d)
  BY <1>4 DEF Folders
<1>6. FoldersAreOrdered'
  BY <1>1, <1>2, <1>4, <1>5 DEF FoldersAreOrdered, Newer
<1>7. CacheIsBounded'
  BY <1>1, <1>5 DEF CacheIsBounded, Room
<1>8. Accounts' /\ BuildsAreAlone'
  <2>1. \A t \in Servers : Working(t)' = Working(t)
    BY <1>2 DEF Working, Works
  <2>2. \A t \in Servers : \A j \in Working(t) : folder'[j].there
    BY <1>1, <1>4 DEF BuildsAreAlone, Working
  <2>3. QED BY <1>1, <1>2, <2>1, <2>2, SameJobs
<1>9. TypeOK'
  BY <1>1, <1>2, <1>4 DEF TypeOK, FolderType
<1>10. (JobsHold <=> /\ TypeOK /\ FoldersAreOrdered /\ Accounts
                     /\ BuildsAreAlone /\ CacheIsBounded)'
  BY JobsHoldParts, PTL
<1>11. QED BY <1>6, <1>7, <1>8, <1>9, <1>10

LEMMA InitJobs == Init => JobsHold
<1> SUFFICES ASSUME Init PROVE JobsHold
  OBVIOUS
<1>1. TypeOK
  <2>1. Absent \in FolderType
    BY DEF Absent, FolderType, Results
  <2>2. Slots \in 0..Slots /\ 0 \in 0..MaxFaults
    BY BoundsAssumption
  <2>3. QED BY <2>1, <2>2 DEF Init, TypeOK, FolderType
<1>2. \A d \in Docs : Folders(d) = {}
  BY DEF Init, Folders, Absent
<1>3. \A s \in Servers : Working(s) = {}
  BY DEF Init, Working, Works
<1>4. FoldersAreOrdered
  BY <1>2 DEF Init, FoldersAreOrdered, Newer
<1>5. Accounts
  <2>1. \A s \in Servers : Cardinality(Working(s)) = 0
    BY <1>3, FS_EmptySet
  <2>2. \A s \in Servers : free[s] = Slots - Cardinality(Working(s))
    BY <2>1, BoundsAssumption DEF Init
  <2>3. QED BY <1>3, <2>2, NamesAssumption DEF Init, Accounts
<1>6. BuildsAreAlone
  BY <1>3 DEF BuildsAreAlone
<1>7. CacheIsBounded
  <2>1. \A d \in Docs : Cardinality(Folders(d)) = 0
    BY <1>2, FS_EmptySet
  <2>2. \A d \in Docs, c \in Classes : Room(d, c) \in Nat
    BY CacheAssumption DEF Room
  <2>3. \A d \in Docs : /\ Room(d, "whole") \in Nat /\ Room(d, "scoped") \in Nat
                        /\ Room(d, "ranged") \in Nat
    BY <2>2 DEF Classes
  <2>4. QED BY <2>1, <2>3 DEF CacheIsBounded
<1>8. QED BY <1>1, <1>4, <1>5, <1>6, <1>7, JobsHoldParts

LEMMA NextJobs == JobsHold /\ [Next]_vars => JobsHold'
<1> SUFFICES ASSUME JobsHold, [Next]_vars PROVE JobsHold'
  OBVIOUS
<1>1. ASSUME NEW s \in Servers, Answer(s) \/ Crash(s)
      PROVE  JobsHold'
  BY <1>1, RefuseKeepsJobs, StartKeepsJobs, StartFailsKeepsJobs, CrashKeepsJobs DEF Answer
<1>2. ASSUME NEW s \in Servers, NEW k \in Keys, Look(s, k) \/ Work(s, k) \/ Release(s, k)
      PROVE  JobsHold'
  BY <1>2, LookKeepsJobs, CompileKeepsJobs, StoreKeepsJobs, ReleaseKeepsJobs DEF Work
<1>3. ASSUME NEW k \in Keys, Expire(k)
      PROVE  JobsHold'
  BY <1>3, ExpireKeepsJobs
<1>4. CASE UNCHANGED vars
  <2>1. TypeOK /\ FoldersAreOrdered /\ Accounts /\ BuildsAreAlone /\ CacheIsBounded
    BY JobsHoldParts
  <2>2. /\ UNCHANGED cache /\ UNCHANGED claims /\ folder' = folder /\ newer' = newer
        /\ free' = free /\ held' = held /\ active' = active
        /\ call' = call /\ stage' = stage /\ faults' = faults
    BY <1>4 DEF vars, cache, claims
  <2>3. \A t \in Servers : Working(t)' = Working(t)
    BY <2>2 DEF Working, Works
  <2>4. \A t \in Servers : \A j \in Working(t) : folder'[j].there
    BY <2>1, <2>2 DEF BuildsAreAlone
  <2>5. Accounts' /\ BuildsAreAlone'
    BY <2>1, <2>2, <2>3, <2>4, SameJobs
  <2>6. TypeOK'
    BY <2>1, <2>2 DEF TypeOK
  <2>7. FoldersAreOrdered' /\ CacheIsBounded'
    BY <2>1, <2>2, SameCache
  <2>8. (JobsHold <=> /\ TypeOK /\ FoldersAreOrdered /\ Accounts
                      /\ BuildsAreAlone /\ CacheIsBounded)'
    BY JobsHoldParts, PTL
  <2>9. QED BY <2>5, <2>6, <2>7, <2>8
<1>5. QED BY <1>1, <1>2, <1>3, <1>4 DEF Next

(* Slots, build locks, jobs and folders account for each other whatever    *)
(* fails or dies (revisions/jobs.py), a document has one job at a time     *)
(* across the servers of a state directory, and its cache never holds more *)
(* folders than its limits allow: for every number of servers, comparisons *)
(* and slots and all limits of at least one.                               *)
THEOREM JobsAlwaysHold == Spec => []JobsHold
BY InitJobs, NextJobs, PTL DEF Spec

-----------------------------------------------------------------------------
(* What a step may do to a folder: leave it, write it, or remove it, and   *)
(* only a start removes, what it prunes and its own.                       *)
Removable(s) == Pruned(s, call[s]) \cup {call[s]}
FolderStep(k) ==
  \/ folder'[k] = folder[k]
  \/ folder'[k].there
  \/ folder'[k] = Absent /\ \E s \in Servers : call[s] \in Keys /\ k \in Removable(s)

LEMMA StartsWriteOrRemove ==
  ASSUME TypeOK, NEW s \in Servers, call[s] \in Keys, NEW k \in Keys,
         NEW S \in SUBSET Removable(s),
         \/ folder' = Without(S)
         \/ \E i \in Keys, f \in FolderType : /\ f.there
                                              /\ folder' = [Without(S) EXCEPT ![i] = f]
  PROVE  FolderStep(k)
<1>1. \A j \in Keys : Without(S)[j] = IF j \in S THEN Absent ELSE folder[j]
  BY DEF Without
<1>2. CASE folder' = Without(S)
  BY <1>1, <1>2 DEF FolderStep
<1>3. ASSUME NEW i \in Keys, NEW f \in FolderType, f.there,
             folder' = [Without(S) EXCEPT ![i] = f]
      PROVE  FolderStep(k)
  <2>1. folder'[k] = IF k = i THEN f ELSE Without(S)[k]
    BY <1>3 DEF Without
  <2>2. QED BY <1>1, <1>3, <2>1 DEF FolderStep
<1>4. QED BY <1>2, <1>3

LEMMA StepsOnFolders ==
  ASSUME JobsHold, [Next]_vars, NEW k \in Keys
  PROVE  FolderStep(k)
<1>1. TypeOK /\ folder \in [Keys -> FolderType]
  BY JobsHoldParts DEF TypeOK, FolderType
<1>2. CASE UNCHANGED folder
  BY <1>2 DEF FolderStep
<1>3. ASSUME NEW s \in Servers, Start(s)
      PROVE  FolderStep(k)
  <2>1. /\ call[s] \in Keys
        /\ folder' = [Without(Pruned(s, call[s])) EXCEPT
                        ![call[s]] = Empty(ClassOf[call[s]] # "whole")]
    BY <1>1, <1>3 DEF Start, TypeOK
  <2>2. Empty(ClassOf[call[s]] # "whole") \in FolderType
        /\ Empty(ClassOf[call[s]] # "whole").there
    BY EmptyIsThere
  <2>3. Pruned(s, call[s]) \in SUBSET Removable(s)
    BY DEF Removable
  <2>4. QED BY <1>1, <2>1, <2>2, <2>3, StartsWriteOrRemove
<1>4. ASSUME NEW s \in Servers, StartFails(s)
      PROVE  FolderStep(k)
  <2>1. PICK c \in Keys : c = call[s]
    BY <1>1, <1>4 DEF StartFails, TypeOK
  <2>2. Stopped(s, c)
    BY <1>4, <2>1 DEF StartFails
  <2>3. CASE StoppedInPrune(s, c)
    <3>1. PICK j \in Pruned(s, c) :
            LET gone == {i \in Pruned(s, c) : Newer(i, j)}
            IN  \/ folder' = Without(gone) /\ newer' = Unlisted(gone)
                \/ \E f \in Torn(folder[j]) : /\ folder' = [Without(gone) EXCEPT ![j] = f]
                                              /\ newer' = Touched(j, gone)
      BY <2>3 DEF StoppedInPrune
    <3> DEFINE gone == {i \in Pruned(s, c) : Newer(i, j)}
    <3>2. gone \in SUBSET Removable(s)
      BY <2>1 DEF Removable
    <3>3. j \in Keys
      BY PruneStaysIn
    <3>4. \A f \in Torn(folder[j]) : f \in FolderType /\ f.there
      BY <1>1, <3>3, TornIsThere
    <3>5. \/ folder' = Without(gone)
          \/ \E f \in Torn(folder[j]) : folder' = [Without(gone) EXCEPT ![j] = f]
      BY <3>1
    <3> HIDE DEF gone
    <3>6. QED BY <1>1, <2>1, <3>2, <3>3, <3>4, <3>5, StartsWriteOrRemove
  <2>4. CASE StoppedInFolder(s, c)
    <3> DEFINE gone == Pruned(s, c)
    <3>1. gone \in SUBSET Removable(s) /\ gone \cup {c} \in SUBSET Removable(s)
      BY <2>1 DEF Removable
    <3>2. \A f \in {Empty(m) : m \in BOOLEAN}
                     \cup (IF folder[c].there THEN Torn(folder[c]) ELSE {}) :
            f \in FolderType /\ f.there
      BY <1>1, TornIsThere, EmptyIsThere
    <3>3. \/ folder' = Without(gone)
          \/ folder' = Without(gone \cup {c})
          \/ \E f \in {Empty(m) : m \in BOOLEAN}
                        \cup (IF folder[c].there THEN Torn(folder[c]) ELSE {}) :
               folder' = [Without(gone) EXCEPT ![c] = f]
      BY <2>4 DEF StoppedInFolder
    <3> HIDE DEF gone
    <3>4. CASE folder' = Without(gone \cup {c})
      BY <1>1, <2>1, <3>1, <3>4, StartsWriteOrRemove
    <3>5. CASE folder' = Without(gone)
      BY <1>1, <2>1, <3>1, <3>5, StartsWriteOrRemove
    <3>6. ASSUME NEW f \in FolderType, f.there, folder' = [Without(gone) EXCEPT ![c] = f]
          PROVE  FolderStep(k)
      BY <1>1, <2>1, <3>1, <3>6, StartsWriteOrRemove
    <3>7. QED BY <3>2, <3>3, <3>4, <3>5, <3>6
  <2>5. CASE UNCHANGED cache
    BY <2>5 DEF cache, FolderStep
  <2>6. QED BY <2>2, <2>3, <2>4, <2>5 DEF Stopped
<1>5. ASSUME NEW s \in Servers, NEW i \in Keys, Store(s, i)
      PROVE  FolderStep(k)
  <2>1. CASE UNCHANGED cache
    BY <2>1 DEF cache, FolderStep
  <2>2. CASE folder[i].there /\ folder' = [folder EXCEPT ![i].result = stage[s][i]]
    <3>1. folder'[k] = folder[k] \/ (k = i /\ folder'[i] = [folder[i] EXCEPT !.result = stage[s][i]])
      BY <1>1, <2>2
    <3>2. [folder[i] EXCEPT !.result = stage[s][i]].there = folder[i].there
      BY <1>1 DEF FolderType
    <3>3. QED BY <2>2, <3>1, <3>2 DEF FolderStep
  <2>3. QED BY <1>5, <2>1, <2>2 DEF Store
<1>6. ASSUME NEW i \in Keys, Expire(i)
      PROVE  FolderStep(k)
  <2>1. folder[i].there /\ folder' = [folder EXCEPT ![i].old = TRUE]
    BY <1>6 DEF Expire
  <2>2. folder'[k] = folder[k] \/ (k = i /\ folder'[i] = [folder[i] EXCEPT !.old = TRUE])
    BY <1>1, <2>1
  <2>3. [folder[i] EXCEPT !.old = TRUE].there = folder[i].there
    BY <1>1 DEF FolderType
  <2>4. QED BY <2>1, <2>2, <2>3 DEF FolderStep
<1>7. CASE Next
  <2>1. ASSUME NEW s \in Servers, Answer(s) \/ Crash(s)
        PROVE  FolderStep(k)
    BY <1>2, <1>3, <1>4, <2>1 DEF Answer, Refuse, Crash, cache
  <2>2. ASSUME NEW s \in Servers, NEW i \in Keys, Look(s, i) \/ Work(s, i) \/ Release(s, i)
        PROVE  FolderStep(k)
    BY <1>2, <1>5, <2>2 DEF Work, Look, Compile, Release, cache
  <2>3. QED BY <1>6, <1>7, <2>1, <2>2 DEF Next
<1>8. QED BY <1>2, <1>7 DEF vars, cache

(* A result that is ready is in a folder that is there. *)
ResultsAreThere == \A k \in Keys : folder[k].result = "ready" => folder[k].there

LEMMA ResultsStayThere ==
  ASSUME JobsHold, ResultsAreThere, [Next]_vars
  PROVE  ResultsAreThere'
<1> SUFFICES ASSUME NEW k \in Keys, folder'[k].result = "ready"
             PROVE  folder'[k].there
  BY DEF ResultsAreThere
<1>1. Absent.result = "retry"
  BY DEF Absent
<1>2. FolderStep(k)
  BY StepsOnFolders
<1>3. QED BY <1>1, <1>2 DEF FolderStep, ResultsAreThere

(* The folder written last is pruned by no start of another comparison,    *)
(* when every class a job is built in keeps at least two.                  *)
LEMMA LastWrittenIsKept ==
  ASSUME TypeOK, Limit["whole"] >= 2, Limit["ranged"] >= 2,
         NEW s \in Servers, NEW c \in Keys, NEW k \in Keys,
         Ready(k), \A j \in Keys : ~Newer(j, k)
  PROVE  k \notin Pruned(s, c)
<1> DEFINE others == {j \in Keys \ {c} : /\ folder[j].there /\ DocOf[j] = DocOf[c]
                                         /\ j \notin active[s]}
           ahead(j) == {i \in others : /\ Newer(i, j) /\ ~folder[i].old
                                       /\ Kind(i) = Kind(j)}
<1>1. Pruned(s, c) = {i \in others :
          \/ folder[i].old
          \/ Cardinality(ahead(i)) + Taken(c, Kind(i)) >= Limit[Kind(i)]}
  BY DEF Pruned, Taken
<1>2. ~folder[k].old
  BY DEF Ready
<1>3. ahead(k) = {}
  OBVIOUS
<1>4. Cardinality(ahead(k)) = 0
  BY <1>3, FS_EmptySet
<1>5. Kind(k) \in Classes /\ KeepClass(c) \in {"whole", "ranged"}
  BY CacheAssumption DEF Kind, KeepClass, Classes
<1>6. /\ Limit[Kind(k)] \in Nat \ {0}
      /\ Kind(k) \in {"whole", "ranged"} => Limit[Kind(k)] >= 2
  BY <1>5, CacheAssumption DEF Classes
<1>7. /\ Taken(c, Kind(k)) \in {0, 1}
      /\ Taken(c, Kind(k)) = 1 => Kind(k) \in {"whole", "ranged"}
  BY <1>5 DEF Taken
<1>8. ~ (Cardinality(ahead(k)) + Taken(c, Kind(k)) >= Limit[Kind(k)])
  BY <1>4, <1>6, <1>7
<1> HIDE DEF ahead, others
<1>9. QED BY <1>1, <1>2, <1>8

(* A comparison that a worker just finished outlives the next start for    *)
(* its document (revision_prune), when the limits for whole commits and    *)
(* ranges are at least two: CACHE_LIMITS has six and four.                 *)
THEOREM FreshResultsStay ==
  ASSUME Limit["whole"] >= 2, Limit["ranged"] >= 2
  PROVE  Spec => FreshResultStays
<1>1. ASSUME JobsHold, ResultsAreThere, [Next]_vars,
             NEW k \in Keys, Ready(k), \A j \in Keys : ~Newer(j, k),
             \A s \in Servers : call[s] # k
      PROVE  folder'[k].there
  <2>1. folder[k].there
    BY <1>1 DEF Ready, ResultsAreThere
  <2>2. \A s \in Servers : call[s] \in Keys => k \notin Removable(s)
    BY <1>1, LastWrittenIsKept, JobsHoldParts DEF Removable
  <2>3. FolderStep(k)
    BY <1>1, StepsOnFolders
  <2>4. QED BY <2>1, <2>2, <2>3 DEF FolderStep
<1>2. Init => ResultsAreThere
  BY DEF Init, ResultsAreThere, Absent
<1>3. JobsHold /\ ResultsAreThere /\ [Next]_vars => ResultsAreThere'
  BY ResultsStayThere
<1>4. JobsHold /\ ResultsAreThere /\ [Next]_vars =>
        [\A k \in Keys : /\ Ready(k)
                         /\ \A j \in Keys : ~Newer(j, k)
                         /\ \A s \in Servers : call[s] # k
                         => folder'[k].there]_vars
  BY <1>1
<1>5. QED BY <1>2, <1>3, <1>4, JobsAlwaysHold, PTL DEF Spec, FreshResultStays

-----------------------------------------------------------------------------
(* The listener                                                            *)

(* What the listener is started with. *)
ListenerAssumption == /\ Places \in Nat /\ MaxFailing \in Nat
                      /\ NoCause \notin Conns

-----------------------------------------------------------------------------
(* The ledger: places are numbers already given out, each in one hand.     *)
Ledger == /\ pending \cap claimed = {}
          /\ \A g \in pending \cup claimed : g < nextGeneration
          /\ Listener!Admitted <= Places

(* A connection before its worker is the loop's own, and it has no place   *)
(* until the loop reserved one.                                            *)
LoopOwns ==
  /\ loop.step = "select" => loop.conn = NoCause
  /\ loop.step \in {"reserve", "refuse", "make", "undo", "start", "release", "service"}
       => loop.conn \in Conns
  /\ loop.step \in {"reserve", "make", "undo", "start"} => at[loop.conn] = "accepted"
  /\ loop.step = "refuse" => at[loop.conn] = "refused"
  /\ loop.step = "release" => at[loop.conn] = "closed"
  /\ loop.step = "service" => at[loop.conn] \notin {"accepted", "refused"}
  /\ \A k \in Conns : at[k] \in {"accepted", "refused"} => loop.conn = k
  /\ loop.step = "fence" /\ loop.conn = NoCause => fatal # NoCause

(* Who holds a place. *)
Holding == {"running", "handling", "cleaning", "closed", "failing", "recording", "lost"}
Held == \A k \in Conns :
  /\ lease[k] # Listener!NoLease => lease[k] < nextGeneration
  /\ \A j \in Conns : lease[j] = lease[k] /\ lease[k] # Listener!NoLease => j = k
  /\ at[k] \in {"backlog", "refused"} => lease[k] = Listener!NoLease
  /\ at[k] = "accepted" =>
       IF loop.step = "reserve" THEN lease[k] = Listener!NoLease ELSE lease[k] \in pending
  /\ at[k] = "running" => lease[k] \in pending
  /\ at[k] = "handling" => lease[k] \in claimed
  /\ at[k] \in Holding => lease[k] \in pending \cup claimed
  /\ at[k] \in {"backlog", "closed", "done"} => k \notin open

ListenerInv == Listener!TypeOK /\ Ledger /\ LoopOwns /\ Held

-----------------------------------------------------------------------------
LEMMA SameCount == ASSUME NEW S PROVE Listener!Cardinality(S) = Cardinality(S)
BY DEF Listener!Cardinality, Cardinality

LEMMA Admits == /\ Listener!Admitted = Cardinality(pending) + Cardinality(claimed)
                /\ Listener!Admitted' = Cardinality(pending') + Cardinality(claimed')
BY SameCount DEF Listener!Admitted

(* The sets of places are finite, so they can be counted. *)
LEMMA PlacesAreFinite ==
  ASSUME Listener!TypeOK, \A g \in pending \cup claimed : g < nextGeneration
  PROVE  /\ IsFiniteSet(pending) /\ IsFiniteSet(claimed)
         /\ Cardinality(pending) \in Nat /\ Cardinality(claimed) \in Nat
<1>1. \A g \in pending \cup claimed : g \in Nat /\ g <= nextGeneration
  BY DEF Listener!TypeOK
<1>2. nextGeneration \in Nat /\ pending \subseteq Nat /\ claimed \subseteq Nat
  BY DEF Listener!TypeOK
<1>3. IsFiniteSet(pending) /\ IsFiniteSet(claimed)
  BY <1>1, <1>2, FS_BoundedSetOfNaturals
<1>4. QED BY <1>3, FS_CardinalityType

(* What each rule makes of the ledger. *)
LEMMA ReserveKeepsLedger ==
  ASSUME ListenerAssumption, Listener!TypeOK, Ledger, NEW k \in Conns, Listener!Reserve(k)
  PROVE  Ledger'
<1>1. /\ Listener!Admitted < Places /\ claimed' = claimed /\ nextGeneration \in Nat
      /\ pending' = pending \cup {nextGeneration} /\ nextGeneration' = nextGeneration + 1
  BY DEF Listener!Reserve, Listener!TypeOK
<1>2. pending \subseteq Nat /\ claimed \subseteq Nat
  BY DEF Listener!TypeOK
<1>3. nextGeneration \notin pending \cup claimed
  BY <1>1, <1>2 DEF Ledger
<1>4. IsFiniteSet(pending) /\ Cardinality(pending) \in Nat /\ Cardinality(claimed) \in Nat
  BY PlacesAreFinite DEF Ledger
<1>5. Cardinality(pending') = Cardinality(pending) + 1
  BY <1>1, <1>3, <1>4, FS_AddElement
<1>6. Listener!Admitted' <= Places
  BY <1>1, <1>4, <1>5, Admits DEF ListenerAssumption
<1>7. \A g \in pending' \cup claimed' : g < nextGeneration'
  BY <1>1, <1>2 DEF Ledger
<1>8. QED BY <1>1, <1>3, <1>6, <1>7 DEF Ledger

LEMMA ClaimKeepsLedger ==
  ASSUME ListenerAssumption, Listener!TypeOK, Ledger, NEW k \in Conns, lease[k] \in pending,
         Listener!ClaimLease(k)
  PROVE  Ledger'
<1>1. /\ pending' = pending \ {lease[k]} /\ claimed' = claimed \cup {lease[k]}
      /\ nextGeneration' = nextGeneration /\ lease[k] \notin claimed
  BY DEF Listener!ClaimLease, Ledger
<1>2. /\ IsFiniteSet(pending) /\ IsFiniteSet(claimed)
      /\ Cardinality(pending) \in Nat /\ Cardinality(claimed) \in Nat
  BY PlacesAreFinite DEF Ledger
<1>3. /\ Cardinality(pending') = Cardinality(pending) - 1
      /\ Cardinality(claimed') = Cardinality(claimed) + 1
  BY <1>1, <1>2, FS_AddElement, FS_RemoveElement
<1>4. Listener!Admitted' = Listener!Admitted
  BY <1>2, <1>3, Admits
<1>5. QED BY <1>1, <1>4 DEF Ledger

LEMMA ReleaseKeepsLedger ==
  ASSUME ListenerAssumption, Listener!TypeOK, Ledger, NEW k \in Conns, Listener!ReleaseLease(k)
  PROVE  Ledger'
<1>1. /\ pending' \subseteq pending /\ claimed' \subseteq claimed
      /\ nextGeneration' = nextGeneration
  BY DEF Listener!ReleaseLease
<1>2. /\ IsFiniteSet(pending) /\ IsFiniteSet(claimed)
      /\ Cardinality(pending) \in Nat /\ Cardinality(claimed) \in Nat
  BY PlacesAreFinite DEF Ledger
<1>3. /\ IsFiniteSet(pending') /\ IsFiniteSet(claimed')
      /\ Cardinality(pending') <= Cardinality(pending)
      /\ Cardinality(claimed') <= Cardinality(claimed)
  BY <1>1, <1>2, FS_Subset
<1>4. Cardinality(pending') \in Nat /\ Cardinality(claimed') \in Nat
  BY <1>3, FS_CardinalityType
<1>5. Listener!Admitted' <= Places
  BY <1>2, <1>3, <1>4, Admits DEF Ledger, ListenerAssumption
<1>6. QED BY <1>1, <1>5 DEF Ledger

LEMMA LedgerStays ==
  ASSUME Ledger, UNCHANGED <<nextGeneration, pending, claimed>>
  PROVE  Ledger'
BY DEF Ledger, Listener!Admitted

-----------------------------------------------------------------------------
(* The loop's steps. *)
LEMMA LoopKeepsInv ==
  ASSUME ListenerAssumption, ListenerInv, Listener!LoopStep
  PROVE  ListenerInv'
<1> USE DEF ListenerInv
<1>0. /\ loop = [step |-> loop.step, conn |-> loop.conn] /\ loop.step \in Listener!Steps
      /\ loop.conn \in Conns \cup {NoCause} /\ NoCause \notin Conns
  BY DEF Listener!TypeOK, ListenerAssumption
<1>1. ASSUME NEW s, Listener!Goto(s)
      PROVE  loop'.step = s /\ loop'.conn = loop.conn
             /\ (s \in Listener!Steps => loop' \in [step : Listener!Steps, conn : Conns \cup {NoCause}])
  BY <1>0, <1>1 DEF Listener!Goto, Listener!TypeOK
<1>2. CASE Listener!ReserveOrRefuse
  <2>1. loop.step = "reserve" /\ loop.conn \in Conns /\ UNCHANGED <<fatal, open, listening, failing>>
    BY <1>2 DEF Listener!ReserveOrRefuse, LoopOwns
  <2>2. CASE Listener!Reserve(loop.conn) /\ Listener!Goto("make") /\ UNCHANGED at
    <3>1. loop'.step = "make" /\ loop'.conn = loop.conn
      BY <1>1, <2>2
    <3>2. Listener!TypeOK'
      BY <1>1, <2>1, <2>2 DEF Listener!TypeOK, Listener!Reserve, Listener!Steps
    <3>3. Ledger'
      BY <2>1, <2>2, ReserveKeepsLedger
    <3>4. LoopOwns'
      BY <2>1, <2>2, <3>1 DEF LoopOwns
    <3>5. Held'
      BY <2>1, <2>2, <3>1 DEF Held, Listener!Reserve, LoopOwns, Listener!TypeOK, Listener!NoLease, Holding, Ledger
    <3>6. QED BY <3>2, <3>3, <3>4, <3>5
  <2>3. CASE Listener!Goto("refuse") /\ Listener!Stage(loop.conn, "refused") /\ UNCHANGED <<Listener!admission, lease>>
    <3>1. loop'.step = "refuse" /\ loop'.conn = loop.conn
      BY <1>1, <2>3
    <3>2. Listener!TypeOK'
      BY <1>1, <2>1, <2>3 DEF Listener!TypeOK, Listener!Stage, Listener!admission, Listener!Steps, Listener!Stages
    <3>3. Ledger'
      BY <2>3, LedgerStays DEF Listener!admission
    <3>4. LoopOwns'
      BY <2>1, <2>3, <3>1 DEF LoopOwns, Listener!Stage, Listener!TypeOK
    <3>5. Held'
      BY <2>1, <2>3, <3>1 DEF Held, LoopOwns, Listener!TypeOK, Listener!NoLease, Holding, Listener!Stage, Listener!admission
    <3>6. QED BY <3>2, <3>3, <3>4, <3>5
  <2>4. QED BY <1>2, <2>2, <2>3 DEF Listener!ReserveOrRefuse
<1>3. CASE Listener!LoopCleanup
  <2>1. /\ loop.step \in {"refuse", "undo"} /\ loop.conn \in Conns
        /\ UNCHANGED <<Listener!admission, fatal, lease, listening>>
    BY <1>3 DEF Listener!LoopCleanup, LoopOwns
  <2>2. Ledger'
    BY <2>1, LedgerStays DEF Listener!admission
  <2>3. CASE /\ open' = open \ {loop.conn}
             /\ Listener!Goto(IF loop.step = "refuse" THEN "service" ELSE "release")
             /\ Listener!Stage(loop.conn, IF loop.step = "refuse" THEN "done" ELSE "closed")
             /\ UNCHANGED failing
    <3>1. /\ loop'.step = (IF loop.step = "refuse" THEN "service" ELSE "release")
          /\ loop'.conn = loop.conn
      BY <1>1, <2>3
    <3>2. Listener!TypeOK'
      BY <1>1, <2>1, <2>3 DEF Listener!TypeOK, Listener!Stage, Listener!admission, Listener!Steps, Listener!Stages
    <3>3. LoopOwns'
      BY <2>1, <2>3, <3>1 DEF LoopOwns, Listener!Stage, Listener!TypeOK
    <3>4. Held'
      BY <2>1, <2>3, <3>1 DEF Held, LoopOwns, Listener!TypeOK, Listener!NoLease, Holding, Listener!Stage, Listener!admission
    <3>5. QED BY <2>2, <3>2, <3>3, <3>4
  <2>4. CASE Listener!Fault /\ Listener!Goto("fence") /\ UNCHANGED <<open, at>>
    <3>1. loop'.step = "fence" /\ loop'.conn = loop.conn
      BY <1>1, <2>4
    <3>2. Listener!TypeOK'
      BY <1>1, <2>1, <2>4 DEF Listener!TypeOK, Listener!Fault, Listener!admission, Listener!Steps, ListenerAssumption
    <3>3. LoopOwns'
      BY <1>0, <2>1, <2>4, <3>1 DEF LoopOwns
    <3>4. Held'
      BY <2>1, <2>4, <3>1 DEF Held, LoopOwns, Holding, Listener!admission
    <3>5. QED BY <2>2, <3>2, <3>3, <3>4
  <2>5. QED BY <1>3, <2>3, <2>4 DEF Listener!LoopCleanup
<1>4. CASE Listener!MakeWorker
  <2>1. /\ loop.step = "make" /\ loop.conn \in Conns
        /\ UNCHANGED <<Listener!admission, fatal, lease, at, open, listening>>
    BY <1>4 DEF Listener!MakeWorker, LoopOwns
  <2>2. PICK s \in {"start", "undo"} : Listener!Goto(s) /\ (Listener!Fault \/ UNCHANGED failing)
    BY <1>4 DEF Listener!MakeWorker
  <2>3. loop'.step = s /\ loop'.conn = loop.conn
    BY <1>1, <2>2
  <2>4. Listener!TypeOK'
    BY <1>1, <2>1, <2>2 DEF Listener!TypeOK, Listener!Fault, Listener!admission, Listener!Steps, ListenerAssumption
  <2>5. Ledger'
    BY <2>1, LedgerStays DEF Listener!admission
  <2>6. LoopOwns'
    BY <2>1, <2>2, <2>3 DEF LoopOwns
  <2>7. Held'
    BY <2>1, <2>2, <2>3 DEF Held, LoopOwns, Holding, Listener!admission
  <2>8. QED BY <2>4, <2>5, <2>6, <2>7
<1>5. CASE Listener!ReleaseUnmade
  <2>1. /\ loop.step = "release" /\ loop.conn \in Conns
        /\ Listener!ReleaseLease(loop.conn) /\ Listener!Goto("service") /\ Listener!Stage(loop.conn, "done")
        /\ UNCHANGED <<fatal, lease, open, listening, failing>>
    BY <1>5 DEF Listener!ReleaseUnmade, LoopOwns
  <2>2. loop'.step = "service" /\ loop'.conn = loop.conn
    BY <1>1, <2>1
  <2>3. Listener!TypeOK'
    BY <1>1, <2>1 DEF Listener!TypeOK, Listener!ReleaseLease, Listener!Stage, Listener!Steps, Listener!Stages
  <2>4. Ledger'
    BY <2>1, ReleaseKeepsLedger
  <2>5. LoopOwns'
    BY <2>1, <2>2 DEF LoopOwns, Listener!Stage, Listener!TypeOK
  <2>6. Held'
    BY <2>1, <2>2 DEF Held, LoopOwns, Holding, Listener!ReleaseLease, Listener!Stage, Listener!TypeOK, Listener!NoLease
  <2>7. QED BY <2>3, <2>4, <2>5, <2>6
<1>6. CASE Listener!StartWorker
  <2>1. /\ loop.step = "start" /\ loop.conn \in Conns
        /\ UNCHANGED <<Listener!admission, fatal, lease, open, listening>>
    BY <1>6 DEF Listener!StartWorker, LoopOwns
  <2>2. PICK s \in {"service", "fence"}, to \in {"running", "lost"} :
          Listener!Goto(s) /\ Listener!Stage(loop.conn, to) /\ (Listener!Fault \/ UNCHANGED failing)
    BY <1>6 DEF Listener!StartWorker
  <2>3. loop'.step = s /\ loop'.conn = loop.conn
    BY <1>1, <2>2
  <2>4. Listener!TypeOK'
    BY <1>1, <2>1, <2>2 DEF Listener!TypeOK, Listener!Fault, Listener!Stage, Listener!admission, Listener!Steps, Listener!Stages, ListenerAssumption
  <2>5. Ledger'
    BY <2>1, LedgerStays DEF Listener!admission
  <2>6. LoopOwns'
    BY <1>0, <2>1, <2>2, <2>3 DEF LoopOwns, Listener!Stage, Listener!TypeOK
  <2>7. Held'
    BY <2>1, <2>2, <2>3 DEF Held, LoopOwns, Holding, Listener!admission, Listener!Stage, Listener!TypeOK
  <2>8. QED BY <2>4, <2>5, <2>6, <2>7
<1>7. CASE Listener!Service
  <2>1. /\ loop.step = "service" \/ (loop.step = "select" /\ fatal # NoCause)
        /\ loop' = [step |-> IF fatal = NoCause THEN "select" ELSE "fence", conn |-> NoCause]
        /\ UNCHANGED <<Listener!admission, fatal, lease, at, open, listening, failing>>
    BY <1>7 DEF Listener!Service
  <2>2. Listener!TypeOK'
    BY <2>1 DEF Listener!TypeOK, Listener!admission, Listener!Steps
  <2>3. Ledger'
    BY <2>1, LedgerStays DEF Listener!admission
  <2>4. \A k \in Conns : at[k] \notin {"accepted", "refused"}
    BY <1>0, <2>1 DEF LoopOwns
  <2>5. LoopOwns'
    BY <2>1, <2>4 DEF LoopOwns
  <2>6. Held'
    BY <2>1, <2>4 DEF Held, Holding, Listener!admission
  <2>7. QED BY <2>2, <2>3, <2>5, <2>6
<1>8. CASE Listener!LoopFence \/ Listener!LoopRecord \/ Listener!LoopClose
  <2>1. /\ loop.step \in {"fence", "record", "close"}
        /\ UNCHANGED <<nextGeneration, pending, claimed, lease, at, failing>>
        /\ open' \subseteq open
    BY <1>8 DEF Listener!LoopFence, Listener!LoopRecord, Listener!LoopClose, Listener!Stop, Listener!admission
  <2>2. PICK s \in {"record", "close", "dead"} : Listener!Goto(s)
    BY <1>8 DEF Listener!LoopFence, Listener!LoopRecord, Listener!LoopClose
  <2>3. loop'.step = s /\ loop'.conn = loop.conn
    BY <1>1, <2>2
  <2>4. Listener!TypeOK'
    BY <1>0, <1>1, <1>8, <2>1, <2>2 DEF Listener!TypeOK, Listener!LoopFence, Listener!LoopRecord, Listener!LoopClose, Listener!Stop, Listener!admission, Listener!Steps
  <2>5. Ledger'
    BY <2>1, LedgerStays
  <2>6. LoopOwns'
    BY <2>1, <2>3 DEF LoopOwns
  <2>7. Held'
    BY <2>1, <2>3 DEF Held, Holding
  <2>8. QED BY <2>4, <2>5, <2>6, <2>7
<1>9. QED BY <1>2, <1>3, <1>4, <1>5, <1>6, <1>7, <1>8 DEF Listener!LoopStep

(* A new connection, and an orderly stop. *)
LEMMA ArrivalKeepsInv ==
  ASSUME ListenerAssumption, ListenerInv,
         Listener!ServerClose \/ \E k \in Conns : Listener!Accept(k)
  PROVE  ListenerInv'
<1> USE DEF ListenerInv
<1>1. ASSUME NEW k \in Conns, Listener!Accept(k)
      PROVE  ListenerInv'
  <2>1. /\ loop.step = "select" /\ at[k] = "backlog"
        /\ loop' = [step |-> "reserve", conn |-> k]
        /\ Listener!Stage(k, "accepted") /\ open' = open \cup {k}
        /\ UNCHANGED <<Listener!admission, fatal, lease, listening, failing>>
    BY <1>1 DEF Listener!Accept
  <2>2. Listener!TypeOK'
    BY <2>1 DEF Listener!TypeOK, Listener!Stage, Listener!admission, Listener!Steps, Listener!Stages
  <2>3. Ledger'
    BY <2>1, LedgerStays DEF Listener!admission
  <2>4. \A j \in Conns : at[j] \notin {"accepted", "refused"}
    BY <2>1 DEF LoopOwns, ListenerAssumption
  <2>5. LoopOwns'
    BY <2>1, <2>4 DEF LoopOwns, Listener!Stage, Listener!TypeOK
  <2>6. Held'
    BY <2>1, <2>4 DEF Held, Holding, Listener!Stage, Listener!TypeOK, Listener!admission
  <2>7. QED BY <2>2, <2>3, <2>5, <2>6
<1>2. CASE Listener!ServerClose
  <2>1. /\ loop.step = "select" /\ loop'.step = "dead" /\ loop'.conn = loop.conn
        /\ UNCHANGED <<nextGeneration, pending, claimed, fatal, lease, at, open, failing>>
    BY <1>2 DEF Listener!ServerClose, Listener!Goto, Listener!Stop, Listener!TypeOK
  <2>2. Listener!TypeOK'
    BY <1>2 DEF Listener!ServerClose, Listener!Goto, Listener!Stop, Listener!TypeOK, Listener!Steps
  <2>3. Ledger'
    BY <2>1, LedgerStays
  <2>4. LoopOwns'
    BY <2>1 DEF LoopOwns
  <2>5. Held'
    BY <2>1 DEF Held, Holding
  <2>6. QED BY <2>2, <2>3, <2>4, <2>5
<1>3. QED BY <1>1, <1>2

(* A worker's steps, whatever the loop is doing meanwhile.  The worker of  *)
(* k has a place for k; the loop holds none of the connections it works on.*)
LEMMA WorkerKeepsInv ==
  ASSUME ListenerAssumption, ListenerInv, NEW k \in Conns,
         Listener!WorkerStep(k) \/ Listener!Handled(k)
  PROVE  ListenerInv'
<1> USE DEF ListenerInv
<1>1. /\ UNCHANGED <<loop, lease, listening>>
      /\ at[k] \in {"running", "handling", "cleaning", "closed", "failing", "recording"}
      /\ at[k] = "closed" => ~(loop.step = "release" /\ loop.conn = k)
      /\ fatal' = fatal \/ fatal' = k
      /\ fatal # NoCause => fatal' = fatal
      /\ open' \subseteq open
  BY DEF Listener!WorkerStep, Listener!Enter, Listener!WorkerCleanup, Listener!WorkerRelease, Listener!WorkerFence, Listener!WorkerRecord, Listener!Handled
<1>2. \A s : Listener!Stage(k, s) => \A j \in Conns : at'[j] = IF j = k THEN s ELSE at[j]
  BY DEF Listener!Stage, Listener!TypeOK
(* Wherever its next stage is, the loop's connections are untouched. *)
<1>3. ASSUME NEW s \in {"handling", "cleaning", "closed", "done", "failing", "recording", "lost"},
             Listener!Stage(k, s)
      PROVE  /\ LoopOwns'
             /\ at' \in [Conns -> Listener!Stages]
  <2>1. at' \in [Conns -> Listener!Stages]
    BY <1>3 DEF Listener!Stage, Listener!TypeOK, Listener!Stages
  <2>2. loop.step \in {"reserve", "refuse", "make", "undo", "start", "release"} => loop.conn # k
    BY <1>1 DEF LoopOwns
  <2>3. LoopOwns'
    BY <1>1, <1>2, <1>3, <2>2 DEF LoopOwns, ListenerAssumption
  <2>4. QED BY <2>1, <2>3
<1>4. CASE Listener!Enter(k)
  <2>1. at[k] = "running" /\ UNCHANGED <<fatal, lease, open, loop, listening, failing>>
    BY <1>4 DEF Listener!Enter
  <2>2. CASE lease[k] \in pending /\ Listener!ClaimLease(k) /\ Listener!Stage(k, "handling")
    <3>1. Listener!TypeOK' /\ LoopOwns'
      BY <1>3, <2>1, <2>2 DEF Listener!TypeOK, Listener!ClaimLease
    <3>2. Ledger'
      BY <2>2, ClaimKeepsLedger
    <3>3. Held'
      BY <1>1, <1>2, <2>1, <2>2 DEF Held, Holding, Listener!ClaimLease, Listener!TypeOK, Listener!NoLease, Ledger
    <3>4. QED BY <3>1, <3>2, <3>3
  <2>3. CASE UNCHANGED Listener!admission /\ Listener!Stage(k, "cleaning")
    <3>1. Listener!TypeOK' /\ LoopOwns'
      BY <1>3, <2>1, <2>3 DEF Listener!TypeOK, Listener!admission
    <3>2. Ledger'
      BY <2>3, LedgerStays DEF Listener!admission
    <3>3. Held'
      BY <1>1, <1>2, <2>1, <2>3 DEF Held, Holding, Listener!admission
    <3>4. QED BY <3>1, <3>2, <3>3
  <2>4. QED BY <1>4, <2>2, <2>3 DEF Listener!Enter, Listener!Enterable
<1>5. CASE Listener!WorkerRelease(k)
  <2>1. /\ at[k] = "closed" /\ Listener!ReleaseLease(k) /\ Listener!Stage(k, "done")
        /\ UNCHANGED <<fatal, lease, open, loop, listening, failing>>
    BY <1>5 DEF Listener!WorkerRelease
  <2>2. Listener!TypeOK' /\ LoopOwns'
    BY <1>3, <2>1 DEF Listener!TypeOK, Listener!ReleaseLease
  <2>3. Ledger'
    BY <2>1, ReleaseKeepsLedger
  <2>4. Held'
    BY <1>1, <1>2, <2>1 DEF Held, Holding, Listener!ReleaseLease, Listener!TypeOK, Listener!NoLease
  <2>5. QED BY <2>2, <2>3, <2>4
<1>6. CASE Listener!WorkerCleanup(k) \/ Listener!Handled(k) \/ Listener!WorkerFence(k) \/ Listener!WorkerRecord(k)
  <2>1. UNCHANGED <<nextGeneration, pending, claimed>>
    BY <1>6 DEF Listener!WorkerCleanup, Listener!Handled, Listener!WorkerFence, Listener!WorkerRecord, Listener!Stop, Listener!admission
  <2>2. PICK s \in {"cleaning", "closed", "failing", "recording", "lost"} :
          Listener!Stage(k, s) /\ (s = "closed" => k \notin open')
    <3>1. CASE Listener!WorkerCleanup(k)
      <4>1. \/ open' = open \ {k} /\ Listener!Stage(k, "closed")
            \/ Listener!Stage(k, "failing")
        BY <3>1 DEF Listener!WorkerCleanup
      <4>2. open' = open \ {k} => k \notin open'
        OBVIOUS
      <4>3. QED BY <4>1, <4>2
    <3>2. CASE Listener!Handled(k)
      BY <3>2 DEF Listener!Handled
    <3>3. CASE Listener!WorkerFence(k)
      BY <3>3 DEF Listener!WorkerFence
    <3>4. CASE Listener!WorkerRecord(k)
      BY <3>4 DEF Listener!WorkerRecord
    <3>5. QED BY <1>6, <3>1, <3>2, <3>3, <3>4
  <2>3. failing' \in 0..MaxFailing /\ stopped' \in BOOLEAN
    <3>1. failing' = failing \/ Listener!Fault
      BY <1>6 DEF Listener!WorkerCleanup, Listener!Handled, Listener!WorkerFence, Listener!WorkerRecord
    <3>2. stopped' = stopped \/ stopped' = TRUE
      BY <1>6 DEF Listener!WorkerCleanup, Listener!Handled, Listener!WorkerFence, Listener!WorkerRecord, Listener!Stop, Listener!admission
    <3>3. failing \in 0..MaxFailing /\ stopped \in BOOLEAN /\ MaxFailing \in Nat
      BY DEF Listener!TypeOK, ListenerAssumption
    <3>4. Listener!Fault => failing' \in 0..MaxFailing
      BY <3>3 DEF Listener!Fault
    <3>5. QED BY <3>1, <3>2, <3>3, <3>4
  <2>4. Listener!TypeOK' /\ LoopOwns'
    BY <1>1, <1>3, <2>1, <2>2, <2>3 DEF Listener!TypeOK
  <2>5. Ledger'
    BY <2>1, LedgerStays
  <2>6. Held'
    BY <1>1, <1>2, <2>1, <2>2 DEF Held, Holding
  <2>7. QED BY <2>4, <2>5, <2>6
<1>7. QED BY <1>4, <1>5, <1>6 DEF Listener!WorkerStep

LEMMA InitListener == ListenerAssumption /\ Listener!Init => ListenerInv
<1> SUFFICES ASSUME ListenerAssumption, Listener!Init PROVE ListenerInv
  OBVIOUS
<1>1. Listener!TypeOK
  <2>1. 0 \in 0..MaxFailing /\ 0 \in Nat
    BY DEF ListenerAssumption
  <2>2. loop \in [step : Listener!Steps, conn : Conns \cup {NoCause}]
    BY DEF Listener!Init, Listener!Steps
  <2>3. at \in [Conns -> Listener!Stages] /\ lease \in [Conns -> Nat \cup {Listener!NoLease}]
    BY DEF Listener!Init, Listener!Stages
  <2>4. QED BY <2>1, <2>2, <2>3 DEF Listener!Init, Listener!TypeOK
<1>2. Ledger
  BY FS_EmptySet, Admits DEF Listener!Init, Ledger, ListenerAssumption
<1>3. LoopOwns /\ Held
  BY DEF Listener!Init, LoopOwns, Held, Holding
<1>4. QED BY <1>1, <1>2, <1>3 DEF ListenerInv

LEMMA NextListener ==
  ListenerAssumption /\ ListenerInv /\ [Listener!Next]_(Listener!vars) => ListenerInv'
<1> SUFFICES ASSUME ListenerAssumption, ListenerInv, [Listener!Next]_(Listener!vars) PROVE ListenerInv'
  OBVIOUS
<1>1. CASE Listener!Next
  BY <1>1, LoopKeepsInv, ArrivalKeepsInv, WorkerKeepsInv DEF Listener!Next
<1>2. CASE UNCHANGED Listener!vars
  <2>1. Listener!TypeOK' /\ LoopOwns' /\ Held'
    BY <1>2 DEF Listener!vars, ListenerInv, Listener!TypeOK, LoopOwns, Held, Holding
  <2>2. Ledger'
    BY <1>2, LedgerStays DEF Listener!vars, ListenerInv
  <2>3. QED BY <2>1, <2>2 DEF ListenerInv
<1>3. QED BY <1>1, <1>2

THEOREM ListenerInvHolds ==
  ASSUME ListenerAssumption
  PROVE  Listener!Spec => []ListenerInv
BY InitListener, NextListener, PTL DEF Listener!Spec

-----------------------------------------------------------------------------
(* What the invariant says of the sockets. *)
LEMMA InvGivesPlaces == ListenerInv => Listener!PlacesHold
<1> SUFFICES ASSUME ListenerInv PROVE Listener!PlacesHold
  OBVIOUS
<1>1. Listener!AdmissionStateValid
  BY DEF ListenerInv, Ledger, Listener!AdmissionStateValid
<1>2. \A k \in Listener!Owned : at[k] \in Holding
  BY DEF Listener!Owned, ListenerInv, Listener!TypeOK, Listener!Stages, Holding, Held
<1>3. \A k \in Listener!Owned : k \in Conns /\ lease[k] \in pending \cup claimed /\ lease[k] # Listener!NoLease
  BY <1>2 DEF Listener!Owned, ListenerInv, Listener!TypeOK, Held, Listener!NoLease
<1>4. \A j, k \in Listener!Owned : lease[j] = lease[k] => j = k
  BY <1>3 DEF ListenerInv, Held
<1>5. Cardinality(open \ Listener!Owned) <= 1
  <2>1. \A k \in open \ Listener!Owned : k = loop.conn
    BY DEF Listener!Owned, ListenerInv, Listener!TypeOK, LoopOwns
  <2>2. CASE open \ Listener!Owned = {}
    BY <2>2, FS_EmptySet
  <2>3. CASE open \ Listener!Owned # {}
    <3>1. open \ Listener!Owned = {loop.conn}
      BY <2>1, <2>3
    <3>2. Cardinality({loop.conn}) = 1
      BY FS_Singleton
    <3>3. QED BY <3>1, <3>2
  <2>4. QED BY <2>2, <2>3
<1>6. ASSUME NEW k \in open, lease[k] # Listener!NoLease
      PROVE  lease[k] \in pending \cup claimed
  <2>1. CASE k \in Listener!Owned
    BY <1>3, <2>1
  <2>2. CASE k \notin Listener!Owned
    BY <1>6, <2>2 DEF Listener!Owned, ListenerInv, Listener!TypeOK, Held
  <2>3. QED BY <2>1, <2>2
<1>7. \A k \in Conns : at[k] = "handling" => lease[k] \in claimed
  BY DEF ListenerInv, Held
<1>8. QED BY <1>1, <1>3, <1>4, <1>5, <1>6, <1>7, SameCount DEF Listener!PlacesHold, Listener!OpenSocketsHoldLeases

(* The cap is physical: through failed threads, failed cleanups and        *)
(* uncertain starts no socket is open without a place of its own, and no   *)
(* more places are out than the limit (connection_policy.py; listener.py). *)
THEOREM PlacesAlwaysHold ==
  ASSUME ListenerAssumption
  PROVE  Listener!Spec => []PlacesHold
BY ListenerInvHolds, InvGivesPlaces, PTL DEF PlacesHold

(* Behind a published fatal cause no handler starts, and the first cause   *)
(* is the one reported (listener.py _fail_start, enter).                   *)
THEOREM NobodyEntersBehindAFatalCause ==
  ASSUME ListenerAssumption
  PROVE  Listener!Spec => Listener!NoEntryAfterFatal
<1>1. ASSUME Listener!TypeOK, [Listener!Next]_(Listener!vars), fatal # NoCause
      PROVE  /\ fatal' = fatal
             /\ \A k \in Conns : at'[k] = "handling" => at[k] = "handling"
  <2>1. CASE Listener!LoopStep \/ Listener!ServerClose
    BY <1>1, <2>1 DEF Listener!TypeOK, Listener!LoopStep, Listener!ReserveOrRefuse, Listener!LoopCleanup, Listener!MakeWorker,
       Listener!ReleaseUnmade, Listener!StartWorker, Listener!Service, Listener!LoopFence, Listener!LoopRecord, Listener!LoopClose,
       Listener!ServerClose, Listener!Stage
  <2>2. ASSUME NEW k \in Conns, Listener!Accept(k) \/ Listener!WorkerStep(k) \/ Listener!Handled(k)
        PROVE  /\ fatal' = fatal
               /\ \A j \in Conns : at'[j] = "handling" => at[j] = "handling"
    BY <1>1, <2>2 DEF Listener!TypeOK, Listener!Accept, Listener!WorkerStep, Listener!Enter, Listener!WorkerCleanup, Listener!WorkerRelease,
       Listener!WorkerFence, Listener!WorkerRecord, Listener!Handled, Listener!Stage
  <2>3. CASE UNCHANGED Listener!vars
    BY <2>3 DEF Listener!vars
  <2>4. QED BY <1>1, <2>1, <2>2, <2>3 DEF Listener!Next
<1>2. ListenerInv /\ [Listener!Next]_(Listener!vars)
        => [fatal # NoCause =>
              /\ fatal' = fatal
              /\ \A k \in Conns : at'[k] = "handling" => at[k] = "handling"]_(Listener!vars)
  BY <1>1 DEF ListenerInv
<1>3. QED BY <1>2, ListenerInvHolds, PTL DEF Listener!Spec, Listener!NoEntryAfterFatal
=============================================================================
