------------------------ MODULE ExperienceTable_proofs ------------------------
(***************************************************************************)
(* Proofs about ExperienceTable, for any columns, dtypes, group sizes and  *)
(* column orders: what the segments count, how values are decoded and what *)
(* the samples of a prompt share, over any sequence of puts, refused puts, *)
(* prunes and clears. The second half is about its clients                 *)
(* (TransferQueueClient): what is said to be stored is, and every row is   *)
(* its own sample's.                                                       *)
(***************************************************************************)
EXTENDS ExperienceTable, FiniteSetTheorems, TLAPS

(* A segment was put with a dtype: a column that has none is empty.        *)
SegmentDtypes ==
    \A col \in Columns : \A s \in DOMAIN dtype[col] : dtype[col][s] \in Dtypes

IInv == TypeOK /\ SegmentDtypes /\ RefCountsExact /\ DecodedAsEncoded /\ OneCopyPerGroup

-----------------------------------------------------------------------------
(* Groups *)

LEMMA SizesAreNumbers ==
    NSamples \in Nat /\ NSamples >= 1 /\ MaxGroups \in Nat /\ MaxGroups * NSamples \in Nat
BY TableAssumption

LEMMA IndexesFinite ==
    /\ IsFiniteSet(Indexes)
    /\ \A S : S \subseteq Indexes => IsFiniteSet(S) /\ Cardinality(S) \in Nat
<1>1. 0 \in Int /\ MaxGroups * NSamples - 1 \in Int
  BY SizesAreNumbers
<1>2. IsFiniteSet(Indexes)
  BY <1>1, FS_Interval DEF Indexes
<1> QED
  BY <1>2, FS_Subset, FS_CardinalityType

LEMMA InInterval ==
    ASSUME NEW a \in Int, NEW r \in 0 .. NSamples - 1
    PROVE  a + r \in a .. a + NSamples - 1
BY SizesAreNumbers

(* The group of a number, and the numbers of a group (idx // n_samples).   *)
LEMMA GroupOfNumber ==
    ASSUME NEW i \in Nat
    PROVE  /\ Group(i) \in Nat /\ i \in Members(Group(i))
           /\ Group(i) * NSamples \in Nat /\ Group(i) * NSamples <= i
           /\ i % NSamples = 0 => i = Group(i) * NSamples
<1>1. /\ i \div NSamples \in Nat /\ i % NSamples \in 0 .. NSamples - 1
      /\ i = (i \div NSamples) * NSamples + (i % NSamples)
  BY SizesAreNumbers
<1>2. (i \div NSamples) * NSamples \in Nat
  BY <1>1, SizesAreNumbers
<1>3. i \in (i \div NSamples) * NSamples .. (i \div NSamples) * NSamples + NSamples - 1
  <2> DEFINE a == (i \div NSamples) * NSamples
             r == i % NSamples
  <2>1. a \in Int /\ r \in 0 .. NSamples - 1 /\ i = a + r
    BY <1>1, <1>2
  <2> HIDE DEF a, r
  <2>2. i \in a .. a + NSamples - 1
    BY <2>1, InInterval
  <2> QED
    BY <2>2 DEF a
<1>4. i \in Members(Group(i))
  BY <1>3 DEF Group, Members
<1>5. /\ (i \div NSamples) * NSamples <= i
      /\ i % NSamples = 0 => i = (i \div NSamples) * NSamples
  <2> DEFINE a == (i \div NSamples) * NSamples
             r == i % NSamples
  <2>1. a \in Nat /\ r \in Nat /\ i = a + r
    BY <1>1, <1>2, SizesAreNumbers
  <2> HIDE DEF a, r
  <2>2. a <= i /\ (r = 0 => i = a)
    BY <2>1
  <2> QED
    BY <2>2 DEF a, r
<1>6. Group(i) \in Nat /\ Group(i) * NSamples \in Nat
  BY <1>1, <1>2 DEF Group
<1>7. Group(i) * NSamples <= i /\ (i % NSamples = 0 => i = Group(i) * NSamples)
  BY <1>5 DEF Group
<1> QED
  BY <1>4, <1>6, <1>7

LEMMA MembersOfGroup ==
    ASSUME NEW g \in Nat, NEW j \in Members(g)
    PROVE  j \in Nat /\ Group(j) = g
<1>1. g * NSamples \in Nat
  BY SizesAreNumbers
<1>2. j \in Nat /\ g * NSamples <= j /\ j < g * NSamples + NSamples
  BY <1>1, SizesAreNumbers DEF Members
<1>3. Group(j) \in Nat /\ j < Group(j) * NSamples + NSamples
  <2>1. Group(j) \in Nat /\ Group(j) * NSamples \in Nat /\ j \in Members(Group(j))
    BY <1>2, GroupOfNumber
  <2> QED
    BY <2>1, <1>2, SizesAreNumbers DEF Members
<1>4. CASE Group(j) < g
  <2>1. (Group(j) + 1) * NSamples <= g * NSamples
    BY <1>3, <1>4, SizesAreNumbers
  <2> QED
    BY <1>1, <1>2, <1>3, <2>1, SizesAreNumbers
<1>5. CASE g < Group(j)
  <2>1. (g + 1) * NSamples <= Group(j) * NSamples
    BY <1>3, <1>5, SizesAreNumbers
  <2>2. (g + 1) * NSamples = g * NSamples + NSamples
    BY SizesAreNumbers
  <2>3. Group(j) * NSamples <= j
    BY <1>2, GroupOfNumber
  <2>4. Group(j) * NSamples \in Nat
    BY <1>3, SizesAreNumbers
  <2> QED
    BY <1>1, <1>2, <2>1, <2>2, <2>3, <2>4, SizesAreNumbers
<1> QED
  BY <1>2, <1>3, <1>4, <1>5

LEMMA GroupIsWhole ==
    ASSUME NEW i \in Indexes
    PROVE  Members(Group(i)) \subseteq Indexes
<1>1. i \in Nat /\ i < MaxGroups * NSamples
  BY SizesAreNumbers DEF Indexes
<1>2. Group(i) \in Nat /\ i \in Members(Group(i))
  BY <1>1, GroupOfNumber
<1>3. Group(i) * NSamples \in Nat /\ Group(i) * NSamples <= i
  BY <1>2, SizesAreNumbers DEF Members
<1>4. Group(i) + 1 <= MaxGroups
  <2>1. CASE MaxGroups <= Group(i)
    <3>1. MaxGroups * NSamples <= Group(i) * NSamples
      BY <1>2, <2>1, SizesAreNumbers
    <3> QED
      BY <1>1, <1>3, <3>1, SizesAreNumbers
  <2> QED
    BY <1>2, <2>1, SizesAreNumbers
<1>5. (Group(i) + 1) * NSamples <= MaxGroups * NSamples
  BY <1>2, <1>4, SizesAreNumbers
<1>6. (Group(i) + 1) * NSamples = Group(i) * NSamples + NSamples
  BY <1>2, SizesAreNumbers
<1>7. \A j \in Members(Group(i)) : j \in Nat /\ j < Group(i) * NSamples + NSamples
  BY <1>3, SizesAreNumbers DEF Members
<1> QED
  BY <1>3, <1>5, <1>6, <1>7, SizesAreNumbers DEF Indexes

(* What a put covers is indexes, those of whole groups if the column is    *)
(* shared.                                                                 *)
LEMMA CoveredIsIndexes ==
    ASSUME NEW col, NEW ids \in SUBSET Indexes
    PROVE  /\ Covered(col, ids) \subseteq Indexes
           /\ col \in SharedColumns =>
                 \A i, j \in Indexes :
                     Group(i) = Group(j) /\ i \in Covered(col, ids) => j \in Covered(col, ids)
<1>1. Covered(col, ids) \subseteq Indexes
  BY GroupIsWhole DEF Covered
<1>2. ASSUME col \in SharedColumns, NEW i \in Indexes, NEW j \in Indexes,
             Group(i) = Group(j), i \in Covered(col, ids)
      PROVE  j \in Covered(col, ids)
  <2>1. PICK k \in ids : i \in Members(Group(k))
    BY <1>2 DEF Covered
  <2>2. k \in Nat /\ j \in Nat
    BY SizesAreNumbers DEF Indexes
  <2>3. Group(k) \in Nat
    BY <2>2, GroupOfNumber
  <2>4. Group(i) = Group(k)
    BY <2>1, <2>3, MembersOfGroup
  <2>5. j \in Members(Group(k))
    BY <1>2, <2>2, <2>4, GroupOfNumber
  <2> QED
    BY <1>2, <2>5 DEF Covered
<1> QED
  BY <1>1, <1>2

(* The count a segment begins with is that of the entries put into it.     *)
LEMMA InitialCountIsCovered ==
    ASSUME NEW col, NEW ids \in SUBSET Indexes,
           col \in SharedColumns => \A i \in ids : i % NSamples = 0
    PROVE  initial_ref_count(col, ids) = Cardinality(Covered(col, ids))
<1>1. CASE col \notin SharedColumns
  BY <1>1 DEF initial_ref_count, Covered
<1>2. CASE col \in SharedColumns
  <2> DEFINE S == ids \X (0 .. NSamples - 1)
             T == Covered(col, ids)
             f == [x \in S |-> x[1] + x[2]]
  <2>1. \A i \in ids : /\ i \in Nat /\ Group(i) \in Nat
                       /\ i = Group(i) * NSamples
                       /\ Members(Group(i)) = i .. i + NSamples - 1
    <3> SUFFICES ASSUME NEW i \in ids
                 PROVE  /\ i \in Nat /\ Group(i) \in Nat
                        /\ i = Group(i) * NSamples
                        /\ Members(Group(i)) = i .. i + NSamples - 1
      OBVIOUS
    <3>1. i \in Nat
      BY SizesAreNumbers DEF Indexes
    <3>2. Group(i) \in Nat /\ (i % NSamples = 0 => i = Group(i) * NSamples)
      BY <3>1, GroupOfNumber
    <3>4. i = Group(i) * NSamples
      BY <1>2, <3>2
    <3> QED
      BY <3>1, <3>2, <3>4 DEF Members
  <2>2. T = UNION {i .. i + NSamples - 1 : i \in ids}
    BY <1>2, <2>1 DEF Covered
  <2>3. \A x \in S : x[1] \in ids /\ x[2] \in 0 .. NSamples - 1 /\ x = <<x[1], x[2]>>
    OBVIOUS
  <2>4. f \in [S -> T]
    <3>1. ASSUME NEW x \in S PROVE x[1] + x[2] \in T
      <4>1. x[1] \in ids /\ x[1] \in Int /\ x[2] \in 0 .. NSamples - 1
        BY <2>1, <2>3
      <4>2. x[1] + x[2] \in x[1] .. x[1] + NSamples - 1
        BY <4>1, InInterval
      <4> QED
        BY <2>2, <4>1, <4>2
    <3> QED
      BY <3>1
  <2>5. \A t \in T : \E x \in S : f[x] = t
    <3> SUFFICES ASSUME NEW t \in T PROVE \E x \in S : f[x] = t
      OBVIOUS
    <3>1. PICK i \in ids : t \in i .. i + NSamples - 1
      BY <2>2
    <3>2. i \in Nat /\ t \in Nat /\ t - i \in 0 .. NSamples - 1
      BY <2>1, <3>1, SizesAreNumbers
    <3>3. <<i, t - i>> \in S /\ f[<<i, t - i>>] = i + (t - i)
      BY <3>2
    <3> QED
      BY <3>2, <3>3
  <2>6. \A x, y \in S : f[x] = f[y] => x = y
    <3> SUFFICES ASSUME NEW x \in S, NEW y \in S, f[x] = f[y] PROVE x = y
      OBVIOUS
    <3>1. x[1] \in ids /\ y[1] \in ids /\ f[x] = x[1] + x[2] /\ f[y] = y[1] + y[2]
      BY <2>3
    <3>2. x[2] \in 0 .. NSamples - 1 /\ y[2] \in 0 .. NSamples - 1
      BY <2>3
    <3>3. f[x] \in Members(Group(x[1])) /\ f[y] \in Members(Group(y[1]))
      <4>1. x[1] \in Int /\ y[1] \in Int
        BY <2>1, <3>1
      <4>2. /\ x[1] + x[2] \in x[1] .. x[1] + NSamples - 1
            /\ y[1] + y[2] \in y[1] .. y[1] + NSamples - 1
        BY <3>2, <4>1, InInterval
      <4> HIDE DEF f
      <4> QED
        BY <2>1, <3>1, <4>2
    <3>4. Group(x[1]) = Group(y[1])
      BY <2>1, <3>1, <3>3, MembersOfGroup
    <3>5. x[1] = y[1]
      BY <2>1, <3>1, <3>4
    <3>6. x[2] = y[2]
      BY <2>1, <3>1, <3>2, <3>5
    <3> QED
      BY <2>3, <3>5, <3>6
  <2>7. ExistsBijection(S, T)
    <3> HIDE DEF S, T, f
    <3>1. f \in Bijection(S, T)
      BY <2>4, <2>5, <2>6 DEF Bijection, Injection, Surjection, IsInjective
    <3> QED
      BY <3>1 DEF ExistsBijection
  <2>8. /\ IsFiniteSet(S)
        /\ Cardinality(S) = Cardinality(ids) * Cardinality(0 .. NSamples - 1)
    <3>1. 0 \in Int /\ NSamples - 1 \in Int
      BY SizesAreNumbers
    <3>2. IsFiniteSet(ids) /\ IsFiniteSet(0 .. NSamples - 1)
      BY <3>1, IndexesFinite, FS_Interval
    <3> QED
      BY <3>2, FS_Product
  <2>9. Cardinality(0 .. NSamples - 1) = NSamples
    <3>1. 0 \in Int /\ NSamples - 1 \in Int
      BY SizesAreNumbers
    <3>2. Cardinality(0 .. NSamples - 1) =
             IF 0 > NSamples - 1 THEN 0 ELSE (NSamples - 1) - 0 + 1
      BY <3>1, FS_Interval
    <3> QED
      BY <3>2, SizesAreNumbers
  <2>10. Cardinality(T) = Cardinality(S)
    BY <2>7, <2>8, FS_Bijection
  <2> QED
    BY <1>2, <2>8, <2>9, <2>10 DEF initial_ref_count
<1> QED
  BY <1>1, <1>2
-----------------------------------------------------------------------------
(* Segments *)

LEMMA InitIInv == Init => IInv
<1> SUFFICES ASSUME Init PROVE IInv
  OBVIOUS
<1>1. DOMAIN <<>> = {}
  OBVIOUS
<1>2. \A col \in Columns : /\ DOMAIN indices[col] = {} /\ DOMAIN ref_count[col] = {}
                           /\ DOMAIN dtype[col] = {} /\ col_shapes[col] = {}
  BY <1>1 DEF Init
<1>3. TypeOK
  BY <1>2 DEF Init, TypeOK
<1>4. OneCopyPerGroup
  BY <1>2, TableAssumption DEF OneCopyPerGroup
<1> QED
  BY <1>2, <1>3, <1>4 DEF IInv, SegmentDtypes, RefCountsExact, DecodedAsEncoded

(* What the count of a segment becomes is the number of its entries that   *)
(* stay, and it is held as long as there is one (MemorySegment.release).   *)
LEMMA ReleaseIsExact ==
    ASSUME IInv, NEW col \in Columns, NEW idxs
    PROVE  /\ \A s \in DOMAIN ref_count[col] :
                  AfterRelease(col, idxs, s) = Cardinality(EntriesIn(col, Indexes \ idxs, s))
           /\ \A s : s \in Held(col, idxs) <=> EntriesIn(col, Indexes \ idxs, s) # {}
           /\ Held(col, idxs) \subseteq DOMAIN ref_count[col]
           /\ \A s \in Held(col, idxs) : AfterRelease(col, idxs, s) \in Nat \ {0}
<1>1. /\ DOMAIN indices[col] \subseteq Indexes
      /\ \A i \in DOMAIN indices[col] : indices[col][i] \in DOMAIN ref_count[col]
      /\ \A s \in DOMAIN ref_count[col] :
            ref_count[col][s] = Cardinality(EntriesIn(col, Indexes, s))
  BY DEF IInv, TypeOK, RefCountsExact
<1>2. ASSUME NEW s \in DOMAIN ref_count[col]
      PROVE  /\ AfterRelease(col, idxs, s) = Cardinality(EntriesIn(col, Indexes \ idxs, s))
             /\ AfterRelease(col, idxs, s) \in Nat
             /\ AfterRelease(col, idxs, s) = 0 <=> EntriesIn(col, Indexes \ idxs, s) = {}
  <2> DEFINE all == EntriesIn(col, Indexes, s)
             gone == EntriesIn(col, idxs, s)
             left == EntriesIn(col, Indexes \ idxs, s)
  <2>1. all \subseteq Indexes /\ all \ gone = left /\ all \cap gone = gone
    BY <1>1 DEF EntriesIn
  <2>2. IsFiniteSet(all) /\ IsFiniteSet(left) /\ Cardinality(left) \in Nat
    BY <2>1, IndexesFinite, FS_Subset, FS_CardinalityType
  <2>3. Cardinality(left) = Cardinality(all) - Cardinality(gone)
    BY <2>1, <2>2, FS_Difference
  <2>4. AfterRelease(col, idxs, s) = Cardinality(left)
    BY <1>1, <2>3 DEF AfterRelease
  <2>5. Cardinality(left) = 0 <=> left = {}
    BY <2>2, FS_EmptySet
  <2> QED
    BY <2>2, <2>4, <2>5
<1>3. Held(col, idxs) \subseteq DOMAIN ref_count[col]
  BY DEF Held
<1>4. ASSUME NEW s PROVE s \in Held(col, idxs) <=> EntriesIn(col, Indexes \ idxs, s) # {}
  <2>1. CASE s \in DOMAIN ref_count[col]
    BY <1>2, <2>1 DEF Held
  <2>2. CASE s \notin DOMAIN ref_count[col]
    BY <1>1, <2>2 DEF Held, EntriesIn
  <2> QED
    BY <2>1, <2>2
<1>5. \A s \in Held(col, idxs) : AfterRelease(col, idxs, s) \in Nat \ {0}
  BY <1>2, <1>3 DEF Held
<1> QED
  BY <1>2, <1>3, <1>4, <1>5

(* An entry that stays has its segment held.                               *)
LEMMA StayingIsHeld ==
    ASSUME IInv, NEW col \in Columns, NEW idxs, NEW i \in DOMAIN indices[col] \ idxs
    PROVE  indices[col][i] \in Held(col, idxs)
<1>1. i \in EntriesIn(col, Indexes \ idxs, indices[col][i])
  BY DEF EntriesIn, IInv, TypeOK
<1> QED
  BY <1>1, ReleaseIsExact

-----------------------------------------------------------------------------
(* prune and clear *)

LEMMA PruneKeeps ==
    ASSUME IInv, NEW idxs \in SUBSET Indexes, prune(idxs)
    PROVE  IInv'
<1>1. \A col \in Columns :
         /\ indices'[col] = [i \in DOMAIN indices[col] \ idxs |-> indices[col][i]]
         /\ ref_count'[col] = [s \in Held(col, idxs) |-> AfterRelease(col, idxs, s)]
         /\ dtype'[col] = [s \in Held(col, idxs) |-> dtype[col][s]]
         /\ col_shapes'[col] = col_shapes[col] \ idxs
  BY DEF prune, Released, ForgetShapes
<1>2. \A col \in Columns :
         /\ DOMAIN indices'[col] = DOMAIN indices[col] \ idxs
         /\ \A i \in DOMAIN indices'[col] : indices'[col][i] = indices[col][i]
         /\ DOMAIN ref_count'[col] = Held(col, idxs)
         /\ DOMAIN dtype'[col] = Held(col, idxs)
         /\ \A s \in Held(col, idxs) : /\ ref_count'[col][s] = AfterRelease(col, idxs, s)
                                       /\ dtype'[col][s] = dtype[col][s]
  BY <1>1, ZenonT(60)
<1>3. col_metas' = col_metas /\ DOMAIN indices' = Columns
  BY DEF prune
<1>4. \A col \in Columns : /\ Held(col, idxs) \subseteq DOMAIN ref_count[col]
                           /\ \A s \in Held(col, idxs) :
                                 /\ AfterRelease(col, idxs, s) \in Nat \ {0}
                                 /\ AfterRelease(col, idxs, s)
                                      = Cardinality(EntriesIn(col, Indexes \ idxs, s))
                           /\ \A i \in DOMAIN indices'[col] :
                                 indices'[col][i] \in Held(col, idxs)
  <2>1. ASSUME NEW col \in Columns
        PROVE  /\ Held(col, idxs) \subseteq DOMAIN ref_count[col]
               /\ \A s \in DOMAIN ref_count[col] :
                     AfterRelease(col, idxs, s) = Cardinality(EntriesIn(col, Indexes \ idxs, s))
               /\ \A s \in Held(col, idxs) : AfterRelease(col, idxs, s) \in Nat \ {0}
    BY ReleaseIsExact, ZenonT(60)
  <2>2. ASSUME NEW col \in Columns, NEW i \in DOMAIN indices'[col]
        PROVE  indices'[col][i] \in Held(col, idxs)
    <3>1. i \in DOMAIN indices[col] \ idxs /\ indices'[col][i] = indices[col][i]
      BY <1>2
    <3> QED
      BY <3>1, StayingIsHeld
  <2> QED
    BY <2>1, <2>2
<1>5. TypeOK'
  <2>1. col_shapes' \in [Columns -> SUBSET Indexes]
    BY DEF prune, ForgetShapes, IInv, TypeOK
  <2> QED
    BY <1>2, <1>3, <1>4, <2>1 DEF IInv, TypeOK
<1>6. SegmentDtypes'
  BY <1>2, <1>4 DEF IInv, TypeOK, SegmentDtypes
<1>7. RefCountsExact'
  <2>1. ASSUME NEW col \in Columns, NEW s \in Held(col, idxs)
        PROVE  ref_count'[col][s] = Cardinality(EntriesIn(col, Indexes, s)')
    <3>1. EntriesIn(col, Indexes, s)' = EntriesIn(col, Indexes \ idxs, s)
      BY <1>2 DEF EntriesIn
    <3>2. s \in DOMAIN ref_count[col] /\ ref_count'[col][s] = AfterRelease(col, idxs, s)
      BY <1>2, <1>4
    <3>3. AfterRelease(col, idxs, s) = Cardinality(EntriesIn(col, Indexes \ idxs, s))
      BY <1>4, <2>1
    <3> QED
      BY <3>1, <3>2, <3>3
  <2> QED
    BY <1>2, <1>4, <2>1 DEF RefCountsExact
<1>8. DecodedAsEncoded'
  <2>1. \A col \in Columns : col_shapes'[col] = DOMAIN indices'[col]
    BY <1>1, <1>2 DEF IInv, DecodedAsEncoded
  <2>2. \A col \in Columns : \A i \in DOMAIN indices'[col] :
            dtype'[col][indices'[col][i]] = col_metas'[col]
    BY <1>2, <1>3, <1>4 DEF IInv, DecodedAsEncoded
  <2> QED
    BY <2>1, <2>2 DEF DecodedAsEncoded
<1>9. OneCopyPerGroup'
  BY <1>2, TableAssumption DEF IInv, OneCopyPerGroup
<1> QED
  BY <1>5, <1>6, <1>7, <1>8, <1>9 DEF IInv

LEMMA ClearKeeps ==
    ASSUME IInv, clear
    PROVE  IInv'
<1>1. \A col \in Columns : Held(col, Indexes) = {}
  <2> SUFFICES ASSUME NEW col \in Columns PROVE Held(col, Indexes) = {}
    OBVIOUS
  <2>1. \A s : EntriesIn(col, Indexes \ Indexes, s) = {}
    BY DEF EntriesIn
  <2> QED
    BY <2>1, ReleaseIsExact
<1>2. DOMAIN <<>> = {}
  OBVIOUS
<1>3. \A col \in Columns : /\ DOMAIN indices'[col] = {} /\ DOMAIN ref_count'[col] = {}
                           /\ DOMAIN dtype'[col] = {} /\ col_shapes'[col] = {}
  BY <1>1, <1>2 DEF clear, Released
<1>4. TypeOK'
  BY <1>3 DEF clear, TypeOK
<1>5. OneCopyPerGroup'
  BY <1>3, TableAssumption DEF OneCopyPerGroup
<1> QED
  BY <1>3, <1>4, <1>5 DEF IInv, SegmentDtypes, RefCountsExact, DecodedAsEncoded

-----------------------------------------------------------------------------
(* put_batch *)

(* The dtype noted for a column is the one it has, if it holds anything.   *)
LEMMA NotedIsAccepted ==
    ASSUME IInv, NEW order \in Orders, NEW d \in [ToSet(order) -> Dtypes], NEW bad,
           NoteDtypes(order, d, bad)
    PROVE  /\ col_metas' \in [Columns -> Dtypes \cup {None}]
           /\ \A col \in Columns :
                 DOMAIN indices[col] # {} => col_metas'[col] = col_metas[col]
<1>1. \A col \in Noted(order, d, bad) :
         col \in ToSet(order) /\ d[col] \in Dtypes /\ Accepts(col, d[col])
  <2> SUFFICES ASSUME NEW k \in DOMAIN order, \A j \in 1 .. k : Accepts(order[j], d[order[j]])
               PROVE  /\ order[k] \in ToSet(order) /\ d[order[k]] \in Dtypes
                      /\ Accepts(order[k], d[order[k]])
    BY DEF Noted
  <2>1. order[k] \in ToSet(order)
    BY DEF ToSet
  <2>2. k \in 1 .. k
    <3>1. order \in Seq(Columns)
      BY TableAssumption
    <3> QED
      BY <3>1
  <2> QED
    BY <2>1, <2>2
<1>2. ASSUME NEW col \in Columns
      PROVE  /\ col_metas'[col] \in Dtypes \cup {None}
             /\ DOMAIN indices[col] # {} => col_metas'[col] = col_metas[col]
  <2>1. col_metas[col] \in Dtypes \cup {None}
    BY DEF IInv, TypeOK
  <2>2. DOMAIN indices[col] # {} => col_metas[col] # None
    BY TableAssumption DEF IInv, TypeOK, SegmentDtypes, RefCountsExact, DecodedAsEncoded
  <2> QED
    BY <1>1, <2>1, <2>2 DEF NoteDtypes, Accepts
<1> QED
  BY <1>2 DEF NoteDtypes

LEMMA RefusedKeeps ==
    ASSUME IInv, NEW order \in Orders, NEW d \in [ToSet(order) -> Dtypes], NEW bad,
           refuse_batch(order, d, bad)
    PROVE  IInv'
<1>1. /\ NoteDtypes(order, d, bad)
      /\ UNCHANGED <<indices, ref_count, dtype, col_shapes>>
  BY DEF refuse_batch
<1>2. /\ col_metas' \in [Columns -> Dtypes \cup {None}]
      /\ \A col \in Columns : DOMAIN indices[col] # {} => col_metas'[col] = col_metas[col]
  BY <1>1, NotedIsAccepted
<1>3. TypeOK' /\ SegmentDtypes' /\ OneCopyPerGroup'
  BY <1>1, <1>2 DEF IInv, TypeOK, SegmentDtypes, OneCopyPerGroup
<1>4. RefCountsExact'
  BY <1>1 DEF IInv, RefCountsExact, EntriesIn
<1>5. DecodedAsEncoded'
  BY <1>1, <1>2 DEF IInv, DecodedAsEncoded
<1> QED
  BY <1>3, <1>4, <1>5 DEF IInv

(* What a put does to each of its columns: cov is what it covers.          *)
Stored(col, cov, type, new) ==
    /\ DOMAIN indices'[col] = DOMAIN indices[col] \cup cov
    /\ \A i \in cov : indices'[col][i] = new
    /\ \A i \in DOMAIN indices[col] \ cov : indices'[col][i] = indices[col][i]
    /\ DOMAIN ref_count'[col] = Held(col, cov) \cup {new}
    /\ DOMAIN dtype'[col] = DOMAIN ref_count'[col]
    /\ new \notin Held(col, cov)
    /\ ref_count'[col][new] = Cardinality(cov)
    /\ dtype'[col][new] = type
    /\ \A s \in Held(col, cov) : /\ ref_count'[col][s] = AfterRelease(col, cov, s)
                                 /\ dtype'[col][s] = dtype[col][s]
    /\ col_shapes'[col] = col_shapes[col] \cup cov
    /\ type \in Dtypes /\ col_metas'[col] = type

LEMMA StoredColumns ==
    ASSUME IInv, NEW ids \in SUBSET Indexes, NEW order \in Orders,
           NEW d \in [ToSet(order) -> Dtypes], NEW new \in Segments,
           put_batch(ids, order, d, new), NEW col \in ToSet(order)
    PROVE  /\ col \in Columns
           /\ Covered(col, ids) # {} /\ Covered(col, ids) \subseteq Indexes
           /\ Stored(col, Covered(col, ids), d[col], new)
<1> DEFINE cov == Covered(col, ids)
<1>1. col \in Columns
  BY TableAssumption DEF ToSet
<1>2. /\ IsRequest(ids, ToSet(order)) /\ ~Refused(order, d, None)
      /\ NoteDtypes(order, d, None)
      /\ StoreEntries(ids, ToSet(order), new) /\ StoreSegments(ids, ToSet(order), d, new)
      /\ new \notin Held(col, cov)
      /\ col_shapes'[col] = col_shapes[col] \cup cov
  BY <1>1 DEF put_batch
<1>3. cov # {} /\ cov \subseteq Indexes
  <2>1. PICK i \in ids : TRUE
    BY <1>2 DEF IsRequest
  <2>2. i \in cov
    <3>1. i \in Nat
      BY SizesAreNumbers DEF Indexes
    <3> QED
      BY <3>1, GroupOfNumber DEF Covered
  <2> QED
    BY <2>2, CoveredIsIndexes
<1>4. indices'[col] = [i \in DOMAIN indices[col] \cup cov |->
                          IF i \in cov THEN new ELSE indices[col][i]]
  BY <1>1, <1>2 DEF StoreEntries
<1>5. /\ ref_count'[col] = [s \in Held(col, cov) \cup {new} |->
             IF s = new THEN initial_ref_count(col, ids) ELSE AfterRelease(col, cov, s)]
      /\ dtype'[col] = [s \in Held(col, cov) \cup {new} |->
             IF s = new THEN d[col] ELSE dtype[col][s]]
  BY <1>1, <1>2 DEF StoreSegments
<1>6. initial_ref_count(col, ids) = Cardinality(cov)
  <2>1. col \in SharedColumns => \A i \in ids : i % NSamples = 0
    BY <1>2 DEF IsRequest
  <2> QED
    BY <2>1, InitialCountIsCovered
<1>7. d[col] \in Dtypes /\ col_metas'[col] = d[col] /\ Accepts(col, d[col])
  <2>1. PICK k \in DOMAIN order : col = order[k]
    BY DEF ToSet
  <2>2. \A j \in DOMAIN order : Accepts(order[j], d[order[j]]) /\ order[j] # None
    BY <1>2 DEF Refused
  <2>3. \A j \in 1 .. k : j \in DOMAIN order
    <3>1. order \in Seq(Columns)
      BY TableAssumption
    <3> QED
      BY <3>1
  <2>4. \A j \in 1 .. k - 1 : j \in 1 .. k
    <3>1. order \in Seq(Columns)
      BY TableAssumption
    <3> QED
      BY <3>1
  <2>5. col \in Noted(order, d, None)
    BY <2>1, <2>2, <2>3, <2>4 DEF Noted
  <2> QED
    BY <1>1, <1>2, <2>1, <2>2, <2>5 DEF NoteDtypes
<1> HIDE DEF cov
<1>8. /\ DOMAIN indices'[col] = DOMAIN indices[col] \cup cov
      /\ \A i \in cov : indices'[col][i] = new
      /\ \A i \in DOMAIN indices[col] \ cov : indices'[col][i] = indices[col][i]
  BY <1>4
<1>9. /\ DOMAIN ref_count'[col] = Held(col, cov) \cup {new}
      /\ DOMAIN dtype'[col] = DOMAIN ref_count'[col]
      /\ ref_count'[col][new] = Cardinality(cov) /\ dtype'[col][new] = d[col]
      /\ \A s \in Held(col, cov) : /\ ref_count'[col][s] = AfterRelease(col, cov, s)
                                   /\ dtype'[col][s] = dtype[col][s]
  BY <1>2, <1>5, <1>6
<1> QED
  BY <1>1, <1>2, <1>3, <1>7, <1>8, <1>9 DEF cov, Stored

(* What holds of each column after the put.                                *)
LEMMA StoredColumnKeeps ==
    ASSUME IInv, NEW ids \in SUBSET Indexes, NEW order \in Orders,
           NEW d \in [ToSet(order) -> Dtypes], NEW new \in Segments,
           put_batch(ids, order, d, new), NEW col \in ToSet(order)
    PROVE  /\ DOMAIN indices'[col] \subseteq Indexes
           /\ \A i \in DOMAIN indices'[col] : indices'[col][i] \in Segments
           /\ DOMAIN ref_count'[col] \subseteq Segments
           /\ \A s \in DOMAIN ref_count'[col] : ref_count'[col][s] \in Nat \ {0}
           /\ DOMAIN dtype'[col] = DOMAIN ref_count'[col]
           /\ \A s \in DOMAIN dtype'[col] : dtype'[col][s] \in Dtypes
           /\ \A i \in DOMAIN indices'[col] : indices'[col][i] \in DOMAIN ref_count'[col]
           /\ \A s \in DOMAIN ref_count'[col] :
                 ref_count'[col][s] = Cardinality(EntriesIn(col, Indexes, s)')
           /\ col_shapes'[col] = DOMAIN indices'[col]
           /\ \A i \in DOMAIN indices'[col] : dtype'[col][indices'[col][i]] = col_metas'[col]
           /\ col \in SharedColumns =>
                 \A i, j \in DOMAIN indices'[col] :
                     Group(i) = Group(j) => indices'[col][i] = indices'[col][j]
<1> DEFINE cov == Covered(col, ids)
<1>a. /\ col \in Columns /\ cov # {} /\ cov \subseteq Indexes
      /\ Stored(col, cov, d[col], new)
  BY StoredColumns
<1>1. /\ col \in Columns /\ cov # {} /\ cov \subseteq Indexes
      /\ DOMAIN indices'[col] = DOMAIN indices[col] \cup cov
      /\ \A i \in cov : indices'[col][i] = new
      /\ \A i \in DOMAIN indices[col] \ cov : indices'[col][i] = indices[col][i]
  BY <1>a DEF Stored
<1>2. /\ DOMAIN ref_count'[col] = Held(col, cov) \cup {new}
      /\ DOMAIN dtype'[col] = DOMAIN ref_count'[col]
      /\ new \notin Held(col, cov)
      /\ ref_count'[col][new] = Cardinality(cov) /\ dtype'[col][new] = d[col]
  BY <1>a DEF Stored
<1>3. \A s \in Held(col, cov) : /\ ref_count'[col][s] = AfterRelease(col, cov, s)
                                /\ dtype'[col][s] = dtype[col][s]
  BY <1>a DEF Stored
<1>4. /\ col_shapes'[col] = col_shapes[col] \cup cov
      /\ d[col] \in Dtypes /\ col_metas'[col] = d[col]
  BY <1>a DEF Stored
<1>5. /\ Held(col, cov) \subseteq DOMAIN ref_count[col]
      /\ \A s \in Held(col, cov) : AfterRelease(col, cov, s) \in Nat \ {0}
      /\ EntriesIn(col, Indexes \ cov, new) = {}
  BY <1>1, <1>2, ReleaseIsExact
<1>6. \A i \in DOMAIN indices[col] \ cov : indices[col][i] \in Held(col, cov)
  BY <1>1, StayingIsHeld
<1>7. Cardinality(cov) \in Nat \ {0}
  BY <1>1, IndexesFinite, FS_EmptySet
<1>8. DOMAIN indices[col] # {} => col_metas'[col] = col_metas[col]
  BY <1>1, NotedIsAccepted DEF put_batch
<1>9. \A i, j \in Indexes : col \in SharedColumns /\ Group(i) = Group(j) =>
         (i \in cov <=> j \in cov)
  BY CoveredIsIndexes
<1>10. /\ DOMAIN indices[col] \subseteq Indexes
       /\ \A i \in DOMAIN indices[col] : indices[col][i] \in Segments
       /\ DOMAIN ref_count[col] \subseteq Segments
       /\ DOMAIN dtype[col] = DOMAIN ref_count[col]
       /\ \A s \in DOMAIN dtype[col] : dtype[col][s] \in Dtypes
       /\ col_shapes[col] = DOMAIN indices[col]
       /\ \A i \in DOMAIN indices[col] : dtype[col][indices[col][i]] = col_metas[col]
  BY <1>1 DEF IInv, TypeOK, SegmentDtypes, DecodedAsEncoded
<1>b. \A s \in DOMAIN ref_count[col] :
         AfterRelease(col, cov, s) = Cardinality(EntriesIn(col, Indexes \ cov, s))
  BY <1>1, ReleaseIsExact
<1> HIDE DEF cov, IInv
<1>11. /\ DOMAIN indices'[col] \subseteq Indexes
       /\ \A i \in DOMAIN indices'[col] : indices'[col][i] \in Segments
       /\ DOMAIN ref_count'[col] \subseteq Segments
       /\ col_shapes'[col] = DOMAIN indices'[col]
  BY <1>1, <1>2, <1>4, <1>5, <1>10
<1>12. \A s \in DOMAIN ref_count'[col] :
          ref_count'[col][s] \in Nat \ {0} /\ dtype'[col][s] \in Dtypes
  BY <1>2, <1>3, <1>4, <1>5, <1>7, <1>10
<1>13. \A i \in DOMAIN indices'[col] : indices'[col][i] \in DOMAIN ref_count'[col]
  BY <1>1, <1>2, <1>6
<1>14. ASSUME NEW s \in DOMAIN ref_count'[col]
       PROVE  ref_count'[col][s] = Cardinality(EntriesIn(col, Indexes, s)')
  <2>1. CASE s = new
    <3>1. \A i \in DOMAIN indices[col] \ cov : indices[col][i] # new
      BY <1>5, <1>10 DEF EntriesIn
    <3>2. EntriesIn(col, Indexes, new)' = cov
      BY <1>1, <1>10, <3>1 DEF EntriesIn
    <3> QED
      BY <1>2, <2>1, <3>2
  <2>2. CASE s # new
    <3>1. EntriesIn(col, Indexes, s)' = EntriesIn(col, Indexes \ cov, s)
      BY <1>1, <2>2 DEF EntriesIn
    <3>2. s \in DOMAIN ref_count[col] /\ ref_count'[col][s] = AfterRelease(col, cov, s)
      BY <1>2, <1>3, <1>5, <2>2
    <3>3. AfterRelease(col, cov, s) = Cardinality(EntriesIn(col, Indexes \ cov, s))
      BY <1>b, <3>2
    <3> QED
      BY <3>1, <3>2, <3>3
  <2> QED
    BY <2>1, <2>2
<1>15. ASSUME NEW i \in DOMAIN indices'[col]
       PROVE  dtype'[col][indices'[col][i]] = col_metas'[col]
  <2>1. CASE i \in cov
    BY <1>1, <1>2, <1>4, <2>1
  <2>2. CASE i \notin cov
    <3>1. i \in DOMAIN indices[col] \ cov /\ indices'[col][i] = indices[col][i]
      BY <1>1, <2>2
    <3>2. dtype'[col][indices[col][i]] = dtype[col][indices[col][i]]
      BY <1>3, <1>6, <3>1
    <3> QED
      BY <1>8, <1>10, <3>1, <3>2
  <2> QED
    BY <2>1, <2>2
<1>16. ASSUME col \in SharedColumns, NEW i \in DOMAIN indices'[col],
              NEW j \in DOMAIN indices'[col], Group(i) = Group(j)
       PROVE  indices'[col][i] = indices'[col][j]
  <2>1. i \in cov <=> j \in cov
    BY <1>9, <1>11, <1>16
  <2> QED
    BY <1>1, <1>16, <2>1 DEF IInv, OneCopyPerGroup
<1> QED
  BY <1>2, <1>11, <1>12, <1>13, <1>14, <1>15, <1>16

LEMMA PutKeeps ==
    ASSUME IInv, NEW ids \in SUBSET Indexes, NEW order \in Orders,
           NEW d \in [ToSet(order) -> Dtypes], NEW new \in Segments,
           put_batch(ids, order, d, new)
    PROVE  IInv'
<1>1. \A col \in Columns \ ToSet(order) :
         /\ indices'[col] = indices[col] /\ ref_count'[col] = ref_count[col]
         /\ dtype'[col] = dtype[col] /\ col_shapes'[col] = col_shapes[col]
  BY DEF put_batch, StoreEntries, StoreSegments
<1>2. /\ col_metas' \in [Columns -> Dtypes \cup {None}]
      /\ \A col \in Columns : DOMAIN indices[col] # {} => col_metas'[col] = col_metas[col]
  BY NotedIsAccepted DEF put_batch
<1>3. DOMAIN indices' = Columns /\ col_shapes' = [col \in Columns |-> col_shapes'[col]]
  BY DEF put_batch, StoreEntries
<1>4. TypeOK'
  <2>1. ASSUME NEW col \in Columns
        PROVE  /\ DOMAIN indices'[col] \subseteq Indexes
               /\ \A i \in DOMAIN indices'[col] : indices'[col][i] \in Segments
               /\ DOMAIN ref_count'[col] \subseteq Segments
               /\ \A s \in DOMAIN ref_count'[col] : ref_count'[col][s] \in Nat \ {0}
               /\ DOMAIN dtype'[col] = DOMAIN ref_count'[col]
               /\ col_shapes'[col] \subseteq Indexes
    <3>1. CASE col \in ToSet(order)
      BY <3>1, StoredColumnKeeps, ZenonT(60)
    <3>2. CASE col \notin ToSet(order)
      BY <1>1, <3>2 DEF IInv, TypeOK
    <3> QED
      BY <3>1, <3>2
  <2>2. col_shapes' \in [Columns -> SUBSET Indexes]
    BY <1>3, <2>1
  <2> QED
    BY <1>2, <1>3, <2>1, <2>2 DEF TypeOK
<1>5. SegmentDtypes'
  <2>1. \A col \in ToSet(order) : \A s \in DOMAIN dtype'[col] : dtype'[col][s] \in Dtypes
    BY StoredColumnKeeps
  <2> QED
    BY <1>1, <2>1 DEF IInv, SegmentDtypes
<1>6. RefCountsExact'
  <2>1. ASSUME NEW col \in Columns
        PROVE  /\ \A i \in DOMAIN indices'[col] : indices'[col][i] \in DOMAIN ref_count'[col]
               /\ \A s \in DOMAIN ref_count'[col] :
                     ref_count'[col][s] = Cardinality(EntriesIn(col, Indexes, s)')
    <3>1. CASE col \in ToSet(order)
      BY <3>1, StoredColumnKeeps
    <3>2. CASE col \notin ToSet(order)
      BY <1>1, <3>2 DEF IInv, RefCountsExact, EntriesIn
    <3> QED
      BY <3>1, <3>2
  <2> QED
    BY <2>1 DEF RefCountsExact
<1>7. DecodedAsEncoded'
  <2>1. ASSUME NEW col \in Columns
        PROVE  /\ col_shapes'[col] = DOMAIN indices'[col]
               /\ \A i \in DOMAIN indices'[col] :
                     dtype'[col][indices'[col][i]] = col_metas'[col]
    <3>1. CASE col \in ToSet(order)
      BY <3>1, StoredColumnKeeps
    <3>2. CASE col \notin ToSet(order)
      BY <1>1, <1>2, <3>2 DEF IInv, DecodedAsEncoded
    <3> QED
      BY <3>1, <3>2
  <2> QED
    BY <2>1 DEF DecodedAsEncoded
<1>8. OneCopyPerGroup'
  <2>1. ASSUME NEW col \in SharedColumns, NEW i \in DOMAIN indices'[col],
               NEW j \in DOMAIN indices'[col], Group(i) = Group(j)
        PROVE  indices'[col][i] = indices'[col][j]
    <3>1. CASE col \in ToSet(order)
      <4>1. \A k, l \in DOMAIN indices'[col] :
               Group(k) = Group(l) => indices'[col][k] = indices'[col][l]
        BY <3>1, StoredColumnKeeps
      <4> QED
        BY <2>1, <4>1
    <3>2. CASE col \notin ToSet(order)
      BY <1>1, <2>1, <3>2, TableAssumption DEF IInv, OneCopyPerGroup
    <3> QED
      BY <3>1, <3>2
  <2> QED
    BY <2>1 DEF OneCopyPerGroup
<1> QED
  BY <1>4, <1>5, <1>6, <1>7, <1>8 DEF IInv

-----------------------------------------------------------------------------
(* Theorems *)

LEMMA InvariantHolds == Spec => []IInv
<1>1. IInv /\ [Next]_vars => IInv'
  <2> SUFFICES ASSUME IInv, [Next]_vars PROVE IInv'
    OBVIOUS
  <2>1. ASSUME NEW order \in Orders, NEW d \in [ToSet(order) -> Dtypes],
               NEW bad \in ToSet(order) \cup {None}, refuse_batch(order, d, bad)
        PROVE  IInv'
    BY <2>1, RefusedKeeps
  <2>2. ASSUME NEW order \in Orders, NEW d \in [ToSet(order) -> Dtypes],
               NEW ids \in SUBSET Indexes, NEW new \in Segments,
               put_batch(ids, order, d, new)
        PROVE  IInv'
    BY <2>2, PutKeeps
  <2>3. ASSUME NEW idxs \in SUBSET Indexes, prune(idxs) PROVE IInv'
    BY <2>3, PruneKeeps
  <2>4. CASE clear
    BY <2>4, ClearKeeps
  <2>5. CASE UNCHANGED vars
    BY <2>5 DEF vars, IInv, TypeOK, SegmentDtypes, RefCountsExact, EntriesIn,
       DecodedAsEncoded, OneCopyPerGroup
  <2> QED
    BY <2>1, <2>2, <2>3, <2>4, <2>5 DEF Next
<1> QED
  BY InitIInv, <1>1, PTL DEF Spec

(* The tables have their types, and no segment is held without an entry    *)
(* (MemorySegment.ref_count).                                              *)
THEOREM TypeCorrect == Spec => []TypeOK
BY InvariantHolds, PTL DEF IInv

(* A segment always counts the entries that live in it: no frame is let go *)
(* under a reader, none is kept after its last sample, whatever is         *)
(* overwritten, pruned or cleared in whatever order (MemorySegment.release).*)
THEOREM CountsStayExact == Spec => []RefCountsExact
BY InvariantHolds, PTL DEF IInv

(* get_batch decodes every value with the dtype and the shape it was       *)
(* encoded with, puts refused half way included (col_metas, col_shapes).   *)
THEOREM AlwaysDecodedAsEncoded == Spec => []DecodedAsEncoded
BY InvariantHolds, PTL DEF IInv

(* The samples of a prompt that are left share one copy of what they share *)
(* (GROUP_SHARED_COLUMNS).                                                 *)
THEOREM AlwaysOneCopy == Spec => []OneCopyPerGroup
BY InvariantHolds, PTL DEF IInv

-----------------------------------------------------------------------------
(* The clients of the shards *)

(***************************************************************************)
(* Puts and fetches end to end (TransferQueueClient), with tables as       *)
(* functions from indexes to values. No put of a whole batch is atomic: a  *)
(* put asks the manager, sends, waits and marks while shards report and    *)
(* the trainer deletes. What carries the proof is that a sample that has a *)
(* column has it until it is deleted, and that deleted samples do not come *)
(* back.                                                                   *)
(***************************************************************************)

CONSTANTS Groups, Shards, ShardOf, SegmentSize, Puts, Rows, Carries, Reads, Expanding
VARIABLES pc, todo, needs, unsent, sent, stored, written, routed, ready, store,
          consumed, trainer, delivered, lost

Client == INSTANCE TransferQueueClient

(* No two allocations give out one index (IndexesAreFresh of               *)
(* TransferQueueManager), and no put has needs_expansion.                  *)
AllocatedOnce ==
    /\ Expanding = {}
    /\ \A p, q \in Puts : Reads[p] = {} /\ Reads[q] = {} /\ p # q =>
          Client!ToSet(Rows[p]) \cap Client!ToSet(Rows[q]) = {}

Setting == Client!ClientAssumption /\ Client!RowsAssumption /\ AllocatedOnce

(* Samples that were delivered and deleted do not come back, so that what  *)
(* they have lost no longer counts: a column of a sample is stored, and    *)
(* ready, for good.                                                        *)
Gone == delivered \ routed
Kept(c, i) == i \in Gone \/ i \in DOMAIN store[c]
Has(c, i) == i \in Gone \/ i \in ready[c]
GroupHas(c, g) == \A i \in Client!Members(g) : Has(c, i)

Pairs(p) == (Carries[p] \cap SharedColumns) \X Client!UniqueGroups(p)

(* The indexes that the one in a message stands for.                       *)
Stands(shared, i) == IF shared THEN Client!Members(Client!Group(i)) ELSE {i}

(* What a put sends in one kind of message has arrived at an index.        *)
Reached(p, shared, i) ==
    \A c \in Client!ColumnsOf(p, shared) : \A j \in Stands(shared, i) : Has(c, j)

(* The rows of a rollout that has not begun are nobody's; those of a put   *)
(* that has are routed until the trainer has them.                         *)
FreshRows ==
    \A p \in Puts :
        /\ pc[p] = "new" /\ Reads[p] = {} =>
              Client!ToSet(Rows[p]) \cap (routed \cup delivered) = {}
        /\ pc[p] # "new" => Client!ToSet(Rows[p]) \subseteq routed \cup delivered

(* What the trainer fetches is ready, what it prunes is gone; what is      *)
(* consumed is asked for, delivered or lost.                               *)
Expected(i) ==
    trainer.phase = "get" /\ i \in trainer.batch /\ ShardOf[Client!Group(i)] \in trainer.waiting

TrainerRows ==
    /\ trainer.phase = "get" =>
          trainer.batch \subseteq routed /\ \A c \in Columns : trainer.batch \subseteq ready[c]
    /\ trainer.phase = "prune" => trainer.batch \subseteq Gone
    /\ \A i \in consumed :
          i \in lost \/ Expected(i)
          \/ (trainer.phase = "get" /\ i \in trainer.batch \cap delivered)

(* What is ready or about to be reported is stored, what is marked ready.  *)
ReportsHold ==
    /\ \A c \in Columns : \A i \in ready[c] : Kept(c, i)
    /\ \A pair \in written : GroupHas(pair[1], pair[2])
    /\ \A m \in stored : \A c \in DOMAIN m.value : \A i \in Client!CoveredBy(m) : Kept(c, i)

(* What a put has asked about and not found unwritten is ready.            *)
AskedBy(p) ==
    /\ needs[p] \subseteq Pairs(p)
    /\ pc[p] = "new" => needs[p] = {}
    /\ pc[p] = "ask" => todo[p] \subseteq Pairs(p)
    /\ pc[p] = "mark" => todo[p] \subseteq Client!ToMark(p)
    /\ pc[p] # "new" => \A pair \in Pairs(p) :
          \/ pair \in needs[p]
          \/ GroupHas(pair[1], pair[2])
          \/ pc[p] = "ask" /\ pair \in todo[p]

(* A message is one of its put's, whose columns and groups are settled.    *)
MessageOf(m) ==
    /\ m.put \in Puts /\ m.shared \in BOOLEAN
    /\ pc[m.put] \notin {"new", "ask"}
    /\ m.ids \subseteq Client!ToSet(Client!Targets(m.put, m.shared))
    /\ DOMAIN m.value = Client!ColumnsOf(m.put, m.shared)

OnTheWay(p, shared, i) ==
    \/ <<ShardOf[Client!Group(i)], shared>> \in unsent[p]
    \/ \E m \in sent \cup stored : m.put = p /\ m.shared = shared /\ i \in m.ids
    \/ Reached(p, shared, i)

(* Until a put has been acknowledged its rows are unsent, on their way or  *)
(* ready, and ready from then on.                                          *)
SentBy(p) ==
    /\ unsent[p] # {} => pc[p] \in {"send", "failed"}
    /\ pc[p] = "send" => \A shared \in BOOLEAN : Client!ColumnsOf(p, shared) # {} =>
          \A i \in Client!ToSet(Client!Targets(p, shared)) : OnTheWay(p, shared, i)
    /\ pc[p] \in {"mark", "done"} => \A shared \in BOOLEAN :
          \A i \in Client!ToSet(Client!Targets(p, shared)) : Reached(p, shared, i)

ClientInv ==
    /\ Client!TypeOK /\ FreshRows /\ TrainerRows /\ ReportsHold
    /\ \A m \in sent \cup stored : MessageOf(m)
    /\ \A p \in Puts : AskedBy(p) /\ SentBy(p)

-----------------------------------------------------------------------------
(* Groups, rows and segments *)

(* Sizes are counted with one Cardinality.                                 *)
LEMMA SameCount == \A S : Client!Cardinality(S) = Cardinality(S)
BY DEF Client!Cardinality, Cardinality

LEMMA ClientSizes ==
    ASSUME Setting
    PROVE  /\ NSamples \in Nat /\ NSamples >= 1
           /\ SegmentSize \in Nat /\ SegmentSize >= 1
           /\ Groups \subseteq Nat
           /\ ShardOf \in [Groups -> Shards]
           /\ SharedColumns \subseteq Columns
           /\ \A p \in Puts : Carries[p] \subseteq Columns
BY DEF Setting, Client!ClientAssumption

LEMMA SamplesOfGroup ==
    ASSUME Setting, NEW g \in Groups
    PROVE  /\ Client!Members(g) \subseteq Client!Indexes
           /\ \A i \in Client!Members(g) : i \in Nat /\ Client!Group(i) = g
           /\ g * NSamples \in Client!Members(g)
<1>1. g \in Nat /\ NSamples \in Nat /\ NSamples >= 1 /\ g * NSamples \in Nat
    BY ClientSizes
<1>2. ASSUME NEW i \in Client!Members(g) PROVE i \in Nat /\ Client!Group(i) = g
    BY <1>1 DEF Client!Members, Client!Group
<1>3. g * NSamples \in Client!Members(g)
    BY <1>1 DEF Client!Members
<1>4. Client!Members(g) \subseteq Client!Indexes
    BY DEF Client!Indexes
<1> QED
    BY <1>2, <1>3, <1>4

LEMMA GroupOfSample ==
    ASSUME Setting, NEW i \in Client!Indexes
    PROVE  i \in Nat /\ Client!Group(i) \in Groups /\ i \in Client!Members(Client!Group(i))
<1>1. PICK g \in Groups : i \in Client!Members(g)
    BY DEF Client!Indexes
<1> QED
    BY <1>1, SamplesOfGroup

LEMMA RowsOfPut ==
    ASSUME Setting, NEW p \in Puts
    PROVE  /\ Rows[p] \in Seq(Client!Indexes)
           /\ DOMAIN Rows[p] = 1 .. Len(Rows[p]) /\ Len(Rows[p]) \in Nat
           /\ \A k \in DOMAIN Rows[p] : Rows[p][k] \in Client!Indexes
           /\ Client!ToSet(Rows[p]) \subseteq Client!Indexes
           /\ \A k, l \in DOMAIN Rows[p] : Rows[p][k] = Rows[p][l] => k = l
<1>1. Rows[p] \in Seq(Client!Indexes) /\ Client!IsInjective(Rows[p])
    BY DEF Setting, Client!RowsAssumption
<1>2. DOMAIN Rows[p] = 1 .. Len(Rows[p]) /\ Len(Rows[p]) \in Nat
    BY <1>1
<1>3. \A k \in DOMAIN Rows[p] : Rows[p][k] \in Client!Indexes
    BY <1>1
<1>4. \A k, l \in DOMAIN Rows[p] : Rows[p][k] = Rows[p][l] => k = l
    BY <1>1 DEF Client!IsInjective
<1> QED
    BY <1>1, <1>2, <1>3, <1>4 DEF Client!ToSet

LEMMA GroupsOfPut ==
    ASSUME Setting, NEW p \in Puts
    PROVE  /\ Client!UniqueGroups(p) = {Client!Group(i) : i \in Client!ToSet(Rows[p])}
           /\ Client!UniqueGroups(p) \subseteq Groups
           /\ IsFiniteSet(Client!UniqueGroups(p))
<1>1. Client!UniqueGroups(p) = {Client!Group(i) : i \in Client!ToSet(Rows[p])}
    BY DEF Client!UniqueGroups, Setting, AllocatedOnce
<1>2. Client!UniqueGroups(p) \subseteq Groups
    BY <1>1, RowsOfPut, GroupOfSample
<1>3. IsFiniteSet(Client!UniqueGroups(p))
    <2> DEFINE f == [k \in DOMAIN Rows[p] |-> Client!Group(Rows[p][k])]
    <2>1. IsFiniteSet(DOMAIN Rows[p])
        <3>1. DOMAIN Rows[p] = 1 .. Len(Rows[p]) /\ Len(Rows[p]) \in Int /\ 1 \in Int
            BY RowsOfPut
        <3>2. IsFiniteSet(1 .. Len(Rows[p]))
            BY <3>1, FS_Interval
        <3> QED
            BY <3>1, <3>2
    <2>2. f \in [DOMAIN Rows[p] -> Client!UniqueGroups(p)]
        BY <1>1 DEF Client!ToSet
    <2>3. \A g \in Client!UniqueGroups(p) : \E k \in DOMAIN Rows[p] : f[k] = g
        BY <1>1 DEF Client!ToSet
    <2>4. f \in Surjection(DOMAIN Rows[p], Client!UniqueGroups(p))
        BY <2>2, <2>3 DEF Surjection
    <2> QED
        BY <2>1, <2>4, FS_Surjection
<1> QED
    BY <1>1, <1>2, <1>3

(* sorted() gives each element of a set, and nothing else, a place.        *)
LEMMA AscendingLists ==
    ASSUME NEW S, S \subseteq Nat, IsFiniteSet(S)
    PROVE  /\ DOMAIN Client!Ascending(S) = 1 .. Cardinality(S) /\ Cardinality(S) \in Nat
           /\ \A k \in DOMAIN Client!Ascending(S) :
                /\ Client!Ascending(S)[k] \in S
                /\ Cardinality({y \in S : y < Client!Ascending(S)[k]}) = k - 1
           /\ \A x \in S : \E k \in DOMAIN Client!Ascending(S) : Client!Ascending(S)[k] = x
           /\ \A k, l \in DOMAIN Client!Ascending(S) : k < l =>
                Client!Ascending(S)[k] < Client!Ascending(S)[l]
<1> DEFINE N == Cardinality(S)
           below(x) == {y \in S : y < x}
           rank == [x \in S |-> Cardinality(below(x)) + 1]
<1>1. N \in Nat
    BY FS_CardinalityType
<1>2. DOMAIN Client!Ascending(S) = 1 .. N
    BY SameCount DEF Client!Ascending
<1>3. ASSUME NEW x \in S PROVE Cardinality(below(x)) \in 0 .. N - 1
    <2>1. below(x) \in SUBSET S /\ below(x) # S
        BY <1>3
    <2>2. Cardinality(below(x)) <= N /\ Cardinality(below(x)) # N /\ IsFiniteSet(below(x))
        BY <2>1, FS_Subset
    <2>3. Cardinality(below(x)) \in Nat
        BY <2>2, FS_CardinalityType
    <2> QED
        BY <2>2, <2>3, <1>1
<1>4. ASSUME NEW x \in S, NEW y \in S, x < y
      PROVE  Cardinality(below(x)) # Cardinality(below(y))
    <2>1. \A z \in S : z < x => z < y
        BY <1>4
    <2>2. ~ (x < x)
        BY <1>4
    <2>3. below(x) \in SUBSET below(y) /\ x \in below(y) /\ x \notin below(x)
        BY <1>4, <2>1, <2>2
    <2>4. IsFiniteSet(below(y))
        BY FS_Subset
    <2> QED
        BY <2>3, <2>4, FS_Subset
<1>5. ASSUME NEW x \in S, NEW y \in S, Cardinality(below(x)) = Cardinality(below(y))
      PROVE  x = y
    BY <1>4, <1>5
<1>6. rank \in [S -> 1 .. N]
    <2>1. \A x \in S : Cardinality(below(x)) + 1 \in 1 .. N
        BY <1>1, <1>3
    <2> QED
        BY <2>1
<1>7. rank \in Injection(S, 1 .. N)
    <2>1. ASSUME NEW x \in S, NEW y \in S, rank[x] = rank[y] PROVE x = y
        <3>1. Cardinality(below(x)) + 1 = Cardinality(below(y)) + 1
            BY <2>1
        <3>2. Cardinality(below(x)) = Cardinality(below(y))
            BY <3>1, <1>3
        <3> QED
            BY <3>2, <1>5
    <2> HIDE DEF rank
    <2> QED
        BY <1>6, <2>1 DEF Injection, IsInjective
<1>8. rank \in Surjection(S, 1 .. N)
    <2>1. IsFiniteSet(1 .. N) /\ Cardinality(1 .. N) = N
        BY <1>1, FS_Interval
    <2> QED
        BY <1>7, <2>1, FS_Injection
<1>9. ASSUME NEW k \in 1 .. N
      PROVE  Client!Ascending(S)[k] \in S /\ Cardinality(below(Client!Ascending(S)[k])) = k - 1
    <2>1. PICK x \in S : rank[x] = k
        BY <1>8 DEF Surjection
    <2>2. Cardinality(below(x)) = k - 1
        BY <2>1, <1>3
    <2>3. Client!Ascending(S)[k] = CHOOSE z \in S : Cardinality(below(z)) = k - 1
        BY SameCount DEF Client!Ascending
    <2> QED
        BY <2>2, <2>3
<1>10. ASSUME NEW x \in S PROVE \E k \in 1 .. N : Client!Ascending(S)[k] = x
    <2> DEFINE k == Cardinality(below(x)) + 1
    <2>1. k \in 1 .. N /\ k - 1 = Cardinality(below(x))
        BY <1>1, <1>3
    <2> HIDE DEF k
    <2>2. /\ Client!Ascending(S)[k] \in S
          /\ Cardinality(below(Client!Ascending(S)[k])) = Cardinality(below(x))
        BY <2>1, <1>9
    <2> QED
        BY <2>1, <2>2, <1>5
<1>11. ASSUME NEW k \in 1 .. N, NEW l \in 1 .. N, k < l
       PROVE  Client!Ascending(S)[k] < Client!Ascending(S)[l]
    <2> DEFINE x == Client!Ascending(S)[k]
               y == Client!Ascending(S)[l]
    <2>1. x \in S /\ y \in S /\ Cardinality(below(x)) = k - 1 /\ Cardinality(below(y)) = l - 1
        BY <1>9
    <2> HIDE DEF x, y
    <2> SUFFICES ASSUME ~ (x < y) PROVE FALSE
        BY DEF x, y
    <2>2. \A z \in S : z < y => z < x
        BY <2>1
    <2>3. below(y) \in SUBSET below(x)
        BY <2>2
    <2>4. IsFiniteSet(below(x))
        BY FS_Subset
    <2>5. Cardinality(below(y)) <= Cardinality(below(x))
        BY <2>3, <2>4, FS_Subset
    <2> HIDE DEF below
    <2> QED
        BY <2>1, <2>5, <1>11
<1> QED
    BY <1>1, <1>2, <1>9, <1>10, <1>11

LEMMA SmallerOfTwo ==
    ASSUME NEW a \in Int, NEW b \in Int
    PROVE  Client!Min({a, b}) = IF a <= b THEN a ELSE b
<1> DEFINE m == IF a <= b THEN a ELSE b
<1>1. m \in {a, b} /\ \A y \in {a, b} : m =< y
    OBVIOUS
<1>2. \A x \in {a, b} : (\A y \in {a, b} : x =< y) => x = m
    OBVIOUS
<1> HIDE DEF m
<1>3. Client!Min({a, b}) = m
    BY <1>1, <1>2 DEF Client!Min
<1> QED
    BY <1>3 DEF m

(* The needed groups of a put, and the indexes it sends to.                *)
LEMMA NeededGroups ==
    ASSUME Setting, NEW p \in Puts, needs[p] \subseteq Pairs(p)
    PROVE  /\ Client!GroupsToMark(p) \subseteq Client!UniqueGroups(p)
           /\ Client!GroupsToMark(p) \subseteq Groups /\ Client!GroupsToMark(p) \subseteq Nat
           /\ IsFiniteSet(Client!GroupsToMark(p))
           /\ Client!SharedToSend(p) \subseteq Carries[p] \cap SharedColumns
<1>1. /\ Client!GroupsToMark(p) \subseteq Client!UniqueGroups(p)
      /\ Client!SharedToSend(p) \subseteq Carries[p] \cap SharedColumns
    BY DEF Client!GroupsToMark, Client!SharedToSend, Pairs
<1>2. IsFiniteSet(Client!GroupsToMark(p))
    BY <1>1, GroupsOfPut, FS_Subset
<1>3. Client!GroupsToMark(p) \subseteq Groups /\ Client!GroupsToMark(p) \subseteq Nat
    BY <1>1, GroupsOfPut, ClientSizes
<1> QED
    BY <1>1, <1>2, <1>3

LEMMA TargetsOfPut ==
    ASSUME Setting, NEW p \in Puts, needs[p] \subseteq Pairs(p), NEW shared \in BOOLEAN
    PROVE  /\ \E n \in Nat : DOMAIN Client!Targets(p, shared) = 1 .. n
           /\ \A k \in DOMAIN Client!Targets(p, shared) :
                Client!Targets(p, shared)[k] \in Client!Indexes
           /\ \A k, l \in DOMAIN Client!Targets(p, shared) :
                Client!Targets(p, shared)[k] = Client!Targets(p, shared)[l] => k = l
           /\ ~ shared => Client!Targets(p, shared) = Rows[p]
           /\ shared =>
                /\ \A g \in Client!GroupsToMark(p) :
                     g * NSamples \in Client!ToSet(Client!Targets(p, shared))
                /\ \A i \in Client!ToSet(Client!Targets(p, shared)) :
                     i = Client!Group(i) * NSamples /\ Client!Group(i) \in Client!GroupsToMark(p)
<1>1. CASE ~ shared
    <2>1. Client!Targets(p, shared) = Rows[p]
        BY <1>1 DEF Client!Targets
    <2> QED
        BY <1>1, <2>1, RowsOfPut
<1>2. CASE shared
    <2> DEFINE G == Client!GroupsToMark(p)
               T == Client!Targets(p, shared)
               before(x) == Cardinality({y \in G : y < x})
    <2>1. /\ DOMAIN T = DOMAIN Client!Ascending(G)
          /\ \A k \in DOMAIN Client!Ascending(G) : T[k] = Client!Ascending(G)[k] * NSamples
        BY <1>2 DEF Client!Targets
    <2>2. /\ DOMAIN Client!Ascending(G) = 1 .. Cardinality(G) /\ Cardinality(G) \in Nat
          /\ \A k \in DOMAIN Client!Ascending(G) : /\ Client!Ascending(G)[k] \in G
                                              /\ before(Client!Ascending(G)[k]) = k - 1
          /\ \A g \in G : \E k \in DOMAIN Client!Ascending(G) : Client!Ascending(G)[k] = g
        BY NeededGroups, AscendingLists
    <2> HIDE DEF before
    <2>3. \A g \in G : /\ g \in Groups /\ g * NSamples \in Client!Indexes
                       /\ Client!Group(g * NSamples) = g
        BY NeededGroups, SamplesOfGroup
    <2>4. \A k \in DOMAIN T : /\ T[k] \in Client!Indexes
                              /\ Client!Group(T[k]) = Client!Ascending(G)[k]
                              /\ T[k] = Client!Group(T[k]) * NSamples /\ Client!Group(T[k]) \in G
        <3> SUFFICES ASSUME NEW k \in DOMAIN T
                     PROVE  /\ T[k] \in Client!Indexes
                            /\ Client!Group(T[k]) = Client!Ascending(G)[k]
                            /\ T[k] = Client!Group(T[k]) * NSamples /\ Client!Group(T[k]) \in G
            OBVIOUS
        <3> PICK g \in G : g = Client!Ascending(G)[k]
            BY <2>1, <2>2
        <3>1. T[k] = g * NSamples
            BY <2>1
        <3>2. Client!Group(T[k]) = g /\ T[k] \in Client!Indexes
            BY <3>1, <2>3
        <3> QED
            BY <3>1, <3>2
    <2>5. ASSUME NEW k \in DOMAIN T, NEW l \in DOMAIN T, T[k] = T[l] PROVE k = l
        <3>1. Client!Ascending(G)[k] = Client!Ascending(G)[l]
            BY <2>4, <2>5
        <3>2. k - 1 = l - 1 /\ k \in Int /\ l \in Int
            <4>1. before(Client!Ascending(G)[k]) = k - 1 /\ before(Client!Ascending(G)[l]) = l - 1
                BY <2>1, <2>2
            <4>2. k \in Int /\ l \in Int
                BY <2>1, <2>2
            <4> QED
                BY <3>1, <4>1, <4>2
        <3> QED
            BY <3>2
    <2>6. \A g \in G : g * NSamples \in Client!ToSet(T)
        BY <2>1, <2>2 DEF Client!ToSet
    <2>7. \A i \in Client!ToSet(T) : i = Client!Group(i) * NSamples /\ Client!Group(i) \in G
        BY <2>4 DEF Client!ToSet
    <2>8. \E n \in Nat : DOMAIN T = 1 .. n
        BY <2>1, <2>2
    <2> QED
        BY <1>2, <2>4, <2>5, <2>6, <2>7, <2>8
<1> QED
    BY <1>1, <1>2

(* The rows of one shard.                                                  *)
RowsAt(p, t) ==
    {k \in DOMAIN Client!Targets(p, t[2]) :
        ShardOf[Client!Group(Client!Targets(p, t[2])[k])] = t[1]}

LEMMA ItemsOfShard ==
    ASSUME Setting, NEW p \in Puts, needs[p] \subseteq Pairs(p), NEW t \in Shards \X BOOLEAN
    PROVE  /\ Client!Items(p, t) = Client!Ascending(RowsAt(p, t))
           /\ RowsAt(p, t) \subseteq Nat /\ IsFiniteSet(RowsAt(p, t))
           /\ Client!Items(p, t) \in Seq(RowsAt(p, t))
           /\ DOMAIN Client!Items(p, t) = 1 .. Len(Client!Items(p, t))
           /\ Len(Client!Items(p, t)) \in Nat
           /\ \A k \in RowsAt(p, t) : \E q \in DOMAIN Client!Items(p, t) : Client!Items(p, t)[q] = k
<1> DEFINE K == RowsAt(p, t)
<1>1. Client!Items(p, t) = Client!Ascending(K)
    BY DEF Client!Items, RowsAt
<1>2. PICK n \in Nat : DOMAIN Client!Targets(p, t[2]) = 1 .. n
    BY TargetsOfPut
<1>3. K \in SUBSET (1 .. n)
    BY <1>2 DEF RowsAt
<1>4. IsFiniteSet(1 .. n)
    BY FS_Interval
<1>5. K \subseteq Nat /\ IsFiniteSet(K)
    BY <1>3, <1>4, FS_Subset
<1> HIDE DEF K
<1>6. /\ DOMAIN Client!Ascending(K) = 1 .. Cardinality(K) /\ Cardinality(K) \in Nat
      /\ \A k \in DOMAIN Client!Ascending(K) : Client!Ascending(K)[k] \in K
      /\ \A x \in K : \E k \in DOMAIN Client!Ascending(K) : Client!Ascending(K)[k] = x
    BY <1>5, AscendingLists
<1>7. Client!Ascending(K) = [k \in DOMAIN Client!Ascending(K) |-> Client!Ascending(K)[k]]
    BY SameCount DEF Client!Ascending
<1>8. Client!Ascending(K) \in [1 .. Cardinality(K) -> K]
    BY <1>6, <1>7
<1>9. Client!Ascending(K) \in Seq(K) /\ Len(Client!Ascending(K)) = Cardinality(K)
    BY <1>6, <1>8
<1> QED
    BY <1>1, <1>5, <1>6, <1>9 DEF K

LEMMA RemainderIsOne ==
    ASSUME NEW s \in Nat, s > 1, NEW d \in Nat, NEW a \in Nat, a = d * s + 1
    PROVE  a % s = 1
<1> DEFINE D == a \div s
           m == a % s
           e == d - D
<1>1. D \in Nat /\ m \in 0 .. s - 1 /\ a = D * s + m
    OBVIOUS
<1> HIDE DEF D, m
<1>2. e \in Int /\ e * s = d * s - D * s /\ d * s \in Int /\ D * s \in Int
    BY <1>1
<1>3. e * s = m - 1
    BY <1>1, <1>2
<1> HIDE DEF e
<1>4. e = 0
    <2>1. e >= 1 => e * s >= s
        BY <1>2
    <2>2. e <= -1 => e * s <= - s
        BY <1>2
    <2> QED
        BY <2>1, <2>2, <1>1, <1>2, <1>3
<1>5. m = 1
    BY <1>1, <1>3, <1>4
<1> QED
    BY <1>5 DEF m

LEMMA FirstOfSegment ==
    ASSUME NEW s \in Nat, s >= 1, NEW q \in Nat, q >= 1
    PROVE  \E a \in 1 .. q : a % s = 1 % s /\ q <= a + s - 1
<1> DEFINE d == (q - 1) \div s
           r == (q - 1) % s
           a == d * s + 1
<1>1. d \in Nat /\ r \in 0 .. s - 1 /\ q - 1 = d * s + r
    OBVIOUS
<1> HIDE DEF d, r
<1>2. d * s \in Nat
    BY <1>1
<1>3. a \in 1 .. q /\ q <= a + s - 1
    BY <1>1, <1>2
<1>4. a % s = 1 % s
    <2>1. CASE s = 1
        BY <2>1, <1>1, <1>2
    <2>2. CASE s > 1
        <3>1. 1 % s = 1
            BY <2>2
        <3>2. a \in Nat /\ a = d * s + 1
            BY <1>2
        <3>3. a % s = 1
            BY <2>2, <1>1, <3>2, RemainderIsOne
        <3> QED
            BY <3>1, <3>3
    <2> QED
        BY <2>1, <2>2
<1> QED
    BY <1>3, <1>4

(* The segments of a task are runs of its items, and every item is in one. *)
LEMMA SegmentsOfTask ==
    ASSUME Setting, NEW p \in Puts, needs[p] \subseteq Pairs(p), NEW t \in Shards \X BOOLEAN
    PROVE  /\ \A seg \in Client!Segments(p, t) :
                /\ DOMAIN seg = 1 .. Len(seg) /\ Len(seg) \in Nat /\ Len(seg) >= 1
                /\ \E a \in DOMAIN Client!Items(p, t) : \A j \in DOMAIN seg :
                     /\ a + j - 1 \in DOMAIN Client!Items(p, t)
                     /\ seg[j] = Client!Items(p, t)[a + j - 1]
                     /\ seg[j] \in RowsAt(p, t)
           /\ \A k \in RowsAt(p, t) :
                \E seg \in Client!Segments(p, t) : \E j \in DOMAIN seg : seg[j] = k
<1> DEFINE items == Client!Items(p, t)
           L == Len(items)
           K == RowsAt(p, t)
           end(a) == Client!Min({a + SegmentSize - 1, L})
<1>1. /\ items \in Seq(K) /\ K \subseteq Nat
      /\ DOMAIN items = 1 .. L /\ L \in Nat
      /\ \A k \in K : \E q \in DOMAIN items : items[q] = k
    BY ItemsOfShard
<1>2. Client!Segments(p, t) =
        {SubSeq(items, a, end(a)) : a \in {b \in 1 .. L : b % SegmentSize = 1 % SegmentSize}}
    BY <1>1 DEF Client!Segments
<1>3. ASSUME NEW a \in 1 .. L
      PROVE  /\ end(a) \in a .. L
             /\ end(a) = IF a + SegmentSize - 1 <= L THEN a + SegmentSize - 1 ELSE L
    <2>1. a + SegmentSize - 1 \in Int /\ L \in Int /\ a + SegmentSize - 1 >= a /\ a <= L
        BY <1>1, ClientSizes
    <2>2. end(a) = IF a + SegmentSize - 1 <= L THEN a + SegmentSize - 1 ELSE L
        BY <2>1, SmallerOfTwo
    <2> HIDE DEF end
    <2> QED
        BY <2>1, <2>2
<1>0. L = Len(items)
    OBVIOUS
<1> HIDE DEF items, L, K, end
<1>4. ASSUME NEW a \in 1 .. L
      PROVE  LET seg == SubSeq(items, a, end(a))
             IN  /\ Len(seg) = end(a) - a + 1 /\ DOMAIN seg = 1 .. Len(seg)
                 /\ Len(seg) \in Nat /\ Len(seg) >= 1
                 /\ \A j \in 1 .. Len(seg) : /\ a + j - 1 \in 1 .. L
                                             /\ seg[j] = items[a + j - 1]
                                             /\ seg[j] \in K
    <2> DEFINE b == end(a)
    <2>1. b \in a .. L /\ a \in Nat /\ a >= 1 /\ b \in Nat
        BY <1>1, <1>3
    <2> HIDE DEF b
    <2>2. /\ Len(SubSeq(items, a, b)) = b - a + 1
          /\ DOMAIN SubSeq(items, a, b) = 1 .. b - a + 1
          /\ \A j \in 1 .. b - a + 1 : SubSeq(items, a, b)[j] = items[a + j - 1]
        BY <1>0, <1>1, <2>1
    <2>3. b - a + 1 \in Nat /\ b - a + 1 >= 1
          /\ \A j \in 1 .. b - a + 1 : a + j - 1 \in 1 .. L
        BY <1>1, <2>1
    <2>4. \A q \in 1 .. L : items[q] \in K
        BY <1>1
    <2> QED
        BY <2>2, <2>3, <2>4 DEF b
<1>5. ASSUME NEW seg \in Client!Segments(p, t)
      PROVE  /\ DOMAIN seg = 1 .. Len(seg) /\ Len(seg) \in Nat /\ Len(seg) >= 1
             /\ \E a \in DOMAIN items : \A j \in DOMAIN seg :
                  /\ a + j - 1 \in DOMAIN items
                  /\ seg[j] = items[a + j - 1]
                  /\ seg[j] \in K
    <2> PICK a \in 1 .. L : seg = SubSeq(items, a, end(a))
        BY <1>2
    <2> QED
        BY <1>1, <1>4, ZenonT(60)
<1>6. ASSUME NEW k \in K
      PROVE  \E seg \in Client!Segments(p, t) : \E j \in DOMAIN seg : seg[j] = k
    <2> PICK q \in 1 .. L : items[q] = k
        BY <1>1
    <2>1. q \in Nat /\ q >= 1 /\ SegmentSize \in Nat /\ SegmentSize >= 1
        BY <1>1, ClientSizes
    <2> PICK a \in 1 .. q : a % SegmentSize = 1 % SegmentSize /\ q <= a + SegmentSize - 1
        BY <2>1, FirstOfSegment
    <2> DEFINE seg == SubSeq(items, a, end(a))
               j == q - a + 1
    <2>2. a \in 1 .. L
        BY <1>1
    <2>3. seg \in Client!Segments(p, t)
        BY <1>2, <2>2
    <2>4. /\ Len(seg) = end(a) - a + 1 /\ DOMAIN seg = 1 .. Len(seg)
          /\ \A i \in 1 .. Len(seg) : seg[i] = items[a + i - 1]
        BY <1>4, <2>2
    <2>5. end(a) \in Int /\ q <= end(a)
        <3>1. end(a) = IF a + SegmentSize - 1 <= L THEN a + SegmentSize - 1 ELSE L
            BY <1>3, <2>2
        <3>2. q <= L /\ L \in Nat /\ a \in Nat /\ q <= a + SegmentSize - 1
            BY <1>1, <2>2
        <3> QED
            BY <3>1, <3>2, <2>1
    <2>6. j \in 1 .. (end(a) - a + 1) /\ a + j - 1 = q
        BY <2>1, <2>5
    <2> HIDE DEF seg, j
    <2>7. j \in DOMAIN seg /\ seg[j] = k
        BY <2>4, <2>6
    <2> QED
        BY <2>3, <2>7
<1> QED
    BY <1>5, <1>6 DEF items, L, K

(* What a message of a task carries, and who gets it.                      *)
LEMMA MessageOfTask ==
    ASSUME Setting, NEW p \in Puts, needs[p] \subseteq Pairs(p), NEW t \in Shards \X BOOLEAN,
           NEW seg \in Client!Segments(p, t)
    PROVE  LET m == Client!Message(p, t, seg)
           IN  /\ m.put = p /\ m.shared = t[2]
               /\ m.ids = {Client!Targets(p, t[2])[seg[j]] : j \in DOMAIN seg}
               /\ m.ids \subseteq Client!ToSet(Client!Targets(p, t[2]))
               /\ DOMAIN m.value = Client!ColumnsOf(p, t[2])
<1>1. \A j \in DOMAIN seg : seg[j] \in DOMAIN Client!Targets(p, t[2])
    BY SegmentsOfTask DEF RowsAt
<1>2. {Client!Targets(p, t[2])[seg[j]] : j \in DOMAIN seg}
        \subseteq Client!ToSet(Client!Targets(p, t[2]))
    BY <1>1 DEF Client!ToSet
<1> QED
    BY <1>2 DEF Client!Message

LEMMA TaskSendsAll ==
    ASSUME Setting, NEW p \in Puts, needs[p] \subseteq Pairs(p), NEW t \in Shards \X BOOLEAN,
           NEW i \in Client!ToSet(Client!Targets(p, t[2])), ShardOf[Client!Group(i)] = t[1]
    PROVE  \E seg \in Client!Segments(p, t) : i \in Client!Message(p, t, seg).ids
<1>1. PICK k \in DOMAIN Client!Targets(p, t[2]) : Client!Targets(p, t[2])[k] = i
    BY DEF Client!ToSet
<1>2. k \in RowsAt(p, t)
    BY <1>1 DEF RowsAt
<1>3. PICK seg \in Client!Segments(p, t) : \E j \in DOMAIN seg : seg[j] = k
    BY <1>2, SegmentsOfTask
<1>4. i \in Client!Message(p, t, seg).ids
    BY <1>1, <1>3, MessageOfTask
<1> QED
    BY <1>4

-----------------------------------------------------------------------------
(* What the manager and the puts say is stored *)

LEMMA InvariantReports ==
    ASSUME Setting, ClientInv PROVE Client!ReportedIsThere
<1>1. /\ Client!TypeOK /\ FreshRows /\ TrainerRows /\ ReportsHold
      /\ \A p \in Puts : AskedBy(p) /\ SentBy(p)
    BY DEF ClientInv
<1>2. Client!ReadyIsStored
    BY <1>1 DEF Client!ReadyIsStored, ReportsHold, Kept, Gone
<1>3. Client!WrittenIsReady
    BY <1>1 DEF Client!WrittenIsReady, ReportsHold, GroupHas, Has, Gone
<1>4. Client!PutIsReady
    <2> SUFFICES ASSUME NEW p \in Puts, pc[p] = "done", NEW c \in Carries[p],
                        NEW i \in Client!ToSet(Rows[p])
                 PROVE  Has(c, i)
        BY DEF Client!PutIsReady, Has, Gone
    <2>1. /\ needs[p] \subseteq Pairs(p)
          /\ \A shared \in BOOLEAN : \A j \in Client!ToSet(Client!Targets(p, shared)) :
               Reached(p, shared, j)
          /\ \A pair \in Pairs(p) : pair \in needs[p] \/ GroupHas(pair[1], pair[2])
        BY <1>1 DEF AskedBy, SentBy
    <2>2. /\ i \in Client!Indexes /\ Client!Group(i) \in Client!UniqueGroups(p)
          /\ Client!Group(i) \in Groups
          /\ i \in Client!Members(Client!Group(i))
        BY RowsOfPut, GroupsOfPut, GroupOfSample
    <2>3. CASE c \notin SharedColumns
        <3>1. c \in Client!ColumnsOf(p, FALSE)
            BY <2>3 DEF Client!ColumnsOf
        <3>2. Client!Targets(p, FALSE) = Rows[p]
            BY <2>1, TargetsOfPut
        <3>3. Reached(p, FALSE, i)
            BY <2>1, <3>2
        <3> QED
            BY <3>1, <3>3 DEF Reached, Stands
    <2>4. CASE c \in SharedColumns
        <3> DEFINE g == Client!Group(i)
        <3>1. <<c, g>> \in Pairs(p)
            BY <2>2, <2>4 DEF Pairs
        <3>2. CASE GroupHas(c, g)
            BY <3>2, <2>2 DEF GroupHas
        <3>3. CASE <<c, g>> \in needs[p]
            <4>1. c \in Client!SharedToSend(p) /\ g \in Client!GroupsToMark(p)
                BY <3>3 DEF Client!SharedToSend, Client!GroupsToMark
            <4>2. g * NSamples \in Client!ToSet(Client!Targets(p, TRUE))
                BY <4>1, <2>1, TargetsOfPut
            <4>3. Reached(p, TRUE, g * NSamples)
                BY <4>2, <2>1
            <4>4. Client!Group(g * NSamples) = g
                BY <2>2, SamplesOfGroup
            <4>5. c \in Client!ColumnsOf(p, TRUE)
                BY <4>1 DEF Client!ColumnsOf
            <4> HIDE DEF g
            <4>6. \A j \in Client!Members(g) : Has(c, j)
                BY <4>3, <4>4, <4>5 DEF Reached, Stands
            <4> QED
                BY <4>6, <2>2 DEF g
        <3> QED
            BY <3>1, <3>2, <3>3, <2>1
    <2> QED
        BY <2>3, <2>4
<1>5. Client!CompleteIsUsable
    <2> SUFFICES ASSUME NEW i \in Client!Indexes, Client!Complete(i),
                        i \notin delivered, i \notin lost, ~ Expected(i)
                 PROVE  i \in Client!Usable \cap routed
        BY DEF Client!CompleteIsUsable, Expected
    <2>1. \A c \in Columns : \E p \in Puts :
            pc[p] = "done" /\ c \in Carries[p] /\ i \in Client!ToSet(Rows[p])
        BY DEF Client!Complete
    <2>2. i \in routed
        <3>1. PICK p \in Puts : pc[p] = "done" /\ i \in Client!ToSet(Rows[p])
            BY <2>1 DEF Setting, Client!ClientAssumption
        <3> QED
            BY <1>1, <3>1 DEF FreshRows
    <2>3. \A c \in Columns : i \in ready[c]
        BY <1>4, <2>1, <2>2 DEF Client!PutIsReady
    <2>4. i \notin consumed
        BY <1>1 DEF TrainerRows
    <2> QED
        BY <2>2, <2>3, <2>4 DEF Client!Usable
<1> QED
    BY <1>2, <1>3, <1>4, <1>5 DEF Client!ReportedIsThere

(* What a sample has, or had when it was delivered, it keeps.              *)
Steady == \A c \in Columns : \A i : /\ Has(c, i) => Has(c, i)'
                                    /\ Kept(c, i) => Kept(c, i)'

LEMMA Unmoved ==
    ASSUME UNCHANGED <<delivered, routed, ready, store>>
    PROVE  Steady /\ Gone' = Gone
BY DEF Steady, Has, Kept, Gone

(* The trainer does nothing, and nothing it fetches is withdrawn.          *)
LEMMA TrainerWaits ==
    ASSUME TrainerRows, UNCHANGED <<trainer, consumed, delivered, lost>>, Gone' = Gone,
           routed \subseteq routed', \A c \in Columns : ready[c] \subseteq ready'[c]
    PROVE  TrainerRows'
BY DEF TrainerRows, Expected, Client!Group

LEMMA SteadyFacts ==
    ASSUME Setting, Steady, NEW p \in Puts, needs[p] \subseteq Pairs(p), needs'[p] = needs[p]
    PROVE  /\ \A shared \in BOOLEAN : /\ Client!ColumnsOf(p, shared)' = Client!ColumnsOf(p, shared)
                                      /\ Client!Targets(p, shared)' = Client!Targets(p, shared)
           /\ Client!ToMark(p)' = Client!ToMark(p)
           /\ \A c \in Columns : \A g : GroupHas(c, g) => GroupHas(c, g)'
           /\ \A shared \in BOOLEAN : \A i : Reached(p, shared, i) => Reached(p, shared, i)'
<1>1. /\ Client!SharedToSend(p)' = Client!SharedToSend(p)
      /\ Client!GroupsToMark(p)' = Client!GroupsToMark(p)
    BY DEF Client!SharedToSend, Client!GroupsToMark
<1>2. \A shared \in BOOLEAN : /\ Client!ColumnsOf(p, shared)' = Client!ColumnsOf(p, shared)
                              /\ Client!Targets(p, shared)' = Client!Targets(p, shared)
    BY <1>1 DEF Client!ColumnsOf, Client!Targets, Client!Ascending
<1>3. Client!ToMark(p)' = Client!ToMark(p)
    BY <1>1 DEF Client!ToMark
<1>4. \A c \in Columns : \A g : GroupHas(c, g) => GroupHas(c, g)'
    BY DEF GroupHas, Steady, Client!Members
<1>5. \A shared \in BOOLEAN : Client!ColumnsOf(p, shared) \subseteq Columns
    BY NeededGroups, ClientSizes DEF Client!ColumnsOf
<1>6. \A shared \in BOOLEAN : \A i : Reached(p, shared, i) => Reached(p, shared, i)'
    BY <1>2, <1>5 DEF Reached, Steady, Stands, Client!Members, Client!Group
<1> QED
    BY <1>2, <1>3, <1>4, <1>6

(* A put that does nothing, of which messages may be stored.               *)
LEMMA PutWaits ==
    ASSUME Setting, Steady, NEW p \in Puts, AskedBy(p), SentBy(p),
           pc'[p] = pc[p], todo'[p] = todo[p], needs'[p] = needs[p], unsent'[p] = unsent[p],
           \A m \in sent \cup stored : m.put = p =>
               m \in sent' \cup stored' \/ \A i \in m.ids : Reached(p, m.shared, i)'
    PROVE  AskedBy(p)' /\ SentBy(p)'
<1>1. needs[p] \subseteq Pairs(p)
    BY DEF AskedBy
<1>2. /\ \A shared \in BOOLEAN : /\ Client!ColumnsOf(p, shared)' = Client!ColumnsOf(p, shared)
                                 /\ Client!Targets(p, shared)' = Client!Targets(p, shared)
      /\ Client!ToMark(p)' = Client!ToMark(p)
      /\ \A c \in Columns : \A g : GroupHas(c, g) => GroupHas(c, g)'
      /\ \A shared \in BOOLEAN : \A i : Reached(p, shared, i) => Reached(p, shared, i)'
    BY <1>1, SteadyFacts
<1>3. \A pair \in Pairs(p) : pair[1] \in Columns
    BY ClientSizes DEF Pairs
<1>4. AskedBy(p)'
    BY <1>2, <1>3 DEF AskedBy, Pairs, Client!UniqueGroups, Client!Group
<1>5. \A shared \in BOOLEAN : \A i : OnTheWay(p, shared, i) => OnTheWay(p, shared, i)'
    BY <1>2 DEF OnTheWay, Client!Group
<1>6. SentBy(p)'
    BY <1>2, <1>5 DEF SentBy
<1> QED
    BY <1>4, <1>6

LEMMA MessageWaits ==
    ASSUME Setting, NEW m, MessageOf(m),
           \A p \in Puts : pc[p] \notin {"new", "ask"} =>
               needs'[p] = needs[p] /\ pc'[p] \notin {"new", "ask"}
    PROVE  MessageOf(m)'
<1>1. m.put \in Puts /\ m.shared \in BOOLEAN /\ needs'[m.put] = needs[m.put]
    BY DEF MessageOf
<1>2. /\ Client!ColumnsOf(m.put, m.shared)' = Client!ColumnsOf(m.put, m.shared)
      /\ Client!Targets(m.put, m.shared)' = Client!Targets(m.put, m.shared)
    BY <1>1 DEF Client!ColumnsOf, Client!Targets, Client!SharedToSend, Client!GroupsToMark,
               Client!Ascending
<1> QED
    BY <1>1, <1>2 DEF MessageOf, Client!ToSet

LEMMA MessageColumns ==
    ASSUME Setting, ClientInv, NEW m \in sent \cup stored
    PROVE  /\ m.put \in Puts /\ m.shared \in BOOLEAN /\ needs[m.put] \subseteq Pairs(m.put)
           /\ DOMAIN m.value \subseteq Columns
           /\ m.ids \subseteq Client!Indexes /\ Client!CoveredBy(m) \subseteq Client!Indexes
           /\ \A i \in m.ids : Stands(m.shared, i) \subseteq Client!CoveredBy(m)
<1>1. MessageOf(m) /\ m.put \in Puts /\ AskedBy(m.put)
    BY DEF ClientInv, MessageOf
<1>2. needs[m.put] \subseteq Pairs(m.put) /\ m.shared \in BOOLEAN
    BY <1>1 DEF AskedBy, MessageOf
<1>3. DOMAIN m.value \subseteq Columns
    BY <1>1, <1>2, NeededGroups, ClientSizes DEF MessageOf, Client!ColumnsOf
<1>4. m.ids \subseteq Client!Indexes
    BY DEF ClientInv, Client!TypeOK
<1>5. Client!CoveredBy(m) \subseteq Client!Indexes
    <2>1. \A i \in m.ids : /\ Client!Group(i) \in Groups
                           /\ Client!Members(Client!Group(i)) \subseteq Client!Indexes
        BY <1>4, GroupOfSample, SamplesOfGroup
    <2> QED
        BY <1>4, <2>1 DEF Client!CoveredBy
<1>6. \A i \in m.ids : Stands(m.shared, i) \subseteq Client!CoveredBy(m)
    BY DEF Stands, Client!CoveredBy
<1> QED
    BY <1>1, <1>2, <1>3, <1>4, <1>5, <1>6

LEMMA ReportsStay ==
    ASSUME Setting, ClientInv, Steady
    PROVE  /\ \A c \in Columns : \A i \in ready[c] : Kept(c, i)'
           /\ \A pair \in written : GroupHas(pair[1], pair[2])'
           /\ \A m \in stored : \A c \in DOMAIN m.value : \A i \in Client!CoveredBy(m) : Kept(c, i)'
<1>1. ReportsHold /\ written \subseteq SharedColumns \X Groups
    BY DEF ClientInv, Client!TypeOK
<1>2. \A c \in Columns : \A i \in ready[c] : Kept(c, i)'
    BY <1>1 DEF ReportsHold, Steady
<1>3. ASSUME NEW pair \in written PROVE GroupHas(pair[1], pair[2])'
    <2>1. pair[1] \in Columns
        BY <1>1, ClientSizes
    <2> QED
        BY <2>1, <1>1 DEF ReportsHold, Steady, GroupHas, Client!Members
<1>4. ASSUME NEW m \in stored, NEW c \in DOMAIN m.value, NEW i \in Client!CoveredBy(m)
      PROVE  Kept(c, i)'
    <2>1. c \in Columns
        BY MessageColumns
    <2>2. Kept(c, i)
        BY <1>1 DEF ReportsHold
    <2> QED
        BY <2>1, <2>2 DEF Steady
<1> QED
    BY <1>2, <1>3, <1>4

LEMMA PutsWait ==
    ASSUME Setting, ClientInv, Steady, UNCHANGED <<Client!putVars, sent, stored>>
    PROVE  /\ \A m \in (sent \cup stored)' : MessageOf(m)'
           /\ \A p \in Puts : AskedBy(p)' /\ SentBy(p)'
<1>1. /\ \A m \in sent \cup stored : MessageOf(m)
      /\ \A p \in Puts : AskedBy(p) /\ SentBy(p)
    BY DEF ClientInv
<1>2. pc' = pc /\ todo' = todo /\ needs' = needs /\ unsent' = unsent /\ sent' = sent
      /\ stored' = stored
    BY DEF Client!putVars
<1>3. \A m \in sent \cup stored : MessageOf(m)'
    BY <1>1, <1>2, MessageWaits
<1>4. ASSUME NEW p \in Puts PROVE AskedBy(p)' /\ SentBy(p)'
    BY <1>1, <1>2, PutWaits
<1> QED
    BY <1>2, <1>3, <1>4

(* A step of one put, with the shards and the trainer at rest.             *)
LEMMA OthersWait ==
    ASSUME Setting, ClientInv, Steady, NEW p \in Puts,
           \A q \in Puts \ {p} : /\ pc'[q] = pc[q] /\ todo'[q] = todo[q]
                                 /\ needs'[q] = needs[q] /\ unsent'[q] = unsent[q],
           sent \subseteq sent', stored' = stored,
           pc[p] \notin {"new", "ask"} => needs'[p] = needs[p] /\ pc'[p] \notin {"new", "ask"}
    PROVE  /\ \A m \in sent \cup stored : MessageOf(m)'
           /\ \A q \in Puts \ {p} : AskedBy(q)' /\ SentBy(q)'
<1>1. /\ \A m \in sent \cup stored : MessageOf(m)
      /\ \A q \in Puts : AskedBy(q) /\ SentBy(q)
    BY DEF ClientInv
<1>2. \A q \in Puts : pc[q] \notin {"new", "ask"} =>
          needs'[q] = needs[q] /\ pc'[q] \notin {"new", "ask"}
    OBVIOUS
<1>3. \A m \in sent \cup stored : MessageOf(m)'
    BY <1>1, <1>2, MessageWaits
<1>4. ASSUME NEW q \in Puts \ {p} PROVE AskedBy(q)' /\ SentBy(q)'
    BY <1>1, PutWaits
<1> QED
    BY <1>3, <1>4

LEMMA ClientStarts == ASSUME Setting, Client!Init PROVE ClientInv
<1>1. \A p \in Puts : /\ pc[p] = "new" /\ todo[p] = {} /\ needs[p] = {} /\ unsent[p] = {}
    BY DEF Client!Init
<1>2. /\ sent = {} /\ stored = {} /\ written = {} /\ routed = {} /\ delivered = {}
      /\ lost = {} /\ consumed = {}
      /\ \A c \in Columns : ready[c] = {} /\ DOMAIN store[c] = {}
      /\ trainer = [phase |-> "idle", batch |-> {}, waiting |-> {}]
    BY DEF Client!Init, Client!Idle
<1>3. Client!TypeOK
    BY <1>2 DEF Client!Init, Client!TypeOK
<1>4. FreshRows /\ TrainerRows /\ ReportsHold
    BY <1>1, <1>2 DEF FreshRows, TrainerRows, ReportsHold
<1>5. \A p \in Puts : AskedBy(p) /\ SentBy(p)
    BY <1>1 DEF AskedBy, SentBy
<1> QED
    BY <1>2, <1>3, <1>4, <1>5 DEF ClientInv

LEMMA StartPutKeeps ==
    ASSUME Setting, ClientInv, NEW p \in Puts, Client!StartPut(p) PROVE ClientInv'
<1> DEFINE R == Client!ToSet(Rows[p])
<1>1. Client!TypeOK /\ FreshRows /\ TrainerRows /\ AskedBy(p) /\ SentBy(p)
    BY DEF ClientInv
<1>2. /\ pc[p] = "new" /\ pc' = [pc EXCEPT ![p] = "ask"]
      /\ todo' = [todo EXCEPT ![p] = Pairs(p)]
      /\ routed' = routed \cup R
      /\ needs' = needs /\ unsent' = unsent /\ sent' = sent /\ stored' = stored
      /\ written' = written /\ ready' = ready /\ consumed' = consumed /\ store' = store
      /\ trainer' = trainer /\ delivered' = delivered /\ lost' = lost
    BY DEF Client!StartPut, Pairs, Client!trainerVars
<1>3. /\ pc'[p] = "ask" /\ todo'[p] = Pairs(p)
      /\ \A q \in Puts \ {p} : pc'[q] = pc[q] /\ todo'[q] = todo[q]
    BY <1>1, <1>2 DEF Client!TypeOK
<1>4. R \subseteq Client!Indexes
    BY RowsOfPut
<1>5. R \cap delivered \subseteq routed /\ (Reads[p] = {} \/ R \subseteq routed)
    <2>1. CASE Client!Allocates(p)
        BY <2>1, <1>1, <1>2 DEF Client!Allocates, FreshRows
    <2>2. CASE Client!HasFetched(p)
        BY <2>2 DEF Client!HasFetched
    <2> QED
        BY <2>1, <2>2 DEF Client!StartPut
<1> HIDE DEF R
<1>6. Gone' = Gone
    BY <1>2, <1>5 DEF Gone
<1>7. Steady
    BY <1>2, <1>6 DEF Steady, Has, Kept
<1>8. Client!TypeOK'
    <2>1. Pairs(p) \in SUBSET (SharedColumns \X Groups)
        BY GroupsOfPut DEF Pairs
    <2>2. todo' \in [Puts -> SUBSET (SharedColumns \X Groups)]
        BY <1>1, <1>2, <2>1 DEF Client!TypeOK
    <2>3. pc' \in [Puts -> {"new", "ask", "send", "mark", "done", "failed"}]
        BY <1>1, <1>2 DEF Client!TypeOK
    <2>4. routed' \subseteq Client!Indexes
        BY <1>1, <1>2, <1>4 DEF Client!TypeOK
    <2> QED
        BY <1>1, <1>2, <2>2, <2>3, <2>4 DEF Client!TypeOK
<1>9. FreshRows'
    <2>1. ASSUME NEW q \in Puts, pc'[q] = "new", Reads[q] = {}
          PROVE  Client!ToSet(Rows[q]) \cap (routed' \cup delivered') = {}
        <3>1. q # p /\ pc[q] = "new"
            BY <1>3, <2>1
        <3>2. Client!ToSet(Rows[q]) \cap (routed \cup delivered) = {}
            BY <2>1, <3>1, <1>1 DEF FreshRows
        <3>3. Reads[p] = {} => Client!ToSet(Rows[q]) \cap R = {}
            BY <2>1, <3>1 DEF Setting, AllocatedOnce, R
        <3> QED
            BY <3>2, <3>3, <1>2, <1>5
    <2>2. ASSUME NEW q \in Puts, pc'[q] # "new"
          PROVE  Client!ToSet(Rows[q]) \subseteq routed' \cup delivered'
        <3>1. CASE q = p
            BY <1>2, <3>1 DEF R
        <3>2. CASE q # p
            BY <1>1, <1>2, <1>3, <2>2, <3>2 DEF FreshRows
        <3> QED
            BY <3>1, <3>2
    <2> QED
        BY <2>1, <2>2 DEF FreshRows, Client!ToSet
<1>10. TrainerRows'
    BY <1>1, <1>2, <1>6, TrainerWaits
<1>11. ReportsHold'
    BY <1>2, <1>7, ReportsStay DEF ReportsHold, Client!CoveredBy
<1>12. /\ \A m \in sent \cup stored : MessageOf(m)'
       /\ \A q \in Puts \ {p} : AskedBy(q)' /\ SentBy(q)'
    BY <1>2, <1>3, <1>7, OthersWait
<1>13. AskedBy(p)' /\ SentBy(p)'
    BY <1>1, <1>2, <1>3 DEF AskedBy, SentBy, Pairs, Client!UniqueGroups, Client!Group
<1> QED
    BY <1>2, <1>8, <1>9, <1>10, <1>11, <1>12, <1>13 DEF ClientInv

(* A put that has asked for all its shared columns.                        *)
LEMMA PutHasAsked ==
    ASSUME Setting, Steady, NEW p \in Puts, AskedBy(p), pc[p] # "new",
           pc[p] = "ask" => todo[p] = {}, needs'[p] = needs[p],
           pc'[p] \in {"send", "mark", "done", "failed"},
           pc'[p] = "mark" => todo'[p] \subseteq Client!ToMark(p)
    PROVE  AskedBy(p)'
<1>1. needs[p] \subseteq Pairs(p)
    BY DEF AskedBy
<1>2. /\ Client!ToMark(p)' = Client!ToMark(p)
      /\ \A c \in Columns : \A g : GroupHas(c, g) => GroupHas(c, g)'
    BY <1>1, SteadyFacts
<1>3. \A x \in Pairs(p) : x[1] \in Columns
    BY ClientSizes DEF Pairs
<1>4. \A x \in Pairs(p) : x \in needs[p] \/ GroupHas(x[1], x[2])
    BY DEF AskedBy
<1>5. \A x \in Pairs(p) : x \in needs'[p] \/ GroupHas(x[1], x[2])'
    BY <1>2, <1>3, <1>4
<1> QED
    BY <1>1, <1>2, <1>5 DEF AskedBy, Pairs, Client!UniqueGroups, Client!Group

LEMMA AskWrittenKeeps ==
    ASSUME Setting, ClientInv, NEW p \in Puts, Client!AskWritten(p) PROVE ClientInv'
<1>1. Client!TypeOK /\ FreshRows /\ TrainerRows /\ ReportsHold /\ AskedBy(p) /\ SentBy(p)
    BY DEF ClientInv
<1>2. /\ pc[p] = "ask"
      /\ pc' = pc /\ unsent' = unsent /\ sent' = sent /\ stored' = stored
      /\ written' = written /\ routed' = routed /\ ready' = ready /\ consumed' = consumed
      /\ store' = store /\ trainer' = trainer /\ delivered' = delivered /\ lost' = lost
    BY DEF Client!AskWritten, Client!managerVars, Client!trainerVars
<1>3. PICK pair \in todo[p] :
        /\ todo' = [todo EXCEPT ![p] = @ \ {pair}]
        /\ needs' = [needs EXCEPT ![p] = IF pair \in written THEN @ ELSE @ \cup {pair}]
    BY DEF Client!AskWritten
<1>4. /\ todo'[p] = todo[p] \ {pair}
      /\ needs'[p] = IF pair \in written THEN needs[p] ELSE needs[p] \cup {pair}
      /\ \A q \in Puts \ {p} : needs'[q] = needs[q] /\ todo'[q] = todo[q]
    BY <1>1, <1>3 DEF Client!TypeOK
<1>5. pair \in Pairs(p) /\ todo[p] \subseteq Pairs(p) /\ needs[p] \subseteq Pairs(p)
    BY <1>1, <1>2 DEF AskedBy
<1>6. Pairs(p) \subseteq SharedColumns \X Groups
    BY GroupsOfPut DEF Pairs
<1>7. Steady /\ Gone' = Gone
    BY <1>2, Unmoved
<1>8. Client!TypeOK'
    <2>1. todo[p] \ {pair} \in SUBSET (SharedColumns \X Groups)
        BY <1>5, <1>6
    <2>2. (IF pair \in written THEN needs[p] ELSE needs[p] \cup {pair})
            \in SUBSET (SharedColumns \X Groups)
        BY <1>5, <1>6
    <2>3. /\ todo' \in [Puts -> SUBSET (SharedColumns \X Groups)]
          /\ needs' \in [Puts -> SUBSET (SharedColumns \X Groups)]
        BY <1>1, <1>3, <2>1, <2>2 DEF Client!TypeOK
    <2> QED
        BY <1>1, <1>2, <2>3 DEF Client!TypeOK
<1>9. FreshRows' /\ TrainerRows'
    BY <1>1, <1>2, <1>7, TrainerWaits DEF FreshRows
<1>10. ReportsHold'
    BY <1>2, <1>7, ReportsStay DEF ReportsHold, Client!CoveredBy
<1>11. /\ \A m \in sent \cup stored : MessageOf(m)'
       /\ \A q \in Puts \ {p} : AskedBy(q)' /\ SentBy(q)'
    BY <1>2, <1>4, <1>7, OthersWait
<1>12. AskedBy(p)'
    <2>1. needs'[p] \subseteq Pairs(p) /\ todo'[p] \subseteq Pairs(p)
        BY <1>4, <1>5
    <2>2. pair \in written => GroupHas(pair[1], pair[2])'
        BY <1>7, ReportsStay
    <2>3. \A x \in Pairs(p) : x[1] \in Columns
        BY ClientSizes DEF Pairs
    <2>4. \A c \in Columns : \A g : GroupHas(c, g) => GroupHas(c, g)'
        BY <1>7 DEF GroupHas, Steady, Client!Members
    <2>5. \A x \in Pairs(p) : x \in needs[p] \/ GroupHas(x[1], x[2]) \/ x \in todo[p]
        BY <1>1, <1>2 DEF AskedBy
    <2>6. \A x \in Pairs(p) : x \in needs'[p] \/ GroupHas(x[1], x[2])' \/ x \in todo'[p]
        BY <1>4, <2>2, <2>3, <2>4, <2>5
    <2> QED
        BY <1>2, <2>1, <2>6 DEF AskedBy, Pairs, Client!UniqueGroups, Client!Group
<1>13. SentBy(p)'
    BY <1>1, <1>2 DEF SentBy
<1> QED
    BY <1>2, <1>8, <1>9, <1>10, <1>11, <1>12, <1>13 DEF ClientInv

LEMMA RoutePutKeeps ==
    ASSUME Setting, ClientInv, NEW p \in Puts, Client!RoutePut(p) PROVE ClientInv'
<1>1. Client!TypeOK /\ FreshRows /\ TrainerRows /\ ReportsHold /\ AskedBy(p) /\ SentBy(p)
    BY DEF ClientInv
<1>2. /\ pc[p] = "ask" /\ todo[p] = {}
      /\ todo' = todo /\ needs' = needs /\ sent' = sent /\ stored' = stored
      /\ written' = written /\ routed' = routed /\ ready' = ready /\ consumed' = consumed
      /\ store' = store /\ trainer' = trainer /\ delivered' = delivered /\ lost' = lost
    BY DEF Client!RoutePut, Client!managerVars, Client!trainerVars
<1>3. \/ /\ pc' = [pc EXCEPT ![p] = "send"]
         /\ unsent' = [unsent EXCEPT ![p] = Client!Tasks(p)]
      \/ pc' = [pc EXCEPT ![p] = "failed"] /\ unsent' = unsent
    BY DEF Client!RoutePut
<1>4. /\ \/ pc'[p] = "send" /\ unsent'[p] = Client!Tasks(p)
         \/ pc'[p] = "failed" /\ unsent'[p] = unsent[p]
      /\ \A q \in Puts \ {p} : pc'[q] = pc[q] /\ unsent'[q] = unsent[q]
    BY <1>1, <1>3 DEF Client!TypeOK
<1>5. needs[p] \subseteq Pairs(p)
    BY <1>1 DEF AskedBy
<1>6. Steady /\ Gone' = Gone
    BY <1>2, Unmoved
<1>7. Client!TypeOK'
    <2>1. Client!Tasks(p) \in SUBSET (Shards \X BOOLEAN)
        BY DEF Client!Tasks
    <2>2. unsent' \in [Puts -> SUBSET (Shards \X BOOLEAN)]
        BY <1>1, <1>3, <2>1 DEF Client!TypeOK
    <2>3. pc' \in [Puts -> {"new", "ask", "send", "mark", "done", "failed"}]
        BY <1>1, <1>3 DEF Client!TypeOK
    <2> QED
        BY <1>1, <1>2, <2>2, <2>3 DEF Client!TypeOK
<1>8. FreshRows'
    BY <1>1, <1>2, <1>4 DEF FreshRows
<1>9. TrainerRows'
    BY <1>1, <1>2, <1>6, TrainerWaits
<1>10. ReportsHold'
    BY <1>2, <1>6, ReportsStay DEF ReportsHold, Client!CoveredBy
<1>11. /\ \A m \in sent \cup stored : MessageOf(m)'
       /\ \A q \in Puts \ {p} : AskedBy(q)' /\ SentBy(q)'
    BY <1>2, <1>4, <1>6, OthersWait
<1>12. /\ \A shared \in BOOLEAN : /\ Client!ColumnsOf(p, shared)' = Client!ColumnsOf(p, shared)
                                  /\ Client!Targets(p, shared)' = Client!Targets(p, shared)
       /\ \A c \in Columns : \A g : GroupHas(c, g) => GroupHas(c, g)'
    BY <1>2, <1>5, <1>6, SteadyFacts
<1>13. AskedBy(p)'
    BY <1>1, <1>2, <1>4, <1>6, PutHasAsked
<1>14. SentBy(p)'
    <2>1. CASE pc'[p] = "failed" /\ unsent'[p] = unsent[p]
        BY <2>1 DEF SentBy
    <2>2. CASE pc'[p] = "send" /\ unsent'[p] = Client!Tasks(p)
        <3>1. ASSUME NEW shared \in BOOLEAN, Client!ColumnsOf(p, shared) # {},
                     NEW i \in Client!ToSet(Client!Targets(p, shared))
              PROVE  <<ShardOf[Client!Group(i)], shared>> \in Client!Tasks(p)
            <4>1. i \in Client!Indexes
                BY <1>5, TargetsOfPut DEF Client!ToSet
            <4>2. ShardOf[Client!Group(i)] \in Shards
                BY <4>1, GroupOfSample, ClientSizes
            <4> QED
                BY <3>1, <4>2 DEF Client!Tasks
        <3>2. ASSUME NEW shared \in BOOLEAN, Client!ColumnsOf(p, shared)' # {},
                     NEW i \in Client!ToSet(Client!Targets(p, shared)')
              PROVE  OnTheWay(p, shared, i)'
            BY <2>2, <3>1, <3>2, <1>12 DEF OnTheWay, Client!Group
        <3> QED
            BY <2>2, <3>2 DEF SentBy, Client!ToSet
    <2> QED
        BY <1>4, <2>1, <2>2
<1> QED
    BY <1>2, <1>7, <1>8, <1>9, <1>10, <1>11, <1>13, <1>14 DEF ClientInv

LEMMA SendTaskKeeps ==
    ASSUME Setting, ClientInv, NEW p \in Puts, Client!SendTask(p) PROVE ClientInv'
<1>1. Client!TypeOK /\ FreshRows /\ TrainerRows /\ ReportsHold /\ AskedBy(p) /\ SentBy(p)
    BY DEF ClientInv
<1>2. /\ pc[p] \in {"send", "failed"}
      /\ todo' = todo /\ needs' = needs /\ stored' = stored
      /\ written' = written /\ routed' = routed /\ ready' = ready /\ consumed' = consumed
      /\ store' = store /\ trainer' = trainer /\ delivered' = delivered /\ lost' = lost
    BY DEF Client!SendTask, Client!managerVars, Client!trainerVars
<1>3. PICK t \in unsent[p] :
        /\ unsent' = [unsent EXCEPT ![p] = @ \ {t}]
        /\ sent' = sent \cup {Client!Message(p, t, seg) :
                     seg \in {seg \in Client!Segments(p, t) : Client!InRange(p, t, seg)}}
        /\ pc' = IF \A seg \in Client!Segments(p, t) : Client!InRange(p, t, seg)
                 THEN pc ELSE [pc EXCEPT ![p] = "failed"]
    BY DEF Client!SendTask
<1>4. t \in Shards \X BOOLEAN /\ t[2] \in BOOLEAN
    BY <1>1 DEF Client!TypeOK
<1>5. /\ unsent'[p] = unsent[p] \ {t}
      /\ pc'[p] \in {pc[p], "failed"}
      /\ pc'[p] = "send" => \A seg \in Client!Segments(p, t) : Client!Message(p, t, seg) \in sent'
      /\ \A q \in Puts \ {p} : pc'[q] = pc[q] /\ unsent'[q] = unsent[q]
    BY <1>1, <1>3 DEF Client!TypeOK
<1>6. needs[p] \subseteq Pairs(p)
    BY <1>1 DEF AskedBy
<1>7. Steady /\ Gone' = Gone
    BY <1>2, Unmoved
<1>8. \A m \in sent' \ sent :
        /\ m.put = p /\ m.shared = t[2] /\ m.ids \subseteq Client!ToSet(Client!Targets(p, t[2]))
        /\ DOMAIN m.value = Client!ColumnsOf(p, t[2])
    BY <1>3, <1>4, <1>6, MessageOfTask
<1>9. Client!TypeOK'
    <2>1. unsent' \in [Puts -> SUBSET (Shards \X BOOLEAN)]
        BY <1>1, <1>3 DEF Client!TypeOK
    <2>2. pc' \in [Puts -> {"new", "ask", "send", "mark", "done", "failed"}]
        BY <1>1, <1>3 DEF Client!TypeOK
    <2>3. Client!ToSet(Client!Targets(p, t[2])) \subseteq Client!Indexes
        BY <1>4, <1>6, TargetsOfPut DEF Client!ToSet
    <2>4. \A m \in sent' \cup stored' : m.put \in Puts /\ m.ids \subseteq Client!Indexes
        BY <1>1, <1>2, <1>8, <2>3 DEF Client!TypeOK
    <2> QED
        BY <1>1, <1>2, <2>1, <2>2, <2>4 DEF Client!TypeOK
<1>10. FreshRows'
    BY <1>1, <1>2, <1>5 DEF FreshRows
<1>11. TrainerRows'
    BY <1>1, <1>2, <1>7, TrainerWaits
<1>12. ReportsHold'
    BY <1>2, <1>7, ReportsStay DEF ReportsHold, Client!CoveredBy
<1>13. sent \subseteq sent'
    BY <1>3
<1>14. pc'[p] \notin {"new", "ask"}
    BY <1>2, <1>5
<1>15. /\ \A m \in sent \cup stored : MessageOf(m)'
       /\ \A q \in Puts \ {p} : AskedBy(q)' /\ SentBy(q)'
    BY <1>2, <1>5, <1>7, <1>13, <1>14, OthersWait
<1>16. /\ \A shared \in BOOLEAN : /\ Client!ColumnsOf(p, shared)' = Client!ColumnsOf(p, shared)
                                  /\ Client!Targets(p, shared)' = Client!Targets(p, shared)
       /\ \A c \in Columns : \A g : GroupHas(c, g) => GroupHas(c, g)'
       /\ \A shared \in BOOLEAN : \A i : Reached(p, shared, i) => Reached(p, shared, i)'
    BY <1>2, <1>6, <1>7, SteadyFacts
<1>17. ASSUME NEW m \in sent' \ sent PROVE MessageOf(m)'
    <2>1. m.put = p /\ m.shared = t[2] /\ m.shared \in BOOLEAN
        BY <1>4, <1>8
    <2>2. /\ m.ids \subseteq Client!ToSet(Client!Targets(p, m.shared))
          /\ DOMAIN m.value = Client!ColumnsOf(p, m.shared)
        BY <1>8, <2>1
    <2> QED
        BY <1>14, <1>16, <2>1, <2>2 DEF MessageOf, Client!ToSet
<1>18. AskedBy(p)'
    BY <1>1, <1>2, <1>5, <1>7, PutHasAsked
<1>19. SentBy(p)'
    <2>1. pc'[p] \in {"send", "failed"}
        BY <1>2, <1>5
    <2>2. ASSUME pc'[p] = "send", NEW shared \in BOOLEAN, Client!ColumnsOf(p, shared)' # {},
                 NEW i \in Client!ToSet(Client!Targets(p, shared)')
          PROVE  OnTheWay(p, shared, i)'
        <3>1. Client!ColumnsOf(p, shared) # {} /\ i \in Client!ToSet(Client!Targets(p, shared))
            BY <2>2, <1>16
        <3>2. pc[p] = "send"
            BY <2>2, <1>2, <1>5
        <3>3. OnTheWay(p, shared, i)
            BY <1>1, <3>1, <3>2 DEF SentBy
        <3>4. CASE <<ShardOf[Client!Group(i)], shared>> = t
            <4>1. t[1] = ShardOf[Client!Group(i)] /\ t[2] = shared
                BY <3>4
            <4>2. PICK seg \in Client!Segments(p, t) : i \in Client!Message(p, t, seg).ids
                BY <3>1, <4>1, <1>4, <1>6, TaskSendsAll
            <4>3. Client!Message(p, t, seg) \in sent'
                BY <2>2, <1>5
            <4>4. Client!Message(p, t, seg).put = p /\ Client!Message(p, t, seg).shared = shared
                BY <4>1, <1>4, <1>6, MessageOfTask
            <4> QED
                BY <4>2, <4>3, <4>4 DEF OnTheWay
        <3>5. CASE <<ShardOf[Client!Group(i)], shared>> # t
            BY <3>3, <3>5, <1>2, <1>5, <1>13, <1>16 DEF OnTheWay, Client!Group
        <3> QED
            BY <3>4, <3>5
    <2> QED
        BY <2>1, <2>2 DEF SentBy, Client!ToSet
<1>20. \A m \in sent' \cup stored' : MessageOf(m)'
    BY <1>2, <1>15, <1>17
<1> QED
    BY <1>9, <1>10, <1>11, <1>12, <1>15, <1>18, <1>19, <1>20 DEF ClientInv

LEMMA StartMarksKeeps ==
    ASSUME Setting, ClientInv, NEW p \in Puts, Client!StartMarks(p) PROVE ClientInv'
<1>1. Client!TypeOK /\ FreshRows /\ TrainerRows /\ ReportsHold /\ AskedBy(p) /\ SentBy(p)
    BY DEF ClientInv
<1>2. /\ pc[p] = "send" /\ Client!Acknowledged(p)
      /\ pc' = [pc EXCEPT ![p] = "mark"] /\ todo' = [todo EXCEPT ![p] = Client!ToMark(p)]
      /\ needs' = needs /\ unsent' = unsent /\ sent' = sent /\ stored' = stored
      /\ written' = written /\ routed' = routed /\ ready' = ready /\ consumed' = consumed
      /\ store' = store /\ trainer' = trainer /\ delivered' = delivered /\ lost' = lost
    BY DEF Client!StartMarks, Client!managerVars, Client!trainerVars
<1>3. /\ pc'[p] = "mark" /\ todo'[p] = Client!ToMark(p)
      /\ \A q \in Puts \ {p} : pc'[q] = pc[q] /\ todo'[q] = todo[q]
    BY <1>1, <1>2 DEF Client!TypeOK
<1>4. needs[p] \subseteq Pairs(p)
    BY <1>1 DEF AskedBy
<1>5. Steady /\ Gone' = Gone
    BY <1>2, Unmoved
<1>6. Client!TypeOK'
    <2>1. Client!ToMark(p) \in SUBSET (SharedColumns \X Groups)
        BY <1>4, NeededGroups DEF Client!ToMark
    <2>2. todo' \in [Puts -> SUBSET (SharedColumns \X Groups)]
        BY <1>1, <1>2, <2>1 DEF Client!TypeOK
    <2>3. pc' \in [Puts -> {"new", "ask", "send", "mark", "done", "failed"}]
        BY <1>1, <1>2 DEF Client!TypeOK
    <2> QED
        BY <1>1, <1>2, <2>2, <2>3 DEF Client!TypeOK
<1>7. FreshRows'
    BY <1>1, <1>2, <1>3 DEF FreshRows
<1>8. TrainerRows'
    BY <1>1, <1>2, <1>5, TrainerWaits
<1>9. ReportsHold'
    BY <1>2, <1>5, ReportsStay DEF ReportsHold, Client!CoveredBy
<1>10. /\ \A m \in sent \cup stored : MessageOf(m)'
       /\ \A q \in Puts \ {p} : AskedBy(q)' /\ SentBy(q)'
    BY <1>2, <1>3, <1>5, OthersWait
<1>11. /\ \A shared \in BOOLEAN : /\ Client!ColumnsOf(p, shared)' = Client!ColumnsOf(p, shared)
                                  /\ Client!Targets(p, shared)' = Client!Targets(p, shared)
       /\ Client!ToMark(p)' = Client!ToMark(p)
       /\ \A c \in Columns : \A g : GroupHas(c, g) => GroupHas(c, g)'
       /\ \A shared \in BOOLEAN : \A i : Reached(p, shared, i) => Reached(p, shared, i)'
    BY <1>2, <1>4, <1>5, SteadyFacts
<1>12. AskedBy(p)'
    BY <1>1, <1>2, <1>3, <1>5, PutHasAsked
<1>13. SentBy(p)'
    <2>1. unsent[p] = {} /\ \A m \in sent \cup stored : m.put # p
        BY <1>2 DEF Client!Acknowledged
    <2>2. ASSUME NEW shared \in BOOLEAN, NEW i \in Client!ToSet(Client!Targets(p, shared))
          PROVE  Reached(p, shared, i)
        <3>1. CASE Client!ColumnsOf(p, shared) = {}
            BY <3>1 DEF Reached
        <3>2. CASE Client!ColumnsOf(p, shared) # {}
            BY <1>1, <1>2, <2>1, <3>2 DEF SentBy, OnTheWay
        <3> QED
            BY <3>1, <3>2
    <2> QED
        BY <1>2, <1>3, <1>11, <2>1, <2>2 DEF SentBy, Client!ToSet
<1> QED
    BY <1>2, <1>6, <1>7, <1>8, <1>9, <1>10, <1>12, <1>13 DEF ClientInv

LEMMA MarkWrittenKeeps ==
    ASSUME Setting, ClientInv, NEW p \in Puts, Client!MarkWritten(p) PROVE ClientInv'
<1>1. Client!TypeOK /\ FreshRows /\ TrainerRows /\ ReportsHold /\ AskedBy(p) /\ SentBy(p)
    BY DEF ClientInv
<1>2. /\ pc[p] = "mark" /\ pc' = pc
      /\ needs' = needs /\ unsent' = unsent /\ sent' = sent /\ stored' = stored
      /\ routed' = routed /\ ready' = ready /\ consumed' = consumed
      /\ store' = store /\ trainer' = trainer /\ delivered' = delivered /\ lost' = lost
    BY DEF Client!MarkWritten, Client!trainerVars
<1>3. PICK pair \in todo[p] : /\ todo' = [todo EXCEPT ![p] = @ \ {pair}]
                              /\ written' = written \cup {pair}
    BY DEF Client!MarkWritten
<1>4. todo'[p] = todo[p] \ {pair} /\ \A q \in Puts \ {p} : todo'[q] = todo[q]
    BY <1>1, <1>3 DEF Client!TypeOK
<1>5. needs[p] \subseteq Pairs(p) /\ todo[p] \subseteq Client!ToMark(p)
    BY <1>1, <1>2 DEF AskedBy
<1>6. Steady /\ Gone' = Gone
    BY <1>2, Unmoved
<1>7. pair \in SharedColumns \X Groups
    BY <1>1 DEF Client!TypeOK
<1>8. Client!TypeOK'
    <2>1. todo' \in [Puts -> SUBSET (SharedColumns \X Groups)]
        BY <1>1, <1>3 DEF Client!TypeOK
    <2>2. written' \subseteq SharedColumns \X Groups
        BY <1>1, <1>3, <1>7 DEF Client!TypeOK
    <2> QED
        BY <1>1, <1>2, <2>1, <2>2 DEF Client!TypeOK
<1>9. FreshRows' /\ TrainerRows'
    BY <1>1, <1>2, <1>6, TrainerWaits DEF FreshRows
<1>10. /\ \A shared \in BOOLEAN : /\ Client!ColumnsOf(p, shared)' = Client!ColumnsOf(p, shared)
                                  /\ Client!Targets(p, shared)' = Client!Targets(p, shared)
       /\ Client!ToMark(p)' = Client!ToMark(p)
       /\ \A c \in Columns : \A g : GroupHas(c, g) => GroupHas(c, g)'
       /\ \A shared \in BOOLEAN : \A i : Reached(p, shared, i) => Reached(p, shared, i)'
    BY <1>2, <1>5, <1>6, SteadyFacts
<1>11. GroupHas(pair[1], pair[2])
    <2> DEFINE c == pair[1]
               g == pair[2]
    <2>1. c \in Client!SharedToSend(p) /\ g \in Client!GroupsToMark(p) /\ g \in Groups
        BY <1>5, <1>7 DEF Client!ToMark
    <2> HIDE DEF c, g
    <2>2. g * NSamples \in Client!ToSet(Client!Targets(p, TRUE)) /\ Client!Group(g * NSamples) = g
        BY <1>5, <2>1, TargetsOfPut, SamplesOfGroup
    <2>3. Reached(p, TRUE, g * NSamples)
        BY <1>1, <1>2, <2>2 DEF SentBy
    <2>4. GroupHas(c, g)
        BY <2>1, <2>2, <2>3 DEF Reached, Stands, Client!ColumnsOf, GroupHas
    <2> QED
        BY <2>4 DEF c, g
<1>12. ReportsHold'
    <2>1. GroupHas(pair[1], pair[2])'
        BY <1>7, <1>10, <1>11, ClientSizes
    <2> QED
        BY <1>2, <1>3, <1>6, <2>1, ReportsStay DEF ReportsHold, Client!CoveredBy
<1>13. /\ \A m \in sent \cup stored : MessageOf(m)'
       /\ \A q \in Puts \ {p} : AskedBy(q)' /\ SentBy(q)'
    BY <1>2, <1>4, <1>6, OthersWait
<1>14. AskedBy(p)'
    BY <1>1, <1>2, <1>4, <1>5, <1>6, PutHasAsked
<1>15. SentBy(p)'
    BY <1>1, <1>2, <1>10 DEF SentBy, Client!ToSet
<1> QED
    BY <1>2, <1>8, <1>9, <1>12, <1>13, <1>14, <1>15 DEF ClientInv

LEMMA FinishPutKeeps ==
    ASSUME Setting, ClientInv, NEW p \in Puts, Client!FinishPut(p) PROVE ClientInv'
<1>1. Client!TypeOK /\ FreshRows /\ TrainerRows /\ ReportsHold /\ AskedBy(p) /\ SentBy(p)
    BY DEF ClientInv
<1>2. /\ pc[p] = "mark" /\ pc' = [pc EXCEPT ![p] = "done"]
      /\ todo' = todo /\ needs' = needs /\ unsent' = unsent /\ sent' = sent /\ stored' = stored
      /\ written' = written /\ routed' = routed /\ ready' = ready /\ consumed' = consumed
      /\ store' = store /\ trainer' = trainer /\ delivered' = delivered /\ lost' = lost
    BY DEF Client!FinishPut, Client!managerVars, Client!trainerVars
<1>3. pc'[p] = "done" /\ \A q \in Puts \ {p} : pc'[q] = pc[q]
    BY <1>1, <1>2 DEF Client!TypeOK
<1>4. needs[p] \subseteq Pairs(p)
    BY <1>1 DEF AskedBy
<1>5. Steady /\ Gone' = Gone
    BY <1>2, Unmoved
<1>6. Client!TypeOK'
    <2>1. pc' \in [Puts -> {"new", "ask", "send", "mark", "done", "failed"}]
        BY <1>1, <1>2 DEF Client!TypeOK
    <2> QED
        BY <1>1, <1>2, <2>1 DEF Client!TypeOK
<1>7. FreshRows'
    BY <1>1, <1>2, <1>3 DEF FreshRows
<1>8. TrainerRows'
    BY <1>1, <1>2, <1>5, TrainerWaits
<1>9. ReportsHold'
    BY <1>2, <1>5, ReportsStay DEF ReportsHold, Client!CoveredBy
<1>10. /\ \A m \in sent \cup stored : MessageOf(m)'
       /\ \A q \in Puts \ {p} : AskedBy(q)' /\ SentBy(q)'
    BY <1>2, <1>3, <1>5, OthersWait
<1>11. /\ \A shared \in BOOLEAN : /\ Client!ColumnsOf(p, shared)' = Client!ColumnsOf(p, shared)
                                  /\ Client!Targets(p, shared)' = Client!Targets(p, shared)
       /\ \A c \in Columns : \A g : GroupHas(c, g) => GroupHas(c, g)'
       /\ \A shared \in BOOLEAN : \A i : Reached(p, shared, i) => Reached(p, shared, i)'
    BY <1>2, <1>4, <1>5, SteadyFacts
<1>12. AskedBy(p)'
    BY <1>1, <1>2, <1>3, <1>5, PutHasAsked
<1>13. SentBy(p)'
    BY <1>1, <1>2, <1>3, <1>11 DEF SentBy, Client!ToSet
<1> QED
    BY <1>2, <1>6, <1>7, <1>8, <1>9, <1>10, <1>12, <1>13 DEF ClientInv

LEMMA StoreMessageKeeps ==
    ASSUME Setting, ClientInv, NEW m, Client!StoreMessage(m) PROVE ClientInv'
<1>1. Client!TypeOK /\ FreshRows /\ TrainerRows /\ ReportsHold
      /\ \A p \in Puts : AskedBy(p) /\ SentBy(p)
    BY DEF ClientInv
<1>2. /\ m \in sent /\ sent' = sent \ {m} /\ stored' = stored \cup {m}
      /\ store' = [c \in Columns |->
           IF c \notin DOMAIN m.value THEN store[c]
           ELSE [i \in DOMAIN store[c] \cup Client!CoveredBy(m) |->
                   IF i \in Client!CoveredBy(m) THEN Client!ValueFor(m, c, i) ELSE store[c][i]]]
      /\ pc' = pc /\ todo' = todo /\ needs' = needs /\ unsent' = unsent
      /\ written' = written /\ routed' = routed /\ ready' = ready /\ consumed' = consumed
      /\ trainer' = trainer /\ delivered' = delivered /\ lost' = lost
    BY DEF Client!StoreMessage, Client!putVars, Client!managerVars, Client!trainerVars
<1>3. /\ MessageOf(m) /\ m.put \in Puts /\ m.shared \in BOOLEAN
      /\ DOMAIN m.value \subseteq Columns /\ Client!CoveredBy(m) \subseteq Client!Indexes
      /\ \A i \in m.ids : Stands(m.shared, i) \subseteq Client!CoveredBy(m)
      /\ needs[m.put] \subseteq Pairs(m.put)
    BY <1>2, MessageColumns DEF ClientInv
<1>4. \A c \in Columns :
        DOMAIN store'[c] = IF c \notin DOMAIN m.value THEN DOMAIN store[c]
                           ELSE DOMAIN store[c] \cup Client!CoveredBy(m)
    BY <1>2
<1>5. Gone' = Gone
    BY <1>2 DEF Gone
<1>6. Steady
    BY <1>2, <1>4, <1>5 DEF Steady, Has, Kept
<1>7. \A c \in DOMAIN m.value : \A i \in Client!CoveredBy(m) : Kept(c, i)'
    BY <1>3, <1>4 DEF Kept
<1>8. Client!TypeOK'
    <2>1. \A c \in Columns : DOMAIN store'[c] \subseteq Client!Indexes
        BY <1>1, <1>3, <1>4 DEF Client!TypeOK
    <2>2. \A x \in sent' \cup stored' : x.put \in Puts /\ x.ids \subseteq Client!Indexes
        BY <1>1, <1>2 DEF Client!TypeOK
    <2> QED
        BY <1>1, <1>2, <2>1, <2>2 DEF Client!TypeOK
<1>9. FreshRows' /\ TrainerRows'
    BY <1>1, <1>2, <1>5, TrainerWaits DEF FreshRows
<1>10. ReportsHold'
    BY <1>2, <1>6, <1>7, ReportsStay DEF ReportsHold, Client!CoveredBy
<1>11. \A x \in sent' \cup stored' : MessageOf(x)'
    <2>1. \A x \in sent \cup stored : MessageOf(x)
        BY DEF ClientInv
    <2>2. \A x \in sent \cup stored : MessageOf(x)'
        BY <1>2, <2>1, MessageWaits
    <2> QED
        BY <1>2, <2>2
<1>12. ASSUME NEW p \in Puts PROVE AskedBy(p)' /\ SentBy(p)'
    BY <1>1, <1>2, <1>6, PutWaits
<1> QED
    BY <1>8, <1>9, <1>10, <1>11, <1>12 DEF ClientInv

LEMMA ReportStatusKeeps ==
    ASSUME Setting, ClientInv, NEW m, Client!ReportStatus(m) PROVE ClientInv'
<1>1. Client!TypeOK /\ FreshRows /\ TrainerRows /\ ReportsHold
      /\ \A p \in Puts : AskedBy(p) /\ SentBy(p)
    BY DEF ClientInv
<1>2. /\ m \in stored /\ stored' = stored \ {m} /\ sent' = sent
      /\ ready' = [c \in Columns |->
           IF c \in DOMAIN m.value THEN ready[c] \cup Client!CoveredBy(m) ELSE ready[c]]
      /\ pc' = pc /\ todo' = todo /\ needs' = needs /\ unsent' = unsent
      /\ written' = written /\ routed' = routed /\ store' = store /\ consumed' = consumed
      /\ trainer' = trainer /\ delivered' = delivered /\ lost' = lost
    BY DEF Client!ReportStatus, Client!ReportedAt, Client!putVars, Client!trainerVars
<1>3. /\ MessageOf(m) /\ m.put \in Puts /\ m.shared \in BOOLEAN
      /\ DOMAIN m.value \subseteq Columns /\ Client!CoveredBy(m) \subseteq Client!Indexes
      /\ \A i \in m.ids : Stands(m.shared, i) \subseteq Client!CoveredBy(m)
      /\ needs[m.put] \subseteq Pairs(m.put)
    BY <1>2, MessageColumns DEF ClientInv
<1>4. Steady /\ Gone' = Gone
    BY <1>2 DEF Steady, Has, Kept, Gone
<1>5. Client!TypeOK'
    <2>1. ready' \in [Columns -> SUBSET Client!Indexes]
        BY <1>1, <1>2, <1>3 DEF Client!TypeOK
    <2> QED
        BY <1>1, <1>2, <2>1 DEF Client!TypeOK
<1>6. FreshRows' /\ TrainerRows'
    BY <1>1, <1>2, <1>4, TrainerWaits DEF FreshRows
<1>7. ReportsHold'
    <2>1. \A c \in Columns : \A i \in ready'[c] : Kept(c, i)'
        BY <1>2, <1>4, ReportsStay
    <2> QED
        BY <1>2, <1>4, <2>1, ReportsStay DEF ReportsHold, Client!CoveredBy
<1>8. \A x \in sent' \cup stored' : MessageOf(x)'
    <2>1. \A x \in sent \cup stored : MessageOf(x)
        BY DEF ClientInv
    <2>2. \A x \in sent \cup stored : MessageOf(x)'
        BY <1>2, <2>1, MessageWaits
    <2> QED
        BY <1>2, <2>2
<1>9. \A i \in m.ids : Reached(m.put, m.shared, i)'
    <2>1. Client!ColumnsOf(m.put, m.shared)' = DOMAIN m.value
        BY <1>2, <1>3, <1>4, SteadyFacts DEF MessageOf
    <2>2. \A c \in DOMAIN m.value : \A i \in Client!CoveredBy(m) : Has(c, i)'
        BY <1>2, <1>3 DEF Has
    <2> QED
        BY <1>3, <2>1, <2>2 DEF Reached, Stands, Client!Members, Client!Group
<1>10. ASSUME NEW p \in Puts PROVE AskedBy(p)' /\ SentBy(p)'
    <2>1. \A x \in sent \cup stored : x.put = p =>
            x \in sent' \cup stored' \/ \A i \in x.ids : Reached(p, x.shared, i)'
        BY <1>2, <1>9
    <2> QED
        BY <1>1, <1>2, <1>4, <2>1, PutWaits
<1> QED
    BY <1>5, <1>6, <1>7, <1>8, <1>10 DEF ClientInv

-----------------------------------------------------------------------------
(* The trainer's steps *)

(* Nothing changes for the trainer's steps but what it has and the marks.  *)
LEMMA TrainerKeeps ==
    ASSUME Setting, ClientInv, Steady, UNCHANGED <<Client!putVars, sent, stored>>, Client!TypeOK',
           \A c \in Columns : ready'[c] \subseteq ready[c], written' \subseteq written,
           routed' \subseteq routed, delivered \subseteq delivered',
           delivered' \subseteq delivered \cup routed, routed \subseteq routed' \cup delivered',
           TrainerRows'
    PROVE  ClientInv'
<1>1. /\ \A m \in (sent \cup stored)' : MessageOf(m)'
      /\ \A p \in Puts : AskedBy(p)' /\ SentBy(p)'
    BY PutsWait
<1>2. FreshRows'
    <2>1. FreshRows /\ pc' = pc
        BY DEF ClientInv, Client!putVars
    <2> QED
        BY <2>1 DEF FreshRows
<1>3. ReportsHold'
    BY ReportsStay DEF ReportsHold, Client!CoveredBy
<1> QED
    BY <1>1, <1>2, <1>3 DEF ClientInv

LEMMA StartFetchKeeps ==
    ASSUME Setting, ClientInv, NEW batch \in SUBSET Client!Indexes, Client!StartFetch(batch)
    PROVE  ClientInv'
<1>1. Client!TypeOK /\ TrainerRows
    BY DEF ClientInv
<1>2. /\ \A c \in Columns : batch \subseteq ready[c]
      /\ trainer.phase = "idle"
      /\ consumed' = consumed \cup batch
      /\ UNCHANGED <<Client!putVars, sent, stored>>
      /\ written' = written /\ routed' = routed /\ ready' = ready /\ store' = store
      /\ delivered' = delivered
    BY DEF Client!StartFetch, Client!Usable
<1>3. \/ /\ batch \subseteq routed /\ lost' = lost
         /\ trainer' = [phase |-> "get", batch |-> batch,
                        waiting |-> {ShardOf[Client!Group(i)] : i \in batch}]
      \/ trainer' = trainer /\ lost' = lost \cup batch
    BY DEF Client!StartFetch
<1>4. {ShardOf[Client!Group(i)] : i \in batch} \subseteq Shards
    BY GroupOfSample, ClientSizes
<1>5. Client!TypeOK'
    <2>1. trainer' \in [phase : {"idle", "get", "prune"},
                        batch : SUBSET Client!Indexes, waiting : SUBSET Shards]
        BY <1>1, <1>3, <1>4 DEF Client!TypeOK
    <2>2. consumed' \subseteq Client!Indexes /\ delivered' \cup lost' \subseteq Client!Indexes
        BY <1>1, <1>2, <1>3 DEF Client!TypeOK
    <2> QED
        BY <1>1, <1>2, <2>1, <2>2 DEF Client!TypeOK, Client!putVars
<1>6. Steady
    BY <1>2, Unmoved
<1>7. \A i \in consumed : i \in lost
    BY <1>1, <1>2 DEF TrainerRows, Expected
<1>8. TrainerRows'
    <2>1. CASE trainer' = trainer /\ lost' = lost \cup batch
        BY <1>2, <1>7, <2>1 DEF TrainerRows
    <2>2. CASE /\ batch \subseteq routed /\ lost' = lost
               /\ trainer' = [phase |-> "get", batch |-> batch,
                              waiting |-> {ShardOf[Client!Group(i)] : i \in batch}]
        <3>1. \A i \in batch : ShardOf[Client!Group(i)] \in trainer'.waiting
            BY <2>2
        <3>2. trainer'.phase = "get" /\ trainer'.batch = batch
            BY <2>2
        <3> QED
            BY <1>2, <1>7, <2>2, <3>1, <3>2 DEF TrainerRows, Expected, Client!Group
    <2> QED
        BY <1>3, <2>1, <2>2
<1> QED
    BY <1>2, <1>5, <1>6, <1>8, TrainerKeeps

LEMMA AnswersKeep ==
    ASSUME Setting, ClientInv, NEW s \in Shards, Client!GetFrom(s) \/ Client!LoseAnswer(s)
    PROVE  ClientInv'
<1>1. Client!TypeOK /\ TrainerRows /\ ReportsHold
    BY DEF ClientInv
<1>2. /\ trainer.phase = "get" /\ trainer' = [trainer EXCEPT !.waiting = @ \ {s}]
      /\ UNCHANGED <<Client!putVars, sent, stored>>
      /\ written' = written /\ routed' = routed /\ ready' = ready /\ store' = store
      /\ consumed' = consumed
      /\ \/ delivered' = delivered \cup Client!On(s, trainer.batch) /\ lost' = lost
         \/ delivered' = delivered /\ lost' = lost \cup Client!On(s, trainer.batch)
    <2>1. \A c \in Columns : Client!On(s, trainer.batch) \subseteq DOMAIN store[c]
        \* A shard never misses what it is asked for.
        <3> SUFFICES ASSUME NEW c \in Columns, NEW i \in Client!On(s, trainer.batch)
                     PROVE  i \in DOMAIN store[c]
            OBVIOUS
        <3>1. trainer.phase = "get" /\ i \in trainer.batch
            BY DEF Client!GetFrom, Client!LoseAnswer, Client!On
        <3> QED
            BY <1>1, <3>1 DEF TrainerRows, ReportsHold, Kept, Gone
    <2> QED
        BY <2>1 DEF Client!GetFrom, Client!LoseAnswer, Client!managerVars
<1>3. /\ Client!On(s, trainer.batch) \subseteq routed
      /\ Client!On(s, trainer.batch) \subseteq Client!Indexes
    BY <1>1, <1>2 DEF Client!On, TrainerRows, Client!TypeOK
<1>4. /\ trainer' \in [phase : {"idle", "get", "prune"},
                      batch : SUBSET Client!Indexes, waiting : SUBSET Shards]
      /\ trainer'.phase = trainer.phase /\ trainer'.batch = trainer.batch
    BY <1>1, <1>2 DEF Client!TypeOK
<1>5. delivered' \cup lost' \subseteq Client!Indexes
    BY <1>1, <1>2, <1>3 DEF Client!TypeOK
<1>6. Client!TypeOK'
    BY <1>1, <1>2, <1>4, <1>5 DEF Client!TypeOK, Client!putVars
<1>7. Gone' = Gone
    BY <1>2, <1>3 DEF Gone
<1>8. Steady
    BY <1>2, <1>7 DEF Steady, Has, Kept
<1>9. TrainerRows'
    <2>1. ASSUME NEW i \in consumed
          PROVE  i \in lost' \/ Expected(i)' \/ (trainer.phase = "get" /\ i \in trainer.batch \cap delivered')
        <3>1. trainer'.waiting = trainer.waiting \ {s}
            BY <1>1, <1>2 DEF Client!TypeOK
        <3>2. i \in lost \/ i \in delivered \/ Expected(i)
            BY <1>1 DEF TrainerRows
        <3>3. CASE Expected(i) /\ ShardOf[Client!Group(i)] = s
            BY <1>2, <3>3 DEF Expected, Client!On
        <3>4. CASE Expected(i) /\ ShardOf[Client!Group(i)] # s
            BY <1>4, <3>1, <3>4 DEF Expected, Client!Group
        <3> QED
            BY <1>1, <1>2, <3>2, <3>3, <3>4 DEF TrainerRows
    <2> QED
        BY <1>1, <1>2, <1>4, <1>7, <2>1 DEF TrainerRows
<1>10. delivered' \subseteq delivered \cup routed
    BY <1>2, <1>3
<1> QED
    BY <1>2, <1>6, <1>8, <1>9, <1>10, TrainerKeeps

LEMMA StartDeleteKeeps ==
    ASSUME Setting, ClientInv, Client!StartDelete PROVE ClientInv'
<1> DEFINE got == trainer.batch \cap delivered
<1>1. Client!TypeOK /\ TrainerRows
    BY DEF ClientInv
<1>2. /\ trainer.phase = "get" /\ trainer.waiting = {}
      /\ UNCHANGED <<Client!putVars, sent, stored>>
      /\ routed' = routed \ got
      /\ ready' = [c \in Columns |-> ready[c] \ got]
      /\ consumed' = consumed \ got
      /\ trainer' = [phase |-> "prune", batch |-> got,
                     waiting |-> {ShardOf[Client!Group(i)] : i \in got}]
      /\ written' = written /\ store' = store /\ delivered' = delivered /\ lost' = lost
    BY DEF Client!StartDelete
<1>3. /\ got \subseteq Client!Indexes /\ got \subseteq delivered
      /\ trainer.batch \cap delivered \subseteq got
    BY <1>1 DEF Client!TypeOK
<1> HIDE DEF got
<1>4. {ShardOf[Client!Group(i)] : i \in got} \subseteq Shards
    BY <1>3, GroupOfSample, ClientSizes
<1>5. Client!TypeOK'
    <2>1. trainer' \in [phase : {"idle", "get", "prune"},
                        batch : SUBSET Client!Indexes, waiting : SUBSET Shards]
        BY <1>2, <1>3, <1>4
    <2>2. ready' \in [Columns -> SUBSET Client!Indexes]
        BY <1>1, <1>2 DEF Client!TypeOK
    <2>3. routed' \subseteq Client!Indexes /\ consumed' \subseteq Client!Indexes
        BY <1>1, <1>2 DEF Client!TypeOK
    <2> QED
        BY <1>1, <1>2, <2>1, <2>2, <2>3 DEF Client!TypeOK, Client!putVars
<1>6. Gone \subseteq Gone' /\ got \subseteq Gone'
    BY <1>2, <1>3 DEF Gone
<1>7. Steady
    BY <1>2, <1>6 DEF Steady, Has, Kept
<1>8. TrainerRows'
    <2>1. \A i \in consumed' : i \in lost'
        BY <1>1, <1>2, <1>3 DEF TrainerRows, Expected
    <2> QED
        BY <1>2, <1>6, <2>1 DEF TrainerRows
<1> QED
    BY <1>2, <1>3, <1>5, <1>7, <1>8, TrainerKeeps

LEMMA PruneShardKeeps ==
    ASSUME Setting, ClientInv, NEW s \in Shards, Client!PruneShard(s) PROVE ClientInv'
<1>1. Client!TypeOK /\ TrainerRows
    BY DEF ClientInv
<1>2. /\ trainer.phase = "prune" /\ trainer' = [trainer EXCEPT !.waiting = @ \ {s}]
      /\ UNCHANGED <<Client!putVars, sent, stored>>
      /\ store' = [c \in Columns |->
           [i \in DOMAIN store[c] \ Client!On(s, trainer.batch) |-> store[c][i]]]
      /\ written' = written /\ routed' = routed /\ ready' = ready /\ consumed' = consumed
      /\ delivered' = delivered /\ lost' = lost
    BY DEF Client!PruneShard, Client!managerVars
<1>3. Client!On(s, trainer.batch) \subseteq Gone
    BY <1>1, <1>2 DEF Client!On, TrainerRows
<1>4. \A c \in Columns : DOMAIN store'[c] = DOMAIN store[c] \ Client!On(s, trainer.batch)
    BY <1>2
<1>5. /\ trainer' \in [phase : {"idle", "get", "prune"},
                      batch : SUBSET Client!Indexes, waiting : SUBSET Shards]
      /\ trainer'.phase = trainer.phase /\ trainer'.batch = trainer.batch
    BY <1>1, <1>2 DEF Client!TypeOK
<1>6. Client!TypeOK'
    <2>1. \A c \in Columns : DOMAIN store'[c] \subseteq Client!Indexes
        BY <1>1, <1>4 DEF Client!TypeOK
    <2> QED
        BY <1>1, <1>2, <1>5, <2>1 DEF Client!TypeOK, Client!putVars
<1>7. Gone' = Gone
    BY <1>2 DEF Gone
<1>8. Steady
    BY <1>2, <1>3, <1>4, <1>7 DEF Steady, Has, Kept
<1>9. TrainerRows'
    BY <1>1, <1>2, <1>5, <1>7 DEF TrainerRows, Expected
<1> QED
    BY <1>2, <1>6, <1>8, <1>9, TrainerKeeps

LEMMA FinishDeleteKeeps ==
    ASSUME Setting, ClientInv, Client!FinishDelete PROVE ClientInv'
<1>1. Client!TypeOK /\ TrainerRows
    BY DEF ClientInv
<1>2. /\ trainer.phase = "prune"
      /\ UNCHANGED <<Client!putVars, sent, stored>>
      /\ written' \subseteq written /\ trainer' = Client!Idle
      /\ routed' = routed /\ ready' = ready /\ consumed' = consumed
      /\ store' = store /\ delivered' = delivered /\ lost' = lost
    BY DEF Client!FinishDelete
<1>3. Client!TypeOK'
    <2>1. trainer' \in [phase : {"idle", "get", "prune"},
                        batch : SUBSET Client!Indexes, waiting : SUBSET Shards]
        BY <1>2 DEF Client!Idle
    <2>2. written' \subseteq SharedColumns \X Groups
        BY <1>1, <1>2 DEF Client!TypeOK
    <2> QED
        BY <1>1, <1>2, <2>1, <2>2 DEF Client!TypeOK, Client!putVars
<1>4. Steady
    BY <1>2, Unmoved
<1>5. TrainerRows'
    BY <1>1, <1>2 DEF TrainerRows, Expected, Client!Idle
<1> QED
    BY <1>2, <1>3, <1>4, <1>5, TrainerKeeps

LEMMA ClientStep ==
    ASSUME Setting, ClientInv, [Client!Next]_Client!vars PROVE ClientInv'
<1>1. ASSUME NEW p \in Puts, Client!StartPut(p) \/ Client!PutStep(p) PROVE ClientInv'
    BY <1>1, StartPutKeeps, AskWrittenKeeps, RoutePutKeeps, SendTaskKeeps, StartMarksKeeps,
       MarkWrittenKeeps, FinishPutKeeps DEF Client!PutStep
<1>2. CASE Client!ShardStep
    BY <1>2, StoreMessageKeeps, ReportStatusKeeps DEF Client!ShardStep
<1>3. CASE Client!TrainerStep
    BY <1>3, StartFetchKeeps, AnswersKeep, StartDeleteKeeps, PruneShardKeeps, FinishDeleteKeeps
    DEF Client!TrainerStep
<1>4. CASE UNCHANGED Client!vars
    <2>1. Client!TypeOK /\ TrainerRows
        BY DEF ClientInv
    <2>2. /\ UNCHANGED <<Client!putVars, sent, stored>>
          /\ written' = written /\ routed' = routed /\ ready' = ready /\ consumed' = consumed
          /\ store' = store /\ trainer' = trainer /\ delivered' = delivered /\ lost' = lost
        BY <1>4 DEF Client!vars, Client!managerVars, Client!trainerVars
    <2>3. Client!TypeOK'
        BY <2>1, <2>2 DEF Client!TypeOK, Client!putVars
    <2>4. Steady /\ Gone' = Gone
        BY <2>2, Unmoved
    <2>5. TrainerRows'
        BY <2>1, <2>2, <2>4, TrainerWaits
    <2> QED
        BY <2>2, <2>3, <2>4, <2>5, TrainerKeeps
<1> QED
    BY <1>1, <1>2, <1>3, <1>4 DEF Client!Next

(* All that is reported is there (ReportedIsThere): what is ready is       *)
(* stored, what is marked or returned by a put is ready, and a sample that *)
(* is complete can be fetched, unless an answer with it was lost.          *)
THEOREM ReportsAreTrue ==
    ASSUME Setting PROVE Client!Spec => [](Client!TypeOK /\ Client!ReportedIsThere)
<1>1. Client!Init => ClientInv
    BY ClientStarts
<1>2. ClientInv /\ [Client!Next]_Client!vars => ClientInv'
    BY ClientStep
<1>3. ClientInv => Client!TypeOK /\ Client!ReportedIsThere
    BY InvariantReports DEF ClientInv
<1> QED
    BY <1>1, <1>2, <1>3, PTL DEF Client!Spec

-----------------------------------------------------------------------------
(* Every row is stored for its own sample *)

(* A rollout of all the samples of its prompts.                            *)
Whole(p) ==
    /\ Reads[p] = {}
    /\ \A i \in Client!ToSet(Rows[p]) :
          Client!Members(Client!Group(i)) \subseteq Client!ToSet(Rows[p])

(* A put is for one prompt, has one shared column or is a rollout of whole *)
(* prompts, and the rows of a shard follow each other in it, by sample as  *)
(* well as by prompt: what the slices of _process_node_data rely on.       *)
InTurn(ids, S) ==
    \A x, y, z \in S : x < y /\ y < z /\ ShardOf[ids[x]] = ShardOf[ids[z]] =>
        ShardOf[ids[y]] = ShardOf[ids[x]]

ShardsInTurn ==
    \A p \in Puts :
        /\ \/ \A c, d \in Carries[p] \cap SharedColumns : c = d
           \/ \A i, j \in Client!ToSet(Rows[p]) : Client!Group(i) = Client!Group(j)
           \/ Whole(p)
        /\ InTurn([k \in DOMAIN Rows[p] |-> Client!Group(Rows[p][k])], DOMAIN Rows[p])
        /\ InTurn([g \in Groups |-> g], Client!UniqueGroups(p))

InOrder == Setting /\ ShardsInTurn

(* A message has its samples' own rows; a shared value is for a group's    *)
(* first sample.                                                           *)
CarriesOwn(m) ==
    \A c \in DOMAIN m.value : \A i \in m.ids :
        /\ m.shared <=> c \in SharedColumns
        /\ m.value[c][i] = Client!Own(c, i)
        /\ m.shared => i = Client!Group(i) * NSamples

(* Numbers that follow each other are listed one after the other.          *)
LEMMA AscendingRun ==
    ASSUME NEW S, S \subseteq Nat, IsFiniteSet(S),
           \A x, z \in S : \A y \in Nat : x < y /\ y < z => y \in S,
           NEW k \in DOMAIN Client!Ascending(S)
    PROVE  Client!Ascending(S)[1] \in S /\ Client!Ascending(S)[k] = Client!Ascending(S)[1] + k - 1
<1> DEFINE below(x) == {y \in S : y < x}
           m == Client!Ascending(S)[1]
           x == Client!Ascending(S)[k]
<1>1. 1 \in DOMAIN Client!Ascending(S) /\ k \in Nat
    <2> PICK n \in Nat : DOMAIN Client!Ascending(S) = 1 .. n
        BY AscendingLists
    <2> QED
        OBVIOUS
<1>2. m \in S /\ x \in S /\ Cardinality(below(m)) = 1 - 1 /\ Cardinality(below(x)) = k - 1
    BY <1>1, AscendingLists
<1> HIDE DEF m, x
<1>3. below(m) = {}
    <2>1. IsFiniteSet(below(m))
        BY FS_Subset
    <2>2. Cardinality(below(m)) = 0
        BY <1>2
    <2> QED
        BY <2>1, <2>2, FS_EmptySet
<1>4. \A y \in S : m <= y
    BY <1>2, <1>3
<1>5. below(x) = m .. x - 1
    <2>1. m \in Nat /\ x \in Nat
        BY <1>2
    <2>2. ASSUME NEW y \in m .. x - 1 PROVE y \in S /\ y < x
        <3>1. y \in Nat /\ y < x /\ (y = m \/ m < y)
            BY <2>1
        <3> QED
            BY <3>1, <1>2
    <2>3. ASSUME NEW y \in S, y < x PROVE y \in m .. x - 1
        BY <2>1, <2>3, <1>4
    <2> QED
        BY <2>2, <2>3
<1>6. Cardinality(m .. x - 1) = x - m
    <2>1. m \in Int /\ x - 1 \in Int /\ m <= x
        BY <1>2, <1>4
    <2>2. Cardinality(m .. x - 1) = IF m > x - 1 THEN 0 ELSE (x - 1) - m + 1
        BY <2>1, FS_Interval
    <2> HIDE DEF below
    <2> QED
        BY <2>1, <2>2, <1>2
<1>7. x - m = k - 1 /\ x \in Nat /\ m \in Nat
    BY <1>2, <1>5, <1>6
<1>8. x = m + k - 1
    BY <1>1, <1>7
<1> QED
    BY <1>2, <1>8 DEF m, x

LEMMA RowsFollow ==
    ASSUME InOrder, NEW p \in Puts, needs[p] \subseteq Pairs(p), NEW t \in Shards \X BOOLEAN,
           NEW x \in RowsAt(p, t), NEW z \in RowsAt(p, t), NEW y \in Nat, x < y, y < z
    PROVE  y \in RowsAt(p, t)
<1> DEFINE T == Client!Targets(p, t[2])
<1>1. Setting /\ t[2] \in BOOLEAN
    BY DEF InOrder
<1>2. PICK n \in Nat : DOMAIN T = 1 .. n
    BY <1>1, TargetsOfPut
<1>3. x \in DOMAIN T /\ z \in DOMAIN T /\ y \in DOMAIN T
    BY <1>2 DEF RowsAt
<1>4. ShardOf[Client!Group(T[x])] = t[1] /\ ShardOf[Client!Group(T[z])] = t[1]
    BY DEF RowsAt
<1>5. CASE ~ t[2]
    <2>1. T = Rows[p]
        BY <1>1, <1>5, TargetsOfPut
    <2> DEFINE ids == [k \in DOMAIN Rows[p] |-> Client!Group(Rows[p][k])]
    <2>2. InTurn(ids, DOMAIN Rows[p])
        BY DEF InOrder, ShardsInTurn
    <2>3. /\ x \in DOMAIN Rows[p] /\ y \in DOMAIN Rows[p] /\ z \in DOMAIN Rows[p]
          /\ ids[x] = Client!Group(T[x]) /\ ids[y] = Client!Group(T[y])
          /\ ids[z] = Client!Group(T[z])
        BY <2>1, <1>3
    <2> HIDE DEF ids, T
    <2>4. ShardOf[ids[y]] = ShardOf[ids[x]]
        BY <2>2, <2>3, <1>4 DEF InTurn
    <2>5. ShardOf[Client!Group(T[y])] = t[1]
        BY <2>3, <2>4, <1>4
    <2> QED
        BY <2>5, <1>3 DEF RowsAt, T
<1>6. CASE t[2]
    <2> DEFINE G == Client!GroupsToMark(p)
    <2>1. /\ G \subseteq Client!UniqueGroups(p) /\ G \subseteq Groups
          /\ G \subseteq Nat /\ IsFiniteSet(G)
        BY <1>1, NeededGroups
    <2> HIDE DEF G
    <2>2. /\ \A k \in DOMAIN Client!Ascending(G) : Client!Ascending(G)[k] \in G
          /\ \A k, l \in DOMAIN Client!Ascending(G) : k < l =>
               Client!Ascending(G)[k] < Client!Ascending(G)[l]
        BY <2>1, AscendingLists
    <2>3. /\ DOMAIN T = DOMAIN Client!Ascending(G)
          /\ \A k \in DOMAIN Client!Ascending(G) : T[k] = Client!Ascending(G)[k] * NSamples
        BY <1>6 DEF Client!Targets, G
    <2>4. \A k \in DOMAIN T : Client!Group(T[k]) = Client!Ascending(G)[k]
        <3> SUFFICES ASSUME NEW k \in DOMAIN T PROVE Client!Group(T[k]) = Client!Ascending(G)[k]
            OBVIOUS
        <3> PICK g \in G : g = Client!Ascending(G)[k]
            BY <2>2, <2>3
        <3>1. T[k] = g * NSamples
            BY <2>3
        <3>2. g \in Groups
            BY <2>1
        <3>3. Client!Group(g * NSamples) = g
            BY <3>2, <1>1, SamplesOfGroup
        <3> QED
            BY <3>1, <3>3
    <2> DEFINE ids == [g \in Groups |-> g]
    <2>5. InTurn(ids, Client!UniqueGroups(p))
        BY DEF InOrder, ShardsInTurn
    <2> PICK a \in G : a = Client!Ascending(G)[x]
        BY <2>2, <2>3, <1>3
    <2> PICK b \in G : b = Client!Ascending(G)[y]
        BY <2>2, <2>3, <1>3
    <2> PICK d \in G : d = Client!Ascending(G)[z]
        BY <2>2, <2>3, <1>3
    <2>6. a < b /\ b < d
        BY <2>2, <2>3, <1>3
    <2>7. ShardOf[a] = t[1] /\ ShardOf[d] = t[1]
        BY <1>3, <1>4, <2>4
    <2>8. ids[a] = a /\ ids[b] = b /\ ids[d] = d
        BY <2>1
    <2>9. /\ a \in Client!UniqueGroups(p) /\ b \in Client!UniqueGroups(p)
          /\ d \in Client!UniqueGroups(p)
        BY <2>1
    <2> HIDE DEF ids, T
    <2>10. ShardOf[ids[b]] = ShardOf[ids[a]]
        BY <2>5, <2>6, <2>7, <2>8, <2>9 DEF InTurn
    <2>11. ShardOf[Client!Group(T[y])] = t[1]
        BY <2>4, <2>7, <2>8, <2>10, <1>3
    <2> QED
        BY <2>11, <1>3 DEF RowsAt, T
<1> QED
    BY <1>5, <1>6

(* A slice from the first item of a segment takes the items' own rows.     *)
LEMMA SlicesFit ==
    ASSUME InOrder, NEW p \in Puts, needs[p] \subseteq Pairs(p), NEW t \in Shards \X BOOLEAN,
           NEW seg \in Client!Segments(p, t), NEW j \in DOMAIN seg
    PROVE  Client!SlicedRow(seg, j) = seg[j]
<1> DEFINE K == RowsAt(p, t)
<1>1. Setting
    BY DEF InOrder
<1>2. /\ Client!Items(p, t) = Client!Ascending(K) /\ K \subseteq Nat /\ IsFiniteSet(K)
      /\ DOMAIN Client!Items(p, t) = 1 .. Len(Client!Items(p, t)) /\ Len(Client!Items(p, t)) \in Nat
    BY <1>1, ItemsOfShard
<1>3. \A x, z \in K : \A y \in Nat : x < y /\ y < z => y \in K
    BY RowsFollow
<1> HIDE DEF K
<1>4. \A k \in DOMAIN Client!Ascending(K) :
        Client!Ascending(K)[1] \in K /\ Client!Ascending(K)[k] = Client!Ascending(K)[1] + k - 1
    BY <1>2, <1>3, AscendingRun
<1>5. /\ DOMAIN seg = 1 .. Len(seg) /\ Len(seg) \in Nat /\ Len(seg) >= 1
      /\ \E a \in DOMAIN Client!Items(p, t) : \A i \in DOMAIN seg :
           /\ a + i - 1 \in DOMAIN Client!Items(p, t)
           /\ seg[i] = Client!Items(p, t)[a + i - 1]
    BY <1>1, SegmentsOfTask
<1>6. PICK a \in DOMAIN Client!Items(p, t) : \A i \in DOMAIN seg :
           /\ a + i - 1 \in DOMAIN Client!Items(p, t)
           /\ seg[i] = Client!Items(p, t)[a + i - 1]
    BY <1>5
<1>7. 1 \in DOMAIN seg /\ j \in Nat /\ a \in Nat
    BY <1>2, <1>5
<1>8. a + 1 - 1 \in DOMAIN Client!Ascending(K) /\ a + j - 1 \in DOMAIN Client!Ascending(K)
    BY <1>2, <1>6, <1>7
<1> PICK f \in Nat : f = Client!Ascending(K)[1]
    BY <1>2, <1>4, <1>8
<1>9. seg[1] = f + (a + 1 - 1) - 1 /\ seg[j] = f + (a + j - 1) - 1
    BY <1>2, <1>4, <1>6, <1>7, <1>8
<1>10. seg[1] + j - 1 = seg[j]
    BY <1>7, <1>9
<1> QED
    BY <1>10 DEF Client!SlicedRow

(* Nobody has begun a put for the groups of p, and nobody has anything of  *)
(* its rows.                                                               *)
Untouched(p) ==
    /\ \A q \in Puts \ {p} : pc[q] # "new" =>
          Client!UniqueGroups(q) \cap Client!UniqueGroups(p) = {}
    /\ \A c \in Columns : ready[c] \cap Client!ToSet(Rows[p]) = {}
    /\ \A pair \in written : pair[2] \notin Client!UniqueGroups(p)

(* Whole prompts are untouched until their put has asked, so that it finds *)
(* no shared column written and sends them all.                            *)
BringsAll(p) ==
    Whole(p) =>
        /\ pc[p] \in {"new", "ask"} => Untouched(p)
        /\ pc[p] = "ask" => Pairs(p) \subseteq needs[p] \cup todo[p]
        /\ pc[p] \notin {"new", "ask"} => Pairs(p) \subseteq needs[p]

FirstPuts == \A p \in Puts : BringsAll(p)

Awaited(p) == p \in Puts /\ Whole(p) /\ pc[p] \in {"new", "ask"}

LEMMA PutsStay ==
    ASSUME NEW p
    PROVE  /\ Whole(p)' <=> Whole(p)
           /\ Pairs(p)' = Pairs(p)
           /\ Client!UniqueGroups(p)' = Client!UniqueGroups(p)
BY DEF Whole, Pairs, Client!UniqueGroups, Client!Members, Client!Group

LEMMA RowsOfWhole ==
    ASSUME Setting, NEW p \in Puts, Whole(p), NEW i \in Client!Indexes,
           Client!Group(i) \in Client!UniqueGroups(p)
    PROVE  i \in Client!ToSet(Rows[p])
<1>1. PICK j \in Client!ToSet(Rows[p]) : Client!Group(i) = Client!Group(j)
    BY GroupsOfPut
<1>2. i \in Client!Members(Client!Group(i))
    BY GroupOfSample
<1> QED
    BY <1>1, <1>2 DEF Whole

(* Neither another rollout, which has rows of its own, nor a worker, which *)
(* has nothing to fetch, begins a put for groups that are awaited.         *)
LEMMA StartsApart ==
    ASSUME Setting, NEW p, Awaited(p), Untouched(p), NEW q \in Puts \ {p}, Client!StartPut(q)
    PROVE  Client!UniqueGroups(q) \cap Client!UniqueGroups(p) = {}
<1> SUFFICES ASSUME NEW g \in Client!UniqueGroups(q), g \in Client!UniqueGroups(p) PROVE FALSE
    OBVIOUS
<1>1. PICK i \in Client!ToSet(Rows[q]) : Client!Group(i) = g
    BY GroupsOfPut
<1>2. i \in Client!Indexes
    BY RowsOfPut
<1>3. i \in Client!ToSet(Rows[p])
    BY <1>1, <1>2, RowsOfWhole DEF Awaited
<1>4. CASE Client!Allocates(q)
    BY <1>1, <1>3, <1>4 DEF Client!Allocates, Awaited, Whole, Setting, AllocatedOnce
<1>5. CASE Client!HasFetched(q)
    <2>1. PICK c \in Columns : c \in Reads[q]
        BY <1>5 DEF Client!HasFetched, Setting, Client!ClientAssumption
    <2>2. i \in ready[c]
        BY <1>1, <1>5, <2>1 DEF Client!HasFetched
    <2> QED
        BY <1>3, <2>1, <2>2 DEF Untouched
<1> QED
    BY <1>4, <1>5 DEF Client!StartPut

(* Steps that begin no put, ask nothing and bring nothing that is awaited. *)
LEMMA StillFirst ==
    ASSUME Setting, FirstPuts,
           \A q \in Puts : pc'[q] = pc[q] \/ {pc[q], pc'[q]} \cap {"new", "ask"} = {},
           \A q \in Puts : needs'[q] = needs[q] /\ (pc[q] = "ask" => todo'[q] = todo[q]),
           \A c \in Columns : \A i \in ready'[c] :
               i \in ready[c] \/ \A p : Awaited(p) => i \notin Client!ToSet(Rows[p]),
           \A pair \in written' :
               pair \in written \/ \A p : Awaited(p) => pair[2] \notin Client!UniqueGroups(p)
    PROVE  FirstPuts'
<1> SUFFICES ASSUME NEW p \in Puts, Whole(p) PROVE BringsAll(p)'
    BY PutsStay DEF FirstPuts, BringsAll
<1>1. BringsAll(p)
    BY DEF FirstPuts
<1>2. ASSUME pc'[p] \in {"new", "ask"} PROVE Untouched(p)'
    <2>1. pc'[p] = pc[p] /\ Awaited(p)
        BY <1>2 DEF Awaited
    <2>2. Untouched(p)
        BY <1>1, <2>1 DEF BringsAll, Awaited
    <2>3. \A q \in Puts : pc'[q] # "new" => pc[q] # "new"
        OBVIOUS
    <2> QED
        BY <2>1, <2>2, <2>3, PutsStay DEF Untouched
<1> QED
    BY <1>1, <1>2, PutsStay DEF BringsAll

LEMMA StartPutFirst ==
    ASSUME Setting, ClientInv, FirstPuts, NEW q \in Puts, Client!StartPut(q) PROVE FirstPuts'
<1>1. Client!TypeOK
    BY DEF ClientInv
<1>2. /\ pc[q] = "new" /\ pc'[q] = "ask" /\ todo'[q] = Pairs(q)
      /\ \A p \in Puts \ {q} : pc'[p] = pc[p] /\ todo'[p] = todo[p]
      /\ needs' = needs /\ ready' = ready /\ written' = written
    BY <1>1 DEF Client!StartPut, Client!TypeOK, Pairs
<1> SUFFICES ASSUME NEW p \in Puts, Whole(p) PROVE BringsAll(p)'
    BY PutsStay DEF FirstPuts, BringsAll
<1>3. BringsAll(p)
    BY DEF FirstPuts
<1>4. CASE p = q
    <2>1. Untouched(p)
        BY <1>2, <1>3, <1>4 DEF BringsAll
    <2>2. Untouched(p)'
        BY <1>2, <1>4, <2>1, PutsStay DEF Untouched
    <2> QED
        BY <1>2, <1>4, <2>2, PutsStay DEF BringsAll
<1>5. CASE p # q
    <2>1. pc'[p] = pc[p] /\ todo'[p] = todo[p] /\ needs'[p] = needs[p]
        BY <1>2, <1>5
    <2>2. ASSUME pc[p] \in {"new", "ask"} PROVE Untouched(p)'
        <3>1. Awaited(p) /\ Untouched(p)
            BY <1>3, <2>2 DEF Awaited, BringsAll
        <3>2. Client!UniqueGroups(q) \cap Client!UniqueGroups(p) = {}
            BY <1>5, <3>1, StartsApart
        <3> QED
            BY <1>2, <3>1, <3>2, PutsStay DEF Untouched
    <2> QED
        BY <1>3, <2>1, <2>2, PutsStay DEF BringsAll
<1> QED
    BY <1>4, <1>5

LEMMA AskWrittenFirst ==
    ASSUME Setting, ClientInv, FirstPuts, NEW q \in Puts, Client!AskWritten(q) PROVE FirstPuts'
<1>1. Client!TypeOK /\ AskedBy(q)
    BY DEF ClientInv
<1>2. PICK pair \in todo[q] :
        /\ pc[q] = "ask" /\ pc' = pc /\ ready' = ready /\ written' = written
        /\ todo' = [todo EXCEPT ![q] = @ \ {pair}]
        /\ needs' = [needs EXCEPT ![q] = IF pair \in written THEN @ ELSE @ \cup {pair}]
    BY DEF Client!AskWritten, Client!managerVars
<1>3. /\ todo'[q] = todo[q] \ {pair}
      /\ needs'[q] = IF pair \in written THEN needs[q] ELSE needs[q] \cup {pair}
      /\ \A p \in Puts \ {q} : todo'[p] = todo[p] /\ needs'[p] = needs[p]
    BY <1>1, <1>2 DEF Client!TypeOK
<1> SUFFICES ASSUME NEW p \in Puts, Whole(p) PROVE BringsAll(p)'
    BY PutsStay DEF FirstPuts, BringsAll
<1>4. BringsAll(p)
    BY DEF FirstPuts
<1>5. Untouched(p) => Untouched(p)'
    BY <1>2, PutsStay DEF Untouched
<1>6. CASE p = q
    <2>1. Untouched(p) /\ Pairs(p) \subseteq needs[p] \cup todo[p]
        BY <1>2, <1>4, <1>6 DEF BringsAll
    <2>2. pair[2] \in Client!UniqueGroups(p)
        BY <1>1, <1>2, <1>6 DEF AskedBy, Pairs
    <2>3. needs'[p] = needs[p] \cup {pair}
        BY <1>3, <1>6, <2>1, <2>2 DEF Untouched
    <2>4. Pairs(p) \subseteq needs'[p] \cup todo'[p]
        BY <1>3, <1>6, <2>1, <2>3
    <2> QED
        BY <1>2, <1>5, <1>6, <2>1, <2>4, PutsStay DEF BringsAll
<1>7. CASE p # q
    BY <1>2, <1>3, <1>4, <1>5, <1>7, PutsStay DEF BringsAll
<1> QED
    BY <1>6, <1>7

LEMMA RoutePutFirst ==
    ASSUME Setting, ClientInv, FirstPuts, NEW q \in Puts, Client!RoutePut(q) PROVE FirstPuts'
<1>1. Client!TypeOK
    BY DEF ClientInv
<1>2. /\ pc[q] = "ask" /\ todo[q] = {} /\ pc'[q] \in {"send", "failed"}
      /\ \A p \in Puts \ {q} : pc'[p] = pc[p]
      /\ todo' = todo /\ needs' = needs /\ ready' = ready /\ written' = written
    BY <1>1 DEF Client!RoutePut, Client!TypeOK, Client!managerVars
<1> SUFFICES ASSUME NEW p \in Puts, Whole(p) PROVE BringsAll(p)'
    BY PutsStay DEF FirstPuts, BringsAll
<1>3. BringsAll(p)
    BY DEF FirstPuts
<1>4. Untouched(p) => Untouched(p)'
    BY <1>2, PutsStay DEF Untouched
<1>5. CASE p = q
    BY <1>2, <1>3, <1>5, PutsStay DEF BringsAll
<1>6. CASE p # q
    BY <1>2, <1>3, <1>4, <1>6, PutsStay DEF BringsAll
<1> QED
    BY <1>5, <1>6

(* What a put marks or a shard reports is of a put that has asked.         *)
LEMMA MarkWrittenFirst ==
    ASSUME Setting, ClientInv, FirstPuts, NEW q \in Puts, Client!MarkWritten(q) PROVE FirstPuts'
<1>1. AskedBy(q) /\ pc[q] = "mark"
    BY DEF ClientInv, Client!MarkWritten
<1>2. PICK pair \in todo[q] : written' = written \cup {pair}
    BY DEF Client!MarkWritten
<1>3. pair[2] \in Client!UniqueGroups(q)
    BY <1>1, <1>2, NeededGroups DEF AskedBy, Client!ToMark
<1>4. ASSUME NEW p, Awaited(p) PROVE pair[2] \notin Client!UniqueGroups(p)
    <2>1. p # q /\ Untouched(p)
        BY <1>1, <1>4 DEF Awaited, FirstPuts, BringsAll
    <2> QED
        BY <1>1, <1>3, <2>1 DEF Untouched
<1>5. \A p \in Puts : pc'[p] = pc[p] /\ needs'[p] = needs[p]
    BY DEF Client!MarkWritten
<1>6. \A p \in Puts : pc[p] = "ask" => todo'[p] = todo[p]
    <2>1. \A p \in Puts \ {q} : todo'[p] = todo[p]
        BY DEF Client!MarkWritten, ClientInv, Client!TypeOK
    <2> QED
        BY <1>1, <2>1
<1>7. ready' = ready
    BY DEF Client!MarkWritten
<1> QED
    BY <1>2, <1>4, <1>5, <1>6, <1>7, StillFirst

LEMMA ReportStatusFirst ==
    ASSUME Setting, ClientInv, FirstPuts, NEW m, Client!ReportStatus(m) PROVE FirstPuts'
<1>1. /\ m \in stored
      /\ pc' = pc /\ todo' = todo /\ needs' = needs /\ written' = written
      /\ ready' = [c \in Columns |->
           IF c \in DOMAIN m.value THEN ready[c] \cup Client!CoveredBy(m) ELSE ready[c]]
    BY DEF Client!ReportStatus, Client!ReportedAt, Client!putVars
<1>2. MessageOf(m) /\ AskedBy(m.put)
    BY <1>1 DEF ClientInv, MessageOf
<1>3. ASSUME NEW i \in Client!CoveredBy(m)
      PROVE  i \in Client!Indexes /\ Client!Group(i) \in Client!UniqueGroups(m.put)
    <2>1. i \in Client!Indexes
        BY <1>1, <1>3, MessageColumns
    <2>2. PICK j \in m.ids : i \in Stands(m.shared, j)
        BY <1>3 DEF Client!CoveredBy, Stands
    <2>3. j \in Client!Indexes /\ j \in Client!ToSet(Client!Targets(m.put, m.shared))
        BY <1>1, <1>2, MessageColumns DEF MessageOf
    <2>4. Client!Group(i) = Client!Group(j)
        BY <2>2, <2>3, GroupOfSample, SamplesOfGroup DEF Stands
    <2>5. Client!Group(j) \in Client!UniqueGroups(m.put)
        <3>1. CASE m.shared
            BY <1>2, <2>3, <3>1, TargetsOfPut, NeededGroups DEF AskedBy, MessageOf
        <3>2. CASE ~ m.shared
            <4>1. j \in Client!ToSet(Rows[m.put])
                BY <1>2, <2>3, <3>2, TargetsOfPut DEF AskedBy, MessageOf
            <4> QED
                BY <1>2, <4>1, GroupsOfPut DEF MessageOf
        <3> QED
            BY <3>1, <3>2
    <2> QED
        BY <2>1, <2>4, <2>5
<1>4. ASSUME NEW p, Awaited(p), NEW i \in Client!CoveredBy(m) PROVE i \notin Client!ToSet(Rows[p])
    <2>1. m.put \in Puts /\ pc[m.put] \notin {"new", "ask"} /\ m.put # p /\ Untouched(p)
        BY <1>2, <1>4 DEF MessageOf, Awaited, FirstPuts, BringsAll
    <2>2. Client!Group(i) \notin Client!UniqueGroups(p)
        BY <1>3, <2>1 DEF Untouched
    <2> QED
        BY <1>4, <2>2, GroupsOfPut DEF Awaited
<1>5. \A c \in Columns : \A i \in ready'[c] : i \in ready[c] \/ i \in Client!CoveredBy(m)
    BY <1>1
<1> QED
    BY <1>1, <1>4, <1>5, StillFirst

LEMMA FirstStarts == ASSUME Setting, Client!Init PROVE FirstPuts
BY DEF Client!Init, FirstPuts, BringsAll, Untouched

LEMMA FirstStep ==
    ASSUME Setting, ClientInv, FirstPuts, [Client!Next]_Client!vars PROVE FirstPuts'
<1> USE DEF Client!putVars, Client!managerVars, Client!trainerVars
<1>1. Client!TypeOK
    BY DEF ClientInv
<1>2. ASSUME NEW q \in Puts, Client!StartPut(q) \/ Client!PutStep(q) PROVE FirstPuts'
    <2>1. ASSUME Client!SendTask(q) \/ Client!StartMarks(q) \/ Client!FinishPut(q)
          PROVE  FirstPuts'
        <3>1. /\ pc[q] \notin {"new", "ask"} /\ pc'[q] \notin {"new", "ask"}
              /\ \A p \in Puts \ {q} : pc'[p] = pc[p] /\ todo'[p] = todo[p]
              /\ needs' = needs /\ ready' = ready /\ written' = written
            BY <1>1, <2>1 DEF Client!SendTask, Client!StartMarks, Client!FinishPut, Client!TypeOK
        <3> QED
            BY <3>1, StillFirst
    <2> QED
        BY <1>2, <2>1, StartPutFirst, AskWrittenFirst, RoutePutFirst, MarkWrittenFirst
           DEF Client!PutStep
<1>3. ASSUME NEW m, Client!StoreMessage(m) \/ Client!ReportStatus(m) PROVE FirstPuts'
    <2>1. CASE Client!StoreMessage(m)
        BY <2>1, StillFirst DEF Client!StoreMessage
    <2> QED
        BY <1>3, <2>1, ReportStatusFirst
<1>4. CASE Client!TrainerStep
    <2>1. /\ pc' = pc /\ todo' = todo /\ needs' = needs /\ written' \subseteq written
          /\ \A c \in Columns : ready'[c] \subseteq ready[c]
        BY <1>4 DEF Client!TrainerStep, Client!StartFetch, Client!GetFrom, Client!LoseAnswer,
                    Client!StartDelete, Client!PruneShard, Client!FinishDelete
    <2> QED
        BY <2>1, StillFirst
<1>5. CASE UNCHANGED Client!vars
    BY <1>5, StillFirst DEF Client!vars
<1> QED
    BY <1>2, <1>3, <1>4, <1>5 DEF Client!Next, Client!ShardStep

(* The groups that need one shared column of a put need all that it sends. *)
LEMMA SharedAlike ==
    ASSUME InOrder, NEW p \in Puts, needs[p] \subseteq Pairs(p), BringsAll(p),
           pc[p] \notin {"new", "ask"}, NEW c \in Client!SharedToSend(p)
    PROVE  {pair[2] : pair \in {q \in needs[p] : q[1] = c}} = Client!GroupsToMark(p)
<1>1. \A pair \in needs[p] : /\ pair[1] \in Carries[p] \cap SharedColumns
                             /\ pair[2] \in Client!UniqueGroups(p)
    BY DEF Pairs
<1>2. PICK one \in needs[p] : one[1] = c
    BY DEF Client!SharedToSend
<1>3. CASE \A x, y \in Carries[p] \cap SharedColumns : x = y
    <2>1. \A pair \in needs[p] : pair[1] = c
        BY <1>1, <1>2, <1>3
    <2> QED
        BY <2>1 DEF Client!GroupsToMark
<1>4. CASE \A i, j \in Client!ToSet(Rows[p]) : Client!Group(i) = Client!Group(j)
    <2>1. \A g, h \in Client!UniqueGroups(p) : g = h
        BY <1>4, GroupsOfPut DEF InOrder
    <2>2. \A pair \in needs[p] : pair[2] = one[2]
        BY <1>1, <2>1
    <2>3. Client!GroupsToMark(p) = {one[2]}
        BY <2>2 DEF Client!GroupsToMark
    <2>4. {pair[2] : pair \in {q \in needs[p] : q[1] = c}} = {one[2]}
        BY <1>2, <2>2
    <2> QED
        BY <2>3, <2>4
<1>5. CASE Whole(p)
    <2>1. needs[p] = Pairs(p)
        BY <1>5 DEF BringsAll
    <2>2. c \in Carries[p] \cap SharedColumns
        BY <1>1, <1>2
    <2>3. \A pair \in needs[p] : <<c, pair[2]>> \in needs[p]
        BY <2>1, <2>2 DEF Pairs
    <2>4. ASSUME NEW pair \in needs[p]
          PROVE  pair[2] \in {x[2] : x \in {q \in needs[p] : q[1] = c}}
        <3> PICK x \in needs[p] : x = <<c, pair[2]>>
            BY <2>3
        <3>1. x[1] = c /\ x[2] = pair[2]
            OBVIOUS
        <3> QED
            BY <3>1
    <2> QED
        BY <2>4 DEF Client!GroupsToMark
<1> QED
    BY <1>3, <1>4, <1>5 DEF InOrder, ShardsInTurn

LEMMA MessagesCarryOwn ==
    ASSUME InOrder, NEW p \in Puts, needs[p] \subseteq Pairs(p), BringsAll(p),
           pc[p] \notin {"new", "ask"}, NEW t \in Shards \X BOOLEAN,
           NEW seg \in Client!Segments(p, t)
    PROVE  CarriesOwn(Client!Message(p, t, seg))
<1> DEFINE T == Client!Targets(p, t[2])
           m == Client!Message(p, t, seg)
           position(i) == CHOOSE j \in DOMAIN seg : T[seg[j]] = i
<1>1. Setting /\ t[2] \in BOOLEAN
    BY DEF InOrder
<1>2. /\ m.shared = t[2] /\ m.ids = {T[seg[j]] : j \in DOMAIN seg}
      /\ DOMAIN m.value = Client!ColumnsOf(p, t[2])
    BY <1>1, MessageOfTask
<1>3. \A c \in Client!ColumnsOf(p, t[2]) : \A i \in m.ids :
        m.value[c][i] = Client!ColumnData(p, c)[Client!SlicedRow(seg, position(i))]
    BY DEF Client!Message
<1> HIDE DEF m
<1> SUFFICES ASSUME NEW c \in Client!ColumnsOf(p, t[2]), NEW i \in m.ids
             PROVE  /\ m.shared <=> c \in SharedColumns
                    /\ m.value[c][i] = Client!Own(c, i)
                    /\ m.shared => i = Client!Group(i) * NSamples
    BY <1>2 DEF CarriesOwn, m
<1>4. position(i) \in DOMAIN seg /\ T[seg[position(i)]] = i
    BY <1>2
<1> HIDE DEF position
<1> PICK j \in DOMAIN seg : j = position(i)
    BY <1>4
<1> PICK k : k = seg[j]
    OBVIOUS
<1>5. T[k] = i /\ m.value[c][i] = Client!ColumnData(p, c)[k]
    BY <1>3, <1>4, SlicesFit
<1>6. k \in DOMAIN T
    BY <1>1, SegmentsOfTask DEF RowsAt
<1>7. CASE ~ t[2]
    <2>1. c \notin SharedColumns
        BY <1>7 DEF Client!ColumnsOf
    <2>2. T = Rows[p]
        BY <1>1, <1>7, TargetsOfPut
    <2>3. Client!ColumnData(p, c) = Rows[p]
        BY <2>1 DEF Client!ColumnData
    <2> QED
        BY <2>1, <2>2, <2>3, <1>2, <1>5, <1>7 DEF Client!Own
<1>8. CASE t[2]
    <2> DEFINE G == Client!GroupsToMark(p)
    <2>1. c \in Client!SharedToSend(p) /\ c \in SharedColumns
        BY <1>1, <1>8, NeededGroups DEF Client!ColumnsOf
    <2>2. Client!ColumnData(p, c) = Client!Ascending(G)
        BY <2>1, <1>1, SharedAlike DEF Client!ColumnData, Setting, AllocatedOnce
    <2>3. T[k] = Client!Ascending(G)[k] * NSamples /\ k \in DOMAIN Client!Ascending(G)
        BY <1>6, <1>8 DEF Client!Targets
    <2>4. G \subseteq Groups /\ G \subseteq Nat /\ IsFiniteSet(G)
        BY <1>1, NeededGroups
    <2> HIDE DEF G
    <2> PICK g \in G : g = Client!Ascending(G)[k]
        BY <2>3, <2>4, AscendingLists
    <2>5. i = g * NSamples /\ Client!Group(g * NSamples) = g
        BY <1>1, <1>5, <2>3, <2>4, SamplesOfGroup
    <2>6. m.value[c][i] = g
        BY <1>5, <2>2
    <2> QED
        BY <2>1, <2>5, <2>6, <1>2, <1>8 DEF Client!Own
<1> QED
    BY <1>7, <1>8

(* What the shards have stored, and what is on its way to them.            *)
RowsInv == Client!RowsMatch /\ \A m \in sent \cup stored : CarriesOwn(m)

LEMMA RowsWait ==
    ASSUME RowsInv, store' = store, sent' \cup stored' \subseteq sent \cup stored
    PROVE  RowsInv'
BY DEF RowsInv, Client!RowsMatch, CarriesOwn, Client!Own, Client!Group

LEMMA SendRows ==
    ASSUME InOrder, ClientInv, FirstPuts, RowsInv, NEW p \in Puts, Client!SendTask(p)
    PROVE  RowsInv'
<1>1. Client!TypeOK /\ AskedBy(p) /\ BringsAll(p) /\ pc[p] \notin {"new", "ask"}
    BY DEF ClientInv, FirstPuts, Client!SendTask
<1>2. PICK t \in unsent[p] :
        sent' = sent \cup {Client!Message(p, t, seg) :
                              seg \in {seg \in Client!Segments(p, t) : Client!InRange(p, t, seg)}}
    BY DEF Client!SendTask
<1>3. t \in Shards \X BOOLEAN /\ needs[p] \subseteq Pairs(p)
    BY <1>1 DEF Client!TypeOK, AskedBy
<1>4. stored' = stored /\ store' = store
    BY DEF Client!SendTask
<1>5. \A m \in sent' \cup stored' : CarriesOwn(m)
    BY <1>1, <1>2, <1>3, <1>4, MessagesCarryOwn DEF RowsInv
<1> QED
    BY <1>4, <1>5 DEF RowsInv, Client!RowsMatch, CarriesOwn, Client!Own, Client!Group

LEMMA StoreRows ==
    ASSUME InOrder, ClientInv, RowsInv, NEW m, Client!StoreMessage(m) PROVE RowsInv'
<1>1. /\ m \in sent /\ sent' \cup stored' \subseteq sent \cup stored
      /\ store' = [c \in Columns |->
           IF c \notin DOMAIN m.value THEN store[c]
           ELSE [i \in DOMAIN store[c] \cup Client!CoveredBy(m) |->
                   IF i \in Client!CoveredBy(m) THEN Client!ValueFor(m, c, i) ELSE store[c][i]]]
    BY DEF Client!StoreMessage
<1>2. Setting /\ CarriesOwn(m) /\ m.ids \subseteq Client!Indexes /\ Client!RowsMatch
    BY <1>1 DEF InOrder, RowsInv, ClientInv, Client!TypeOK
<1>3. ASSUME NEW c \in DOMAIN m.value, NEW i \in Client!CoveredBy(m)
      PROVE  Client!ValueFor(m, c, i) = Client!Own(c, i)
    <2>1. CASE m.shared
        <3> PICK j \in m.ids : i \in Client!Members(Client!Group(j))
            BY <2>1 DEF Client!CoveredBy
        <3>1. Client!Group(j) \in Groups
            BY <1>2, GroupOfSample
        <3>2. Client!Group(i) = Client!Group(j)
            BY <1>2, <3>1, SamplesOfGroup
        <3>3. /\ c \in SharedColumns /\ j = Client!Group(j) * NSamples
              /\ m.value[c][j] = Client!Own(c, j)
            BY <1>2, <2>1 DEF CarriesOwn
        <3>4. m.value[c][Client!Group(i) * NSamples] = Client!Group(i)
            BY <3>2, <3>3 DEF Client!Own
        <3> QED
            BY <2>1, <3>3, <3>4 DEF Client!ValueFor, Client!Own
    <2>2. CASE ~ m.shared
        BY <1>2, <2>2 DEF Client!CoveredBy, Client!ValueFor, CarriesOwn
    <2> QED
        BY <2>1, <2>2
<1>4. ASSUME NEW c \in Columns, NEW i \in DOMAIN store'[c] PROVE store'[c][i] = Client!Own(c, i)
    <2>1. CASE c \notin DOMAIN m.value
        BY <1>1, <1>2, <1>4, <2>1 DEF Client!RowsMatch
    <2>2. CASE c \in DOMAIN m.value
        <3>1. store'[c] = [x \in DOMAIN store[c] \cup Client!CoveredBy(m) |->
                             IF x \in Client!CoveredBy(m)
                             THEN Client!ValueFor(m, c, x) ELSE store[c][x]]
            BY <1>1, <2>2
        <3>2. CASE i \in Client!CoveredBy(m)
            BY <1>3, <2>2, <3>1, <3>2
        <3>3. CASE i \notin Client!CoveredBy(m)
            BY <1>2, <1>4, <3>1, <3>3 DEF Client!RowsMatch
        <3> QED
            BY <3>2, <3>3
    <2> QED
        BY <2>1, <2>2
<1>5. \A x \in sent' \cup stored' : CarriesOwn(x)
    BY <1>1 DEF RowsInv
<1> QED
    BY <1>4, <1>5 DEF RowsInv, Client!RowsMatch, CarriesOwn, Client!Own, Client!Group

LEMMA PruneRows ==
    ASSUME RowsInv, NEW s \in Shards, Client!PruneShard(s) PROVE RowsInv'
<1>1. /\ sent' = sent /\ stored' = stored
      /\ store' = [c \in Columns |->
           [i \in DOMAIN store[c] \ Client!On(s, trainer.batch) |-> store[c][i]]]
    BY DEF Client!PruneShard
<1>2. ASSUME NEW c \in Columns, NEW i \in DOMAIN store'[c] PROVE store'[c][i] = Client!Own(c, i)
    BY <1>1, <1>2 DEF RowsInv, Client!RowsMatch
<1> QED
    BY <1>1, <1>2 DEF RowsInv, Client!RowsMatch, CarriesOwn, Client!Own, Client!Group

LEMMA RowsStep ==
    ASSUME InOrder, ClientInv, FirstPuts, RowsInv, [Client!Next]_Client!vars PROVE RowsInv'
<1>1. ASSUME NEW p \in Puts, Client!StartPut(p) \/ Client!PutStep(p) PROVE RowsInv'
    <2>1. CASE Client!SendTask(p)
        BY <2>1, SendRows
    <2>2. CASE ~ Client!SendTask(p)
        <3>1. store' = store /\ sent' = sent /\ stored' = stored
            BY <1>1, <2>2 DEF Client!PutStep, Client!StartPut, Client!AskWritten, Client!RoutePut,
                              Client!StartMarks, Client!MarkWritten, Client!FinishPut
        <3> QED
            BY <3>1, RowsWait
    <2> QED
        BY <2>1, <2>2
<1>2. ASSUME NEW m, Client!StoreMessage(m) \/ Client!ReportStatus(m) PROVE RowsInv'
    <2>1. CASE Client!StoreMessage(m)
        BY <2>1, StoreRows
    <2>2. CASE Client!ReportStatus(m)
        <3>1. store' = store /\ sent' = sent /\ stored' \subseteq stored
            BY <2>2 DEF Client!ReportStatus
        <3> QED
            BY <3>1, RowsWait
    <2> QED
        BY <1>2, <2>1, <2>2
<1>3. CASE Client!TrainerStep
    <2>1. ASSUME NEW s \in Shards, Client!PruneShard(s) PROVE RowsInv'
        BY <2>1, PruneRows
    <2>2. CASE store' = store /\ sent' = sent /\ stored' = stored
        BY <2>2, RowsWait
    <2> QED
        BY <1>3, <2>1, <2>2 DEF Client!TrainerStep, Client!StartFetch, Client!GetFrom,
                                Client!LoseAnswer, Client!StartDelete, Client!FinishDelete
<1>4. CASE UNCHANGED Client!vars
    BY <1>4, RowsWait DEF Client!vars
<1> QED
    BY <1>1, <1>2, <1>3, <1>4 DEF Client!Next, Client!ShardStep

(* Every value is its own row's (RowsMatch).                               *)
THEOREM RowsAlwaysMatch ==
    ASSUME InOrder PROVE Client!Spec => []Client!RowsMatch
<1>1. Setting
    BY DEF InOrder
<1>2. Client!Init => ClientInv /\ FirstPuts /\ RowsInv
    BY <1>1, ClientStarts, FirstStarts DEF Client!Init, RowsInv, Client!RowsMatch
<1>3. ClientInv /\ FirstPuts /\ RowsInv /\ [Client!Next]_Client!vars
        => ClientInv' /\ FirstPuts' /\ RowsInv'
    BY <1>1, ClientStep, FirstStep, RowsStep
<1>4. RowsInv => Client!RowsMatch
    BY DEF RowsInv
<1> QED
    BY <1>2, <1>3, <1>4, PTL DEF Client!Spec
=============================================================================
