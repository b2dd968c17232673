----------------------------- MODULE FsIdsProofs -----------------------------
(***************************************************************************)
(* What FsIds promises, for every tree, depth and number of objects and    *)
(* runs: the invariants that TLC checks on a small tree.                   *)
(***************************************************************************)
EXTENDS FsIds, FiniteSetTheorems, SequenceTheorems, WellFoundedInduction, TLAPS

-----------------------------------------------------------------------------
(* Paths.                                                                  *)

Paths == Seq(Names)

\* The folder above a path, k components deep.
LEMMA PrefixFacts ==
    ASSUME NEW p \in Paths, NEW k \in 0 .. Len(p)
    PROVE  /\ SubSeq(p, 1, k) \in Paths
           /\ Len(SubSeq(p, 1, k)) = k
           /\ \A j \in 1 .. k : SubSeq(p, 1, k)[j] = p[j]
<1>1. Len(p) \in Nat /\ \A j \in 1 .. Len(p) : p[j] \in Names
  BY LenProperties, ElementOfSeq DEF Paths
<1>2. k \in Int /\ \A j \in 1 .. k : p[j] \in Names
  BY <1>1
<1>3. /\ SubSeq(p, 1, k) \in Paths
      /\ Len(SubSeq(p, 1, k)) = (IF 1 <= k THEN k - 1 + 1 ELSE 0)
      /\ \A j \in 1 .. (k - 1 + 1) : SubSeq(p, 1, k)[j] = p[1 + j - 1]
  BY <1>2, SubSeqProperties DEF Paths
<1> QED
  BY <1>1, <1>3

\* Two paths are equal if they agree component by component.
LEMMA SamePath ==
    ASSUME NEW p \in Paths, NEW q \in Paths,
           Len(p) = Len(q), \A j \in 1 .. Len(p) : p[j] = q[j]
    PROVE  p = q
BY SeqEqual DEF Paths

\* The longest prefix of a path is the path; only RootPath has no component.
LEMMA WholePath ==
    ASSUME NEW p \in Paths
    PROVE  /\ SubSeq(p, 1, Len(p)) = p
           /\ Len(p) \in Nat
           /\ Len(p) = 0 <=> p = RootPath
<1>1. Len(p) \in Nat
  BY LenProperties DEF Paths
<1> QED
  BY <1>1, SubSeqFull, EmptySeq DEF Paths, RootPath

\* A prefix of a prefix is a prefix.
LEMMA PrefixOfPrefix ==
    ASSUME NEW p \in Paths, NEW l \in 0 .. Len(p), NEW k \in 0 .. l
    PROVE  SubSeq(SubSeq(p, 1, l), 1, k) = SubSeq(p, 1, k)
<1>1. Len(p) \in Nat
  BY WholePath
<1>2. k \in 0 .. Len(p)
  BY <1>1
<1> DEFINE q == SubSeq(p, 1, l)
<1>3. q \in Paths /\ Len(q) = l /\ \A j \in 1 .. l : q[j] = p[j]
  BY PrefixFacts
<1>4. /\ SubSeq(q, 1, k) \in Paths /\ Len(SubSeq(q, 1, k)) = k
      /\ \A j \in 1 .. k : SubSeq(q, 1, k)[j] = q[j]
  BY <1>3, PrefixFacts
<1>5. /\ SubSeq(p, 1, k) \in Paths /\ Len(SubSeq(p, 1, k)) = k
      /\ \A j \in 1 .. k : SubSeq(p, 1, k)[j] = p[j]
  BY <1>2, PrefixFacts
<1>6. \A j \in 1 .. k : SubSeq(q, 1, k)[j] = SubSeq(p, 1, k)[j]
  BY <1>1, <1>3, <1>4, <1>5
<1> QED
  BY <1>4, <1>5, <1>6, SamePath

\* The folder a path other than RootPath is in.
LEMMA ParentFacts ==
    ASSUME NEW p \in Paths, p # RootPath
    PROVE  /\ Len(p) - 1 \in 0 .. Len(p)
           /\ Parent(p) \in Paths
           /\ Len(Parent(p)) = Len(p) - 1
           /\ Parent(p) # p
<1>1. Len(p) \in Nat /\ Len(p) # 0
  BY WholePath
<1>2. Len(p) - 1 \in 0 .. Len(p)
  BY <1>1
<1>3. \A k \in 0 .. Len(p) : SubSeq(p, 1, k) \in Paths /\ Len(SubSeq(p, 1, k)) = k
  BY PrefixFacts
<1>4. Parent(p) \in Paths /\ Len(Parent(p)) = Len(p) - 1
  BY <1>2, <1>3 DEF Parent
<1> QED
  BY <1>1, <1>2, <1>4

\* A path with a name added: the prefixes it has, its parent among them.
LEMMA AtFacts ==
    ASSUME NEW p \in Paths, NEW n \in Names
    PROVE  /\ At(p, n) \in Paths
           /\ At(p, n) # RootPath
           /\ Len(At(p, n)) = Len(p) + 1
           /\ Parent(At(p, n)) = p
           /\ \A k \in 0 .. Len(p) : SubSeq(At(p, n), 1, k) = SubSeq(p, 1, k)
<1> DEFINE q == At(p, n)
<1>1. /\ q \in Paths /\ Len(q) = Len(p) + 1 /\ Len(p) \in Nat
      /\ q # RootPath
      /\ \A j \in 1 .. Len(p) : q[j] = p[j]
  BY AppendProperties, WholePath DEF Paths, At, RootPath
<1>2. ASSUME NEW k \in 0 .. Len(p)
      PROVE  SubSeq(q, 1, k) = SubSeq(p, 1, k)
  <2>1. k \in 0 .. Len(q)
    BY <1>1
  <2>2. /\ SubSeq(q, 1, k) \in Paths /\ Len(SubSeq(q, 1, k)) = k
        /\ \A j \in 1 .. k : SubSeq(q, 1, k)[j] = q[j]
    BY <1>1, <2>1, PrefixFacts
  <2>3. /\ SubSeq(p, 1, k) \in Paths /\ Len(SubSeq(p, 1, k)) = k
        /\ \A j \in 1 .. k : SubSeq(p, 1, k)[j] = p[j]
    BY PrefixFacts
  <2>4. \A j \in 1 .. k : SubSeq(q, 1, k)[j] = SubSeq(p, 1, k)[j]
    BY <1>1, <2>2, <2>3
  <2> QED
    BY <2>2, <2>3, <2>4, SamePath
<1>3. Parent(q) = SubSeq(p, 1, Len(p))
  <2>1. Len(p) \in 0 .. Len(p) /\ Len(q) - 1 = Len(p)
    BY <1>1
  <2> QED
    BY <1>2, <2>1 DEF Parent
<1> HIDE DEF q
<1>4. Parent(q) = p
  BY <1>3, WholePath
<1> QED
  BY <1>1, <1>2, <1>4 DEF q

\* A path is its parent with a name added, and the name is its last component.
LEMMA Siblings ==
    ASSUME NEW p \in Paths, p # RootPath, NEW n \in Names
    PROVE  LET q == At(Parent(p), n) IN
           /\ q \in Paths
           /\ Len(q) = Len(p)
           /\ Len(p) \in Nat \ {0}
           /\ q # RootPath
           /\ \A k \in 0 .. (Len(p) - 1) : SubSeq(q, 1, k) = SubSeq(p, 1, k)
           /\ \A j \in 1 .. (Len(p) - 1) : q[j] = p[j]
           /\ q[Len(p)] \in Names /\ p[Len(p)] \in Names
<1> DEFINE q == At(Parent(p), n)
<1>1. /\ Len(p) \in Nat \ {0} /\ Parent(p) \in Paths /\ Len(Parent(p)) = Len(p) - 1
      /\ Len(p) - 1 \in 0 .. Len(p)
  BY ParentFacts, WholePath
<1>2. /\ q \in Paths /\ q # RootPath /\ Len(q) = Len(p)
      /\ \A k \in 0 .. (Len(p) - 1) : SubSeq(q, 1, k) = SubSeq(Parent(p), 1, k)
  <2>1. /\ q \in Paths /\ q # RootPath /\ Len(q) = Len(Parent(p)) + 1
        /\ \A k \in 0 .. Len(Parent(p)) : SubSeq(q, 1, k) = SubSeq(Parent(p), 1, k)
    BY <1>1, AtFacts
  <2>2. Len(q) = Len(p)
    BY <1>1, <2>1
  <2> QED
    BY <1>1, <2>1, <2>2
<1>3. \A k \in 0 .. (Len(p) - 1) : SubSeq(Parent(p), 1, k) = SubSeq(p, 1, k)
  BY <1>1, PrefixOfPrefix DEF Parent
<1>4. \A j \in 1 .. (Len(p) - 1) : q[j] = Parent(p)[j]
  BY <1>1, AppendProperties DEF At, Paths
<1>5. \A j \in 1 .. (Len(p) - 1) : Parent(p)[j] = p[j]
  BY <1>1, PrefixFacts DEF Parent
<1>6. q[Len(p)] \in Names /\ p[Len(p)] \in Names
  BY <1>1, <1>2, ElementOfSeq DEF Paths
<1> HIDE DEF q
<1>7. \A j \in 1 .. (Len(p) - 1) : q[j] = p[j]
  BY <1>4, <1>5
<1>8. \A k \in 0 .. (Len(p) - 1) : SubSeq(q, 1, k) = SubSeq(p, 1, k)
  BY <1>2, <1>3
<1> QED
  BY <1>1, <1>2, <1>6, <1>7, <1>8 DEF q

-----------------------------------------------------------------------------
(* Renaming: "from" and "to" differ in their last component.               *)

Twins(from, to) ==
    /\ from \in Paths /\ to \in Paths
    /\ Len(from) \in Nat \ {0} /\ Len(to) = Len(from)
    /\ \A j \in 1 .. (Len(from) - 1) : to[j] = from[j]

\* A renaming can be turned round.
LEMMA TwinsSwap ==
    ASSUME NEW from, NEW to, Twins(from, to)
    PROVE  Twins(to, from)
BY DEF Twins

\* What Within says of components.
LEMMA WithinFacts ==
    ASSUME NEW p \in Paths, NEW q \in Paths
    PROVE  Within(p, q) <=> Len(p) <= Len(q) /\ \A j \in 1 .. Len(p) : q[j] = p[j]
<1>1. Len(p) \in Nat /\ Len(q) \in Nat
  BY WholePath
<1>2. CASE ~(Len(p) <= Len(q))
  BY <1>2 DEF Within
<1>3. CASE Len(p) <= Len(q)
  <2>1. Len(p) \in 0 .. Len(q)
    BY <1>1, <1>3
  <2> DEFINE r == SubSeq(q, 1, Len(p))
  <2>2. r \in Paths /\ Len(r) = Len(p) /\ \A j \in 1 .. Len(p) : r[j] = q[j]
    BY <2>1, PrefixFacts
  <2>3. Within(p, q) <=> r = p
    BY <1>3 DEF Within
  <2> HIDE DEF r
  <2>4. (\A j \in 1 .. Len(p) : q[j] = p[j]) => r = p
    BY <2>2, SamePath
  <2> QED
    BY <1>3, <2>2, <2>3, <2>4
<1> QED
  BY <1>2, <1>3

\* A path within "from" becomes one within "to": only the one component changes.
LEMMA SwappedComponents ==
    ASSUME NEW from, NEW to, Twins(from, to), NEW x \in Paths
    PROVE  LET y == Swapped(x, from, to) IN
           /\ y \in Paths /\ Len(y) = Len(x)
           /\ ~Within(from, x) => y = x
           /\ Within(from, x) =>
                 \A j \in 1 .. Len(x) : y[j] = IF j <= Len(from) THEN to[j] ELSE x[j]
<1> DEFINE y == Swapped(x, from, to)
           m == Len(from)
<1>1. CASE ~Within(from, x)
  BY <1>1 DEF Swapped
<1>2. CASE Within(from, x)
  <2>1. /\ m \in Nat \ {0} /\ Len(x) \in Nat /\ m <= Len(x)
        /\ \A j \in 1 .. m : x[j] = from[j]
    BY <1>2, WithinFacts, WholePath DEF Twins
  <2>2. m \in 1 .. Len(x) /\ to[m] \in Names
    BY <2>1, ElementOfSeq DEF Twins, Paths
  <2>3. y = [x EXCEPT ![m] = to[m]]
    BY <1>2 DEF Swapped, Twins
  <2>4. /\ y \in Paths /\ Len(y) = Len(x)
        /\ \A j \in 1 .. Len(x) : y[j] = IF j = m THEN to[m] ELSE x[j]
    BY <2>2, <2>3, ExceptSeq DEF Paths
  <2>5. ASSUME NEW j \in 1 .. Len(x)
        PROVE  y[j] = IF j <= m THEN to[j] ELSE x[j]
    <3>1. CASE j <= m - 1
      <4>1. j \in 1 .. (m - 1) /\ j \in 1 .. m /\ j # m /\ j <= m
        BY <2>1, <3>1
      <4>2. to[j] = from[j] /\ x[j] = from[j] /\ y[j] = x[j]
        BY <2>1, <2>4, <4>1 DEF Twins
      <4> QED
        BY <4>1, <4>2
    <3>2. CASE j = m
      BY <2>1, <2>4, <3>2
    <3>3. CASE j > m
      BY <2>1, <2>4, <3>3
    <3> QED
      BY <2>1, <3>1, <3>2, <3>3
  <2> HIDE DEF y
  <2> QED
    BY <1>2, <2>4, <2>5 DEF y
<1> QED
  BY <1>1, <1>2

\* Renaming back undoes a renaming, unless there was something at "to".
LEMMA SwappedBack ==
    ASSUME NEW from, NEW to, Twins(from, to), NEW x \in Paths,
           ~Within(to, x)
    PROVE  /\ Swapped(Swapped(x, from, to), to, from) = x
           /\ Within(from, x) <=> Within(to, Swapped(x, from, to))
<1>1. PICK y : y = Swapped(x, from, to)
  OBVIOUS
<1>2. PICK z : z = Swapped(y, to, from)
  OBVIOUS
<1>3. /\ y \in Paths /\ Len(y) = Len(x)
      /\ ~Within(from, x) => y = x
      /\ Within(from, x) =>
            \A j \in 1 .. Len(x) : y[j] = IF j <= Len(from) THEN to[j] ELSE x[j]
  BY <1>1, SwappedComponents
<1>4. Twins(to, from) /\ to \in Paths /\ from \in Paths /\ Len(to) = Len(from)
  BY TwinsSwap DEF Twins
<1>5. CASE ~Within(from, x)
  BY <1>1, <1>3, <1>5 DEF Swapped
<1>6. CASE Within(from, x)
  <2>1. /\ Len(from) \in Nat /\ Len(x) \in Nat /\ Len(from) <= Len(x)
        /\ \A j \in 1 .. Len(from) : x[j] = from[j]
    BY <1>4, <1>6, WithinFacts, WholePath
  <2>2. \A j \in 1 .. Len(to) : y[j] = to[j]
    BY <1>3, <1>4, <1>6, <2>1
  <2>3. Within(to, y)
    BY <1>3, <1>4, <2>1, <2>2, WithinFacts
  <2>4. /\ z \in Paths /\ Len(z) = Len(y)
        /\ \A j \in 1 .. Len(y) : z[j] = IF j <= Len(to) THEN from[j] ELSE y[j]
    BY <1>2, <1>3, <1>4, <2>3, SwappedComponents
  <2>5. ASSUME NEW j \in 1 .. Len(x)
        PROVE  z[j] = x[j]
    <3>1. CASE j <= Len(from)
      BY <1>3, <1>4, <2>1, <2>4, <3>1
    <3>2. CASE ~(j <= Len(from))
      BY <1>3, <1>4, <1>6, <2>1, <2>4, <3>2
    <3> QED
      BY <3>1, <3>2
  <2>6. z = x
    BY <1>3, <2>4, <2>5, SamePath
  <2> QED
    BY <1>1, <1>2, <1>6, <2>3, <2>6
<1> QED
  BY <1>5, <1>6

\* The folders above a renamed path are the renamed folders above it.
LEMMA SwappedPrefix ==
    ASSUME NEW from, NEW to, Twins(from, to), NEW x \in Paths, NEW k \in 0 .. Len(x)
    PROVE  SubSeq(Swapped(x, from, to), 1, k) = Swapped(SubSeq(x, 1, k), from, to)
<1>1. PICK y : y = Swapped(x, from, to)
  OBVIOUS
<1>2. PICK u : u = SubSeq(x, 1, k)
  OBVIOUS
<1>3. PICK v : v = Swapped(u, from, to)
  OBVIOUS
<1>4. PICK w : w = SubSeq(y, 1, k)
  OBVIOUS
<1>5. Len(x) \in Nat /\ from \in Paths /\ to \in Paths /\ Len(from) \in Nat \ {0}
  BY WholePath DEF Twins
<1>6. /\ y \in Paths /\ Len(y) = Len(x)
      /\ ~Within(from, x) => y = x
      /\ Within(from, x) =>
            \A j \in 1 .. Len(x) : y[j] = IF j <= Len(from) THEN to[j] ELSE x[j]
  BY <1>1, SwappedComponents
<1>7. u \in Paths /\ Len(u) = k /\ \A j \in 1 .. k : u[j] = x[j]
  BY <1>2, PrefixFacts
<1>8. w \in Paths /\ Len(w) = k /\ \A j \in 1 .. k : w[j] = y[j]
  <2>1. k \in 0 .. Len(y)
    BY <1>6
  <2> QED
    BY <1>4, <1>6, <2>1, PrefixFacts
<1>9. /\ v \in Paths /\ Len(v) = Len(u)
      /\ ~Within(from, u) => v = u
      /\ Within(from, u) =>
            \A j \in 1 .. Len(u) : v[j] = IF j <= Len(from) THEN to[j] ELSE u[j]
  BY <1>3, <1>7, SwappedComponents
<1>10. Within(from, u) <=> Len(from) <= k /\ Within(from, x)
  <2>1. Within(from, u) <=> Len(from) <= k /\ \A j \in 1 .. Len(from) : u[j] = from[j]
    BY <1>5, <1>7, WithinFacts
  <2>2. Within(from, x) <=> Len(from) <= Len(x) /\ \A j \in 1 .. Len(from) : x[j] = from[j]
    BY <1>5, WithinFacts
  <2>3. Len(from) <= k => Len(from) <= Len(x) /\ \A j \in 1 .. Len(from) : u[j] = x[j]
    BY <1>5, <1>7
  <2> QED
    BY <1>2, <1>3, <2>1, <2>2, <2>3
<1>11. ASSUME NEW j \in 1 .. k
       PROVE  w[j] = v[j]
  <2>1. j \in 1 .. Len(x) /\ u[j] = x[j] /\ w[j] = y[j] /\ j \in 1 .. Len(u)
    BY <1>5, <1>7, <1>8
  <2>2. CASE ~Within(from, x)
    BY <1>6, <1>9, <1>10, <2>1, <2>2
  <2>3. CASE Within(from, x) /\ Len(from) <= k
    BY <1>6, <1>9, <1>10, <2>1, <2>3
  <2>4. CASE Within(from, x) /\ ~(Len(from) <= k)
    <3>1. j <= Len(from) - 1 /\ j \in 1 .. (Len(from) - 1) /\ j \in 1 .. Len(from)
      BY <1>5, <2>4
    <3>2. to[j] = from[j]
      BY <3>1 DEF Twins
    <3>3. x[j] = from[j]
      BY <1>5, <2>4, <3>1, WithinFacts
    <3>4. y[j] = to[j]
      BY <1>5, <1>6, <2>1, <2>4, <3>1
    <3>5. v = u
      BY <1>9, <1>10, <2>4
    <3> QED
      BY <2>1, <3>2, <3>3, <3>4, <3>5
  <2> QED
    BY <2>2, <2>3, <2>4
<1>12. w = v
  BY <1>7, <1>8, <1>9, <1>11, SamePath
<1> QED
  BY <1>1, <1>2, <1>3, <1>4, <1>12

-----------------------------------------------------------------------------
(* The tree.                                                               *)

\* What a file system is: the root container, folders all the way down to each
\* path, and nothing in two places.  Only the root's identifier names RootPath.
TreeInv ==
    /\ RootPath \in DOMAIN tree /\ tree[RootPath] = Root
    /\ \A p \in DOMAIN tree : \A k \in 0 .. Len(p) :
          /\ SubSeq(p, 1, k) \in DOMAIN tree
          /\ k < Len(p) => tree[SubSeq(p, 1, k)].kind = "folder"
    /\ \A p, q \in DOMAIN tree : tree[p].no = tree[q].no => p = q
    /\ \A i \in DOMAIN ids : ids[i] = RootPath => i = NewId(Root)

\* What TypeOK says of each path on disk and of each identifier.
LEMMA TreePaths ==
    ASSUME TypeOK
    PROVE  /\ \A p \in DOMAIN tree : /\ p \in Paths /\ Len(p) <= Depth
                                     /\ tree[p] \in Object /\ tree[p].no <= made
                                     /\ tree[p].no \in Nat
           /\ \A i \in DOMAIN ids : /\ i \in DOMAIN issued
                                   /\ ids[i] \in Paths /\ Len(ids[i]) <= Depth
           /\ \A i \in DOMAIN issued : /\ i # Wopitest => i \in Guid /\ i.run = run
                                      /\ issued[i] \in Object /\ issued[i].no <= made
                                      /\ issued[i].no \in Nat
<1>1. \A p \in DOMAIN tree : tree[p] \in Range(tree)
  BY DEF Range
<1>2. \A i \in DOMAIN ids : ids[i] \in Range(ids)
  BY DEF Range
<1>3. \A i \in DOMAIN issued : issued[i] \in Range(issued)
  BY DEF Range
<1>4. \A o \in Object : o.no \in Nat
  BY FsIdsAssumption DEF Object
<1> QED
  BY <1>1, <1>2, <1>3, <1>4 DEF TypeOK, IsPath, Paths

\* Paths on the way to p that are to be made, p among them: nothing is there,
\* and the others on the way are folders.
Fresh(p, new) ==
    /\ p \in Paths /\ p \in new
    /\ \A q \in new : \E k \in 0 .. Len(p) : q = SubSeq(p, 1, k)
    /\ \A q \in new : q \notin DOMAIN tree
    /\ \A k \in 0 .. Len(p) :
          \/ SubSeq(p, 1, k) \in new
          \/ SubSeq(p, 1, k) \in DOMAIN tree /\ tree[SubSeq(p, 1, k)].kind = "folder"

Above(new, q) == {x \in new : Len(x) <= Len(q)}

\* The numbers of new objects are different and come one after the other.
LEMMA Numbering ==
    ASSUME NEW p \in Paths, NEW new, p \in new,
           \A q \in new : \E k \in 0 .. Len(p) : q = SubSeq(p, 1, k)
    PROVE  /\ Cardinality(new) \in Nat \ {0}
           /\ \A q \in new : Cardinality(Above(new, q)) \in 1 .. Cardinality(new)
           /\ \A q, r \in new :
                 Cardinality(Above(new, q)) = Cardinality(Above(new, r)) => q = r
           /\ Cardinality(Above(new, p)) = Cardinality(new)
<1>1. /\ Len(p) \in Nat
      /\ \A q \in new : /\ q \in Paths /\ Len(q) \in 0 .. Len(p)
                        /\ q = SubSeq(p, 1, Len(q))
  <2>1. Len(p) \in Nat
    BY WholePath
  <2>2. ASSUME NEW q \in new
        PROVE  q \in Paths /\ Len(q) \in 0 .. Len(p) /\ q = SubSeq(p, 1, Len(q))
    <3>1. PICK k \in 0 .. Len(p) : q = SubSeq(p, 1, k)
      OBVIOUS
    <3> QED
      BY <3>1, PrefixFacts
  <2> QED
    BY <2>1, <2>2
<1>2. \A q, r \in new : Len(q) = Len(r) => q = r
  BY <1>1
<1>3. IsFiniteSet(new)
  <2> DEFINE f == [q \in new |-> Len(q)]
  <2>1. f \in Injection(new, 0 .. Len(p))
    BY <1>1, <1>2 DEF Injection, IsInjective
  <2>2. IsFiniteSet(0 .. Len(p))
    BY <1>1, FS_Interval
  <2> QED
    BY <2>1, <2>2, FS_Injection
<1>4. \A q \in new : /\ Above(new, q) \subseteq new
                    /\ IsFiniteSet(Above(new, q))
                    /\ Cardinality(Above(new, q)) \in Nat
                    /\ Cardinality(Above(new, q)) <= Cardinality(new)
                    /\ q \in Above(new, q)
  <2> SUFFICES ASSUME NEW q \in new
               PROVE  /\ Above(new, q) \subseteq new
                      /\ IsFiniteSet(Above(new, q))
                      /\ Cardinality(Above(new, q)) \in Nat
                      /\ Cardinality(Above(new, q)) <= Cardinality(new)
                      /\ q \in Above(new, q)
    OBVIOUS
  <2>1. Above(new, q) \subseteq new /\ q \in Above(new, q)
    BY <1>1 DEF Above
  <2>2. IsFiniteSet(Above(new, q)) /\ Cardinality(Above(new, q)) <= Cardinality(new)
    BY <1>3, <2>1, FS_Subset
  <2> QED
    BY <2>1, <2>2, FS_CardinalityType
<1>5. \A q \in new : Cardinality(Above(new, q)) # 0
  BY <1>4, FS_EmptySet
<1>6. Cardinality(new) \in Nat
  BY <1>3, FS_CardinalityType
<1>7. ASSUME NEW q \in new, NEW r \in new, Len(q) < Len(r)
      PROVE  Cardinality(Above(new, q)) # Cardinality(Above(new, r))
  <2>1. Above(new, q) \subseteq Above(new, r)
    BY <1>1, <1>7 DEF Above
  <2>2. r \in Above(new, r) /\ r \notin Above(new, q)
    BY <1>1, <1>7 DEF Above
  <2> QED
    BY <1>4, <2>1, <2>2, FS_Subset
<1>8. Above(new, p) = new
  BY <1>1 DEF Above
<1>9. \A q, r \in new :
        Cardinality(Above(new, q)) = Cardinality(Above(new, r)) => q = r
  <2> SUFFICES ASSUME NEW q \in new, NEW r \in new, q # r
               PROVE  Cardinality(Above(new, q)) # Cardinality(Above(new, r))
    OBVIOUS
  <2>1. Len(q) < Len(r) \/ Len(r) < Len(q)
    BY <1>1, <1>2
  <2> QED
    BY <1>7, <2>1
<1>10. \A q \in new : Cardinality(Above(new, q)) \in 1 .. Cardinality(new)
  BY <1>4, <1>5, <1>6
<1>11. Cardinality(new) \in Nat \ {0}
  BY <1>5, <1>6, <1>8
<1> QED
  BY <1>8, <1>9, <1>10, <1>11

\* What Create does to the tree: nothing that was there changes, and each new
\* object has a number of its own.
Grown(p, new) ==
    /\ DOMAIN tree' = DOMAIN tree \cup new
    /\ \A q \in DOMAIN tree : q \notin new /\ tree'[q] = tree[q]
    /\ \A q \in new : tree'[q] \in Object
    /\ \A q \in new : tree'[q].no \in (made + 1) .. made'
    /\ \A q \in new : q # p => tree'[q].kind = "folder"
    /\ \A q, r \in new : tree'[q].no = tree'[r].no => q = r
    /\ made \in Nat /\ made' \in 0 .. MaxObjects /\ made < made'
    /\ p \in new

\* Create makes the tree grow by the objects at the new paths.
LEMMA CreatedTree ==
    ASSUME TypeOK, NEW i \in Id, NEW p, NEW new, NEW kind \in {"file", "folder"},
           Fresh(p, new), Create(i, p, new, kind)
    PROVE  Grown(p, new) /\ tree'[p] = Numbered(new, kind, p)
<1>1. /\ p \in Paths /\ p \in new
      /\ \A q \in new : \E k \in 0 .. Len(p) : q = SubSeq(p, 1, k)
      /\ \A q \in new : q \notin DOMAIN tree
  BY DEF Fresh
<1>2. /\ Cardinality(new) \in Nat \ {0}
      /\ \A q \in new : Cardinality(Above(new, q)) \in 1 .. Cardinality(new)
      /\ \A q, r \in new :
            Cardinality(Above(new, q)) = Cardinality(Above(new, r)) => q = r
  BY <1>1, Numbering
<1>3. /\ made \in Nat /\ MaxObjects \in Nat
      /\ made' = made + Cardinality(new) /\ made + Cardinality(new) <= MaxObjects
  BY FsIdsAssumption DEF TypeOK, Create
<1>4. made' \in 0 .. MaxObjects /\ made < made'
  BY <1>2, <1>3
<1>5. /\ DOMAIN tree' = DOMAIN tree \cup new
      /\ \A q \in DOMAIN tree : q \notin new /\ tree'[q] = tree[q]
      /\ \A q \in new : tree'[q] = Numbered(new, IF q = p THEN kind ELSE "folder", q)
  BY <1>1 DEF Create
<1>6. \A q \in new : /\ tree'[q] = [kind |-> IF q = p THEN kind ELSE "folder",
                                     no |-> made + Cardinality(Above(new, q))]
  BY <1>5 DEF Numbered, Above
<1>7. ASSUME NEW q \in new
      PROVE  /\ tree'[q] \in Object
             /\ tree'[q].no \in (made + 1) .. made'
             /\ q # p => tree'[q].kind = "folder"
  <2>1. PICK n \in 1 .. Cardinality(new) : n = Cardinality(Above(new, q))
    BY <1>2
  <2>2. made + n \in (made + 1) .. made' /\ made + n \in 0 .. MaxObjects
    BY <1>2, <1>3, <2>1
  <2>3. tree'[q] = [kind |-> IF q = p THEN kind ELSE "folder", no |-> made + n]
    BY <1>6, <2>1
  <2> QED
    BY <2>2, <2>3 DEF Object
<1>8. \A q, r \in new : tree'[q].no = tree'[r].no => q = r
  <2> SUFFICES ASSUME NEW q \in new, NEW r \in new, tree'[q].no = tree'[r].no
               PROVE  q = r
    OBVIOUS
  <2>1. PICK m \in 1 .. Cardinality(new) : m = Cardinality(Above(new, q))
    BY <1>2
  <2>2. PICK n \in 1 .. Cardinality(new) : n = Cardinality(Above(new, r))
    BY <1>2
  <2>3. tree'[q].no = made + m /\ tree'[r].no = made + n
    <3>1. tree'[q] = [kind |-> IF q = p THEN kind ELSE "folder", no |-> made + m]
      BY <1>6, <2>1
    <3>2. tree'[r] = [kind |-> IF r = p THEN kind ELSE "folder", no |-> made + n]
      BY <1>6, <2>2
    <3> QED
      BY <3>1, <3>2
  <2>4. made + m = made + n
    BY <2>3
  <2>5. m \in Nat /\ n \in Nat
    BY <1>2
  <2>6. m = n
    BY <1>3, <2>4, <2>5
  <2> QED
    BY <1>2, <2>1, <2>2, <2>6
<1>9. tree'[p] = Numbered(new, kind, p)
  BY <1>1, <1>5
<1> QED
  BY <1>1, <1>3, <1>4, <1>5, <1>7, <1>8, <1>9 DEF Grown

\* What AddFile makes of the table, and what its identifier is given out for.
LEMMA AddedTable ==
    ASSUME NEW i, NEW p, NEW new, NEW kind, Create(i, p, new, kind), run' = run,
           NEW o, o = Numbered(new, kind, p)
    PROVE  LET n == [of |-> o, run |-> run] IN
           /\ DOMAIN ids' = DOMAIN ids \cup {n}
           /\ ids'[n] = p
           /\ \A j \in DOMAIN ids \ {n} : ids'[j] = ids[j]
           /\ DOMAIN issued' = DOMAIN issued \cup {n}
           /\ \A j \in DOMAIN issued : issued'[j] = issued[j]
           /\ n \notin DOMAIN issued => issued'[n] = o
<1>1. PICK n : n = [of |-> o, run |-> run]
  OBVIOUS
<1>2. n.of = o /\ n = NewId(Numbered(new, kind, p))
  BY <1>1 DEF NewId
<1>3. /\ ids' = [j \in DOMAIN ids \cup {n} |-> IF j = n THEN p ELSE ids[j]]
      /\ issued' = [j \in DOMAIN issued \cup {n} |->
                       IF j \in DOMAIN issued THEN issued[j] ELSE j.of]
  BY <1>2 DEF Create, AddFile
<1> QED
  BY <1>1, <1>2, <1>3

\* Create keeps the types.
LEMMA CreateKeepsTypes ==
    ASSUME TypeOK, NEW i \in Id, NEW p, NEW new, NEW kind \in {"file", "folder"},
           Fresh(p, new), Create(i, p, new, kind), asked' \in {"file", "folder"}
    PROVE  TypeOK'
<1>0. Grown(p, new) /\ tree'[p] = Numbered(new, kind, p)
  BY CreatedTree
<1>1. /\ DOMAIN tree' = DOMAIN tree \cup new
      /\ \A q \in DOMAIN tree : q \notin new /\ tree'[q] = tree[q]
      /\ \A q \in new : tree'[q] \in Object
      /\ \A q \in new : tree'[q].no \in (made + 1) .. made'
      /\ tree'[p] = Numbered(new, kind, p) /\ p \in new
      /\ made \in Nat /\ made' \in 0 .. MaxObjects /\ made < made'
  BY <1>0 DEF Grown
<1>2. \A q \in DOMAIN tree : q \in Paths /\ Len(q) <= Depth /\ tree[q] \in Object
                             /\ tree[q].no <= made /\ tree[q].no \in Nat
  BY TreePaths
<1>3. p \in Paths /\ Len(p) <= Depth /\ Len(p) \in Nat /\ Depth \in Nat
  BY WholePath, FsIdsAssumption DEF Create, IsPath, Fresh
<1>4. \A q \in new : q \in Paths /\ Len(q) <= Depth
  <2> SUFFICES ASSUME NEW q \in new
               PROVE  q \in Paths /\ Len(q) <= Depth
    OBVIOUS
  <2>1. PICK k \in 0 .. Len(p) : q = SubSeq(p, 1, k)
    BY DEF Fresh
  <2>2. q \in Paths /\ Len(q) = k
    BY <1>3, <2>1, PrefixFacts
  <2> QED
    BY <1>3, <2>2
<1>5. \A q \in DOMAIN tree' : IsPath(q)
  BY <1>1, <1>2, <1>4 DEF IsPath, Paths
<1>6. Range(tree') \subseteq {o \in Object : o.no <= made'}
  <2> SUFFICES ASSUME NEW q \in DOMAIN tree'
               PROVE  tree'[q] \in Object /\ tree'[q].no <= made'
    BY DEF Range
  <2>1. CASE q \in DOMAIN tree
    BY <1>1, <1>2, <2>1
  <2>2. CASE q \in new
    BY <1>1, <2>2
  <2> QED
    BY <1>1, <2>1, <2>2
<1>7. run' = run /\ shaken' = shaken /\ last' = [id |-> i, status |-> "ok"]
  BY DEF Create, Answer
<1>8. PICK o : o = Numbered(new, kind, p)
  OBVIOUS
<1>9. o \in Object /\ o.no <= made' /\ o.no \in Nat
  BY <1>1, <1>8
<1>10. PICK n : n = [of |-> o, run |-> run]
  OBVIOUS
<1>11. n \in Guid /\ n.run = run /\ n.of = o
  BY <1>9, <1>10 DEF Guid, TypeOK
<1>12. /\ DOMAIN ids' = DOMAIN ids \cup {n}
       /\ ids'[n] = p
       /\ \A j \in DOMAIN ids \ {n} : ids'[j] = ids[j]
       /\ DOMAIN issued' = DOMAIN issued \cup {n}
       /\ \A j \in DOMAIN issued : issued'[j] = issued[j]
       /\ n \notin DOMAIN issued => issued'[n] = o
  BY <1>7, <1>8, <1>10, AddedTable
<1>13. /\ DOMAIN ids' \subseteq DOMAIN issued'
       /\ DOMAIN issued' \subseteq {j \in Guid : j.run = run'} \cup {Wopitest}
  BY <1>7, <1>11, <1>12 DEF TypeOK
<1>16. Range(issued') \subseteq {x \in Object : x.no <= made'}
  <2> SUFFICES ASSUME NEW j \in DOMAIN issued'
               PROVE  issued'[j] \in Object /\ issued'[j].no <= made'
    BY DEF Range
  <2>1. CASE j \in DOMAIN issued
    <3>1. issued[j] \in Object /\ issued[j].no <= made /\ issued[j].no \in Nat
      BY <2>1, TreePaths
    <3> QED
      BY <1>1, <1>12, <2>1, <3>1
  <2>2. CASE j \notin DOMAIN issued
    BY <1>9, <1>12, <2>2
  <2> QED
    BY <2>1, <2>2
<1>14. \A q \in Range(ids') : IsPath(q)
  <2> SUFFICES ASSUME NEW j \in DOMAIN ids' PROVE IsPath(ids'[j])
    BY DEF Range
  <2>1. CASE j = n
    BY <1>3, <1>12, <2>1 DEF IsPath, Paths
  <2>2. CASE j # n
    <3>1. j \in DOMAIN ids /\ ids'[j] = ids[j]
      BY <1>12, <2>2
    <3>2. ids[j] \in Range(ids)
      BY <3>1 DEF Range
    <3> QED
      BY <3>1, <3>2 DEF TypeOK
  <2> QED
    BY <2>1, <2>2
<1>15. run' \in 1 .. MaxRuns /\ shaken' \in BOOLEAN /\ last' \in [id : Id, status : Status]
  BY <1>7 DEF TypeOK, Status
<1> QED
  BY <1>1, <1>5, <1>6, <1>13, <1>14, <1>15, <1>16 DEF TypeOK

\* Create keeps the shape of the tree: the folders above p are there or are made.
LEMMA CreateKeepsTree ==
    ASSUME TypeOK, TreeInv, NEW i \in Id, NEW p, NEW new, NEW kind \in {"file", "folder"},
           Fresh(p, new), Create(i, p, new, kind)
    PROVE  TreeInv'
<1>0. Grown(p, new) /\ tree'[p] = Numbered(new, kind, p)
  BY CreatedTree
<1>1. /\ DOMAIN tree' = DOMAIN tree \cup new
      /\ \A q \in DOMAIN tree : q \notin new /\ tree'[q] = tree[q]
      /\ \A q \in new : tree'[q].no \in (made + 1) .. made'
      /\ \A q \in new : q # p => tree'[q].kind = "folder"
      /\ \A q, r \in new : tree'[q].no = tree'[r].no => q = r
      /\ tree'[p] = Numbered(new, kind, p) /\ p \in new
      /\ made \in Nat /\ made' \in 0 .. MaxObjects /\ made < made'
  BY <1>0 DEF Grown
<1>2. \A q \in DOMAIN tree : tree[q].no <= made /\ tree[q].no \in Nat
  BY TreePaths
<1>3. p \in Paths /\ Len(p) \in Nat
  BY WholePath DEF Fresh
<1>4. RootPath \in DOMAIN tree' /\ tree'[RootPath] = Root
  BY <1>1 DEF TreeInv
<1>5. ASSUME NEW q \in DOMAIN tree', NEW k \in 0 .. Len(q)
      PROVE  /\ SubSeq(q, 1, k) \in DOMAIN tree'
             /\ k < Len(q) => tree'[SubSeq(q, 1, k)].kind = "folder"
  <2>1. CASE q \in DOMAIN tree
    BY <1>1, <2>1 DEF TreeInv
  <2>2. CASE q \in new
    <3>1. PICK l \in 0 .. Len(p) : q = SubSeq(p, 1, l)
      BY <2>2 DEF Fresh
    <3>2. Len(q) = l
      BY <1>3, <3>1, PrefixFacts
    <3>3. k \in 0 .. l /\ k \in 0 .. Len(p)
      BY <1>3, <3>2
    <3>4. SubSeq(q, 1, k) = SubSeq(p, 1, k)
      BY <1>3, <3>1, <3>3, PrefixOfPrefix
    <3>5. Len(SubSeq(p, 1, k)) = k
      BY <1>3, <3>3, PrefixFacts
    <3>6. CASE SubSeq(p, 1, k) \in new
      <4>1. SubSeq(q, 1, k) \in DOMAIN tree'
        BY <1>1, <3>4, <3>6
      <4>2. SubSeq(p, 1, k) = p => ~(k < l)
        BY <1>3, <3>5
      <4> QED
        BY <1>1, <3>2, <3>4, <3>6, <4>1, <4>2
    <3>7. CASE SubSeq(p, 1, k) \in DOMAIN tree /\ tree[SubSeq(p, 1, k)].kind = "folder"
      BY <1>1, <3>4, <3>7
    <3> QED
      BY <3>3, <3>6, <3>7 DEF Fresh
  <2> QED
    BY <1>1, <2>1, <2>2
<1>6. ASSUME NEW q \in DOMAIN tree', NEW r \in DOMAIN tree', tree'[q].no = tree'[r].no
      PROVE  q = r
  <2>1. CASE q \in DOMAIN tree /\ r \in DOMAIN tree
    BY <1>1, <1>6, <2>1 DEF TreeInv
  <2>2. CASE q \in new /\ r \in new
    BY <1>1, <1>6, <2>2
  <2>3. CASE q \in DOMAIN tree /\ r \in new
    <3>1. tree'[q].no <= made /\ tree'[q].no \in Nat /\ tree'[r].no \in (made + 1) .. made'
      BY <1>1, <1>2, <2>3
    <3> QED
      BY <1>1, <1>6, <3>1
  <2>4. CASE q \in new /\ r \in DOMAIN tree
    <3>1. tree'[r].no <= made /\ tree'[r].no \in Nat /\ tree'[q].no \in (made + 1) .. made'
      BY <1>1, <1>2, <2>4
    <3> QED
      BY <1>1, <1>6, <3>1
  <2> QED
    BY <1>1, <2>1, <2>2, <2>3, <2>4
<1>7. ASSUME NEW j \in DOMAIN ids', ids'[j] = RootPath
      PROVE  j = [of |-> Root, run |-> run']
  <2>0. PICK o : o = Numbered(new, kind, p)
    OBVIOUS
  <2>1. PICK n : n = [of |-> o, run |-> run]
    OBVIOUS
  <2>2. run' = run
    BY DEF Create
  <2>3. /\ DOMAIN ids' = DOMAIN ids \cup {n}
        /\ ids'[n] = p
        /\ \A h \in DOMAIN ids \ {n} : ids'[h] = ids[h]
        /\ DOMAIN issued' = DOMAIN issued \cup {n}
        /\ \A h \in DOMAIN issued : issued'[h] = issued[h]
        /\ n \notin DOMAIN issued => issued'[n] = o
    BY <2>0, <2>1, <2>2, AddedTable
  <2>4. p # RootPath
    BY <1>1 DEF TreeInv
  <2> QED
    BY <1>7, <2>2, <2>3, <2>4 DEF TreeInv, NewId
<1> QED
  BY <1>4, <1>5, <1>6, <1>7 DEF TreeInv, NewId

-----------------------------------------------------------------------------
(* The table.                                                              *)

\* What an identifier was given out for: a Guid for the object it was made for, and
\* WOPITEST for an object with no Guid.
IssuedInv ==
    /\ \A i \in DOMAIN issued : i # Wopitest => issued[i] = i.of
    /\ Wopitest \in DOMAIN issued => NewId(issued[Wopitest]) \notin DOMAIN issued

\* Every identifier in the table names what it was given out for, what is there is
\* named, and nothing but a test file that came too late is without a name.
Tabled ==
    /\ \A i \in DOMAIN ids : ids[i] \in DOMAIN tree /\ tree[ids[i]] = issued[i]
    /\ \A i \in DOMAIN issued : issued[i] \in Range(tree) => i \in DOMAIN ids
    /\ \A p \in DOMAIN tree \ Range(ids) :
          TestFile(p) /\ Wopitest \in DOMAIN issued /\ issued[Wopitest] # tree[p]

\* No object gets two identifiers in a run.
LEMMA OneIdEach ==
    ASSUME TypeOK, IssuedInv, NEW i \in DOMAIN issued, NEW j \in DOMAIN issued,
           issued[i] = issued[j]
    PROVE  i = j
<1>1. ASSUME NEW x \in DOMAIN issued, x # Wopitest
      PROVE  x = [of |-> issued[x], run |-> run]
  <2>1. x \in Guid /\ x.run = run /\ x.of = issued[x]
    BY <1>1, TreePaths DEF IssuedInv
  <2>2. x = [of |-> x.of, run |-> x.run]
    BY <2>1 DEF Guid
  <2> QED
    BY <2>1, <2>2
<1>2. CASE i # Wopitest /\ j # Wopitest
  BY <1>1, <1>2
<1>3. Wopitest \in DOMAIN issued => [of |-> issued[Wopitest], run |-> run] \notin DOMAIN issued
  BY DEF IssuedInv, NewId
<1> QED
  BY <1>1, <1>2, <1>3

\* A new object has a new identifier.
LEMMA CreateKeepsIssued ==
    ASSUME TypeOK, IssuedInv, NEW i \in Id, NEW p, NEW new, NEW kind \in {"file", "folder"},
           Fresh(p, new), Create(i, p, new, kind)
    PROVE  /\ IssuedInv'
           /\ \E n : /\ n \notin DOMAIN issued
                     /\ DOMAIN ids' = DOMAIN ids \cup {n} /\ ids'[n] = p
                     /\ \A j \in DOMAIN ids : ids'[j] = ids[j]
                     /\ DOMAIN issued' = DOMAIN issued \cup {n} /\ issued'[n] = tree'[p]
                     /\ \A j \in DOMAIN issued : issued'[j] = issued[j]
<1>0. Grown(p, new) /\ tree'[p] = Numbered(new, kind, p)
  BY CreatedTree
<1>1. PICK o : o = tree'[p]
  OBVIOUS
<1>2. o \in Object /\ o.no \in (made + 1) .. made' /\ made \in Nat /\ made' \in Nat
  BY <1>0, <1>1 DEF Grown
<1>3. \A j \in DOMAIN issued : issued[j] # o
  BY <1>2, TreePaths
<1>4. PICK n : n = [of |-> o, run |-> run]
  OBVIOUS
<1>5. n \in Guid /\ n.of = o
  BY <1>2, <1>4 DEF Guid, TypeOK
<1>6. n # Wopitest
  BY <1>5, FsIdsAssumption
<1>7. n \notin DOMAIN issued
  BY <1>3, <1>5, <1>6 DEF IssuedInv
<1>8. run' = run
  BY DEF Create
<1>9. /\ DOMAIN ids' = DOMAIN ids \cup {n} /\ ids'[n] = p
      /\ \A j \in DOMAIN ids \ {n} : ids'[j] = ids[j]
      /\ DOMAIN issued' = DOMAIN issued \cup {n} /\ issued'[n] = o
      /\ \A j \in DOMAIN issued : issued'[j] = issued[j]
  <2>1. o = Numbered(new, kind, p)
    BY <1>0, <1>1
  <2> QED
    BY <1>4, <1>7, <1>8, <2>1, AddedTable
<1>10. \A j \in DOMAIN ids : j # n
  BY <1>7 DEF TypeOK
<1>11. \A j \in DOMAIN issued' : j # Wopitest => issued'[j] = j.of
  BY <1>5, <1>9 DEF IssuedInv
<1>12. ASSUME Wopitest \in DOMAIN issued'
       PROVE  [of |-> issued'[Wopitest], run |-> run'] \notin DOMAIN issued'
  <2>1. Wopitest \in DOMAIN issued /\ issued'[Wopitest] = issued[Wopitest]
    BY <1>6, <1>9, <1>12
  <2>2. PICK m : m = [of |-> issued[Wopitest], run |-> run]
    OBVIOUS
  <2>3. m \notin DOMAIN issued
    BY <2>1, <2>2 DEF IssuedInv, NewId
  <2>4. m # n
    <3>1. m.of = issued[Wopitest]
      BY <2>2
    <3> QED
      BY <1>3, <1>5, <2>1, <3>1
  <2> QED
    BY <1>8, <1>9, <2>1, <2>2, <2>3, <2>4
<1>13. IssuedInv'
  BY <1>11, <1>12 DEF IssuedInv, NewId
<1> QED
  BY <1>1, <1>7, <1>9, <1>10, <1>13

\* A new object and its identifier.
LEMMA CreateKeepsTable ==
    ASSUME TypeOK, TreeInv, IssuedInv, Tabled, NEW i \in Id, NEW p,
           NEW kind \in {"file", "folder"}, Fresh(p, {p}), Create(i, p, {p}, kind)
    PROVE  Tabled'
<1>0. Grown(p, {p})
  BY CreatedTree
<1>1. /\ DOMAIN tree' = DOMAIN tree \cup {p}
      /\ \A q \in DOMAIN tree : q # p /\ tree'[q] = tree[q]
      /\ tree'[p].no \in (made + 1) .. made'
      /\ made \in Nat /\ made' \in Nat
  BY <1>0 DEF Grown
<1>2. PICK n : /\ n \notin DOMAIN issued
               /\ DOMAIN ids' = DOMAIN ids \cup {n} /\ ids'[n] = p
               /\ \A j \in DOMAIN ids : ids'[j] = ids[j]
               /\ DOMAIN issued' = DOMAIN issued \cup {n} /\ issued'[n] = tree'[p]
               /\ \A j \in DOMAIN issued : issued'[j] = issued[j]
  <2>1. /\ IssuedInv'
        /\ \E n : /\ n \notin DOMAIN issued
                  /\ DOMAIN ids' = DOMAIN ids \cup {n} /\ ids'[n] = p
                  /\ \A j \in DOMAIN ids : ids'[j] = ids[j]
                  /\ DOMAIN issued' = DOMAIN issued \cup {n} /\ issued'[n] = tree'[p]
                  /\ \A j \in DOMAIN issued : issued'[j] = issued[j]
    BY CreateKeepsIssued
  <2> QED
    BY <2>1
<1>3. \A j \in DOMAIN issued : issued[j] # tree'[p]
  BY <1>1, TreePaths
<1>4. DOMAIN ids \subseteq DOMAIN issued
  BY DEF TypeOK
<1>5. ASSUME NEW j \in DOMAIN ids'
      PROVE  ids'[j] \in DOMAIN tree' /\ tree'[ids'[j]] = issued'[j]
  <2>1. CASE j = n
    BY <1>1, <1>2, <2>1
  <2>2. CASE j # n
    <3>1. j \in DOMAIN ids /\ j \in DOMAIN issued
      BY <1>2, <1>4, <2>2
    <3>2. ids[j] \in DOMAIN tree /\ tree[ids[j]] = issued[j]
      BY <3>1 DEF Tabled
    <3> QED
      BY <1>1, <1>2, <3>1, <3>2
  <2> QED
    BY <2>1, <2>2
<1>6. ASSUME NEW j \in DOMAIN issued', NEW q \in DOMAIN tree', tree'[q] = issued'[j]
      PROVE  j \in DOMAIN ids'
  <2>1. CASE j = n
    BY <1>2, <2>1
  <2>2. CASE j # n
    <3>1. j \in DOMAIN issued /\ issued'[j] = issued[j]
      BY <1>2, <2>2
    <3>2. q \in DOMAIN tree /\ tree[q] = issued[j]
      BY <1>1, <1>3, <1>6, <3>1
    <3>3. j \in DOMAIN ids
      BY <3>1, <3>2 DEF Tabled, Range
    <3> QED
      BY <1>2, <3>3
  <2> QED
    BY <2>1, <2>2
<1>7. ASSUME NEW q \in DOMAIN tree', q \notin Range(ids')
      PROVE  TestFile(q)' /\ Wopitest \in DOMAIN issued' /\ issued'[Wopitest] # tree'[q]
  <2>1. \A j \in DOMAIN ids' : ids'[j] # q
    BY <1>7 DEF Range
  <2>2. q \in DOMAIN tree /\ q # p
    BY <1>1, <1>2, <2>1
  <2>3. q \notin Range(ids)
    BY <1>2, <2>1 DEF Range
  <2>4. TestFile(q) /\ Wopitest \in DOMAIN issued /\ issued[Wopitest] # tree[q]
    BY <2>2, <2>3 DEF Tabled
  <2> QED
    BY <1>1, <1>2, <2>2, <2>4 DEF TestFile, FileExists, Exists
<1>8. \A j \in DOMAIN issued' : issued'[j] \in Range(tree') => j \in DOMAIN ids'
  BY <1>6 DEF Range
<1> QED
  BY <1>5, <1>7, <1>8 DEF Tabled

-----------------------------------------------------------------------------
(* What every request keeps.                                               *)

Inv == TypeOK /\ TreeInv /\ IssuedInv /\ (~shaken => Tabled)

\* What NothingElseLost says of a step.
Lossless ==
    \A o \in Range(tree) \ Range(tree') : Known(last'.id) /\ tree[ids[last'.id]] = o

Sound == Inv' /\ AnsweredTruly' /\ Lossless

\* A request that changes nothing: a 409 needs a known identifier, a 404 one that
\* is not known, or names nothing, or names a file where a container is asked for.
LEMMA RefuseSound ==
    ASSUME Inv, NEW i \in Id, NEW s \in Status, asked' \in {"file", "folder"},
           s = "conflict" => Known(i),
           s = "notFound" => \/ ~Known(i) \/ ids[i] \notin DOMAIN tree
                             \/ tree[ids[i]].kind = "file" /\ asked' = "folder",
           Refuse(i, s)
    PROVE  Sound
<1>1. /\ tree' = tree /\ made' = made /\ run' = run /\ ids' = ids /\ issued' = issued
      /\ shaken' = shaken /\ last' = [id |-> i, status |-> s]
  BY DEF Refuse, Answer
<1>2. last' \in [id : Id, status : Status] /\ last'.id = i /\ last'.status = s
  BY <1>1
<1>3. TypeOK'
  BY <1>1, <1>2 DEF Inv, TypeOK
<1>4. TreeInv' /\ IssuedInv'
  BY <1>1 DEF Inv, TreeInv, IssuedInv, NewId
<1>5. ~shaken' => Tabled'
  BY <1>1 DEF Inv, Tabled, TestFile, FileExists, Exists
<1>6. AnsweredTruly'
  <2> SUFFICES ASSUME ~shaken, i \in DOMAIN issued
               PROVE  /\ s = "conflict" => issued[i] \in Range(tree)
                      /\ s = "notFound" => \/ issued[i] \notin Range(tree)
                                           \/ issued[i].kind = "file" /\ asked' = "folder"
    BY <1>1, <1>2 DEF AnsweredTruly
  <2>1. i \in DOMAIN ids => ids[i] \in DOMAIN tree /\ tree[ids[i]] = issued[i]
    BY DEF Inv, Tabled
  <2>2. i \notin DOMAIN ids => issued[i] \notin Range(tree)
    BY DEF Inv, Tabled
  <2> QED
    BY <2>1, <2>2 DEF Known, Range
<1>7. Lossless
  BY <1>1 DEF Lossless
<1> QED
  BY <1>3, <1>4, <1>5, <1>6, <1>7 DEF Sound, Inv

\* A request that creates something.
LEMMA CreateSound ==
    ASSUME Inv, NEW i \in Id, NEW p, NEW new, NEW kind \in {"file", "folder"},
           asked' \in {"file", "folder"},
           Fresh(p, new), ~shaken => new = {p}, Create(i, p, new, kind)
    PROVE  Sound
<1>0. TypeOK /\ TreeInv /\ IssuedInv
  BY DEF Inv
<1>1. TypeOK' /\ TreeInv' /\ Grown(p, new) /\ IssuedInv'
  BY <1>0, CreatedTree, CreateKeepsTypes, CreateKeepsTree, CreateKeepsIssued
<1>2. shaken' = shaken /\ last' = [id |-> i, status |-> "ok"]
  BY DEF Create, Answer
<1>3. ASSUME ~shaken'
      PROVE  Tabled'
  <2>1. Tabled /\ new = {p}
    BY <1>2, <1>3 DEF Inv
  <2>2. Fresh(p, {p}) /\ Create(i, p, {p}, kind)
    BY <2>1
  <2> QED
    BY <1>0, <2>1, <2>2, CreateKeepsTable
<1>4. AnsweredTruly'
  BY <1>2 DEF AnsweredTruly
<1>5. Lossless
  BY <1>1 DEF Lossless, Grown, Range
<1> QED
  BY <1>1, <1>3, <1>4, <1>5 DEF Sound, Inv

\* The folders above p, when p is below the folder s.
LEMMA AllAbove ==
    ASSUME TypeOK, TreeInv, NEW p \in Paths, p # RootPath, Parent(p) \in DOMAIN tree,
           NEW k \in 0 .. (Len(p) - 1)
    PROVE  /\ SubSeq(p, 1, k) \in DOMAIN tree
           /\ k < Len(p) - 1 => tree[SubSeq(p, 1, k)].kind = "folder"
<1>1. Len(p) - 1 \in 0 .. Len(p) /\ Len(Parent(p)) = Len(p) - 1
  BY ParentFacts
<1>2. SubSeq(Parent(p), 1, k) = SubSeq(p, 1, k)
  BY <1>1, PrefixOfPrefix DEF Parent
<1>3. PICK q \in DOMAIN tree : q = Parent(p)
  OBVIOUS
<1>4. Len(p) \in Nat /\ Len(q) = Len(p) - 1 /\ SubSeq(q, 1, k) = SubSeq(p, 1, k)
  BY <1>1, <1>2, <1>3, WholePath
<1>5. k \in 0 .. Len(q)
  BY <1>4
<1>6. /\ SubSeq(q, 1, k) \in DOMAIN tree
      /\ k < Len(q) => tree[SubSeq(q, 1, k)].kind = "folder"
  BY <1>5 DEF TreeInv
<1> QED
  BY <1>4, <1>6

\* CreateWopiFile: the folder is there, so only the file is new.
LEMMA CreateFileSound ==
    ASSUME Inv, NEW i \in Id, NEW p, CreateFile(i, p),
           asked' \in {"file", "folder"}
    PROVE  Sound
<1>1. CASE ~(FolderExists(Parent(p)) /\ p \notin DOMAIN tree)
  <2>1. Refuse(i, "error")
    BY <1>1 DEF CreateFile
  <2> QED
    BY <2>1, RefuseSound DEF Status
<1>2. CASE FolderExists(Parent(p)) /\ p \notin DOMAIN tree
  <2>1. Create(i, p, {p}, "file")
    BY <1>2 DEF CreateFile
  <2>2. p \in Paths /\ p # RootPath
    BY <1>2, <2>1 DEF Create, IsPath, Paths, Inv, TreeInv
  <2>3. Parent(p) \in DOMAIN tree /\ tree[Parent(p)].kind = "folder"
    BY <1>2 DEF FolderExists, Exists
  <2>4. /\ Len(p) \in Nat /\ Len(p) \in 0 .. Len(p)
        /\ SubSeq(p, 1, Len(p)) = p /\ SubSeq(p, 1, Len(p) - 1) = Parent(p)
    BY <2>2, WholePath DEF Parent
  <2>5. ASSUME NEW k \in 0 .. Len(p)
        PROVE  \/ SubSeq(p, 1, k) \in {p}
               \/ SubSeq(p, 1, k) \in DOMAIN tree /\ tree[SubSeq(p, 1, k)].kind = "folder"
    <3>1. CASE k = Len(p)
      BY <2>4, <3>1
    <3>2. CASE k = Len(p) - 1
      BY <2>3, <2>4, <3>2
    <3>3. CASE k < Len(p) - 1
      <4>1. k \in 0 .. (Len(p) - 1)
        BY <2>4, <3>3
      <4>2. SubSeq(p, 1, k) \in DOMAIN tree /\ tree[SubSeq(p, 1, k)].kind = "folder"
        BY <2>2, <2>3, <3>3, <4>1, AllAbove DEF Inv
      <4> QED
        BY <4>2
    <3>4. PICK l \in Nat : l = Len(p)
      BY <2>4
    <3>5. k \in 0 .. l
      BY <3>4
    <3>6. k = l \/ k = l - 1 \/ k < l - 1
      BY <3>5
    <3> QED
      BY <3>1, <3>2, <3>3, <3>4, <3>6
  <2>6. Fresh(p, {p})
    BY <1>2, <2>2, <2>4, <2>5 DEF Fresh
  <2> QED
    BY <2>1, <2>6, CreateSound
<1> QED
  BY <1>1, <1>2

\* A path that has a name added is its parent with that name.
LEMMA ParentOfAt ==
    ASSUME NEW s \in Paths, NEW n, At(s, n) \in Paths
    PROVE  Parent(At(s, n)) = s
<1> DEFINE S == Names \cup {n}
           q == At(s, n)
<1>1. s \in Seq(S)
  <2>1. Len(s) \in Nat /\ s \in [1 .. Len(s) -> Names]
    BY LenProperties DEF Paths
  <2>2. s \in [1 .. Len(s) -> S]
    BY <2>1
  <2> QED
    BY <2>1, <2>2, SeqDef
<1>2. Len(q) = Len(s) + 1 /\ q[Len(s) + 1] = n /\ Len(s) \in Nat
  BY <1>1, AppendProperties, LenProperties DEF At
<1>3. Len(s) + 1 \in 1 .. Len(q)
  BY <1>2
<1>4. n \in Names
  BY <1>2, <1>3, ElementOfSeq DEF Paths
<1> QED
  BY <1>4, AtFacts

\* CreateWopiChildContainer: the folders above may be new only where the table has gone stale.
LEMMA CreateFolderSound ==
    ASSUME Inv, NEW i \in Id, NEW s \in Paths, NEW n, NEW p, p = At(s, n),
           ~shaken => s \in DOMAIN tree,
           CreateFolder(i, p), asked' \in {"file", "folder"}
    PROVE  Sound
<1> DEFINE above == {SubSeq(p, 1, k) : k \in 0 .. Len(p)}
           new == above \ DOMAIN tree
<1>1. CASE FolderExists(p) \/ \E q \in above : FileExists(q)
  <2>1. Refuse(i, "error")
    BY <1>1 DEF CreateFolder
  <2> QED
    BY <2>1, RefuseSound DEF Status
<1>2. CASE ~(FolderExists(p) \/ \E q \in above : FileExists(q))
  <2>1. Create(i, p, new, "folder")
    BY <1>2 DEF CreateFolder
  <2>2. p \in Paths
    <3> HIDE DEF new
    <3>1. IsPath(p)
      BY <2>1 DEF Create
    <3> QED
      BY <3>1 DEF IsPath, Paths
  <2>3. Len(p) \in Nat /\ SubSeq(p, 1, Len(p)) = p
    BY <2>2, WholePath
  <2>4. p \in above
    <3>1. Len(p) \in 0 .. Len(p)
      BY <2>3
    <3> QED
      BY <2>3, <3>1
  <2>5. \A q \in DOMAIN tree : tree[q].kind \in {"file", "folder"}
    BY TreePaths DEF Inv, Object
  <2>6. p \notin DOMAIN tree
    BY <1>2, <2>4, <2>5 DEF FolderExists, FileExists, Exists
  <2>7. p # RootPath
    BY <2>6 DEF Inv, TreeInv
  <2>8. Parent(p) = s
    <3>1. At(s, n) \in Paths
      BY <2>2
    <3> QED
      BY <3>1, ParentOfAt
  <2>9. ASSUME NEW q \in above
        PROVE  q \in new \/ (q \in DOMAIN tree /\ tree[q].kind = "folder")
    <3>1. ~(q \in DOMAIN tree /\ tree[q].kind = "file")
      BY <1>2 DEF FileExists, Exists
    <3>2. q \in DOMAIN tree => tree[q].kind = "file" \/ tree[q].kind = "folder"
      BY <2>5
    <3>3. q \notin DOMAIN tree => q \in new
      OBVIOUS
    <3> HIDE DEF above, new
    <3> QED
      BY <3>1, <3>2, <3>3
  <2>10. \A k \in 0 .. Len(p) : SubSeq(p, 1, k) \in above
    OBVIOUS
  <2>11. /\ p \in new
         /\ \A q \in new : q \notin DOMAIN tree
         /\ \A q \in new : \E k \in 0 .. Len(p) : q = SubSeq(p, 1, k)
    BY <2>4, <2>6
  <2>12. ASSUME ~shaken
         PROVE  new = {p}
    <3>1. Parent(p) \in DOMAIN tree
      BY <2>8, <2>12
    <3>2. ASSUME NEW k \in 0 .. (Len(p) - 1)
          PROVE  SubSeq(p, 1, k) \in DOMAIN tree
      <4>1. TypeOK /\ TreeInv
        BY DEF Inv
      <4> HIDE DEF above, new
      <4> QED
        BY <2>2, <2>7, <3>1, <4>1, AllAbove
    <3>3. PICK l \in Nat : l = Len(p)
      BY <2>3
    <3>4. ASSUME NEW q \in new PROVE q = p
      <4>1. PICK k \in 0 .. l : q = SubSeq(p, 1, k)
        BY <2>11, <3>3
      <4>2. k \in 0 .. (l - 1) \/ k = l
        BY <4>1
      <4>3. k \in 0 .. (l - 1) => q \in DOMAIN tree
        BY <3>2, <3>3, <4>1
      <4>4. q \notin DOMAIN tree
        BY <2>11
      <4> HIDE DEF above, new
      <4> QED
        BY <2>3, <3>3, <4>1, <4>2, <4>3, <4>4
    <3> QED
      BY <2>11, <3>4
  <2> HIDE DEF above, new
  <2>13. Fresh(p, new)
    BY <2>2, <2>9, <2>10, <2>11 DEF Fresh
  <2> QED
    BY <2>1, <2>12, <2>13, CreateSound
<1> QED
  BY <1>1, <1>2

\* CreateChildFile, and PutRelativeFile once it has found a folder.
LEMMA NewFileInSound ==
    ASSUME Inv, NEW i \in Id, Known(i), NEW at, NEW r, NEW mode, NewFileIn(i, at, r, mode),
           asked' \in {"file", "folder"}
    PROVE  Sound
<1>1. ASSUME NEW p, CreateFile(i, p) PROVE Sound
  BY <1>1, CreateFileSound
<1>2. ASSUME NEW s \in {"ok", "error", "conflict"}, Refuse(i, s) PROVE Sound
  <2>1. s \in Status /\ s # "notFound"
    BY DEF Status
  <2> QED
    BY <1>2, <2>1, RefuseSound
<1>3. PICK p : p = At(at, Candidate[r][0])
  OBVIOUS
<1>4. PICK q : q = At(at, Suggested("file", at, r))
  OBVIOUS
<1>5. \/ CreateFile(i, q)
      \/ CreateFile(i, p)
      \/ \E s \in {"ok", "error", "conflict"} : Refuse(i, s)
  BY <1>3, <1>4 DEF NewFileIn
<1> QED
  BY <1>1, <1>2, <1>5

\* A folder that has nothing in it is all there is at or below its path.
LEMMA EmptyFolder ==
    ASSUME TypeOK, TreeInv, NEW p \in DOMAIN tree, IsEmpty(p),
           NEW x \in DOMAIN tree
    PROVE  Within(p, x) <=> x = p
<1>1. p \in Paths /\ x \in Paths
  BY TreePaths
<1>2. Len(p) \in Nat /\ Len(x) \in Nat /\ SubSeq(p, 1, Len(p)) = p
      /\ SubSeq(x, 1, Len(x)) = x
  BY <1>1, WholePath
<1>3. Within(p, p)
  BY <1>2 DEF Within
<1>4. ASSUME Within(p, x), x # p PROVE FALSE
  <2>1. Len(p) <= Len(x) /\ SubSeq(x, 1, Len(p)) = p
    BY <1>4 DEF Within
  <2>2. Len(p) # Len(x)
    BY <1>2, <1>4, <2>1
  <2>3. PICK m \in Nat : m = Len(p) + 1
    BY <1>2
  <2>4. m \in 0 .. Len(x) /\ m - 1 = Len(p) /\ m # 0 /\ Len(p) \in 0 .. m
    <3>1. PICK lp \in Nat : lp = Len(p)
      BY <1>2
    <3>2. PICK lx \in Nat : lx = Len(x)
      BY <1>2
    <3>3. lp <= lx /\ lp # lx /\ m = lp + 1
      BY <2>1, <2>2, <2>3, <3>1, <3>2
    <3>4. m \in 0 .. lx /\ m - 1 = lp /\ m # 0 /\ lp \in 0 .. m
      BY <3>3
    <3> QED
      BY <3>1, <3>2, <3>4
  <2>5. PICK q : q = SubSeq(x, 1, m)
    OBVIOUS
  <2>6. q \in Paths /\ Len(q) = m
    BY <1>1, <2>4, <2>5, PrefixFacts
  <2>7. q # RootPath
    BY <2>4, <2>6, WholePath
  <2>8. SubSeq(q, 1, Len(p)) = SubSeq(x, 1, Len(p))
    BY <1>1, <2>4, <2>5, PrefixOfPrefix
  <2>9. Parent(q) = p
    BY <2>1, <2>4, <2>6, <2>8 DEF Parent
  <2>10. q \in DOMAIN tree
    BY <2>4, <2>5 DEF TreeInv
  <2> QED
    BY <2>7, <2>9, <2>10 DEF IsEmpty
<1> QED
  BY <1>3, <1>4

\* Nothing is in a file.
LEMMA FileIsEmpty ==
    ASSUME TypeOK, TreeInv, NEW p, FileExists(p)
    PROVE  IsEmpty(p)
<1>1. p \in DOMAIN tree /\ tree[p].kind = "file"
  BY DEF FileExists, Exists
<1> SUFFICES ASSUME NEW q \in DOMAIN tree, q # RootPath, Parent(q) = p
             PROVE  FALSE
  BY DEF IsEmpty
<1>2. q \in Paths /\ Len(q) \in Nat /\ Len(q) # 0
  BY TreePaths, WholePath
<1>3. PICK k : k = Len(q) - 1
  OBVIOUS
<1>4. k \in 0 .. Len(q) /\ k < Len(q) /\ SubSeq(q, 1, k) = p
  BY <1>2, <1>3 DEF Parent
<1>5. tree[p].kind = "folder"
  BY <1>4 DEF TreeInv
<1> QED
  BY <1>1, <1>5

-----------------------------------------------------------------------------
(* Renaming.                                                               *)

\* What Rename does to the tree: everything is where it was, with another name
\* for the one component, and nothing was at or below "to".
Renamed(from, to) ==
    /\ DOMAIN tree' = {Swapped(x, from, to) : x \in DOMAIN tree}
    /\ \A x \in DOMAIN tree : tree'[Swapped(x, from, to)] = tree[x]

\* Nothing was at or below "to", so nothing is written over.
LEMMA RenamedTree ==
    ASSUME TypeOK, TreeInv, NEW i, NEW from \in DOMAIN tree, NEW to, Twins(from, to),
           from = ids[i], to \notin DOMAIN tree, Rename(i, to)
    PROVE  Renamed(from, to)
<1>1. ASSUME NEW x \in DOMAIN tree
      PROVE  ~Within(to, x) /\ Swapped(Swapped(x, from, to), to, from) = x
  <2>1. x \in Paths /\ to \in Paths
    BY TreePaths DEF Twins
  <2>2. Len(x) \in Nat /\ Len(to) \in Nat
    BY <2>1, WholePath
  <2>3. ASSUME Within(to, x) PROVE FALSE
    <3>1. Len(to) <= Len(x) /\ SubSeq(x, 1, Len(to)) = to
      BY <2>3 DEF Within
    <3>2. Len(to) \in 0 .. Len(x)
      BY <2>2, <3>1
    <3>3. PICK k \in 0 .. Len(x) : k = Len(to)
      BY <3>2
    <3>4. SubSeq(x, 1, k) \in DOMAIN tree
      BY DEF TreeInv
    <3> QED
      BY <3>1, <3>3, <3>4
  <2> QED
    BY <2>1, <2>3, SwappedBack
<1>2. tree' = [q \in {Swapped(x, from, to) : x \in DOMAIN tree} |->
                 tree[Swapped(q, to, from)]]
  BY DEF Rename, Moved
<1>3. ASSUME NEW x \in DOMAIN tree
      PROVE  tree'[Swapped(x, from, to)] = tree[x]
  <2>1. PICK q \in {Swapped(z, from, to) : z \in DOMAIN tree} : q = Swapped(x, from, to)
    OBVIOUS
  <2>2. tree'[q] = tree[Swapped(q, to, from)]
    BY <1>2
  <2>3. Swapped(q, to, from) = x
    BY <1>1, <2>1
  <2> QED
    BY <2>1, <2>2, <2>3
<1> QED
  BY <1>2, <1>3 DEF Renamed

\* The same, as a set of paths with what they were called before.
LEMMA RenamedPaths ==
    ASSUME TypeOK, TreeInv, NEW from, NEW to, Twins(from, to), Renamed(from, to)
    PROVE  \E was \in [DOMAIN tree' -> DOMAIN tree] :
              /\ \A q \in DOMAIN tree' : /\ q = Swapped(was[q], from, to)
                                         /\ tree'[q] = tree[was[q]]
                                         /\ q \in Paths /\ Len(q) = Len(was[q])
              /\ \A x \in DOMAIN tree : \E q \in DOMAIN tree' : was[q] = x
<1>1. /\ DOMAIN tree' = {Swapped(x, from, to) : x \in DOMAIN tree}
      /\ \A x \in DOMAIN tree : tree'[Swapped(x, from, to)] = tree[x]
  BY DEF Renamed
<1> DEFINE was == [q \in DOMAIN tree' |->
                     CHOOSE x \in DOMAIN tree : q = Swapped(x, from, to)]
<1>2. ASSUME NEW q \in DOMAIN tree'
      PROVE  was[q] \in DOMAIN tree /\ q = Swapped(was[q], from, to)
  BY <1>1
<1>3. was \in [DOMAIN tree' -> DOMAIN tree]
  BY <1>2
<1> HIDE DEF was
<1>4. ASSUME NEW q \in DOMAIN tree'
      PROVE  /\ q = Swapped(was[q], from, to)
             /\ tree'[q] = tree[was[q]]
             /\ q \in Paths /\ Len(q) = Len(was[q])
  <2>1. PICK x \in DOMAIN tree : x = was[q]
    BY <1>2
  <2>2. q = Swapped(x, from, to) /\ tree'[q] = tree[x]
    BY <1>1, <1>2, <2>1
  <2>3. q \in Paths /\ Len(q) = Len(x)
    BY <2>2, TreePaths, SwappedComponents
  <2> QED
    BY <2>1, <2>2, <2>3
<1>5. ASSUME NEW x \in DOMAIN tree
      PROVE  \E q \in DOMAIN tree' : was[q] = x
  <2>1. PICK q \in DOMAIN tree' : q = Swapped(x, from, to) /\ tree'[q] = tree[x]
    BY <1>1
  <2>2. PICK z \in DOMAIN tree : z = was[q]
    BY <1>2
  <2>3. tree[z] = tree[x]
    BY <1>4, <2>1, <2>2
  <2>4. z = x
    BY <2>3 DEF TreeInv
  <2> QED
    BY <2>2, <2>4
<1> QED
  BY <1>3, <1>4, <1>5

\* A renaming keeps the types.
LEMMA RenameKeepsTypes ==
    ASSUME TypeOK, TreeInv, NEW i \in Id, NEW from, NEW to, Twins(from, to),
           from = ids[i], from \in DOMAIN tree, Renamed(from, to), Rename(i, to), Known(i),
           asked' \in {"file", "folder"}
    PROVE  TypeOK'
<1>1. /\ made' = made /\ run' = run /\ last' = [id |-> i, status |-> "ok"]
      /\ issued' = issued
      /\ ids' = [ids EXCEPT ![i] = to] /\ shaken' = (shaken \/ ~IsEmpty(ids[i]))
  BY DEF Rename, Answer, UpdateFile
<1>2. PICK was \in [DOMAIN tree' -> DOMAIN tree] :
         \A q \in DOMAIN tree' : /\ q = Swapped(was[q], from, to)
                                 /\ tree'[q] = tree[was[q]]
                                 /\ q \in Paths /\ Len(q) = Len(was[q])
  BY RenamedPaths
<1>3. \A x \in DOMAIN tree : /\ Len(x) <= Depth
                             /\ tree[x] \in Object /\ tree[x].no <= made
  BY TreePaths
<1>4. \A q \in DOMAIN tree' : IsPath(q)
  BY <1>2, <1>3 DEF IsPath, Paths
<1>5. Range(tree') \subseteq {o \in Object : o.no <= made'}
  BY <1>1, <1>2, <1>3 DEF Range
<1>6. IsPath(to)
  BY <1>3 DEF Twins, IsPath, Paths
<1>7. DOMAIN ids' = DOMAIN ids /\ \A j \in DOMAIN ids : ids'[j] = ids[j] \/ ids'[j] = to
  BY <1>1
<1>8. \A p \in Range(ids') : IsPath(p)
  BY <1>6, <1>7 DEF TypeOK, Range
<1>9. /\ DOMAIN ids' \subseteq DOMAIN issued'
      /\ DOMAIN issued' \subseteq {j \in Guid : j.run = run'} \cup {Wopitest}
      /\ Range(issued') \subseteq {o \in Object : o.no <= made'}
  BY <1>1, <1>7 DEF TypeOK, Range
<1>10. shaken' \in BOOLEAN /\ last' \in [id : Id, status : Status]
  BY <1>1 DEF Status
<1> QED
  BY <1>1, <1>4, <1>5, <1>8, <1>9, <1>10 DEF TypeOK

\* A renaming keeps the shape of the tree: the folders above move along.
LEMMA RenameKeepsTree ==
    ASSUME TypeOK, TreeInv, NEW i \in Id, NEW from, NEW to, Twins(from, to),
           from = ids[i], from \in DOMAIN tree, Renamed(from, to), Rename(i, to), Known(i)
    PROVE  TreeInv'
<1>1. ids' = [ids EXCEPT ![i] = to]
  BY DEF Rename, UpdateFile
<1>2. PICK was \in [DOMAIN tree' -> DOMAIN tree] :
         \A q \in DOMAIN tree' : /\ q = Swapped(was[q], from, to)
                                 /\ tree'[q] = tree[was[q]]
                                 /\ q \in Paths /\ Len(q) = Len(was[q])
  BY RenamedPaths
<1>3. from \in Paths /\ to \in Paths /\ Len(from) \in Nat \ {0} /\ Len(to) = Len(from)
  BY DEF Twins
<1>4. from # RootPath /\ to # RootPath
  BY <1>3, WholePath
<1>5. RootPath \in DOMAIN tree' /\ tree'[RootPath] = Root
  <2>1. RootPath \in DOMAIN tree /\ RootPath \in Paths /\ tree[RootPath] = Root
    BY TreePaths DEF TreeInv
  <2>2. Len(RootPath) = 0
    BY <2>1, WholePath
  <2>3. ~Within(from, RootPath)
    BY <1>3, <2>2 DEF Within
  <2>4. Swapped(RootPath, from, to) = RootPath
    BY <2>3 DEF Swapped
  <2> QED
    BY <2>1, <2>4 DEF Renamed
<1>6. ASSUME NEW q \in DOMAIN tree', NEW k \in 0 .. Len(q)
      PROVE  /\ SubSeq(q, 1, k) \in DOMAIN tree'
             /\ k < Len(q) => tree'[SubSeq(q, 1, k)].kind = "folder"
  <2>1. PICK x \in DOMAIN tree : x = was[q]
    BY <1>2
  <2>2. q = Swapped(x, from, to) /\ x \in Paths /\ Len(q) = Len(x)
    BY <1>2, <2>1, TreePaths
  <2>3. k \in 0 .. Len(x)
    BY <2>2
  <2>4. SubSeq(q, 1, k) = Swapped(SubSeq(x, 1, k), from, to)
    BY <2>2, <2>3, SwappedPrefix
  <2>5. PICK u : u = SubSeq(x, 1, k)
    OBVIOUS
  <2>6. u \in DOMAIN tree /\ (k < Len(x) => tree[u].kind = "folder")
    BY <2>3, <2>5 DEF TreeInv
  <2>7. SubSeq(q, 1, k) \in DOMAIN tree' /\ tree'[SubSeq(q, 1, k)] = tree[u]
    BY <2>4, <2>5, <2>6 DEF Renamed
  <2> QED
    BY <2>2, <2>6, <2>7
<1>7. ASSUME NEW q \in DOMAIN tree', NEW r \in DOMAIN tree', tree'[q].no = tree'[r].no
      PROVE  q = r
  <2>1. was[q] \in DOMAIN tree /\ was[r] \in DOMAIN tree
    BY <1>2
  <2>2. tree[was[q]].no = tree[was[r]].no
    BY <1>2, <1>7
  <2>3. was[q] = was[r]
    BY <2>1, <2>2 DEF TreeInv
  <2> QED
    BY <1>2, <2>3
<1>8. ASSUME NEW j \in DOMAIN ids', ids'[j] = RootPath
      PROVE  j = [of |-> Root, run |-> run']
  <2>1. j \in DOMAIN ids /\ ids[j] = RootPath
    BY <1>1, <1>4, <1>8
  <2>2. run' = run
    BY DEF Rename
  <2> QED
    BY <2>1, <2>2 DEF TreeInv, NewId
<1> QED
  BY <1>5, <1>6, <1>7, <1>8 DEF TreeInv, NewId

\* An empty folder, or a file: nothing else moves.
LEMMA RenameKeepsTable ==
    ASSUME TypeOK, TreeInv, IssuedInv, Tabled, NEW i \in Id, NEW from, NEW to,
           Twins(from, to), from = ids[i], from \in DOMAIN tree, Renamed(from, to),
           Rename(i, to), Known(i), IsEmpty(from)
    PROVE  Tabled'
<1>1. ids' = [ids EXCEPT ![i] = to] /\ issued' = issued
  BY DEF Rename, UpdateFile
<1>2. /\ DOMAIN ids' = DOMAIN ids /\ i \in DOMAIN ids
      /\ ids'[i] = to /\ \A j \in DOMAIN ids \ {i} : ids'[j] = ids[j]
  BY <1>1 DEF Known
<1>3. tree[from] = issued[i] /\ DOMAIN ids \subseteq DOMAIN issued
  BY <1>2 DEF Tabled, TypeOK
<1>4. PICK was \in [DOMAIN tree' -> DOMAIN tree] :
         /\ \A q \in DOMAIN tree' : /\ q = Swapped(was[q], from, to)
                                    /\ tree'[q] = tree[was[q]]
         /\ \A x \in DOMAIN tree : \E q \in DOMAIN tree' : was[q] = x
  BY RenamedPaths
<1>5. ASSUME NEW x \in DOMAIN tree
      PROVE  Swapped(x, from, to) = IF x = from THEN to ELSE x
  <2>1. Within(from, x) <=> x = from
    BY EmptyFolder
  <2>2. CASE x # from
    BY <2>1, <2>2 DEF Swapped
  <2>3. CASE x = from
    <3>1. from \in Paths /\ to \in Paths /\ Len(to) = Len(from) /\ Len(from) \in Nat
      BY DEF Twins
    <3>2. PICK y : y = Swapped(from, from, to)
      OBVIOUS
    <3>3. /\ y \in Paths /\ Len(y) = Len(from)
          /\ \A j \in 1 .. Len(from) : y[j] = IF j <= Len(from) THEN to[j] ELSE from[j]
      BY <2>1, <2>3, <3>1, <3>2, SwappedComponents
    <3>4. \A j \in 1 .. Len(from) : y[j] = to[j]
      BY <3>1, <3>3
    <3>5. y = to
      BY <3>1, <3>3, <3>4, SamePath
    <3> QED
      BY <2>3, <3>2, <3>5
  <2> QED
    BY <2>2, <2>3
<1>6. ASSUME NEW x \in DOMAIN tree
      PROVE  LET q == IF x = from THEN to ELSE x
             IN  q \in DOMAIN tree' /\ tree'[q] = tree[x]
  BY <1>5 DEF Renamed
<1>7. ASSUME NEW q \in DOMAIN tree'
      PROVE  \E x \in DOMAIN tree : q = (IF x = from THEN to ELSE x) /\ tree'[q] = tree[x]
  BY <1>4, <1>5
<1>8. ASSUME NEW j \in DOMAIN ids'
      PROVE  ids'[j] \in DOMAIN tree' /\ tree'[ids'[j]] = issued'[j]
  <2>1. CASE j = i
    BY <1>1, <1>2, <1>3, <1>6, <2>1
  <2>2. CASE j # i
    <3>1. PICK x \in DOMAIN tree : x = ids[j] /\ tree[x] = issued[j]
      BY <1>2 DEF Tabled
    <3>2. x # from
      BY <1>2, <1>3, <2>2, <3>1, OneIdEach
    <3>3. x \in DOMAIN tree' /\ tree'[x] = tree[x]
      BY <1>6, <3>2
    <3> QED
      BY <1>1, <1>2, <2>2, <3>1, <3>3
  <2> QED
    BY <2>1, <2>2
<1>9. ASSUME NEW j \in DOMAIN issued', issued'[j] \in Range(tree')
      PROVE  j \in DOMAIN ids'
  <2>1. PICK q \in DOMAIN tree' : tree'[q] = issued'[j]
    BY <1>9 DEF Range
  <2>2. PICK x \in DOMAIN tree : tree[x] = issued'[j]
    BY <1>7, <2>1
  <2>3. j \in DOMAIN issued /\ issued[j] \in Range(tree)
    BY <1>1, <2>2 DEF Range
  <2> QED
    BY <1>2, <2>3 DEF Tabled
<1>10. ASSUME NEW q \in DOMAIN tree', q \notin Range(ids')
       PROVE  TestFile(q)' /\ Wopitest \in DOMAIN issued' /\ issued'[Wopitest] # tree'[q]
  <2>1. \A j \in DOMAIN ids' : ids'[j] # q
    BY <1>10 DEF Range
  <2>2. PICK x \in DOMAIN tree : q = (IF x = from THEN to ELSE x) /\ tree'[q] = tree[x]
    BY <1>7
  <2>3. x # from /\ q = x
    BY <1>2, <2>1, <2>2
  <2>4. \A j \in DOMAIN ids : ids[j] # q
    BY <1>2, <2>1, <2>3
  <2>5. q \in DOMAIN tree \ Range(ids) /\ tree'[q] = tree[q]
    BY <2>2, <2>3, <2>4 DEF Range
  <2>6. TestFile(q) /\ Wopitest \in DOMAIN issued /\ issued[Wopitest] # tree[q]
    BY <2>5 DEF Tabled
  <2> QED
    BY <1>1, <2>5, <2>6 DEF TestFile, FileExists, Exists
<1> QED
  BY <1>8, <1>9, <1>10 DEF Tabled

\* A renaming that goes ahead.
LEMMA RenameSound ==
    ASSUME Inv, NEW i \in Id, Known(i), NEW from, from = ids[i], from \in DOMAIN tree,
           from # RootPath, NEW n \in Names, NEW to, to = At(Parent(from), n),
           to \notin DOMAIN tree, Rename(i, to), asked' \in {"file", "folder"}
    PROVE  Sound
<1>1. TypeOK /\ TreeInv /\ IssuedInv
  BY DEF Inv
<1>2. Twins(from, to)
  <2>1. from \in Paths
    BY <1>1, TreePaths
  <2>2. /\ to \in Paths /\ Len(to) = Len(from) /\ Len(from) \in Nat \ {0}
        /\ \A j \in 1 .. (Len(from) - 1) : to[j] = from[j]
    BY <2>1, Siblings
  <2> QED
    BY <2>1, <2>2 DEF Twins
<1>3. Renamed(from, to)
  BY <1>1, <1>2, RenamedTree
<1>4. TypeOK' /\ TreeInv'
  BY <1>1, <1>2, <1>3, RenameKeepsTypes, RenameKeepsTree
<1>5. /\ shaken' = (shaken \/ ~IsEmpty(from)) /\ last' = [id |-> i, status |-> "ok"]
      /\ issued' = issued /\ run' = run
  BY DEF Rename, Answer
<1>6. IssuedInv'
  BY <1>1, <1>5 DEF IssuedInv, NewId
<1>7. ASSUME ~shaken'
      PROVE  Tabled'
  <2>1. Tabled /\ IsEmpty(from)
    BY <1>5, <1>7 DEF Inv
  <2> QED
    BY <1>1, <1>2, <1>3, <2>1, RenameKeepsTable
<1>8. AnsweredTruly'
  BY <1>5 DEF AnsweredTruly
<1>9. Lossless
  BY <1>3 DEF Lossless, Renamed, Range
<1> QED
  BY <1>4, <1>6, <1>7, <1>8, <1>9 DEF Sound, Inv

-----------------------------------------------------------------------------
(* Deleting.                                                               *)

\* A file, or an empty folder: nothing else goes.
LEMMA EraseSound ==
    ASSUME Inv, NEW i \in Id, Known(i), NEW from, from = ids[i], from \in DOMAIN tree,
           from # RootPath, IsEmpty(from), Erase(i), asked' \in {"file", "folder"}
    PROVE  Sound
<1>0. TypeOK /\ TreeInv /\ IssuedInv
  BY DEF Inv
<1>1. /\ made' = made /\ run' = run /\ shaken' = shaken /\ issued' = issued
      /\ last' = [id |-> i, status |-> "ok"]
  BY DEF Erase, Answer
<1>2. /\ DOMAIN tree' = DOMAIN tree \ {from}
      /\ \A q \in DOMAIN tree' : tree'[q] = tree[q]
  <2>1. \A q \in DOMAIN tree : Within(from, q) <=> q = from
    BY <1>0, EmptyFolder
  <2> QED
    BY <2>1 DEF Erase, Restrict
<1>3. /\ DOMAIN ids' = DOMAIN ids \ {i}
      /\ \A j \in DOMAIN ids' : ids'[j] = ids[j]
  BY DEF Erase, RemoveId, Restrict
<1>4. TypeOK'
  <2>1. \A q \in DOMAIN tree' : IsPath(q)
    BY <1>0, <1>2 DEF TypeOK
  <2>2. Range(tree') \subseteq {o \in Object : o.no <= made'}
    BY <1>0, <1>1, <1>2 DEF TypeOK, Range
  <2>3. /\ DOMAIN ids' \subseteq DOMAIN issued'
        /\ DOMAIN issued' \subseteq {j \in Guid : j.run = run'} \cup {Wopitest}
        /\ Range(issued') \subseteq {o \in Object : o.no <= made'}
    BY <1>0, <1>1, <1>3 DEF TypeOK
  <2>4. \A p \in Range(ids') : IsPath(p)
    BY <1>0, <1>3 DEF TypeOK, Range
  <2>5. last' \in [id : Id, status : Status]
    BY <1>1 DEF Status
  <2> QED
    BY <1>0, <1>1, <2>1, <2>2, <2>3, <2>4, <2>5 DEF TypeOK
<1>5. TreeInv'
  <2>1. RootPath \in DOMAIN tree' /\ tree'[RootPath] = Root
    BY <1>0, <1>2 DEF TreeInv
  <2>2. ASSUME NEW q \in DOMAIN tree', NEW k \in 0 .. Len(q)
        PROVE  /\ SubSeq(q, 1, k) \in DOMAIN tree'
               /\ k < Len(q) => tree'[SubSeq(q, 1, k)].kind = "folder"
    <3>1. q \in DOMAIN tree /\ q # from
      BY <1>2
    <3>2. /\ SubSeq(q, 1, k) \in DOMAIN tree
          /\ k < Len(q) => tree[SubSeq(q, 1, k)].kind = "folder"
      BY <1>0, <3>1 DEF TreeInv
    <3>3. SubSeq(q, 1, k) # from
      <4>1. q \in Paths
        BY <1>0, <3>1, TreePaths
      <4>2. Len(SubSeq(q, 1, k)) = k /\ Len(q) \in Nat
        BY <4>1, PrefixFacts, WholePath
      <4>3. SubSeq(q, 1, k) = from => Within(from, q)
        BY <4>2 DEF Within
      <4> QED
        BY <1>0, <3>1, <4>3, EmptyFolder
    <3> QED
      BY <1>2, <3>2, <3>3
  <2>3. \A q, r \in DOMAIN tree' : tree'[q].no = tree'[r].no => q = r
    BY <1>0, <1>2 DEF TreeInv
  <2>4. \A j \in DOMAIN ids' : ids'[j] = RootPath => j = [of |-> Root, run |-> run']
    BY <1>0, <1>1, <1>3 DEF TreeInv, NewId
  <2> QED
    BY <2>1, <2>2, <2>3, <2>4 DEF TreeInv, NewId
<1>6. IssuedInv'
  BY <1>0, <1>1 DEF IssuedInv, NewId
<1>9. ASSUME ~shaken'
      PROVE  Tabled'
  <2>1. Tabled /\ i \in DOMAIN ids /\ tree[from] = issued[i]
    BY <1>1, <1>9 DEF Inv, Tabled, Known
  <2>2. DOMAIN ids \subseteq DOMAIN issued
    BY <1>0 DEF TypeOK
  <2>3. ASSUME NEW j \in DOMAIN ids'
        PROVE  ids'[j] \in DOMAIN tree' /\ tree'[ids'[j]] = issued'[j]
    <3>1. j \in DOMAIN ids /\ j # i
      BY <1>3
    <3>2. PICK x \in DOMAIN tree : x = ids[j] /\ tree[x] = issued[j]
      BY <2>1, <3>1 DEF Tabled
    <3>3. x # from
      BY <1>0, <2>1, <2>2, <3>1, <3>2, OneIdEach
    <3> QED
      BY <1>1, <1>2, <1>3, <3>2, <3>3
  <2>4. ASSUME NEW j \in DOMAIN issued', issued'[j] \in Range(tree')
        PROVE  j \in DOMAIN ids'
    <3>1. PICK x \in DOMAIN tree' : tree'[x] = issued'[j]
      BY <2>4 DEF Range
    <3>2. x \in DOMAIN tree /\ x # from /\ tree[x] = issued[j] /\ j \in DOMAIN issued
      BY <1>1, <1>2, <3>1
    <3>3. j \in DOMAIN ids
      BY <2>1, <3>2 DEF Tabled, Range
    <3>4. j # i
      BY <1>0, <2>1, <3>2 DEF TreeInv
    <3> QED
      BY <1>3, <3>3, <3>4
  <2>5. ASSUME NEW q \in DOMAIN tree', q \notin Range(ids')
        PROVE  TestFile(q)' /\ Wopitest \in DOMAIN issued' /\ issued'[Wopitest] # tree'[q]
    <3>1. q \in DOMAIN tree /\ q # from /\ tree'[q] = tree[q]
      BY <1>2
    <3>2. \A j \in DOMAIN ids : ids[j] # q
      BY <1>3, <2>5, <3>1 DEF Range
    <3>3. q \notin Range(ids)
      BY <3>2 DEF Range
    <3>4. TestFile(q) /\ Wopitest \in DOMAIN issued /\ issued[Wopitest] # tree[q]
      BY <2>1, <3>1, <3>3 DEF Tabled
    <3> QED
      BY <1>1, <1>2, <3>1, <3>4 DEF TestFile, FileExists, Exists
  <2> QED
    BY <2>3, <2>4, <2>5 DEF Tabled
<1>7. AnsweredTruly'
  BY <1>1 DEF AnsweredTruly
<1>8. Lossless
  <2> SUFFICES ASSUME NEW x \in DOMAIN tree, tree[x] \notin Range(tree')
               PROVE  Known(last'.id) /\ tree[ids[last'.id]] = tree[x]
    BY DEF Lossless, Range
  <2>1. x = from
    BY <1>2 DEF Range
  <2>2. last'.id = i
    BY <1>1
  <2> QED
    BY <2>1, <2>2
<1> QED
  BY <1>4, <1>5, <1>6, <1>7, <1>8, <1>9 DEF Sound, Inv

-----------------------------------------------------------------------------
(* Starting the host, for the first time and again.                        *)

\* Each path that is scanned gets one identifier, and no other path has it.
LEMMA ScanFacts ==
    ASSUME \A p, q \in DOMAIN tree : tree[p].no = tree[q].no => p = q,
           \A p \in DOMAIN tree : tree[p] \in Object,
           NEW k \in 1 .. MaxRuns, NEW kept
    PROVE  /\ \A i \in DOMAIN Scan(k, kept) :
                 Scan(k, kept)[i] \in Scanned(kept) /\ ScanId(k, Scan(k, kept)[i]) = i
           /\ \A p \in Scanned(kept) :
                 ScanId(k, p) \in DOMAIN Scan(k, kept) /\ Scan(k, kept)[ScanId(k, p)] = p
<1> DEFINE D == {ScanId(k, p) : p \in Scanned(kept)}
           V(i) == CHOOSE p \in Scanned(kept) : ScanId(k, p) = i
<1>1. Scan(k, kept) = [i \in D |-> V(i)]
  BY DEF Scan
<1>2. ASSUME NEW i \in D
      PROVE  V(i) \in Scanned(kept) /\ ScanId(k, V(i)) = i
  <2>1. \E p \in Scanned(kept) : ScanId(k, p) = i
    OBVIOUS
  <2> QED
    BY <2>1
<1>3. ASSUME NEW p \in Scanned(kept), NEW q \in Scanned(kept), ScanId(k, p) = ScanId(k, q)
      PROVE  p = q
  <2>1. p \in DOMAIN tree /\ q \in DOMAIN tree
    BY DEF Scanned
  <2>2. ASSUME NEW x \in DOMAIN tree, ~TestFile(x)
        PROVE  ScanId(k, x) = [of |-> tree[x], run |-> k] /\ ScanId(k, x) # Wopitest
    <3>1. [of |-> tree[x], run |-> k] \in Guid
      BY DEF Guid
    <3> QED
      BY <2>2, <3>1, FsIdsAssumption DEF ScanId
  <2>3. CASE TestFile(p) /\ TestFile(q)
    BY <2>3 DEF Scanned
  <2>4. CASE ~TestFile(p) /\ ~TestFile(q)
    <3>1. [of |-> tree[p], run |-> k] = [of |-> tree[q], run |-> k]
      BY <1>3, <2>1, <2>2, <2>4
    <3>2. tree[p] = tree[q]
      BY <3>1
    <3> QED
      BY <2>1, <3>2
  <2>5. TestFile(p) <=> TestFile(q)
    BY <1>3, <2>1, <2>2 DEF ScanId
  <2> QED
    BY <2>3, <2>4, <2>5
<1>4. \A p \in Scanned(kept) : ScanId(k, p) \in D
  OBVIOUS
<1> HIDE DEF D, V
<1> QED
  BY <1>1, <1>2, <1>3, <1>4

\* A scan gives identifiers of the right types, each for what it names, to all but
\* the test files that another test file came after.
LEMMA ScanKeeps ==
    ASSUME \A p \in DOMAIN tree : IsPath(p),
           \A p, q \in DOMAIN tree : tree[p].no = tree[q].no => p = q,
           \A p \in DOMAIN tree : tree[p] \in Object,
           RootPath \in DOMAIN tree, tree[RootPath] = Root,
           NEW k \in 1 .. MaxRuns, NEW kept \in DOMAIN tree, LastTestFile(kept),
           NEW table, table = Scan(k, kept), NEW given, given = Identified(k, kept)
    PROVE  /\ DOMAIN given = DOMAIN table
           /\ \A i \in DOMAIN table :
                 /\ i # Wopitest => i \in Guid /\ i.run = k /\ given[i] = i.of
                 /\ table[i] \in DOMAIN tree /\ tree[table[i]] = given[i]
                 /\ table[i] = RootPath => i = [of |-> Root, run |-> k]
           /\ Wopitest \in DOMAIN table =>
                 [of |-> given[Wopitest], run |-> k] \notin DOMAIN table
           /\ \A p \in DOMAIN tree \ Range(table) :
                 TestFile(p) /\ Wopitest \in DOMAIN table /\ given[Wopitest] # tree[p]
<1>1. /\ \A i \in DOMAIN table : table[i] \in Scanned(kept) /\ ScanId(k, table[i]) = i
      /\ \A p \in Scanned(kept) : ScanId(k, p) \in DOMAIN table /\ table[ScanId(k, p)] = p
  BY ScanFacts
<1>2. given = [i \in DOMAIN table |-> tree[table[i]]]
  BY DEF Identified
<1>3. \A p \in Scanned(kept) : p \in DOMAIN tree /\ (TestFile(p) => p = kept)
  BY DEF Scanned
<1>4. ASSUME NEW i \in DOMAIN table
      PROVE  /\ i # Wopitest => i \in Guid /\ i.run = k /\ given[i] = i.of
             /\ table[i] \in DOMAIN tree /\ tree[table[i]] = given[i]
             /\ table[i] = RootPath => i = [of |-> Root, run |-> k]
  <2>1. PICK p \in DOMAIN tree : p = table[i] /\ ScanId(k, p) = i
    BY <1>1, <1>3
  <2>2. given[i] = tree[p]
    BY <1>2, <2>1
  <2>3. i # Wopitest => i = [of |-> tree[p], run |-> k]
    BY <2>1 DEF ScanId
  <2>4. [of |-> tree[p], run |-> k] \in Guid
    BY DEF Guid
  <2>5. ASSUME p = RootPath PROVE i = [of |-> Root, run |-> k]
    BY <2>1, <2>5 DEF ScanId, TestFile
  <2> QED
    BY <2>1, <2>2, <2>3, <2>4, <2>5
<1>5. ASSUME Wopitest \in DOMAIN table
      PROVE  /\ TestFile(kept) /\ table[Wopitest] = kept /\ given[Wopitest] = tree[kept]
             /\ [of |-> given[Wopitest], run |-> k] \notin DOMAIN table
  <2>1. PICK q \in DOMAIN tree : q = table[Wopitest] /\ ScanId(k, q) = Wopitest
                               /\ (TestFile(q) => q = kept)
    BY <1>1, <1>3, <1>5
  <2>2. TestFile(q)
    <3>1. [of |-> tree[q], run |-> k] \in Guid
      BY DEF Guid
    <3> QED
      BY <2>1, <3>1, FsIdsAssumption DEF ScanId
  <2>3. q = kept /\ given[Wopitest] = tree[kept]
    BY <1>2, <1>5, <2>1, <2>2
  <2>4. ASSUME NEW i \in DOMAIN table, i = [of |-> tree[kept], run |-> k]
        PROVE  FALSE
    <3>1. i # Wopitest
      BY <2>4, FsIdsAssumption DEF Guid
    <3>2. i.of = tree[kept] /\ given[i] = i.of
      BY <1>4, <2>4, <3>1
    <3>3. table[i] = kept
      BY <1>4, <3>2
    <3> QED
      BY <1>1, <2>2, <2>3, <3>1, <3>3 DEF ScanId
  <2> QED
    BY <2>1, <2>2, <2>3, <2>4
<1>6. ASSUME NEW p \in DOMAIN tree, p \notin Range(table)
      PROVE  TestFile(p) /\ Wopitest \in DOMAIN table /\ given[Wopitest] # tree[p]
  <2>1. p \notin Scanned(kept)
    BY <1>1, <1>6 DEF Range
  <2>2. TestFile(p) /\ p # kept
    BY <2>1 DEF Scanned
  <2>3. TestFile(kept)
    BY <2>2 DEF LastTestFile
  <2>4. kept \in Scanned(kept) /\ ScanId(k, kept) = Wopitest
    BY <2>3 DEF Scanned, ScanId
  <2>5. Wopitest \in DOMAIN table
    BY <1>1, <2>4
  <2>6. given[Wopitest] = tree[kept]
    BY <1>5, <2>5
  <2> QED
    BY <2>2, <2>5, <2>6
<1> QED
  BY <1>2, <1>4, <1>5, <1>6

\* A new run starts from a scan.
LEMMA RestartSound ==
    ASSUME Inv, Restart, asked' \in {"file", "folder"}
    PROVE  Sound
<1>1. /\ run < MaxRuns /\ run' = run + 1 /\ shaken' = FALSE
      /\ last' = [id |-> [of |-> Root, run |-> run + 1], status |-> "none"]
      /\ tree' = tree /\ made' = made
  BY DEF Restart
<1>2. PICK k \in 1 .. MaxRuns : k = run + 1
  BY <1>1, FsIdsAssumption DEF Inv, TypeOK
<1>3. PICK kept \in DOMAIN tree : /\ LastTestFile(kept)
                                  /\ ids' = Scan(k, kept) /\ issued' = Identified(k, kept)
  BY <1>2 DEF Restart
<1>4. /\ DOMAIN issued' = DOMAIN ids' /\ run' = k
      /\ \A i \in DOMAIN ids' :
            /\ i # Wopitest => i \in Guid /\ i.run = k /\ issued'[i] = i.of
            /\ ids'[i] \in DOMAIN tree /\ tree[ids'[i]] = issued'[i]
            /\ ids'[i] = RootPath => i = [of |-> Root, run |-> k]
      /\ Wopitest \in DOMAIN ids' =>
            [of |-> issued'[Wopitest], run |-> k] \notin DOMAIN ids'
      /\ \A p \in DOMAIN tree \ Range(ids') :
            TestFile(p) /\ Wopitest \in DOMAIN ids' /\ issued'[Wopitest] # tree[p]
  <2>1. PICK table : table = ids'
    OBVIOUS
  <2>2. PICK given : given = issued'
    OBVIOUS
  <2>3. /\ \A p \in DOMAIN tree : IsPath(p)
        /\ \A p, q \in DOMAIN tree : tree[p].no = tree[q].no => p = q
        /\ \A p \in DOMAIN tree : tree[p] \in Object
        /\ RootPath \in DOMAIN tree /\ tree[RootPath] = Root
    BY TreePaths DEF Inv, TypeOK, TreeInv
  <2>4. table = Scan(k, kept) /\ given = Identified(k, kept)
    BY <1>3, <2>1, <2>2
  <2>5. /\ DOMAIN given = DOMAIN table
        /\ \A i \in DOMAIN table :
              /\ i # Wopitest => i \in Guid /\ i.run = k /\ given[i] = i.of
              /\ table[i] \in DOMAIN tree /\ tree[table[i]] = given[i]
              /\ table[i] = RootPath => i = [of |-> Root, run |-> k]
        /\ Wopitest \in DOMAIN table =>
              [of |-> given[Wopitest], run |-> k] \notin DOMAIN table
        /\ \A p \in DOMAIN tree \ Range(table) :
              TestFile(p) /\ Wopitest \in DOMAIN table /\ given[Wopitest] # tree[p]
    BY <1>3, <2>3, <2>4, ScanKeeps
  <2> QED
    BY <1>1, <1>2, <2>1, <2>2, <2>5
<1>5. TypeOK'
  <2>1. [of |-> Root, run |-> k] \in Id
    BY FsIdsAssumption DEF Id, Guid, Root, Object
  <2>2. last' \in [id : Id, status : Status]
    BY <1>1, <1>2, <2>1 DEF Status
  <2>3. DOMAIN issued' \subseteq {i \in Guid : i.run = run'} \cup {Wopitest}
    BY <1>4
  <2>4. \A p \in Range(ids') : IsPath(p)
    BY <1>4 DEF Range, Inv, TypeOK
  <2>5. Range(issued') \subseteq {o \in Object : o.no <= made'}
    BY <1>1, <1>4 DEF Range, Inv, TypeOK
  <2> QED
    BY <1>1, <1>4, <2>2, <2>3, <2>4, <2>5 DEF Inv, TypeOK
<1>6. TreeInv'
  BY <1>1, <1>4 DEF Inv, TreeInv, NewId
<1>7. IssuedInv'
  BY <1>4 DEF IssuedInv, NewId
<1>8. Tabled'
  BY <1>1, <1>4 DEF Tabled, TestFile, FileExists, Exists
<1>9. AnsweredTruly'
  BY <1>1 DEF AnsweredTruly
<1>10. Lossless
  BY <1>1 DEF Lossless
<1> QED
  BY <1>5, <1>6, <1>7, <1>8, <1>9, <1>10 DEF Sound, Inv

\* A set of natural numbers that is not empty has a least one.
LEMMA Least ==
    ASSUME NEW T, T \subseteq Nat, T # {}
    PROVE  \E x \in T : \A y \in T : x <= y
<1> DEFINE R == {ss \in Nat \X Nat : ss[1] < ss[2]}
<1>1. IsWellFoundedOn(R, Nat)
  BY NatLessThanWellFounded DEF OpToRel
<1>2. PICK x \in T : \A y \in T : ~(<<y, x>> \in R)
  <2> HIDE DEF R
  <2> QED
    BY <1>1, WFMin
<1>3. \A y \in T : ~(y < x)
  BY <1>2
<1> QED
  BY <1>3

\* With every path, the disk has all the folders above it: go up to the nearest
\* that is missing, and the one below it has no parent.
LEMMA OnDiskAbove ==
    ASSUME NEW p \in DOMAIN OnDisk, NEW k \in 0 .. Len(p)
    PROVE  /\ SubSeq(p, 1, k) \in DOMAIN OnDisk
           /\ k < Len(p) => OnDisk[SubSeq(p, 1, k)].kind = "folder"
<1>1. \A q \in DOMAIN OnDisk :
         q \in Paths /\ (q # RootPath => Parent(q) \in DOMAIN OnDisk
                                         /\ OnDisk[Parent(q)].kind = "folder")
  BY FsIdsAssumption DEF IsPath, Paths
<1>2. PICK l \in Nat : l = Len(p)
  BY <1>1, WholePath
<1>3. SubSeq(p, 1, l) = p
  BY <1>1, <1>2, WholePath
<1>4. ASSUME NEW m \in 1 .. l, SubSeq(p, 1, m) \in DOMAIN OnDisk
      PROVE  SubSeq(p, 1, m - 1) \in DOMAIN OnDisk
             /\ OnDisk[SubSeq(p, 1, m - 1)].kind = "folder"
  <2>1. m \in 0 .. Len(p) /\ m - 1 \in 0 .. m
    BY <1>2
  <2>2. PICK q \in DOMAIN OnDisk : q = SubSeq(p, 1, m)
    BY <1>4
  <2>3. q \in Paths /\ Len(q) = m
    BY <1>1, <2>1, <2>2, PrefixFacts
  <2>4. q # RootPath
    BY <2>3, WholePath
  <2>5. Parent(q) = SubSeq(p, 1, m - 1)
    BY <1>1, <2>1, <2>2, <2>3, PrefixOfPrefix DEF Parent
  <2> QED
    BY <1>1, <2>4, <2>5
<1>5. \A j \in 0 .. l : SubSeq(p, 1, l - j) \in DOMAIN OnDisk
  <2> DEFINE Missing == {j \in 0 .. l : SubSeq(p, 1, l - j) \notin DOMAIN OnDisk}
  <2> SUFFICES ASSUME Missing # {} PROVE FALSE
    OBVIOUS
  <2>1. PICK j \in Missing : \A h \in Missing : j <= h
    <3>1. Missing \subseteq Nat
      BY <1>2
    <3> QED
      BY <3>1, Least
  <2>2. j \in 0 .. l /\ SubSeq(p, 1, l - j) \notin DOMAIN OnDisk
    OBVIOUS
  <2>3. j # 0
    <3>1. l - 0 = l /\ p \in DOMAIN OnDisk
      OBVIOUS
    <3>2. j = 0 => SubSeq(p, 1, l - j) = p
      BY <1>3, <3>1
    <3> QED
      BY <2>2, <3>2
  <2>4. j - 1 \in 0 .. l /\ l - (j - 1) \in 1 .. l /\ (l - (j - 1)) - 1 = l - j
    BY <2>2, <2>3
  <2>5. j - 1 \notin Missing
    BY <2>1, <2>4
  <2>6. SubSeq(p, 1, l - (j - 1)) \in DOMAIN OnDisk
    BY <2>4, <2>5
  <2> QED
    BY <1>4, <2>2, <2>4, <2>6
<1>6. l - k \in 0 .. l /\ l - (l - k) = k
  BY <1>2
<1>7. SubSeq(p, 1, k) \in DOMAIN OnDisk
  BY <1>5, <1>6
<1>8. ASSUME k < Len(p) PROVE OnDisk[SubSeq(p, 1, k)].kind = "folder"
  <2>1. k + 1 \in 1 .. l /\ k + 1 \in 0 .. l /\ (k + 1) - 1 = k
    BY <1>2, <1>8
  <2>2. l - (k + 1) \in 0 .. l /\ l - (l - (k + 1)) = k + 1
    BY <2>1
  <2>3. SubSeq(p, 1, k + 1) \in DOMAIN OnDisk
    BY <1>5, <2>2
  <2> QED
    BY <1>4, <2>1, <2>3
<1> QED
  BY <1>7, <1>8

\* The first run starts from a scan of what is on disk.
LEMMA InitSound == Init => Inv /\ AnsweredTruly
<1> SUFFICES ASSUME Init PROVE Inv /\ AnsweredTruly
  OBVIOUS
<1>1. /\ tree = OnDisk /\ made = Cardinality(DOMAIN OnDisk) - 1
      /\ run = 1 /\ shaken = FALSE /\ asked = "folder"
      /\ last = [id |-> NewId(Root), status |-> "none"]
  BY DEF Init
<1>2. /\ \A p \in DOMAIN OnDisk : IsPath(p)
      /\ \A p \in DOMAIN OnDisk : OnDisk[p] \in Object
      /\ \A p \in DOMAIN OnDisk : OnDisk[p].no < Cardinality(DOMAIN OnDisk)
      /\ \A p, q \in DOMAIN OnDisk : OnDisk[p].no = OnDisk[q].no => p = q
      /\ RootPath \in DOMAIN OnDisk /\ OnDisk[RootPath] = Root
      /\ IsFiniteSet(DOMAIN OnDisk)
      /\ MaxObjects \in Nat /\ MaxRuns \in Nat \ {0}
  BY FsIdsAssumption
<1>3. PICK c \in Nat : c = Cardinality(DOMAIN OnDisk)
  BY <1>2, FS_CardinalityType
<1>4. made \in 0 .. MaxObjects /\ made = c - 1
  <2>1. \A p \in DOMAIN OnDisk : OnDisk[p].no \in 0 .. MaxObjects
    BY <1>2 DEF Object
  <2> DEFINE f == [p \in DOMAIN OnDisk |-> OnDisk[p].no]
  <2>2. f \in Injection(DOMAIN OnDisk, 0 .. MaxObjects)
    BY <1>2, <2>1 DEF Injection, IsInjective
  <2>3. IsFiniteSet(0 .. MaxObjects) /\ Cardinality(0 .. MaxObjects) = MaxObjects + 1
    BY <1>2, FS_Interval
  <2>4. c <= MaxObjects + 1
    BY <1>3, <2>2, <2>3, FS_Injection
  <2>5. c # 0
    BY <1>2, <1>3, FS_EmptySet
  <2> QED
    BY <1>1, <1>2, <1>3, <2>4, <2>5
<1>5. 1 \in 1 .. MaxRuns
  BY <1>2
<1>6. /\ DOMAIN issued = DOMAIN ids
      /\ \A i \in DOMAIN ids :
            /\ i # Wopitest => i \in Guid /\ i.run = run /\ issued[i] = i.of
            /\ ids[i] \in DOMAIN tree /\ tree[ids[i]] = issued[i]
            /\ ids[i] = RootPath => i = [of |-> Root, run |-> run]
      /\ Wopitest \in DOMAIN ids => [of |-> issued[Wopitest], run |-> run] \notin DOMAIN ids
      /\ \A p \in DOMAIN tree \ Range(ids) :
            TestFile(p) /\ Wopitest \in DOMAIN ids /\ issued[Wopitest] # tree[p]
  <2>1. PICK kept \in DOMAIN tree :
           LastTestFile(kept) /\ ids = Scan(1, kept) /\ issued = Identified(1, kept)
    BY DEF Init
  <2>2. PICK k \in 1 .. MaxRuns : k = 1 /\ k = run
    BY <1>1, <1>5
  <2>3. ids = Scan(k, kept) /\ issued = Identified(k, kept)
    BY <2>1, <2>2
  <2>4. /\ DOMAIN issued = DOMAIN ids
        /\ \A i \in DOMAIN ids :
              /\ i # Wopitest => i \in Guid /\ i.run = k /\ issued[i] = i.of
              /\ ids[i] \in DOMAIN tree /\ tree[ids[i]] = issued[i]
              /\ ids[i] = RootPath => i = [of |-> Root, run |-> k]
        /\ Wopitest \in DOMAIN ids => [of |-> issued[Wopitest], run |-> k] \notin DOMAIN ids
        /\ \A p \in DOMAIN tree \ Range(ids) :
              TestFile(p) /\ Wopitest \in DOMAIN ids /\ issued[Wopitest] # tree[p]
    BY <1>1, <1>2, <2>1, <2>3, ScanKeeps
  <2> QED
    BY <2>2, <2>4
<1>7. last.id \in Id /\ last \in [id : Id, status : Status] /\ last.status = "none"
  <2>1. Root \in Object
    BY <1>2
  <2>2. NewId(Root) \in Id
    BY <1>1, <1>5, <2>1 DEF NewId, Id, Guid
  <2> QED
    BY <1>1, <2>2 DEF Status
<1>8. TypeOK
  <2>1. \A p \in DOMAIN OnDisk : OnDisk[p].no <= made
    <3> SUFFICES ASSUME NEW p \in DOMAIN OnDisk PROVE OnDisk[p].no <= made
      OBVIOUS
    <3>1. OnDisk[p].no \in Nat /\ OnDisk[p].no < c
      BY <1>2, <1>3 DEF Object
    <3> QED
      BY <1>4, <3>1
  <2>2. Range(tree) \subseteq {o \in Object : o.no <= made}
    BY <1>1, <1>2, <2>1 DEF Range
  <2>3. \A p \in Range(ids) : IsPath(p)
    BY <1>1, <1>2, <1>6 DEF Range
  <2>4. DOMAIN issued \subseteq {i \in Guid : i.run = run} \cup {Wopitest}
    BY <1>6
  <2>5. \A p \in DOMAIN tree : IsPath(p)
    BY <1>1, <1>2
  <2>6. Range(issued) \subseteq {o \in Object : o.no <= made}
    BY <1>6, <2>2 DEF Range
  <2> QED
    BY <1>1, <1>4, <1>5, <1>6, <1>7, <2>2, <2>3, <2>4, <2>5, <2>6 DEF TypeOK
<1>9. TreeInv
  <2>1. \A i \in DOMAIN ids : ids[i] = RootPath => i = NewId(Root)
    BY <1>6 DEF NewId
  <2>2. \A p \in DOMAIN OnDisk : \A k \in 0 .. Len(p) :
           /\ SubSeq(p, 1, k) \in DOMAIN OnDisk
           /\ k < Len(p) => OnDisk[SubSeq(p, 1, k)].kind = "folder"
    BY OnDiskAbove
  <2> QED
    BY <1>1, <1>2, <2>1, <2>2 DEF TreeInv
<1>10. IssuedInv
  BY <1>6 DEF IssuedInv, NewId
<1>11. Tabled
  BY <1>6 DEF Tabled
<1>12. AnsweredTruly
  BY <1>7 DEF AnsweredTruly
<1> QED
  BY <1>8, <1>9, <1>10, <1>11, <1>12 DEF Inv

-----------------------------------------------------------------------------
(* The specification.                                                      *)

\* A request about a file that is not there.
LEMMA FileRequest ==
    ASSUME Inv, NEW i \in Id, FileMissing(i), asked' \in {"file", "folder"}
    PROVE  Sound
<1>1. CASE ~Known(i) /\ Refuse(i, "notFound")
  BY <1>1, RefuseSound DEF Status
<1>2. CASE Refuse(i, "error")
  BY <1>2, RefuseSound DEF Status
<1> QED
  BY <1>1, <1>2 DEF FileMissing

\* The requests that create something.
LEMMA CreateRequests ==
    ASSUME Inv, NEW i \in Id, NEW r \in Requested, NEW m, asked' \in {"file", "folder"}
    PROVE  /\ CreateChildContainer(i, r, m) => Sound
           /\ CreateChildFile(i, r, m) => Sound
           /\ PutRelativeFile(i, r, m) => Sound
<1>1. ~Known(i) /\ Refuse(i, "notFound") => Sound
  BY RefuseSound DEF Status
<1>2. ASSUME CreateChildContainer(i, r, m), Known(i) PROVE Sound
  <2>1. PICK s : s = ids[i]
    OBVIOUS
  <2>2. s \in Paths
    BY <1>2, <2>1, TreePaths DEF Known, Inv
  <2>3. ~shaken => s \in DOMAIN tree
    BY <1>2, <2>1 DEF Known, Inv, Tabled
  <2>4. PICK n : n = Suggested("folder", ids[i], r)
    OBVIOUS
  <2>5. PICK p : p = At(s, n)
    OBVIOUS
  <2>6. PICK q : q = At(s, Candidate[r][0])
    OBVIOUS
  <2>7. CreateFolder(i, p) \/ CreateFolder(i, q) \/ Refuse(i, "conflict")
    BY <1>2, <2>1, <2>4, <2>5, <2>6 DEF CreateChildContainer
  <2>8. CASE CreateFolder(i, p)
    BY <2>2, <2>3, <2>5, <2>8, CreateFolderSound
  <2>9. CASE CreateFolder(i, q)
    BY <2>2, <2>3, <2>6, <2>9, CreateFolderSound
  <2>10. CASE Refuse(i, "conflict")
    BY <1>2, <2>10, RefuseSound DEF Status
  <2> QED
    BY <2>7, <2>8, <2>9, <2>10
<1>3. ASSUME CreateChildFile(i, r, m), Known(i) PROVE Sound
  <2>1. PICK at : at = ids[i]
    OBVIOUS
  <2>2. NewFileIn(i, at, r, m)
    BY <1>3, <2>1 DEF CreateChildFile
  <2> QED
    BY <1>3, <2>2, NewFileInSound
<1>4. ASSUME PutRelativeFile(i, r, m), FileThere(i) PROVE Sound
  <2>1. PICK at : at = Deepest(AncestorsOf(Parent(ids[i]), TRUE))
    OBVIOUS
  <2>2. FileMissing(i) \/ NewFileIn(i, at, r, m) \/ Refuse(i, "error")
    BY <1>4, <2>1 DEF PutRelativeFile
  <2>3. Known(i)
    BY <1>4 DEF FileThere
  <2>4. CASE FileMissing(i)
    BY <2>4, FileRequest
  <2>5. CASE NewFileIn(i, at, r, m)
    BY <2>3, <2>5, NewFileInSound
  <2>6. CASE Refuse(i, "error")
    BY <2>6, RefuseSound DEF Status
  <2> QED
    BY <2>2, <2>4, <2>5, <2>6
<1>5. PutRelativeFile(i, r, m) => FileMissing(i) \/ FileThere(i)
  BY DEF PutRelativeFile
<1>6. CreateChildContainer(i, r, m) => Known(i) \/ (~Known(i) /\ Refuse(i, "notFound"))
  BY DEF CreateChildContainer
<1>7. CreateChildFile(i, r, m) => Known(i) \/ (~Known(i) /\ Refuse(i, "notFound"))
  BY DEF CreateChildFile
<1>8. FileMissing(i) => Sound
  BY FileRequest
<1> QED
  BY <1>1, <1>2, <1>3, <1>4, <1>5, <1>6, <1>7, <1>8

\* Clients may not rename or delete the root container.
LEMMA NotTheRoot ==
    ASSUME Inv, NEW i, Known(i), ids[i] \in DOMAIN tree,
           i # NewId(Root) \/ FileExists(ids[i])
    PROVE  ids[i] # RootPath
<1>1. TreeInv
  BY DEF Inv
<1>2. i # NewId(Root) => ids[i] # RootPath
  BY <1>1 DEF TreeInv, Known
<1>3. FileExists(ids[i]) => ids[i] # RootPath
  <2>1. tree[RootPath].kind = "folder"
    BY <1>1 DEF TreeInv, Root
  <2> QED
    BY <2>1 DEF FileExists, Exists
<1> QED
  BY <1>2, <1>3

\* The requests that rename something; a name asked for is a name.
LEMMA RenameRequests ==
    ASSUME Inv, NEW i \in Id, NEW r \in Requested, asked' \in {"file", "folder"}
    PROVE  /\ RenameFile(i, r) => Sound
           /\ i # NewId(Root) /\ RenameContainer(i, r) => Sound
<1>1. PICK from : from = ids[i]
  OBVIOUS
<1>2. PICK n \in Names : n = Candidate[r][0]
  <2>1. 0 \in DOMAIN Candidate[r]
    BY FsIdsAssumption
  <2> QED
    BY <2>1 DEF Names, Range
<1>3. PICK to : to = At(Parent(from), n)
  OBVIOUS
<1>4. ASSUME Known(i), from \in DOMAIN tree, i # NewId(Root) \/ FileExists(from),
             to \notin DOMAIN tree, Rename(i, to)
      PROVE  Sound
  <2>1. from # RootPath
    BY <1>1, <1>4, NotTheRoot
  <2> QED
    BY <1>1, <1>3, <1>4, <2>1, RenameSound
<1>5. ASSUME RenameFile(i, r) PROVE Sound
  <2>1. \/ FileMissing(i)
        \/ FileThere(i) /\ Refuse(i, "conflict")
        \/ Refuse(i, "error")
        \/ FileThere(i) /\ to \notin DOMAIN tree /\ Rename(i, to)
    BY <1>1, <1>2, <1>3, <1>5 DEF RenameFile
  <2>2. FileThere(i) => Known(i) /\ FileExists(from) /\ from \in DOMAIN tree
    BY <1>1 DEF FileThere, FileExists, Exists
  <2>3. CASE FileMissing(i)
    BY <2>3, FileRequest
  <2>4. CASE FileThere(i) /\ Refuse(i, "conflict")
    BY <2>2, <2>4, RefuseSound DEF Status
  <2>5. CASE Refuse(i, "error")
    BY <2>5, RefuseSound DEF Status
  <2>6. CASE FileThere(i) /\ to \notin DOMAIN tree /\ Rename(i, to)
    BY <1>4, <2>2, <2>6
  <2> QED
    BY <2>1, <2>3, <2>4, <2>5, <2>6
<1>6. ASSUME i # NewId(Root), RenameContainer(i, r) PROVE Sound
  <2>1. \/ ~Known(i) /\ Refuse(i, "notFound")
        \/ Known(i) /\ Refuse(i, "conflict")
        \/ from \notin DOMAIN tree /\ Refuse(i, "notFound")
        \/ Refuse(i, "error")
        \/ Known(i) /\ from \in DOMAIN tree /\ to \notin DOMAIN tree /\ Rename(i, to)
    BY <1>1, <1>2, <1>3, <1>6 DEF RenameContainer
  <2>2. CASE ~Known(i) /\ Refuse(i, "notFound")
    BY <2>2, RefuseSound DEF Status
  <2>3. CASE Known(i) /\ Refuse(i, "conflict")
    BY <2>3, RefuseSound DEF Status
  <2>4. CASE from \notin DOMAIN tree /\ Refuse(i, "notFound")
    BY <1>1, <2>4, RefuseSound DEF Status
  <2>5. CASE Refuse(i, "error")
    BY <2>5, RefuseSound DEF Status
  <2>6. CASE Known(i) /\ from \in DOMAIN tree /\ to \notin DOMAIN tree /\ Rename(i, to)
    BY <1>4, <1>6, <2>6
  <2> QED
    BY <2>1, <2>2, <2>3, <2>4, <2>5, <2>6
<1> QED
  BY <1>5, <1>6

\* The requests that delete something: a file, or a folder found empty.
LEMMA DeleteRequests ==
    ASSUME Inv, NEW i \in Id, asked' \in {"file", "folder"}
    PROVE  /\ DeleteFile(i) => Sound
           /\ asked' = "folder" /\ i # NewId(Root) /\ DeleteContainer(i) => Sound
<1>0. TypeOK /\ TreeInv
  BY DEF Inv
<1>1. PICK from : from = ids[i]
  OBVIOUS
<1>2. ASSUME Known(i), from \in DOMAIN tree, i # NewId(Root) \/ FileExists(from),
             IsEmpty(from), Erase(i)
      PROVE  Sound
  <2>1. from # RootPath
    BY <1>1, <1>2, NotTheRoot
  <2> QED
    BY <1>1, <1>2, <2>1, EraseSound
<1>3. ASSUME DeleteFile(i) PROVE Sound
  <2>1. FileMissing(i) \/ (FileThere(i) /\ (Refuse(i, "conflict") \/ Erase(i)))
    BY <1>3 DEF DeleteFile
  <2>2. FileThere(i) => /\ Known(i) /\ FileExists(from) /\ from \in DOMAIN tree
                        /\ IsEmpty(from)
    BY <1>0, <1>1, FileIsEmpty DEF FileThere, FileExists, Exists
  <2>3. CASE FileMissing(i)
    BY <2>3, FileRequest
  <2>4. CASE FileThere(i) /\ Refuse(i, "conflict")
    BY <2>2, <2>4, RefuseSound DEF Status
  <2>5. CASE FileThere(i) /\ Erase(i)
    BY <1>2, <2>2, <2>5
  <2> QED
    BY <2>1, <2>3, <2>4, <2>5
<1>4. ASSUME asked' = "folder", i # NewId(Root), DeleteContainer(i) PROVE Sound
  <2>1. \/ ~(Known(i) /\ FolderExists(from)) /\ Refuse(i, "notFound")
        \/ Known(i) /\ FolderExists(from) /\ Refuse(i, "conflict")
        \/ Known(i) /\ FolderExists(from) /\ IsEmpty(from) /\ Erase(i)
    BY <1>1, <1>4 DEF DeleteContainer
  <2>2. FolderExists(from) <=> from \in DOMAIN tree /\ tree[from].kind = "folder"
    BY DEF FolderExists, Exists
  <2>3. CASE ~(Known(i) /\ FolderExists(from)) /\ Refuse(i, "notFound")
    <3>1. from \in DOMAIN tree => tree[from].kind \in {"file", "folder"}
      BY <1>0, TreePaths DEF Object
    <3>2. ~Known(i) \/ from \notin DOMAIN tree \/ tree[from].kind = "file"
      BY <2>2, <2>3, <3>1
    <3> QED
      BY <1>1, <1>4, <2>3, <3>2, RefuseSound DEF Status
  <2>4. CASE Known(i) /\ FolderExists(from) /\ Refuse(i, "conflict")
    BY <2>4, RefuseSound DEF Status
  <2>5. CASE Known(i) /\ FolderExists(from) /\ IsEmpty(from) /\ Erase(i)
    BY <1>2, <1>4, <2>2, <2>5
  <2> QED
    BY <2>1, <2>3, <2>4, <2>5
<1> QED
  BY <1>3, <1>4

\* No request and no restart breaks the invariant, answers wrongly or loses anything.
LEMMA NextSound == Inv /\ Next => Sound
<1> SUFFICES ASSUME Inv, Next PROVE Sound
  OBVIOUS
<1>1. \A i \in Given : i \in Id
  <2>1. \A i \in DOMAIN issued : i \in Id
    BY DEF Inv, TypeOK, Id
  <2>2. \A k \in 1 .. (run - 1) : [of |-> Root, run |-> k] \in Id
    <3>1. \A k \in 1 .. (run - 1) : k \in 1 .. MaxRuns
      BY FsIdsAssumption DEF Inv, TypeOK
    <3> QED
      BY <3>1, FsIdsAssumption DEF Id, Guid, Root, Object
  <2> QED
    BY <2>1, <2>2 DEF Given, Id
<1>2. ASSUME NEW i \in Given, asked' = "folder", ContainerOperation(i) PROVE Sound
  <2>1. i \in Id /\ asked' \in {"file", "folder"}
    BY <1>1, <1>2
  <2>2. ASSUME NEW r \in Requested, NEW m,
               CreateChildContainer(i, r, m) \/ CreateChildFile(i, r, m)
        PROVE  Sound
    BY <2>1, <2>2, CreateRequests
  <2>3. ASSUME NEW r \in Requested, i # NewId(Root), RenameContainer(i, r) PROVE Sound
    BY <2>1, <2>3, RenameRequests
  <2>4. ASSUME i # NewId(Root), DeleteContainer(i) PROVE Sound
    BY <1>2, <2>1, <2>4, DeleteRequests
  <2> QED
    BY <1>2, <2>2, <2>3, <2>4 DEF ContainerOperation
<1>3. ASSUME NEW i \in Given, asked' = "file", FileOperation(i) PROVE Sound
  <2>1. i \in Id /\ asked' \in {"file", "folder"}
    BY <1>1, <1>3
  <2>2. ASSUME NEW r \in Requested, NEW m, PutRelativeFile(i, r, m) PROVE Sound
    BY <2>1, <2>2, CreateRequests
  <2>3. ASSUME NEW r \in Requested, RenameFile(i, r) PROVE Sound
    BY <2>1, <2>3, RenameRequests
  <2>4. ASSUME DeleteFile(i) PROVE Sound
    BY <2>1, <2>4, DeleteRequests
  <2> QED
    BY <1>3, <2>2, <2>3, <2>4 DEF FileOperation
<1>4. ASSUME asked' = "folder", Restart PROVE Sound
  BY <1>4, RestartSound
<1> QED
  BY <1>2, <1>3, <1>4 DEF Next

\* Where nothing changes, all of it stays true.
LEMMA StutterSound == Inv /\ AnsweredTruly /\ UNCHANGED vars => Inv' /\ AnsweredTruly'
<1> SUFFICES ASSUME Inv, AnsweredTruly, UNCHANGED vars PROVE Inv' /\ AnsweredTruly'
  OBVIOUS
<1>1. /\ tree' = tree /\ made' = made /\ run' = run /\ ids' = ids /\ issued' = issued
      /\ shaken' = shaken /\ asked' = asked /\ last' = last
  BY DEF vars
<1>2. TypeOK'
  BY <1>1 DEF Inv, TypeOK
<1>3. TreeInv' /\ IssuedInv'
  BY <1>1 DEF Inv, TreeInv, IssuedInv, NewId
<1>4. ~shaken' => Tabled'
  BY <1>1 DEF Inv, Tabled, TestFile, FileExists, Exists
<1>5. AnsweredTruly'
  BY <1>1 DEF AnsweredTruly
<1> QED
  BY <1>2, <1>3, <1>4, <1>5 DEF Inv

\* The invariant is inductive.
LEMMA StepSound == Inv /\ AnsweredTruly /\ [Next]_vars => Inv' /\ AnsweredTruly'
BY NextSound, StutterSound DEF Inv, Sound

\* It holds in every behaviour.
LEMMA Invariant == Spec => []Inv /\ []AnsweredTruly
BY InitSound, StepSound, PTL DEF Spec

\* The paths and numbers of what is on disk and in the table are in range.
THEOREM FsTypes == Spec => []TypeOK
<1>1. Inv => TypeOK
  BY DEF Inv
<1> QED
  BY <1>1, Invariant, PTL

\* Until a folder is renamed with something in it, an identifier names what it was
\* given out for in this run, wherever that was moved to, until it is deleted.
THEOREM IdentifiersHold == Spec => []TableMatchesDisk
<1>1. ASSUME Inv PROVE TableMatchesDisk
  <2> SUFFICES ASSUME ~shaken, NEW i \in DOMAIN issued
               PROVE  /\ i \in DOMAIN ids <=> issued[i] \in Range(tree)
                      /\ i \in DOMAIN ids =>
                            ids[i] \in DOMAIN tree /\ tree[ids[i]] = issued[i]
    BY DEF TableMatchesDisk, Known
  <2>1. Tabled
    BY <1>1 DEF Inv
  <2> QED
    BY <2>1 DEF Tabled, Range
<1>2. Inv => TableMatchesDisk
  BY <1>1
<1> QED
  BY <1>2, Invariant, PTL

\* Until such a rename every folder on the way from a file or folder to the root has
\* an identifier, and so has the file or folder itself, unless it is a test file
\* and the scan gave WOPITEST to another.
THEOREM AllReachable == Spec => []EverythingReachable
<1>1. ASSUME Inv PROVE EverythingReachable
  <2> SUFFICES ASSUME ~shaken, NEW p \in DOMAIN tree, p # RootPath
               PROVE  /\ AncestorsFound(Parent(p))
                      /\ ~HasId(p) => TestFile(p) /\ Wopitest \in DOMAIN issued
                                      /\ issued[Wopitest] # tree[p]
    BY DEF EverythingReachable
  <2>0. TypeOK /\ TreeInv /\ Tabled
    BY <1>1 DEF Inv
  <2>1. \A q \in DOMAIN tree : ~HasId(q) => TestFile(q) /\ Wopitest \in DOMAIN issued
                                            /\ issued[Wopitest] # tree[q]
    BY <2>0 DEF Tabled, HasId
  <2>2. p \in Paths /\ Len(p) \in Nat
    BY <2>0, TreePaths, WholePath
  <2>3. /\ Len(p) - 1 \in 0 .. Len(p) /\ Parent(p) \in Paths
        /\ Len(Parent(p)) = Len(p) - 1
    BY <2>2, ParentFacts
  <2>4. ASSUME NEW k \in 0 .. (Len(p) - 1)
        PROVE  HasId(SubSeq(Parent(p), 1, k))
    <3>1. PICK l \in 0 .. Len(p) : l = Len(p) - 1
      BY <2>3
    <3>2. k \in 0 .. l /\ k \in 0 .. Len(p) /\ k < Len(p)
      BY <2>2, <3>1
    <3>3. SubSeq(Parent(p), 1, k) = SubSeq(p, 1, k)
      BY <2>2, <3>1, <3>2, PrefixOfPrefix DEF Parent
    <3>4. PICK q : q = SubSeq(p, 1, k)
      OBVIOUS
    <3>5. q \in DOMAIN tree /\ tree[q].kind = "folder"
      BY <2>0, <3>2, <3>4 DEF TreeInv
    <3>6. ~TestFile(q)
      BY <3>5 DEF TestFile, FileExists, Exists
    <3> QED
      BY <2>1, <3>3, <3>4, <3>5, <3>6
  <2>5. AncestorsFound(Parent(p))
    BY <2>3, <2>4 DEF AncestorsFound
  <2> QED
    BY <2>1, <2>5
<1>2. Inv => EverythingReachable
  BY <1>1
<1> QED
  BY <1>2, Invariant, PTL

\* Until such a rename a 409 is about something that is there, and a 404 about
\* something that is gone, or about a file where a container is asked for.
THEOREM TrueAnswers == Spec => []AnsweredTruly
BY Invariant, PTL

\* Whatever was renamed before, a request takes away at most what it names.
THEOREM NothingLost == Spec => NothingElseLost
<1>1. Inv /\ [Next]_vars =>
         [\A o \in Range(tree) \ Range(tree') :
             Known(last'.id) /\ tree[ids[last'.id]] = o]_vars
  BY NextSound DEF Sound, Lossless
<1> QED
  BY <1>1, Invariant, PTL DEF Spec, NothingElseLost
=============================================================================
