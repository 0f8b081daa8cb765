-------------------------- MODULE CacheBackendProofs --------------------------
(***************************************************************************)
(* The theorems about the local cache, for every number of messages: what  *)
(* Ascending and Loads return, the inductive invariants of the two caches, *)
(* and what both promise the publisher.                                    *)
(***************************************************************************)
EXTENDS CacheBackend, TLAPS, Integers, FiniteSets, FiniteSetTheorems, SequenceTheorems

(* Most leaves need SMT; each is tried again with more time where the      *)
(* first attempts find no proof.                                           *)
USE SMTT(15), SMTT(30), ZenonT(20), SMTT(60)

-----------------------------------------------------------------------------
(* A set of numbers in increasing order.                                   *)

(* The members up to a member are at least one, and no more than all.      *)
LEMMA RankBounds ==
    ASSUME NEW S \in SUBSET Nat, IsFiniteSet(S), NEW p \in S
    PROVE  Rank(S, p) \in 1..Cardinality(S)
<1> DEFINE R == {k \in S : k <= p}
<1>1. IsFiniteSet(R) /\ Cardinality(R) <= Cardinality(S)
  BY FS_Subset
<1>2. Cardinality(R) \in Nat /\ Cardinality(S) \in Nat
  BY <1>1, FS_CardinalityType
<1>3. p \in R
  OBVIOUS
<1>4. Cardinality(R) # 0
  BY <1>1, <1>3, FS_EmptySet
<1> HIDE DEF R
<1>5. Cardinality(R) \in 1..Cardinality(S)
  BY <1>1, <1>2, <1>4
<1> QED BY <1>5 DEF R, Rank

(* The later of two members has more members up to it.                     *)
LEMMA RankStrict ==
    ASSUME NEW S \in SUBSET Nat, IsFiniteSet(S), NEW p \in S, NEW q \in S, p < q
    PROVE  Rank(S, p) # Rank(S, q)
<1> DEFINE P == {k \in S : k <= p}
           Q == {k \in S : k <= q}
<1>1. p \in Nat /\ q \in Nat
  OBVIOUS
<1>2. P \in SUBSET Q
  <2>1. \A k \in Nat : k <= p => k <= q
    BY <1>1
  <2> QED BY <2>1, ZenonT(60)
<1>3. q \in Q /\ q \notin P
  BY <1>1
<1>4. IsFiniteSet(Q)
  BY FS_Subset
<1> HIDE DEF P, Q
<1>5. Cardinality(Q) # Cardinality(P)
  BY <1>2, <1>3, <1>4, FS_Subset, ZenonT(60)
<1> QED BY <1>5 DEF P, Q, Rank

(* No two members have the same rank.                                      *)
LEMMA RankUnique ==
    ASSUME NEW S \in SUBSET Nat, IsFiniteSet(S), NEW p \in S, NEW q \in S,
           Rank(S, p) = Rank(S, q)
    PROVE  p = q
<1>1. p \in Nat /\ q \in Nat
  OBVIOUS
<1>2. p < q \/ q < p \/ p = q
  BY <1>1
<1> QED BY <1>2, RankStrict

(* Every rank is that of a member.                                         *)
LEMMA RankOnto ==
    ASSUME NEW S \in SUBSET Nat, IsFiniteSet(S), NEW i \in 1..Cardinality(S)
    PROVE  \E p \in S : Rank(S, p) = i
<1> DEFINE T == 1..Cardinality(S)
           f == [p \in S |-> Rank(S, p)]
<1>1. Cardinality(S) \in Nat
  BY FS_CardinalityType
<1>2. IsFiniteSet(T) /\ Cardinality(T) = Cardinality(S)
  BY <1>1, FS_Interval
<1>3. f \in [S -> T]
  BY RankBounds
<1>4. \A p, q \in S : f[p] = f[q] => p = q
  BY RankUnique
<1>5. f \in Injection(S, T)
  BY <1>3, <1>4 DEF Injection, IsInjective
<1>6. f \in Surjection(S, T)
  BY <1>2, <1>5, FS_Injection
<1>7. \E p \in S : f[p] = i
  BY <1>6, ZenonT(60) DEF Surjection
<1> QED BY <1>7

(* The i-th member in increasing order is the member of rank i.            *)
LEMMA AscendingRank ==
    ASSUME NEW S \in SUBSET Nat, IsFiniteSet(S), NEW i \in 1..Cardinality(S)
    PROVE  Ascending(S)[i] \in S /\ Rank(S, Ascending(S)[i]) = i
<1>1. Ascending(S)[i] = CHOOSE n \in S : Rank(S, n) = i
  BY DEF Ascending
<1> QED BY <1>1, RankOnto

(* Every member appears, at its rank.                                      *)
LEMMA AscendingAll ==
    ASSUME NEW S \in SUBSET Nat, IsFiniteSet(S), NEW p \in S
    PROVE  Rank(S, p) \in 1..Cardinality(S) /\ Ascending(S)[Rank(S, p)] = p
<1>1. Rank(S, p) \in 1..Cardinality(S)
  BY RankBounds
<1> DEFINE n == Ascending(S)[Rank(S, p)]
<1>2. n \in S /\ Rank(S, n) = Rank(S, p)
  BY <1>1, AscendingRank
<1> HIDE DEF n
<1>3. n = p
  BY <1>2, RankUnique
<1> QED BY <1>1, <1>3 DEF n

(* A gapless set is counted up from its least member.                      *)
LEMMA AscendingInterval ==
    ASSUME NEW a \in Nat, NEW b \in Nat, a <= b
    PROVE  /\ Cardinality((a + 1)..b) = b - a
           /\ \A i \in 1..(b - a) : Ascending((a + 1)..b)[i] = a + i
<1> DEFINE S == (a + 1)..b
<1>1. S \in SUBSET Nat /\ IsFiniteSet(S) /\ Cardinality(S) = b - a
  <2>1. a + 1 \in Int /\ b \in Int
    OBVIOUS
  <2>2. IsFiniteSet(S) /\ Cardinality(S) = IF a + 1 > b THEN 0 ELSE b - (a + 1) + 1
    BY <2>1, FS_Interval
  <2> QED BY <2>2
<1>2. ASSUME NEW i \in 1..(b - a)
      PROVE  Ascending(S)[i] = a + i
  <2>1. a + i \in S
    OBVIOUS
  <2>2. {k \in S : k <= a + i} = (a + 1)..(a + i)
    OBVIOUS
  <2>3. Cardinality((a + 1)..(a + i)) = i
    BY FS_Interval
  <2>4. Rank(S, a + i) = i
    BY <2>2, <2>3, ZenonT(60) DEF Rank
  <2> QED BY <1>1, <2>1, <2>4, AscendingAll
<1> QED BY <1>1, <1>2

(* What follows the first n elements of a sequence.                        *)
LEMMA Following ==
    ASSUME NEW T, NEW q \in Seq(T), NEW n \in 0..Len(q)
    PROVE  /\ SubSeq(q, n + 1, Len(q)) \in Seq(T)
           /\ Len(SubSeq(q, n + 1, Len(q))) = Len(q) - n
           /\ \A i \in 1..(Len(q) - n) : SubSeq(q, n + 1, Len(q))[i] = q[n + i]
<1>1. Len(q) \in Nat /\ n \in Nat /\ n <= Len(q)
  OBVIOUS
<1>2. SubSeq(q, n + 1, Len(q)) \in Seq(T)
  OBVIOUS
<1>3. Len(SubSeq(q, n + 1, Len(q))) = Len(q) - n
  BY <1>1
<1>4. ASSUME NEW i \in 1..(Len(q) - n)
      PROVE  SubSeq(q, n + 1, Len(q))[i] = q[n + i]
  BY <1>1
<1> QED BY <1>2, <1>3, <1>4

-----------------------------------------------------------------------------
(* FileCache::load_all().                                                  *)

(* The positions of the lines that load.                                   *)
Headed(lines) == {p \in DOMAIN lines : lines[p] # Headless}

(* They are finitely many numbers, no more than the lines.                 *)
LEMMA HeadedFinite ==
    ASSUME NEW T, NEW lines \in Seq(T)
    PROVE  /\ Headed(lines) \in SUBSET Nat
           /\ IsFiniteSet(Headed(lines))
           /\ Cardinality(Headed(lines)) \in Nat
           /\ Cardinality(Headed(lines)) <= Len(lines)
<1>1. DOMAIN lines = 1..Len(lines) /\ Len(lines) \in Nat
  OBVIOUS
<1>2. Headed(lines) \in SUBSET (1..Len(lines))
  BY <1>1 DEF Headed
<1>3. IsFiniteSet(1..Len(lines)) /\ Cardinality(1..Len(lines)) = Len(lines)
  BY <1>1, FS_Interval
<1>4. IsFiniteSet(Headed(lines)) /\ Cardinality(Headed(lines)) <= Len(lines)
  BY <1>2, <1>3, FS_Subset
<1>5. Cardinality(Headed(lines)) \in Nat
  BY <1>4, FS_CardinalityType
<1>6. Headed(lines) \in SUBSET Nat
  BY <1>2
<1> QED BY <1>4, <1>5, <1>6

(* load_all() returns lines of the file, none without a TAB, and no more   *)
(* than there are.                                                         *)
LEMMA LoadsType ==
    ASSUME NEW T, NEW lines \in Seq(T)
    PROVE  /\ Loads(lines) \in Seq(T)
           /\ Len(Loads(lines)) <= Len(lines)
<1> DEFINE S == Headed(lines)
<1>1. S \in SUBSET Nat /\ IsFiniteSet(S) /\ Cardinality(S) \in Nat
      /\ Cardinality(S) <= Len(lines)
  BY HeadedFinite
<1>2. Loads(lines) = [i \in 1..Cardinality(S) |-> lines[Ascending(S)[i]]]
  BY DEF Loads, Ascending, Headed
<1>3. \A i \in 1..Cardinality(S) : Ascending(S)[i] \in S
  BY <1>1, AscendingRank
<1>4. \A p \in S : lines[p] \in T
  BY DEF Headed
<1> HIDE DEF S
<1>5. Loads(lines) \in [1..Cardinality(S) -> T]
  BY <1>2, <1>3, <1>4
<1>6. Loads(lines) \in Seq(T) /\ Len(Loads(lines)) = Cardinality(S)
  BY <1>1, <1>5
<1> QED BY <1>1, <1>6

(* Every line with a TAB is returned.                                      *)
LEMMA LoadsAll ==
    ASSUME NEW T, NEW lines \in Seq(T),
           NEW p \in 1..Len(lines), lines[p] # Headless
    PROVE  \E i \in 1..Len(Loads(lines)) : Loads(lines)[i] = lines[p]
<1> DEFINE S == Headed(lines)
<1>1. S \in SUBSET Nat /\ IsFiniteSet(S) /\ Cardinality(S) \in Nat
  BY HeadedFinite
<1>2. Loads(lines) = [i \in 1..Cardinality(S) |-> lines[Ascending(S)[i]]]
  BY DEF Loads, Ascending, Headed
<1>3. p \in S
  BY DEF Headed
<1> HIDE DEF S
<1>4. Rank(S, p) \in 1..Cardinality(S) /\ Ascending(S)[Rank(S, p)] = p
  BY <1>1, <1>3, AscendingAll
<1>5. Loads(lines)[Rank(S, p)] = lines[p]
  BY <1>2, <1>4
<1>6. Len(Loads(lines)) = Cardinality(S)
  BY <1>1, <1>2
<1> QED BY <1>4, <1>5, <1>6

(* A file in which every line has a TAB loads as it is.                    *)
LEMMA LoadsWhole ==
    ASSUME NEW T, NEW lines \in Seq(T), Headless \notin T
    PROVE  Loads(lines) = lines
<1>1. Len(lines) \in Nat /\ DOMAIN lines = 1..Len(lines)
  OBVIOUS
<1>2. Headed(lines) = (0 + 1)..Len(lines)
  BY <1>1 DEF Headed
<1>3. /\ Cardinality(Headed(lines)) = Len(lines) - 0
      /\ \A i \in 1..(Len(lines) - 0) : Ascending(Headed(lines))[i] = 0 + i
  BY <1>1, <1>2, AscendingInterval
<1>4. /\ Cardinality(Headed(lines)) = Len(lines)
      /\ \A i \in 1..Len(lines) : Ascending(Headed(lines))[i] = i
  BY <1>1, <1>3
<1>5. Loads(lines) = [i \in 1..Len(lines) |-> lines[i]]
  <2>1. Loads(lines) = [i \in 1..Len(lines) |-> lines[Ascending(Headed(lines))[i]]]
    BY <1>4 DEF Loads, Headed, Ascending
  <2> QED BY <1>4, <2>1
<1> QED BY <1>1, <1>5

-----------------------------------------------------------------------------
(* SqliteCache.                                                            *)

(* What SELECT ... ORDER BY id returns.                                    *)
InIdOrder(r) == [i \in 1..Cardinality(DOMAIN r) |-> r[Ascending(DOMAIN r)[i]]]

(* A table of messages whose ids have no gap.                              *)
Table(r, a, b) == DOMAIN r = (a + 1)..b /\ \A id \in (a + 1)..b : r[id] \in Messages

(* Read in the order of ids, it is counted up from its least id.           *)
LEMMA TableInOrder ==
    ASSUME NEW r, NEW a \in Nat, NEW b \in Nat, a <= b, Table(r, a, b)
    PROVE  /\ Cardinality(DOMAIN r) = b - a
           /\ InIdOrder(r) \in Seq(Messages)
           /\ Len(InIdOrder(r)) = b - a
           /\ \A i \in 1..(b - a) : Ascending(DOMAIN r)[i] = a + i
           /\ \A i \in 1..(b - a) : InIdOrder(r)[i] = r[a + i]
<1>1. DOMAIN r = (a + 1)..b
  BY DEF Table
<1>2. Cardinality(DOMAIN r) = b - a
  BY <1>1, AscendingInterval
<1>3. \A i \in 1..(b - a) : Ascending(DOMAIN r)[i] = a + i
  BY <1>1, AscendingInterval
<1>4. InIdOrder(r) = [i \in 1..(b - a) |-> r[a + i]]
  BY <1>2, <1>3 DEF InIdOrder
<1>5. \A i \in 1..(b - a) : r[a + i] \in Messages
  BY DEF Table
<1>6. b - a \in Nat
  OBVIOUS
<1> QED BY <1>2, <1>3, <1>4, <1>5, <1>6

(* The operators of SqliteCache's instance are those of this module.       *)
LEMMA SameCardinality == \A S : Sqlite!Cardinality(S) = Cardinality(S)
BY ZenonT(60) DEF Sqlite!Cardinality, Cardinality

LEMMA SameOrder == \A S : Sqlite!Ascending(S) = Ascending(S)
BY ZenonT(60) DEF Sqlite!Ascending, Sqlite!Rank, Ascending, Rank, Sqlite!Cardinality,
             Cardinality

LEMMA LoadedInIdOrder ==
    Sqlite!Loaded = InIdOrder(rows) /\ Sqlite!Loaded' = InIdOrder(rows')
BY SameOrder, SameCardinality DEF Sqlite!Loaded, Sqlite!OrderedIds, InIdOrder

(* The table after an INSERT of m, and after a DELETE of the n first rows. *)
Insert(r, b, m) ==
    [id \in DOMAIN r \cup {b + 1} |-> IF id = b + 1 THEN m ELSE r[id]]

Delete(r, n) ==
    [id \in DOMAIN r \ {Ascending(DOMAIN r)[i] : i \in 1..n} |-> r[id]]

(* INSERT puts the message behind all others.                              *)
LEMMA InsertLast ==
    ASSUME NEW r, NEW a \in Nat, NEW b \in Nat, a <= b, Table(r, a, b),
           NEW m \in Messages
    PROVE  /\ Table(Insert(r, b, m), a, b + 1)
           /\ InIdOrder(Insert(r, b, m)) = Append(InIdOrder(r), m)
<1> DEFINE s == Insert(r, b, m)
<1>1. DOMAIN r = (a + 1)..b /\ \A id \in DOMAIN r : r[id] \in Messages
  BY DEF Table
<1>2. DOMAIN s = (a + 1)..(b + 1)
  BY <1>1 DEF Insert
<1>3. s[b + 1] = m /\ \A id \in (a + 1)..b : s[id] = r[id]
  BY <1>1 DEF Insert
<1> HIDE DEF s
<1>4. Table(s, a, b + 1)
  BY <1>1, <1>2, <1>3 DEF Table
<1>5. /\ InIdOrder(r) \in Seq(Messages) /\ Len(InIdOrder(r)) = b - a
      /\ \A i \in 1..(b - a) : InIdOrder(r)[i] = r[a + i]
  BY TableInOrder
<1>6. /\ InIdOrder(s) \in Seq(Messages) /\ Len(InIdOrder(s)) = b + 1 - a
      /\ \A i \in 1..(b + 1 - a) : InIdOrder(s)[i] = s[a + i]
  BY <1>4, TableInOrder
<1>7. ASSUME NEW i \in 1..(b + 1 - a)
      PROVE  InIdOrder(s)[i] = Append(InIdOrder(r), m)[i]
  <2>1. CASE i = b + 1 - a
    <3>1. a + i = b + 1
      BY <2>1
    <3>2. InIdOrder(s)[i] = m
      BY <1>3, <1>6, <3>1
    <3>3. i = Len(InIdOrder(r)) + 1
      BY <1>5, <2>1
    <3>4. Append(InIdOrder(r), m)[i] = m
      BY <1>5, <3>3
    <3> QED BY <3>2, <3>4
  <2>2. CASE i # b + 1 - a
    <3>1. i \in 1..(b - a) /\ a + i \in (a + 1)..b
      BY <2>2
    <3>2. InIdOrder(s)[i] = InIdOrder(r)[i]
      BY <1>3, <1>5, <1>6, <3>1
    <3>3. i \in 1..Len(InIdOrder(r))
      BY <1>5, <3>1
    <3>4. Append(InIdOrder(r), m)[i] = InIdOrder(r)[i]
      BY <1>5, <3>3
    <3> QED BY <3>2, <3>4
  <2> QED BY <2>1, <2>2, ZenonT(60)
<1>8. /\ Append(InIdOrder(r), m) \in Seq(Messages)
      /\ Len(Append(InIdOrder(r), m)) = b + 1 - a
  BY <1>5
<1>9. InIdOrder(s) = Append(InIdOrder(r), m)
  <2>1. /\ Len(InIdOrder(s)) = Len(Append(InIdOrder(r), m))
        /\ \A i \in 1..Len(InIdOrder(s)) : InIdOrder(s)[i] = Append(InIdOrder(r), m)[i]
    BY <1>6, <1>7, <1>8
  <2> QED BY <1>6, <1>8, <2>1, SeqEqual
<1> QED BY <1>4, <1>9 DEF s

(* DELETE ... LIMIT n takes the n oldest messages away.                    *)
LEMMA DeleteFirst ==
    ASSUME NEW r, NEW a \in Nat, NEW b \in Nat, a <= b, Table(r, a, b),
           NEW n \in 1..(b - a)
    PROVE  /\ Table(Delete(r, n), a + n, b)
           /\ InIdOrder(Delete(r, n)) = SubSeq(InIdOrder(r), n + 1, Len(InIdOrder(r)))
<1> DEFINE s == Delete(r, n)
<1>1. DOMAIN r = (a + 1)..b /\ \A id \in DOMAIN r : r[id] \in Messages
  BY DEF Table
<1>2. a + n \in Nat /\ a + n <= b /\ n \in Nat
  OBVIOUS
<1>3. {Ascending(DOMAIN r)[i] : i \in 1..n} = (a + 1)..(a + n)
  <2>1. \A i \in 1..n : Ascending(DOMAIN r)[i] = a + i
    <3>1. \A i \in 1..(b - a) : Ascending(DOMAIN r)[i] = a + i
      BY TableInOrder, ZenonT(60)
    <3>2. 1..n \subseteq 1..(b - a)
      OBVIOUS
    <3> QED BY <3>1, <3>2
  <2>2. \A i \in 1..n : a + i \in (a + 1)..(a + n)
    OBVIOUS
  <2>3. ASSUME NEW id \in (a + 1)..(a + n)
        PROVE  \E i \in 1..n : id = a + i
    <3>1. id - a \in 1..n /\ id = a + (id - a)
      OBVIOUS
    <3> QED BY <3>1
  <2> QED BY <2>1, <2>2, <2>3
<1>4. DOMAIN s = (a + n + 1)..b /\ \A id \in (a + n + 1)..b : s[id] = r[id]
  BY <1>1, <1>3 DEF Delete
<1> HIDE DEF s
<1>5. Table(s, a + n, b)
  BY <1>1, <1>4 DEF Table
<1> DEFINE q == InIdOrder(r)
           t == SubSeq(q, n + 1, Len(q))
<1>6. /\ q \in Seq(Messages) /\ Len(q) = b - a
      /\ \A i \in 1..(b - a) : q[i] = r[a + i]
  BY TableInOrder
<1>7. /\ InIdOrder(s) \in Seq(Messages) /\ Len(InIdOrder(s)) = b - (a + n)
      /\ \A i \in 1..(b - (a + n)) : InIdOrder(s)[i] = s[a + n + i]
  BY <1>2, <1>5, TableInOrder
<1> HIDE DEF q
<1>8. /\ t \in Seq(Messages) /\ Len(t) = b - (a + n)
      /\ \A i \in 1..(Len(q) - n) : t[i] = q[n + i]
  <2>1. n \in 0..Len(q) /\ Len(q) - n = b - (a + n)
    BY <1>6
  <2> QED BY <1>6, <2>1, Following
<1> HIDE DEF t
<1>9. ASSUME NEW i \in 1..(b - (a + n))
      PROVE  InIdOrder(s)[i] = t[i]
  <2>1. a + n + i \in (a + n + 1)..b /\ n + i \in 1..(b - a) /\ a + (n + i) = a + n + i
    OBVIOUS
  <2>2. InIdOrder(s)[i] = r[a + n + i]
    BY <1>4, <1>7, <2>1
  <2>3. t[i] = q[n + i]
    BY <1>6, <1>8
  <2>4. q[n + i] = r[a + n + i]
    BY <1>6, <2>1
  <2> QED BY <2>2, <2>3, <2>4
<1>10. InIdOrder(s) = t
  <2>1. Len(InIdOrder(s)) = Len(t) /\ \A i \in 1..Len(InIdOrder(s)) : InIdOrder(s)[i] = t[i]
    BY <1>7, <1>8, <1>9
  <2> QED BY <1>7, <1>8, <2>1, SeqEqual, ZenonT(60)
<1> QED BY <1>5, <1>10 DEF q, s, t

(* The inductive invariant, with the rows that are gone named.             *)
LEMMA SqliteQueue ==
    ASSUME Sqlite!IInv
    PROVE  /\ sequence \in Nat /\ count \in Nat /\ next \in Nat
           /\ \E gone \in Nat : gone <= sequence /\ Table(rows, gone, sequence)
<1>1. sequence \in Nat /\ next \in Nat
  BY FileAssumption DEF Sqlite!IInv, Sqlite!TypeOK
<1>2. PICK gone \in 0..sequence : DOMAIN rows = (gone + 1)..sequence
  BY DEF Sqlite!IInv
<1>3. gone \in Nat /\ gone <= sequence
  BY <1>1, <1>2
<1>4. Table(rows, gone, sequence)
  BY <1>2 DEF Table, Sqlite!IInv, Sqlite!TypeOK, Sqlite!Messages, Messages
<1>5. count \in Nat
  <2>1. Cardinality(DOMAIN rows) = sequence - gone
    BY <1>1, <1>3, <1>4, TableInOrder
  <2>2. count \in 0..Cardinality(DOMAIN rows)
    BY SameCardinality DEF Sqlite!IInv, Sqlite!TypeOK
  <2> QED BY <1>1, <1>3, <2>1, <2>2
<1> QED BY <1>1, <1>3, <1>4, <1>5

-----------------------------------------------------------------------------
(* Keeping what was accepted.                                              *)

(* Every accepted message was published or is in the queue.                *)
Keeps(q, acc, pub) == \A m \in acc : m \in pub \/ \E i \in 1..Len(q) : q[i] = m

(* It stays so when a message is appended, accepted or not,                *)
LEMMA KeepsAppend ==
    ASSUME NEW T, NEW q \in Seq(T), NEW m \in T, NEW acc, NEW pub, Keeps(q, acc, pub)
    PROVE  Keeps(Append(q, m), acc, pub) /\ Keeps(Append(q, m), acc \cup {m}, pub)
<1> DEFINE t == Append(q, m)
<1>1. Len(q) \in Nat /\ Len(t) = Len(q) + 1 /\ t[Len(q) + 1] = m
      /\ \A i \in 1..Len(q) : t[i] = q[i]
  OBVIOUS
<1> HIDE DEF t
<1>2. Len(q) + 1 \in 1..Len(t) /\ \A i \in 1..Len(q) : i \in 1..Len(t)
  BY <1>1
<1>3. Keeps(t, acc, pub)
  BY <1>1, <1>2 DEF Keeps
<1>4. Keeps(t, acc \cup {m}, pub)
  BY <1>1, <1>2, <1>3 DEF Keeps
<1> QED BY <1>3, <1>4 DEF t

(* when more is published,                                                 *)
LEMMA KeepsPublish ==
    ASSUME NEW q, NEW acc, NEW pub, NEW more, Keeps(q, acc, pub)
    PROVE  Keeps(q, acc, pub \cup more)
BY DEF Keeps

(* and when published messages are removed from the front.                 *)
LEMMA KeepsRemove ==
    ASSUME NEW T, NEW q \in Seq(T), NEW acc, NEW pub, Keeps(q, acc, pub),
           NEW n \in 1..Len(q), \A i \in 1..n : q[i] \in pub
    PROVE  Keeps(SubSeq(q, n + 1, Len(q)), acc, pub)
<1> DEFINE t == SubSeq(q, n + 1, Len(q))
<1>1. Len(q) \in Nat /\ n \in Nat /\ n <= Len(q)
  OBVIOUS
<1>2. Len(t) = Len(q) - n /\ \A i \in 1..(Len(q) - n) : t[i] = q[n + i]
  BY <1>1, Following
<1> HIDE DEF t
<1>3. ASSUME NEW i \in 1..Len(q), q[i] \notin pub
      PROVE  \E j \in 1..Len(t) : t[j] = q[i]
  <2>1. i \notin 1..n
    BY <1>3
  <2>2. i - n \in 1..(Len(q) - n) /\ n + (i - n) = i
    BY <1>1, <2>1
  <2>3. t[i - n] = q[i]
    BY <1>2, <2>2
  <2> QED BY <1>2, <2>2, <2>3
<1>4. Keeps(t, acc, pub)
  BY <1>3 DEF Keeps
<1> QED BY <1>4 DEF t

(* The invariant of SqliteCache is that of its queue.                      *)
LEMMA SqliteFacts ==
    ASSUME Sqlite!IInv, NEW gone \in Nat, gone <= sequence, Table(rows, gone, sequence)
    PROVE  /\ Sqlite!Loaded = InIdOrder(rows)
           /\ Sqlite!Loaded \in Seq(Messages)
           /\ count \in 0..Len(Sqlite!Loaded)
           /\ Len(Sqlite!Loaded) = sequence - gone
           /\ \A i \in 1..count : Sqlite!Loaded[i] \in published
           /\ Keeps(Sqlite!Loaded, accepted, published)
<1>1. sequence \in Nat
  BY SqliteQueue
<1>2. Sqlite!Loaded = InIdOrder(rows)
  BY LoadedInIdOrder
<1>3. /\ Cardinality(DOMAIN rows) = sequence - gone
      /\ InIdOrder(rows) \in Seq(Messages) /\ Len(InIdOrder(rows)) = sequence - gone
  BY <1>1, TableInOrder
<1>4. count \in 0..(sequence - gone)
  BY <1>3, SameCardinality DEF Sqlite!IInv, Sqlite!TypeOK
<1>5. \A i \in 1..count : Sqlite!Loaded[i] \in published
  BY DEF Sqlite!IInv
<1>6. DOMAIN Sqlite!Loaded = 1..Len(Sqlite!Loaded)
  BY <1>2, <1>3
<1>7. Keeps(Sqlite!Loaded, accepted, published)
  BY <1>6 DEF Keeps, Sqlite!IInv, Sqlite!DeferredKept, Sqlite!Range
<1> QED BY <1>2, <1>3, <1>4, <1>5, <1>7

LEMMA SqliteRestored ==
    ASSUME NEW gone \in Nat, sequence' \in 0..MaxMessages, gone <= sequence',
           Table(rows', gone, sequence'),
           sequence' < next', next' \in 1..(MaxMessages + 1),
           ready' \in BOOLEAN, accepted' \subseteq Messages, published' \subseteq Messages,
           count' \in 0..Len(Sqlite!Loaded'),
           \A i \in 1..count' : Sqlite!Loaded'[i] \in published',
           Keeps(Sqlite!Loaded', accepted', published')
    PROVE  Sqlite!IInv'
<1>1. sequence' \in Nat
  BY FileAssumption
<1>2. Sqlite!Loaded' = InIdOrder(rows')
  BY LoadedInIdOrder
<1>3. /\ Cardinality(DOMAIN rows') = sequence' - gone
      /\ InIdOrder(rows') \in Seq(Messages) /\ Len(InIdOrder(rows')) = sequence' - gone
  BY <1>1, TableInOrder, ZenonT(60)
<1>4. count' \in 0..Cardinality(DOMAIN rows')
  BY <1>2, <1>3, ZenonT(60)
<1>5. DOMAIN rows' = (gone + 1)..sequence' /\ \A id \in DOMAIN rows' : rows'[id] \in Messages
  BY DEF Table
<1>6. DOMAIN rows' \subseteq 1..sequence'
  BY <1>1, <1>5
<1>7. Sqlite!TypeOK'
  BY <1>4, <1>5, <1>6, SameCardinality DEF Sqlite!TypeOK, Sqlite!Messages, Messages
<1>8. \E g \in 0..sequence' : DOMAIN rows' = (g + 1)..sequence'
  BY <1>1, <1>5
<1>9. DOMAIN Sqlite!Loaded' = 1..Len(Sqlite!Loaded')
  BY <1>2, <1>3
<1>10. Sqlite!DeferredKept'
  BY <1>9 DEF Keeps, Sqlite!DeferredKept, Sqlite!Range
<1> QED BY <1>7, <1>8, <1>10 DEF Sqlite!IInv

(* What a step of SqliteCache does to the queue.                           *)
QueueStep(q, q2) == \/ q2 = q
                    \/ \E m \in Messages : q2 = Append(q, m)
                    \/ \E n \in 1..Len(q) : q2 = SubSeq(q, n + 1, Len(q))

(* Every step of SqliteCache keeps the invariant, and is a step of a       *)
(* queue.                                                                  *)
LEMMA SqliteStep ==
    ASSUME Sqlite!IInv, Sqlite!Next \/ UNCHANGED Sqlite!vars
    PROVE  Sqlite!IInv' /\ QueueStep(Sqlite!Loaded, Sqlite!Loaded')
<1> DEFINE Q == Sqlite!Loaded
<1>1. PICK gone \in Nat : gone <= sequence /\ Table(rows, gone, sequence)
  BY SqliteQueue
<1>2. /\ Q = InIdOrder(rows) /\ Q' = InIdOrder(rows')
      /\ Q \in Seq(Messages) /\ count \in 0..Len(Q) /\ Len(Q) = sequence - gone
      /\ \A i \in 1..count : Q[i] \in published
      /\ Keeps(Q, accepted, published)
  BY <1>1, SqliteFacts, LoadedInIdOrder
<1>3. /\ sequence \in Nat /\ next \in Nat /\ count \in Nat
      /\ sequence \in 0..MaxMessages /\ next \in 1..(MaxMessages + 1) /\ sequence < next
  BY SqliteQueue DEF Sqlite!IInv, Sqlite!TypeOK
<1>4. ready \in BOOLEAN /\ accepted \subseteq Messages /\ published \subseteq Messages
  BY DEF Sqlite!IInv, Sqlite!TypeOK, Sqlite!Messages, Messages
<1>5. ASSUME next <= MaxMessages, rows' = Sqlite!Inserted, sequence' = sequence + 1,
             next' = next + 1, ready' \in BOOLEAN,
             accepted' = accepted \/ accepted' = accepted \cup {next},
             count = 0, UNCHANGED <<count, published>>
      PROVE  Sqlite!IInv' /\ QueueStep(Q, Q')
  <2>1. next \in Messages
    BY <1>3, <1>5 DEF Messages
  <2>2. rows' = Insert(rows, sequence, next)
    BY <1>5 DEF Sqlite!Inserted, Insert
  <2>3. Table(rows', gone, sequence + 1) /\ InIdOrder(rows') = Append(InIdOrder(rows), next)
    BY <1>1, <1>3, <2>1, <2>2, InsertLast
  <2>4. Q' = Append(Q, next)
    BY <1>2, <2>3
  <2>5. Keeps(Q', accepted', published')
    <3>1. /\ Keeps(Append(Q, next), accepted, published)
          /\ Keeps(Append(Q, next), accepted \cup {next}, published)
      BY <1>2, <2>1, KeepsAppend
    <3>2. published' = published
      BY <1>5
    <3> QED BY <1>5, <2>4, <3>1, <3>2, ZenonT(60)
  <2>6. /\ sequence' \in 0..MaxMessages /\ gone <= sequence' /\ sequence' < next'
        /\ next' \in 1..(MaxMessages + 1)
    BY <1>1, <1>3, <1>5, FileAssumption
  <2>7. count' \in 0..Len(Q') /\ \A i \in 1..count' : Q'[i] \in published'
    BY <1>2, <1>5, <2>4
  <2>8. accepted' \subseteq Messages /\ published' \subseteq Messages
    BY <1>4, <1>5, <2>1
  <2>9. Sqlite!IInv'
    BY <1>5, <2>3, <2>5, <2>6, <2>7, <2>8, SqliteRestored
  <2> QED BY <2>1, <2>4, <2>9 DEF QueueStep
<1>6. ASSUME UNCHANGED <<rows, sequence, accepted>>, ready' \in BOOLEAN,
             next' \in {next, next + 1}, next' <= MaxMessages + 1,
             published' \subseteq Messages, published \subseteq published',
             count' \in 0..Len(Q), \A i \in 1..count' : Q[i] \in published'
      PROVE  Sqlite!IInv' /\ QueueStep(Q, Q')
  <2>1. Q' = Q
    BY <1>2, <1>6
  <2>2. Keeps(Q', accepted', published')
    BY <1>2, <1>6, <2>1 DEF Keeps
  <2>3. sequence' < next' /\ next' \in 1..(MaxMessages + 1)
    BY <1>3, <1>6
  <2>4. Table(rows', gone, sequence') /\ gone <= sequence' /\ sequence' \in 0..MaxMessages
    BY <1>1, <1>3, <1>6
  <2>5. accepted' \subseteq Messages /\ published' \subseteq Messages
    BY <1>4, <1>6
  <2>6. count' \in 0..Len(Q') /\ \A i \in 1..count' : Q'[i] \in published'
    BY <1>6, <2>1
  <2>7. Sqlite!IInv'
    BY <1>6, <2>2, <2>3, <2>4, <2>5, <2>6, SqliteRestored
  <2> QED BY <2>1, <2>7 DEF QueueStep
<1>7. CASE Sqlite!initialize
  BY <1>2, <1>3, <1>4, <1>6, <1>7 DEF Sqlite!initialize
<1>8. CASE Sqlite!append
  BY <1>4, <1>5, <1>8 DEF Sqlite!append
<1>9. CASE Sqlite!AppendCrash
  BY <1>4, <1>5, <1>9, ZenonT(60) DEF Sqlite!AppendCrash
<1>10. CASE Sqlite!AppendFails
  <2>1. /\ UNCHANGED <<rows, sequence, accepted>> /\ ready' \in BOOLEAN
        /\ next' = next + 1 /\ next <= MaxMessages
        /\ count' = count /\ published' = published
    BY <1>4, <1>10 DEF Sqlite!AppendFails
  <2>2. next' \in {next, next + 1} /\ next' <= MaxMessages + 1
    BY <1>3, <2>1, FileAssumption
  <2> QED BY <1>2, <1>4, <1>6, <2>1, <2>2
<1>11. CASE Sqlite!Flush
  <2>1. PICK n \in 1..Len(Q) : /\ count' = n
                               /\ published' = published \cup {Q[i] : i \in 1..n}
    BY <1>11 DEF Sqlite!Flush
  <2>2. n \in 0..Len(Q) /\ \A i \in 1..n : i \in 1..Len(Q)
    BY <1>2
  <2>3. \A i \in 1..n : Q[i] \in Messages
    BY <1>2, <2>2
  <2>4. /\ published' \subseteq Messages /\ published \subseteq published'
        /\ count' \in 0..Len(Q) /\ \A i \in 1..count' : Q[i] \in published'
    BY <1>4, <2>1, <2>2, <2>3
  <2>5. UNCHANGED <<rows, sequence, accepted, next, ready>>
    BY <1>11 DEF Sqlite!Flush
  <2> QED BY <1>3, <1>4, <1>6, <2>4, <2>5
<1>12. CASE Sqlite!remove_first
  <2>1. /\ count > 0 /\ count' = 0
        /\ UNCHANGED <<sequence, ready, next, accepted, published>>
        /\ rows' = Delete(rows, count)
    BY <1>12, SameOrder DEF Sqlite!remove_first, Sqlite!Restrict, Sqlite!OrderedIds, Delete
  <2>2. count \in 1..(sequence - gone) /\ count \in 1..Len(Q)
    BY <1>2, <1>3, <2>1
  <2>3. /\ Table(rows', gone + count, sequence)
        /\ InIdOrder(rows') = SubSeq(InIdOrder(rows), count + 1, Len(InIdOrder(rows)))
    BY <1>1, <1>3, <2>1, <2>2, DeleteFirst
  <2>4. Q' = SubSeq(Q, count + 1, Len(Q))
    BY <1>2, <2>3
  <2>5. Keeps(SubSeq(Q, count + 1, Len(Q)), accepted, published)
    BY <1>2, <2>2, KeepsRemove
  <2>6. Keeps(Q', accepted', published')
    BY <2>1, <2>4, <2>5
  <2>7. gone + count \in Nat /\ gone + count <= sequence'
    BY <1>1, <1>3, <2>1, <2>2
  <2>8. count' \in 0..Len(Q') /\ \A i \in 1..count' : Q'[i] \in published'
    <3>1. Len(Q') \in Nat
      BY <1>2, <2>4
    <3> QED BY <2>1, <3>1
  <2>9. Sqlite!IInv'
    BY <1>3, <1>4, <2>1, <2>3, <2>6, <2>7, <2>8, SqliteRestored
  <2> QED BY <2>2, <2>4, <2>9 DEF QueueStep
<1>13. CASE Sqlite!RemoveFails
  BY <1>2, <1>3, <1>4, <1>6, <1>13 DEF Sqlite!RemoveFails
<1>14. CASE Sqlite!Crash
  <2>1. /\ UNCHANGED <<rows, sequence, accepted, next, published>>
        /\ ready' \in BOOLEAN /\ count' = 0
    BY <1>14, ZenonT(60) DEF Sqlite!Crash
  <2>2. next' \in {next, next + 1} /\ next' <= MaxMessages + 1
    BY <1>3, <2>1
  <2>3. count' \in 0..Len(Q) /\ \A i \in 1..count' : Q[i] \in published'
    BY <1>2, <2>1
  <2> QED BY <1>4, <1>6, <2>1, <2>2, <2>3
<1>15. CASE UNCHANGED Sqlite!vars
  BY <1>2, <1>3, <1>4, <1>6, <1>15 DEF Sqlite!vars
<1> QED BY <1>7, <1>8, <1>9, <1>10, <1>11, <1>12, <1>13, <1>14, <1>15 DEF Sqlite!Next

-----------------------------------------------------------------------------
(* FileCache.                                                              *)

(* A step that loses no message but one that a remove_first() misread.     *)
Safe == \A m \in accepted \ published :
           m \in Held /\ m \notin Held' => op = "rename" /\ misread

Healthy == ~read_faults /\ ~short_writes

LEMMA NoMessage ==
    /\ Headless \notin Messages /\ Garbled \notin Messages /\ Doubled \notin Messages
    /\ Headless \in Lines /\ Garbled \in Lines /\ Doubled \in Lines
    /\ Messages \subseteq Lines
<1>1. Messages \subseteq Nat
  BY FileAssumption DEF Messages
<1> QED BY <1>1, FileAssumption, ZenonT(60) DEF Lines

(* The numbers in the invariant.                                           *)
LEMMA FileFacts ==
    ASSUME IInv
    PROVE  /\ file \in Seq(Lines) /\ rest \in Seq(Lines) /\ tmp \in Seq(Lines)
           /\ Len(file) \in Nat /\ Len(file) < next
           /\ Loadable \in Seq(Lines) /\ Len(Loadable) <= Len(file)
           /\ next \in Nat /\ next <= MaxMessages + 1 /\ count \in Nat
<1>1. file \in Seq(Lines) /\ rest \in Seq(Lines) /\ tmp \in Seq(Lines)
  BY DEF IInv, TypeOK
<1>2. Loadable \in Seq(Lines) /\ Len(Loadable) <= Len(file)
  BY <1>1, LoadsType DEF Loadable
<1>3. next \in Nat /\ next <= MaxMessages + 1 /\ count \in Nat /\ Len(file) < next
  BY FileAssumption DEF IInv, TypeOK, Sized
<1> QED BY <1>1, <1>2, <1>3

(* What load_all() returns is the beginning of what it should, and all of  *)
(* it on a disk that reads back.                                           *)
LEMMA LoadAllFacts ==
    ASSUME IInv, NEW b \in LoadAll
    PROVE  /\ b \in Seq(Lines) /\ Len(b) <= Len(Loadable)
           /\ \A i \in 1..Len(b) : b[i] = Loadable[i]
           /\ ~read_faults => b = Loadable
<1>1. Loadable \in Seq(Lines)
  BY FileFacts
<1>2. CASE b = Loadable
  BY <1>1, <1>2
<1>3. CASE read_faults
  <2>1. PICK k \in 0..Len(Loadable) : b = SubSeq(Loadable, 1, k)
    BY <1>3 DEF LoadAll
  <2>2. b \in Seq(Lines) /\ Len(b) = k /\ \A i \in 1..k : b[i] = Loadable[i]
    BY <1>1, <2>1
  <2> QED BY <1>1, <1>3, <2>1, <2>2
<1> QED BY <1>2, <1>3 DEF LoadAll

(* A message that leaves the file was the unfinished line.                 *)
LEMMA WrittenFacts ==
    ASSUME IInv, NEW part \in Lines
    PROVE  /\ Written(part) \in Seq(Lines)
           /\ Written(part) # <<>> /\ Len(Written(part)) <= Len(file) + 1
           /\ Written(part)[Len(Written(part))] \in {part, Headless, Garbled, Doubled}
           /\ \A m \in accepted : m \in Held => m \in Range(Written(part))
           /\ ~cut => Written(part) = Append(file, part)
<1>1. file \in Seq(Lines) /\ Len(file) \in Nat
  BY FileFacts
<1>2. CASE ~cut
  <2>1. Written(part) = Append(file, part)
    BY <1>2 DEF Written
  <2> DEFINE t == Append(file, part)
  <2>2. /\ t \in Seq(Lines) /\ Len(t) = Len(file) + 1 /\ t[Len(t)] = part
        /\ \A i \in 1..Len(file) : i \in 1..Len(t) /\ t[i] = file[i]
    BY <1>1
  <2>3. DOMAIN file = 1..Len(file) /\ DOMAIN t = 1..Len(t)
    BY <1>1, <2>2
  <2> HIDE DEF t
  <2>4. \A m \in accepted : m \in Held => m \in Range(t)
    BY <2>2, <2>3 DEF Held, Range
  <2>5. t # <<>>
    BY <1>1, <2>2
  <2>6. Written(part) = t
    BY <2>1 DEF t
  <2> QED BY <1>1, <2>1, <2>2, <2>4, <2>5, <2>6
<1>3. CASE cut
  <2>1. file # <<>> /\ file[Len(file)] \notin accepted
    BY <1>3 DEF IInv, CutSound
  <2> DEFINE g == Glue(file[Len(file)], part)
             t == [file EXCEPT ![Len(file)] = g]
  <2>2. g \in {Headless, Garbled, Doubled}
    BY DEF Glue
  <2>3. Len(file) \in 1..Len(file) /\ g \in Lines
    BY <1>1, <2>1, <2>2, NoMessage
  <2>4. Written(part) = t
    BY <1>3 DEF Written
  <2> HIDE DEF g
  <2>5. /\ t \in Seq(Lines) /\ Len(t) = Len(file)
        /\ \A i \in 1..Len(file) : t[i] = IF i = Len(file) THEN g ELSE file[i]
    BY <1>1, <2>3, ExceptSeq
  <2> HIDE DEF t
  <2>6. DOMAIN file = 1..Len(file) /\ DOMAIN t = 1..Len(file)
    BY <1>1, <2>5
  <2>7. \A m \in accepted : m \in Held => m \in Range(t)
    BY <2>1, <2>5, <2>6, ZenonT(60) DEF Held, Range
  <2>8. t # <<>> /\ t[Len(t)] = g
    BY <1>1, <2>3, <2>5
  <2> QED BY <1>1, <1>3, <2>2, <2>4, <2>5, <2>7, <2>8
<1> QED BY <1>2, <1>3 DEF IInv, TypeOK

LEMMA HealthyLoads ==
    ASSUME IInv, Healthy
    PROVE  /\ Loadable = file /\ file \in Seq(Messages) /\ ~cut /\ ~misread
           /\ Keeps(file, accepted, published)
<1>1. file \in Seq(Messages) /\ ~cut /\ ~misread /\ Kept
  BY DEF Healthy, IInv, HealthyDisk
<1>2. Loadable = file
  BY <1>1, NoMessage, LoadsWhole DEF Loadable
<1>3. DOMAIN file = 1..Len(file)
  BY <1>1
<1>4. Keeps(file, accepted, published)
  BY <1>1, <1>3 DEF Kept, Held, Range, Keeps
<1> QED BY <1>1, <1>2, <1>4

(* What a step of FileCache has to keep.                                   *)
StepSound == IInv' /\ Safe /\ (Healthy => QueueStep(Loadable, Loadable'))

(* The queue of a healthy file is the file.                                *)
LEMMA HealthyQueue ==
    ASSUME IInv, IInv', UNCHANGED disk, Healthy => QueueStep(file, file')
    PROVE  Healthy => QueueStep(Loadable, Loadable')
<1> SUFFICES ASSUME Healthy PROVE QueueStep(Loadable, Loadable')
  OBVIOUS
<1>1. Loadable = file
  BY HealthyLoads
<1>2. file' \in Seq(Messages)
  BY DEF Healthy, disk, IInv, HealthyDisk
<1>3. Loadable' = file'
  BY <1>2, NoMessage, LoadsWhole DEF Loadable
<1> QED BY <1>1, <1>3

(* A step that leaves the file alone.                                      *)
LEMMA FileUntouched ==
    ASSUME IInv, UNCHANGED <<disk, file, cut, accepted>>,
           next' \in {next, next + 1}, next' <= MaxMessages + 1,
           published \subseteq published', published' \subseteq Lines,
           count' \in 0..MaxMessages, tmp' \in Seq(Lines), rest' \in Seq(Lines),
           Len(tmp') < next', Len(rest') < next', misread' \in BOOLEAN,
           Healthy => ~misread',
           op' \in {"idle", "reload", "write", "rename"}, FlushSound', RestSound'
    PROVE  StepSound
<1>1. next \in Nat /\ Len(file) < next /\ Len(file) \in Nat
  BY FileFacts
<1>2. next' \in 1..(MaxMessages + 1) /\ Len(file) < next'
  BY <1>1, FileAssumption DEF IInv, TypeOK
<1>3. TypeOK'
  BY <1>2 DEF IInv, TypeOK, disk
<1>4. Numbered'
  <2>1. \A m \in accepted : m \in Nat /\ m < next
    BY FileAssumption DEF IInv, Numbered, TypeOK, Messages
  <2> QED BY <1>1, <2>1 DEF Numbered
<1>5. Sized'
  BY <1>2 DEF Sized
<1>6. CutSound'
  BY DEF IInv, CutSound
<1>7. Kept => Kept'
  BY DEF Kept, Held
<1>8. HealthyDisk'
  BY <1>7 DEF IInv, HealthyDisk, Healthy, disk
<1>9. IInv'
  BY <1>3, <1>4, <1>5, <1>6, <1>8 DEF IInv
<1>10. Safe
  BY DEF Safe, Held
<1>11. Loadable' = Loadable
  BY DEF Loadable
<1> QED BY <1>9, <1>10, <1>11 DEF StepSound, QueueStep

(* A step that writes a line, whole or cut short.                          *)
LEMMA LineWritten ==
    ASSUME IInv, op = "idle", next <= MaxMessages, NEW part \in {Headless, Garbled, next},
           file' = Written(part), next' = next + 1, cut' \in BOOLEAN,
           \/ accepted' = accepted
           \/ accepted' = accepted \cup {next} /\ part = next /\ ~cut',
           part # next \/ cut' => short_writes,
           UNCHANGED <<disk, tmp, op, count, rest, misread, published>>
    PROVE  StepSound
<1>1. next \in Nat /\ Len(file) < next /\ Len(file) \in Nat /\ next \in Messages
  BY FileFacts, FileAssumption DEF IInv, TypeOK, Messages
<1>2. part \in Lines
  BY <1>1, NoMessage
<1>3. /\ file' \in Seq(Lines) /\ file' # <<>> /\ Len(file') <= Len(file) + 1
      /\ file'[Len(file')] \in {part, Headless, Garbled, Doubled}
      /\ \A m \in accepted : m \in Held => m \in Held'
      /\ ~cut => file' = Append(file, part)
  BY <1>2, WrittenFacts DEF Held
<1>4. \A m \in accepted : m \in Nat /\ m \in Messages /\ m < next
  BY FileAssumption DEF IInv, Numbered, TypeOK, Messages
<1>5. TypeOK'
  <2>1. next' \in 1..(MaxMessages + 1)
    BY <1>1, FileAssumption
  <2>2. accepted' \subseteq Messages
    BY <1>1, <1>4
  <2> QED BY <1>3, <2>1, <2>2 DEF IInv, TypeOK, disk
<1>6. Numbered'
  BY <1>1, <1>4 DEF Numbered
<1>7. Sized'
  <2>1. Len(file') < next'
    BY <1>1, <1>3
  <2>2. Len(rest) < next' /\ Len(tmp) < next'
    <3>1. Len(rest) \in Nat /\ Len(tmp) \in Nat /\ Len(rest) < next /\ Len(tmp) < next
      BY FileFacts DEF IInv, Sized
    <3> QED BY <1>1, <3>1
  <2> QED BY <2>1, <2>2 DEF Sized
<1>8. CutSound'
  <2> SUFFICES ASSUME cut' PROVE file' # <<>> /\ file'[Len(file')] \notin accepted'
    BY DEF CutSound
  <2>1. accepted' = accepted
    OBVIOUS
  <2>2. next \notin accepted
    BY <1>1, <1>4
  <2>3. \A m \in {Headless, Garbled, Doubled} : m \notin accepted
    BY <1>4, NoMessage
  <2> QED BY <1>3, <2>1, <2>2, <2>3
<1>9. FlushSound' /\ RestSound'
  BY DEF FlushSound, RestSound
<1>10. Healthy => /\ file \in Seq(Messages) /\ file' = Append(file, next)
                  /\ Keeps(file, accepted, published) /\ ~cut' /\ ~misread'
  BY <1>3, HealthyLoads DEF Healthy
<1>11. Healthy => Kept'
  <2> SUFFICES ASSUME Healthy PROVE Kept'
    OBVIOUS
  <2>1. /\ Keeps(Append(file, next), accepted, published)
        /\ Keeps(Append(file, next), accepted \cup {next}, published)
    BY <1>1, <1>10, KeepsAppend
  <2>2. Keeps(file', accepted', published')
    BY <1>10, <2>1, ZenonT(60)
  <2>3. DOMAIN file' = 1..Len(file')
    BY <1>3
  <2> QED BY <2>2, <2>3 DEF Keeps, Kept, Held, Range
<1>12. HealthyDisk'
  <2>1. Healthy => file' \in Seq(Messages)
    BY <1>1, <1>10
  <2> QED BY <1>10, <1>11, <2>1 DEF HealthyDisk, Healthy, disk
<1>13. IInv'
  BY <1>5, <1>6, <1>7, <1>8, <1>9, <1>12 DEF IInv
<1>14. Safe
  BY <1>3 DEF Safe
<1>15. Healthy => QueueStep(file, file')
  BY <1>1, <1>10 DEF QueueStep
<1> QED BY <1>13, <1>14, <1>15, HealthyQueue DEF StepSound

(* The flush: what it publishes is the beginning of the file.              *)
LEMMA FlushKeeps ==
    ASSUME IInv, Flush
    PROVE  StepSound
<1>0. PICK batch \in LoadAll : \E n \in 1..Len(batch) :
          count' = n /\ published' = published \cup {batch[i] : i \in 1..n}
  BY DEF Flush
<1>1. PICK n \in 1..Len(batch) :
          count' = n /\ published' = published \cup {batch[i] : i \in 1..n}
  BY <1>0
<1>2. UNCHANGED <<disk, file, cut, tmp, rest, misread, next, accepted>> /\ op' = "reload"
  BY DEF Flush
<1>3. /\ batch \in Seq(Lines) /\ Len(batch) <= Len(Loadable)
      /\ \A i \in 1..Len(batch) : batch[i] = Loadable[i]
  BY LoadAllFacts
<1>4. /\ next \in Nat /\ next <= MaxMessages + 1 /\ Len(file) \in Nat /\ Len(file) < next
      /\ Loadable \in Seq(Lines) /\ Len(Loadable) <= Len(file)
      /\ tmp \in Seq(Lines) /\ rest \in Seq(Lines)
  BY FileFacts
<1>5. n \in 1..Len(Loadable) /\ n \in 0..MaxMessages /\ \A i \in 1..n : i \in 1..Len(batch)
  BY <1>3, <1>4, FileAssumption
<1>6. \A i \in 1..n : batch[i] \in Lines /\ batch[i] = Loadable[i]
  BY <1>3, <1>5
<1>7. published' \subseteq Lines /\ published \subseteq published'
  BY <1>1, <1>6 DEF IInv, TypeOK
<1>8. Loadable' = Loadable
  BY <1>2 DEF Loadable
<1>9. \A i \in 1..n : Loadable[i] \in published'
  BY <1>1, <1>6
<1>10. FlushSound'
  BY <1>1, <1>5, <1>8, <1>9 DEF FlushSound
<1>11. RestSound'
  BY <1>2 DEF RestSound
<1>12. /\ Len(tmp') < next' /\ Len(rest') < next' /\ misread' \in BOOLEAN
       /\ Healthy => ~misread'
  BY <1>2, HealthyLoads DEF IInv, Sized, TypeOK
<1> QED BY <1>1, <1>2, <1>4, <1>5, <1>7, <1>10, <1>11, <1>12, FileUntouched

(* remove_first() reads the file again: what it is to keep is all that     *)
(* follows the published messages, if it could read it.                    *)
LEMMA RemoveReloadKeeps ==
    ASSUME IInv, RemoveReload
    PROVE  StepSound
<1>1. PICK messages \in LoadAll :
          /\ rest' = IF count >= Len(messages) THEN <<>>
                     ELSE SubSeq(messages, count + 1, Len(messages))
          /\ misread' = (messages # Loadable)
  BY DEF RemoveReload
<1>2. /\ UNCHANGED <<disk, file, cut, tmp, count, next, accepted, published>>
      /\ op = "reload" /\ op' = "write"
  BY DEF RemoveReload
<1>3. /\ messages \in Seq(Lines) /\ Len(messages) <= Len(Loadable)
      /\ ~read_faults => messages = Loadable
  BY LoadAllFacts
<1>4. /\ next \in Nat /\ next <= MaxMessages + 1 /\ Len(file) \in Nat /\ Len(file) < next
      /\ Loadable \in Seq(Lines) /\ Len(Loadable) <= Len(file)
      /\ tmp \in Seq(Lines) /\ count \in Nat /\ Len(messages) \in Nat
  BY <1>3, FileFacts
<1>5. /\ count \in 1..Len(Loadable)
      /\ \A i \in 1..count : Loadable[i] \in published
  BY <1>2 DEF IInv, FlushSound
<1>6. rest' \in Seq(Lines) /\ Len(rest') < next
  <2>1. CASE count >= Len(messages)
    <3>1. rest' = <<>>
      BY <1>1, <2>1
    <3> QED BY <1>4, <3>1
  <2>2. CASE ~(count >= Len(messages))
    <3>1. rest' = SubSeq(messages, count + 1, Len(messages)) /\ count \in 0..Len(messages)
      BY <1>1, <1>4, <2>2
    <3>2. rest' \in Seq(Lines) /\ Len(rest') = Len(messages) - count
      BY <1>3, <3>1, Following
    <3> QED BY <1>3, <1>4, <3>2
  <2> QED BY <2>1, <2>2
<1>7. Loadable' = Loadable
  BY <1>2 DEF Loadable
<1>8. ASSUME ~misread'
      PROVE  rest' = SubSeq(Loadable, count + 1, Len(Loadable))
  <2>1. messages = Loadable
    BY <1>1, <1>8, ZenonT(60)
  <2>2. CASE count >= Len(messages)
    <3>1. count = Len(Loadable)
      BY <1>4, <1>5, <2>1, <2>2
    <3>2. SubSeq(Loadable, count + 1, Len(Loadable)) = <<>>
      BY <1>4, <3>1
    <3> QED BY <1>1, <2>2, <3>2, ZenonT(60)
  <2>3. CASE ~(count >= Len(messages))
    BY <1>1, <2>1, <2>3, ZenonT(60)
  <2> QED BY <2>2, <2>3
<1>9. RestSound'
  BY <1>2, <1>7, <1>8 DEF RestSound
<1>10. FlushSound'
  BY <1>2, <1>5, <1>7 DEF FlushSound
<1>11. misread' \in BOOLEAN /\ (Healthy => ~misread')
  BY <1>1, <1>3, ZenonT(60) DEF Healthy
<1>12. Len(tmp') < next' /\ published \subseteq published' /\ published' \subseteq Lines
       /\ count' \in 0..MaxMessages /\ tmp' \in Seq(Lines)
  BY <1>2 DEF IInv, Sized, TypeOK
<1> QED BY <1>2, <1>4, <1>6, <1>9, <1>10, <1>11, <1>12, FileUntouched

(* The rename: the file becomes what remove_first() keeps.                 *)
LEMMA RenameKeeps ==
    ASSUME IInv, Rename
    PROVE  StepSound
<1>1. /\ op = "rename" /\ file' = tmp /\ cut' = FALSE /\ tmp' = <<>> /\ op' = "idle"
      /\ UNCHANGED <<disk, count, rest, misread, next, accepted, published>>
  BY DEF Rename
<1>2. /\ tmp = rest /\ count \in 1..Len(Loadable)
      /\ \A i \in 1..count : Loadable[i] \in published
      /\ ~misread => rest = SubSeq(Loadable, count + 1, Len(Loadable))
  BY <1>1 DEF IInv, RestSound, FlushSound
<1>3. /\ next \in Nat /\ Loadable \in Seq(Lines) /\ file \in Seq(Lines)
      /\ tmp \in Seq(Lines) /\ Len(<<>>) = 0 /\ <<>> \in Seq(Lines)
  BY FileFacts
<1>4. TypeOK' /\ Numbered'
  BY <1>1, <1>3, ZenonT(60) DEF IInv, TypeOK, Numbered, disk
<1>5. Sized'
  BY <1>1, <1>3 DEF IInv, Sized, TypeOK
<1>6. CutSound' /\ FlushSound' /\ RestSound'
  BY <1>1 DEF CutSound, FlushSound, RestSound
<1>7. Healthy => /\ file \in Seq(Messages) /\ Loadable = file /\ ~misread
                 /\ file' = SubSeq(file, count + 1, Len(file))
                 /\ Keeps(file, accepted, published)
  BY <1>1, <1>2, HealthyLoads
<1>8. Healthy => file' \in Seq(Messages) /\ Kept'
  <2> SUFFICES ASSUME Healthy PROVE file' \in Seq(Messages) /\ Kept'
    OBVIOUS
  <2>1. count \in 1..Len(file) /\ count \in 0..Len(file)
    BY <1>2, <1>7
  <2>2. SubSeq(file, count + 1, Len(file)) \in Seq(Messages)
    BY <1>7, <2>1, Following
  <2>3. Keeps(SubSeq(file, count + 1, Len(file)), accepted, published)
    BY <1>2, <1>7, <2>1, KeepsRemove
  <2>4. Keeps(file', accepted', published') /\ file' \in Seq(Messages)
    BY <1>1, <1>7, <2>2, <2>3, ZenonT(60)
  <2>5. DOMAIN file' = 1..Len(file')
    BY <2>4
  <2> QED BY <2>4, <2>5 DEF Keeps, Kept, Held, Range
<1>9. HealthyDisk'
  BY <1>1, <1>7, <1>8 DEF HealthyDisk, Healthy, disk
<1>10. IInv'
  BY <1>4, <1>5, <1>6, <1>9 DEF IInv
<1>11. Safe
  <2> SUFFICES ASSUME NEW m \in accepted \ published, m \in Held, ~misread
               PROVE  m \in Held'
    BY <1>1 DEF Safe
  <2>1. m # Headless
    BY NoMessage DEF IInv, TypeOK
  <2>2. PICK p \in 1..Len(file) : file[p] = m
    BY <1>3 DEF Held, Range
  <2>3. \E i \in 1..Len(Loadable) : Loadable[i] = m
    BY <1>3, <2>1, <2>2, LoadsAll DEF Loadable
  <2>4. Keeps(Loadable, {m}, published)
    BY <2>3 DEF Keeps
  <2>5. Keeps(SubSeq(Loadable, count + 1, Len(Loadable)), {m}, published)
    BY <1>2, <1>3, <2>4, KeepsRemove
  <2>6. Keeps(tmp, {m}, published)
    BY <1>2, <2>5, ZenonT(60)
  <2>7. m \in Range(tmp)
    BY <1>3, <2>6 DEF Keeps, Range
  <2> QED BY <1>1, <2>7 DEF Held
<1>12. Healthy => QueueStep(file, file')
  BY <1>2, <1>7 DEF QueueStep
<1> QED BY <1>1, <1>10, <1>11, <1>12, HealthyQueue DEF StepSound

(* Every step of FileCache keeps the invariant, loses nothing that it      *)
(* read, and is a step of a queue on a healthy disk.                       *)
LEMMA FileStep ==
    ASSUME IInv, Next \/ UNCHANGED vars
    PROVE  StepSound
<1>1. /\ next \in Nat /\ next <= MaxMessages + 1 /\ rest \in Seq(Lines)
      /\ tmp \in Seq(Lines) /\ <<>> \in Seq(Lines) /\ Len(<<>>) = 0
      /\ Len(rest) \in Nat /\ Len(tmp) \in Nat /\ Len(rest) < next /\ Len(tmp) < next
  BY FileFacts DEF IInv, Sized
<1>2. /\ misread \in BOOLEAN /\ (Healthy => ~misread)
      /\ published \subseteq Lines /\ count \in 0..MaxMessages
      /\ op \in {"idle", "reload", "write", "rename"} /\ FlushSound /\ RestSound
  BY HealthyLoads DEF IInv, TypeOK
<1> DEFINE Keep == /\ UNCHANGED <<disk, file, cut, count, rest, misread>>
                   /\ UNCHANGED <<accepted, published>>
           Moves == \/ op' = "idle"
                    \/ UNCHANGED <<op, tmp>>
                    \/ op = "write" /\ op' = "rename" /\ tmp' = rest
           Number == next' \in {next, next + 1} /\ next' <= MaxMessages + 1
           Temporary == tmp' \in Seq(Lines) /\ Len(tmp') < next'
<1>3. ASSUME Keep, Moves, Number, Temporary
      PROVE  StepSound
  <2>1. Loadable' = Loadable
    BY <1>3 DEF Loadable
  <2>2. FlushSound'
    BY <1>2, <1>3, <2>1 DEF FlushSound
  <2>3. RestSound'
    BY <1>2, <1>3, <2>1 DEF RestSound
  <2>4. rest' \in Seq(Lines) /\ Len(rest') < next'
    BY <1>1, <1>3
  <2>5. /\ published \subseteq published' /\ published' \subseteq Lines
        /\ count' \in 0..MaxMessages /\ misread' \in BOOLEAN /\ (Healthy => ~misread')
        /\ op' \in {"idle", "reload", "write", "rename"}
    BY <1>2, <1>3
  <2> QED BY <1>3, <2>2, <2>3, <2>4, <2>5, FileUntouched
<1>4. CASE AppendOk
  BY <1>4, LineWritten, ZenonT(60) DEF AppendOk
<1>5. CASE AppendCrash
  BY <1>5, LineWritten, ZenonT(60) DEF AppendCrash
<1>6. CASE AppendShort
  BY <1>6, LineWritten DEF AppendShort
<1>7. CASE AppendFails
  <2>1. next' = next + 1 /\ next <= MaxMessages /\ tmp' = tmp
    BY <1>7 DEF AppendFails
  <2>2. Number
    BY <1>1, <2>1, FileAssumption
  <2>3. Temporary
    BY <1>1, <2>1
  <2>4. Keep /\ Moves
    BY <1>7 DEF AppendFails
  <2> HIDE DEF Keep, Moves, Number, Temporary
  <2> QED BY <1>3, <2>2, <2>3, <2>4
<1>8. CASE Flush
  BY <1>8, FlushKeeps
<1>9. CASE RemoveReload
  BY <1>9, RemoveReloadKeeps
<1>10. ASSUME next' = next
       PROVE  Number /\ (tmp' = tmp \/ tmp' = rest \/ tmp' = <<>> => Temporary)
  <2>1. Number
    BY <1>1, <1>10
  <2>2. 0 < next
    BY FileAssumption DEF IInv, TypeOK
  <2>3. tmp' = tmp \/ tmp' = rest \/ tmp' = <<>> => Temporary
    BY <1>1, <1>10, <2>2, ZenonT(60)
  <2> QED BY <2>1, <2>3
<1>11. CASE ReplaceRefused \/ Crash \/ WriteTmp \/ RenameFails \/ Finished \/ UNCHANGED vars
  <2>1. next' = next /\ (tmp' = tmp \/ tmp' = rest \/ tmp' = <<>>)
    BY <1>11 DEF ReplaceRefused, Crash, WriteTmp, RenameFails, Finished, vars
  <2>2. Keep
    BY <1>11 DEF ReplaceRefused, Crash, WriteTmp, RenameFails, Finished, vars
  <2>3. Moves
    BY <1>11 DEF ReplaceRefused, Crash, WriteTmp, RenameFails, Finished, vars
  <2> HIDE DEF Keep, Moves, Number, Temporary
  <2> QED BY <1>3, <1>10, <2>1, <2>2, <2>3
<1>12. CASE WriteTmpFails
  <2>1. next' = next /\ Keep /\ Moves
    BY <1>12 DEF WriteTmpFails
  <2>2. tmp' \in Seq(Lines) /\ Len(tmp') < next
    <3>1. CASE UNCHANGED tmp
      BY <1>1, <3>1
    <3>2. ASSUME NEW k \in 0..Len(rest), tmp' = SubSeq(rest, 1, k)
          PROVE  tmp' \in Seq(Lines) /\ Len(tmp') < next
      <4>1. tmp' \in Seq(Lines) /\ Len(tmp') = k
        BY <1>1, <3>2
      <4> QED BY <1>1, <4>1
    <3> QED BY <1>12, <3>1, <3>2 DEF WriteTmpFails
  <2>3. Temporary
    BY <2>1, <2>2
  <2> HIDE DEF Keep, Moves, Number, Temporary
  <2> QED BY <1>3, <1>10, <2>1, <2>3
<1>13. CASE Rename
  BY <1>13, RenameKeeps
<1> QED BY <1>4, <1>5, <1>6, <1>7, <1>8, <1>9, <1>11, <1>12, <1>13 DEF Next

-----------------------------------------------------------------------------
(* The cache that was configured.                                          *)

LEMMA InitSound == BackendInit => BackendIInv
<1> SUFFICES ASSUME BackendInit PROVE BackendIInv
  OBVIOUS
<1>1. /\ type \in {"sqlite", "file"} /\ Init
      /\ rows = <<>> /\ sequence = 0 /\ ready = FALSE
  BY DEF BackendInit, Sqlite!Init
<1>2. /\ <<>> \in Seq(Lines) /\ <<>> \in Seq(Messages) /\ Len(<<>>) = 0
      /\ DOMAIN <<>> = {} /\ 1..0 = {}
  OBVIOUS
<1>3. IInv
  <2>1. TypeOK
    <3>1. 0 \in 0..MaxMessages /\ 1 \in 1..(MaxMessages + 1)
      BY FileAssumption
    <3> QED BY <1>1, <1>2, <3>1, ZenonT(60) DEF Init, TypeOK
  <2>2. Numbered /\ CutSound /\ FlushSound /\ RestSound /\ Kept
    BY <1>1 DEF Init, Numbered, CutSound, FlushSound, RestSound, Kept
  <2>3. Sized
    BY <1>1, <1>2 DEF Init, Sized
  <2>4. HealthyDisk
    BY <1>1, <1>2, <2>2 DEF Init, HealthyDisk
  <2> QED BY <2>1, <2>2, <2>3, <2>4 DEF IInv
<1>4. Sqlite!IInv
  <2>1. DOMAIN rows = {} /\ Cardinality(DOMAIN rows) = 0
    BY <1>1, <1>2, FS_EmptySet
  <2>2. Sqlite!TypeOK
    <3>1. 0 \in 0..MaxMessages /\ 1 \in 1..(MaxMessages + 1) /\ 0 \in 0..0
      BY FileAssumption
    <3> QED BY <1>1, <2>1, <3>1, SameCardinality, ZenonT(60) DEF Init, Sqlite!TypeOK, Sqlite!Messages
  <2>3. \E gone \in 0..sequence : DOMAIN rows = (gone + 1)..sequence
    BY <1>1, <2>1
  <2>4. sequence < next /\ \A i \in 1..count : Sqlite!Loaded[i] \in published
    BY <1>1, <1>2 DEF Init
  <2>5. Sqlite!DeferredKept
    BY <1>1 DEF Init, Sqlite!DeferredKept
  <2> QED BY <2>2, <2>3, <2>4, <2>5 DEF Sqlite!IInv
<1> QED BY <1>1, <1>3, <1>4 DEF BackendIInv, Init

(* What every step keeps.                                                  *)
LEMMA BackendStep ==
    ASSUME BackendIInv, [BackendNext]_<<type, vars, sqlite_only>>
    PROVE  /\ BackendIInv' /\ type' = type
           /\ type = "sqlite" => /\ QueueStep(Sqlite!Loaded, Sqlite!Loaded')
                                 /\ UNCHANGED <<file, op>> /\ file = <<>>
           /\ type = "file" => StepSound /\ UNCHANGED disk
<1>1. CASE type = "sqlite"
  <2>1. Sqlite!Next \/ UNCHANGED Sqlite!vars
    BY <1>1 DEF BackendNext, Sqlite!vars, vars, sqlite_only
  <2>2. UNCHANGED <<type, file, op>>
    BY <1>1 DEF BackendNext, file_only, vars
  <2>3. Sqlite!IInv' /\ QueueStep(Sqlite!Loaded, Sqlite!Loaded')
    BY <1>1, <2>1, SqliteStep DEF BackendIInv
  <2> QED BY <1>1, <2>2, <2>3 DEF BackendIInv
<1>2. CASE type = "file"
  <2>1. Next \/ UNCHANGED vars
    BY <1>2 DEF BackendNext, vars
  <2>2. type' = type
    BY <1>2 DEF BackendNext
  <2>3. StepSound
    BY <1>2, <2>1, FileStep DEF BackendIInv
  <2>4. UNCHANGED disk
    BY <2>1 DEF Next, AppendOk, AppendCrash, AppendFails, AppendShort, Flush, RemoveReload,
       ReplaceRefused, WriteTmp, WriteTmpFails, Rename, RenameFails, Crash, Finished, vars
  <2> QED BY <1>2, <2>2, <2>3, <2>4 DEF BackendIInv, StepSound
<1> QED BY <1>1, <1>2 DEF BackendIInv

(* The inductive invariant holds of the configured cache, however many     *)
(* messages, faults and crashes there are.                                 *)
THEOREM BackendInvariance == BackendSpec => []BackendIInv
<1>1. BackendIInv /\ [BackendNext]_<<type, vars, sqlite_only>> => BackendIInv'
  BY BackendStep
<1> QED BY InitSound, <1>1, PTL DEF BackendSpec

(* A message the publisher was told is deferred stays in the cache until   *)
(* it has been published.                                                  *)
THEOREM DeferredStays == BackendSpec => []BackendKeepsDeferred
<1>1. BackendIInv => BackendKeepsDeferred
  BY DEF BackendIInv, BackendKeepsDeferred, Sqlite!IInv, IInv, HealthyDisk, DeferredKept
<1> QED BY <1>1, BackendInvariance, PTL

(* Whatever fails, a deferred message leaves the cache file unpublished    *)
(* only in a remove_first() that misread the file.                         *)
THEOREM OnlyMisreadLoses == BackendSpec => LossOnlyByMisread
<1>1. BackendIInv /\ [BackendNext]_<<type, vars, sqlite_only>> => Safe
  <2> SUFFICES ASSUME BackendIInv, [BackendNext]_<<type, vars, sqlite_only>>
               PROVE  Safe
    OBVIOUS
  <2>1. CASE type = "sqlite"
    <3>1. file = <<>>
      BY <2>1 DEF BackendIInv
    <3>2. Held = {}
      BY <3>1 DEF Held, Range
    <3> QED BY <3>2 DEF Safe
  <2>2. CASE type = "file"
    BY <2>2, BackendStep DEF StepSound
  <2> QED BY <2>1, <2>2 DEF BackendIInv
<1>2. [BackendNext]_<<type, vars, sqlite_only>> /\ BackendIInv =>
         [\A m \in accepted \ published :
             m \in Held /\ m \notin Held' => op = "rename" /\ misread]_vars
  BY <1>1 DEF Safe
<1> QED BY <1>2, BackendInvariance, PTL DEF BackendSpec, LossOnlyByMisread

(* The stored messages, as the user of the interface sees them.            *)
Stored == IF type = "sqlite" THEN Sqlite!Loaded
          ELSE IF read_faults \/ short_writes THEN <<>> ELSE Loadable

(* Every step of the configured cache is a step of the queue that          *)
(* MessageCache promises.                                                  *)
LEMMA StepRefines ==
    ASSUME BackendIInv, [BackendNext]_<<type, vars, sqlite_only>>
    PROVE  QueueStep(Stored, Stored')
<1>1. type' = type
  BY BackendStep
<1>2. CASE type = "sqlite"
  BY <1>1, <1>2, BackendStep DEF Stored
<1>3. CASE type = "file" /\ Healthy
  <2>1. StepSound /\ UNCHANGED disk
    BY <1>3, BackendStep
  <2>2. Stored = Loadable /\ Stored' = Loadable'
    BY <1>1, <1>3, <2>1 DEF Stored, Healthy, disk
  <2> QED BY <1>3, <2>1, <2>2 DEF StepSound
<1>4. CASE type = "file" /\ ~Healthy
  <2>1. UNCHANGED disk
    BY <1>4, BackendStep
  <2>2. Stored = <<>> /\ Stored' = <<>>
    BY <1>1, <1>4, <2>1 DEF Stored, Healthy, disk
  <2> QED BY <2>2 DEF QueueStep
<1> QED BY <1>2, <1>3, <1>4 DEF BackendIInv

(* Refinement: a SqliteCache, and a FileCache on a healthy disk, is the    *)
(* queue that MessageCache promises.                                       *)
THEOREM CacheRefinement == BackendSpec => MessageCacheSpec
<1>1. BackendInit => Backend!Init
  <2> SUFFICES ASSUME BackendInit PROVE Stored = <<>>
    BY DEF Backend!Init, Stored
  <2>1. BackendIInv
    BY InitSound
  <2>2. CASE type = "sqlite"
    <3>1. Sqlite!IInv /\ rows = <<>> /\ sequence = 0
      BY <2>1, <2>2 DEF BackendIInv, BackendInit, Sqlite!Init
    <3>2. PICK gone \in Nat : gone <= sequence /\ Table(rows, gone, sequence)
      BY <3>1, SqliteQueue
    <3>3. Sqlite!Loaded \in Seq(Messages) /\ Len(Sqlite!Loaded) = sequence - gone
      BY <3>1, <3>2, SqliteFacts
    <3>4. Len(Sqlite!Loaded) = 0
      BY <3>1, <3>2, <3>3
    <3> QED BY <2>2, <3>3, <3>4, EmptySeq DEF Stored
  <2>3. CASE type = "file"
    <3>1. Loadable \in Seq(Lines) /\ Len(Loadable) <= Len(file) /\ file = <<>>
      BY <2>1, <2>3, FileFacts DEF BackendIInv, BackendInit, Init
    <3>2. Len(Loadable) = 0
      BY <3>1
    <3>3. Loadable = <<>>
      BY <3>1, <3>2, EmptySeq
    <3> QED BY <2>3, <3>3 DEF Stored
  <2> QED BY <2>2, <2>3 DEF BackendInit
<1>2. BackendIInv /\ [BackendNext]_<<type, vars, sqlite_only>> =>
         [Backend!Next]_(IF type = "sqlite" THEN Sqlite!Loaded
                         ELSE IF read_faults \/ short_writes THEN <<>> ELSE Loadable)
  BY StepRefines DEF QueueStep, Stored, Backend!Next, Backend!append, Backend!remove_first
<1> QED BY <1>1, <1>2, BackendInvariance, PTL DEF BackendSpec, MessageCacheSpec, Backend!Spec
=============================================================================
