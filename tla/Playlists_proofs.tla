-------------------------- MODULE Playlists_proofs --------------------------
(***************************************************************************)
(* The positions and the count of a playlist's tracks, and the refresh of  *)
(* a smart playlist, for any tracks, requests, sizes of request and chunk, *)
(* faults and lost files.                                                  *)
(*                                                                         *)
(* The first half says what the UPDATEs on positions do to a table: a rank *)
(* numbers the rows from 1 (renumber), and the four statements of a        *)
(* reordering take each row where it goes.  Nothing is computed along the  *)
(* rows: sets of positions are finite, and mappings between them one for   *)
(* one.                                                                    *)
(*                                                                         *)
(* The invariant says what an AddTracks has in hand between its            *)
(* statements.  The place it read is at most the next one, unless another  *)
(* request renumbered the list since, so the unique index lets in only     *)
(* what goes to the end (InPlace); and when the count is wrong, a request  *)
(* is about to count, or the last one that added rows still holds the end  *)
(* of the list and cannot be rejected (Due).                               *)
(***************************************************************************)
EXTENDS Playlists, FiniteSetTheorems, SequenceTheorems, TLAPS

----------------------------------------------------------------------------
(* Sets of positions and their ranks.                                      *)

\* A finite set of positions.
Positions(S) == S \subseteq Int /\ IsFiniteSet(S)

LEMMA RankGrows ==
  ASSUME NEW S, Positions(S), NEW p \in S, NEW q \in S, p < q
  PROVE  Rank(S, p) \in Nat /\ Rank(S, q) \in Nat /\ Rank(S, p) < Rank(S, q)
  <1> DEFINE P == {x \in S : x <= p}
             Q == {x \in S : x <= q}
  <1>1. IsFiniteSet(Q) /\ Cardinality(Q) \in Nat
    <2>1. Q \in SUBSET S
      OBVIOUS
    <2> QED BY <2>1, FS_Subset, FS_CardinalityType DEF Positions
  <1>2. P \in SUBSET Q /\ P # Q
    <2>1. \A x \in S : x \in Int
      BY DEF Positions
    <2>2. q \in Q /\ q \notin P
      BY <2>1
    <2>3. P \subseteq Q
      BY <2>1
    <2> QED BY <2>2, <2>3
  <1>3. Cardinality(P) \in Nat /\ Cardinality(P) < Cardinality(Q)
    <2>1. IsFiniteSet(P) /\ Cardinality(P) <= Cardinality(Q) /\ Cardinality(P) # Cardinality(Q)
      BY <1>1, <1>2, FS_Subset
    <2>2. Cardinality(P) \in Nat
      BY <2>1, FS_CardinalityType
    <2> QED BY <1>1, <2>1, <2>2
  <1> QED BY <1>1, <1>3 DEF Rank

\* Ranks number the positions from 1.
LEMMA RankNumbers ==
  ASSUME NEW S, Positions(S)
  PROVE  /\ Cardinality(S) \in Nat
         /\ \A p \in S : Rank(S, p) \in 1 .. Cardinality(S)
         /\ \A p, q \in S : Rank(S, p) = Rank(S, q) => p = q
         /\ \A i \in 1 .. Cardinality(S) : \E p \in S : Rank(S, p) = i
  <1> DEFINE n == Cardinality(S)
             f == [p \in S |-> Rank(S, p)]
  <1>1. IsFiniteSet(S) /\ n \in Nat
    BY FS_CardinalityType DEF Positions
  <1>2. ASSUME NEW p \in S PROVE Rank(S, p) \in 1 .. n
    <2> DEFINE P == {x \in S : x <= p}
    <2>1. P \in SUBSET S /\ p \in P
      BY DEF Positions
    <2>2. IsFiniteSet(P) /\ Cardinality(P) <= n
      BY <1>1, <2>1, FS_Subset
    <2>3. Cardinality(P) \in Nat /\ Cardinality(P) # 0
      BY <2>1, <2>2, FS_CardinalityType, FS_EmptySet
    <2> QED BY <1>1, <2>2, <2>3 DEF Rank
  <1>3. ASSUME NEW p \in S, NEW q \in S, Rank(S, p) = Rank(S, q) PROVE p = q
    <2>1. p \in Int /\ q \in Int
      BY DEF Positions
    <2>2. ~(p < q)
      BY <1>3, RankGrows
    <2>3. ~(q < p)
      BY <1>3, RankGrows
    <2> QED BY <2>1, <2>2, <2>3
  <1>4. f \in Injection(S, 1 .. n)
    BY <1>2, <1>3 DEF Injection, IsInjective
  <1>5. IsFiniteSet(1 .. n) /\ Cardinality(1 .. n) = n
    BY <1>1, FS_Interval
  <1>6. f \in Surjection(S, 1 .. n)
    BY <1>4, <1>5, FS_Injection
  <1>7. \A i \in 1 .. n : \E p \in S : Rank(S, p) = i
    BY <1>6 DEF Surjection
  <1> QED BY <1>1, <1>2, <1>3, <1>7

\* The last position is the one of the highest rank.
LEMMA LastPosition ==
  ASSUME NEW S, Positions(S), S # {}
  PROVE  Max(S) \in S /\ \A p \in S : p <= Max(S)
  <1> DEFINE n == Cardinality(S)
  <1>1. n \in Nat /\ n # 0
    BY FS_CardinalityType, FS_EmptySet DEF Positions
  <1>2. PICK m \in S : Rank(S, m) = n
    BY <1>1, RankNumbers
  <1>3. ASSUME NEW p \in S PROVE m >= p
    <2>1. p \in Int /\ m \in Int
      BY DEF Positions
    <2>2. Rank(S, p) <= n /\ Rank(S, p) \in Nat
      BY <1>1, RankNumbers
    <2>3. ~(m < p)
      BY <1>1, <1>2, <2>2, RankGrows
    <2> QED BY <2>1, <2>3
  <1>4. Max(S) \in S /\ \A y \in S : Max(S) >= y
    BY <1>3 DEF Max
  <1> QED BY <1>4 DEF Positions

----------------------------------------------------------------------------
(* Tables: tracks of the library at positions from 0.                      *)

Table(r) == r \in [DOMAIN r -> Track] /\ DOMAIN r \subseteq Int /\ IsFiniteSet(DOMAIN r)

\* One for one, so as many on either side.
LEMMA SameSize ==
  ASSUME NEW S, IsFiniteSet(S), NEW V, NEW f \in [S -> V], IsInjective(f)
  PROVE  IsFiniteSet(Range(f)) /\ Cardinality(Range(f)) = Cardinality(S)
  <1>1. f \in [S -> Range(f)]
    BY DEF Range
  <1>2. f \in Bijection(S, Range(f))
    BY <1>1 DEF Bijection, Injection, Surjection, Range
  <1> QED BY <1>2, FS_Bijection DEF ExistsBijection

\* How often a track is in a table.
Copies(r, t) == {p \in DOMAIN r : r[p] = t}

\* An UPDATE that gives every row a position of its own moves the rows and
\* changes none.
LEMMA RekeyMoves ==
  ASSUME NEW r, Table(r), NEW f \in [DOMAIN r -> Int], IsInjective(f)
  PROVE  /\ Table(Rekey(r, f))
         /\ DOMAIN Rekey(r, f) = Range(f)
         /\ \A q \in DOMAIN r : Rekey(r, f)[f[q]] = r[q]
         /\ Cardinality(DOMAIN Rekey(r, f)) = Cardinality(DOMAIN r)
         /\ \A t : Cardinality(Copies(Rekey(r, f), t)) = Cardinality(Copies(r, t))
  <1> DEFINE g == Rekey(r, f)
  <1>1. DOMAIN g = Range(f)
    BY DEF Rekey
  <1>2. ASSUME NEW q \in DOMAIN r PROVE f[q] \in Range(f) /\ g[f[q]] = r[q]
    <2>1. f[q] \in Range(f)
      BY DEF Range
    <2>2. (CHOOSE x \in DOMAIN r : f[x] = f[q]) = q
      BY DEF IsInjective
    <2> QED BY <2>1, <2>2 DEF Rekey
  <1>3. \A p \in Range(f) : p \in Int /\ \E q \in DOMAIN r : p = f[q] /\ g[p] = r[q]
    BY <1>2 DEF Range
  <1>4. IsFiniteSet(Range(f)) /\ Cardinality(Range(f)) = Cardinality(DOMAIN r)
    BY SameSize DEF Table
  <1>5. Table(g)
    <2>1. g = [p \in Range(f) |-> g[p]]
      BY DEF Rekey
    <2>2. \A p \in Range(f) : g[p] \in Track
      BY <1>3 DEF Table
    <2> QED BY <1>1, <1>3, <1>4, <2>1, <2>2 DEF Table
  <1>6. ASSUME NEW t PROVE Cardinality(Copies(g, t)) = Cardinality(Copies(r, t))
    <2> DEFINE C == Copies(r, t)
               h == [q \in C |-> f[q]]
    <2>1. C \in SUBSET DOMAIN r /\ IsFiniteSet(C)
      <3>1. C \in SUBSET DOMAIN r
        BY DEF Copies
      <3> QED BY <3>1, FS_Subset DEF Table
    <2>2. IsInjective(h) /\ h \in [C -> Int]
      BY <2>1 DEF IsInjective
    <2>3. Range(h) = Copies(g, t)
      <3>1. ASSUME NEW p \in Range(h) PROVE p \in Copies(g, t)
        <4>1. PICK q \in C : p = f[q]
          BY <3>1 DEF Range
        <4>2. q \in DOMAIN r /\ r[q] = t
          BY DEF Copies
        <4> QED BY <1>1, <1>2, <4>1, <4>2 DEF Copies
      <3>2. ASSUME NEW p \in Copies(g, t) PROVE p \in Range(h)
        <4>1. p \in Range(f) /\ g[p] = t
          BY <1>1, <3>2 DEF Copies
        <4>2. PICK q \in DOMAIN r : p = f[q] /\ g[p] = r[q]
          BY <1>3, <4>1
        <4>3. q \in C
          BY <4>1, <4>2 DEF Copies
        <4> QED BY <4>2, <4>3 DEF Range
      <3> QED BY <3>1, <3>2
    <2> QED BY <2>1, <2>2, <2>3, SameSize
  <1> QED BY <1>1, <1>2, <1>4, <1>5, <1>6
\* renumber, first statement: each row at the negative of its position.
LEMMA NegatedMoves ==
  ASSUME NEW r, Table(r), DOMAIN r \subseteq Nat
  PROVE  LET n == Rekey(r, Negated(r))
         IN /\ Accepted(r, Negated(r))
            /\ Table(n)
            /\ DOMAIN n = {-p : p \in DOMAIN r}
            /\ \A p \in DOMAIN r : n[-p] = r[p]
            /\ Cardinality(DOMAIN n) = Cardinality(DOMAIN r)
  <1> DEFINE f == Negated(r)
             n == Rekey(r, f)
  <1>1. f \in [DOMAIN r -> Int] /\ \A p \in DOMAIN r : f[p] = -p
    BY DEF Negated
  <1>2. IsInjective(f)
    BY <1>1 DEF IsInjective
  <1>3. ASSUME NEW p \in DOMAIN r, f[p] # p PROVE f[p] \notin DOMAIN r
    <2>1. p \in Nat /\ -p # p
      BY <1>1, <1>3
    <2> QED BY <1>1, <2>1
  <1>4. Range(f) = {-p : p \in DOMAIN r}
    BY <1>1 DEF Range
  <1>5. Accepted(r, f)
    BY <1>2, <1>3 DEF Accepted
  <1>6. /\ Table(n) /\ DOMAIN n = Range(f) /\ Cardinality(DOMAIN n) = Cardinality(DOMAIN r)
        /\ \A q \in DOMAIN r : n[f[q]] = r[q]
    BY <1>1, <1>2, RekeyMoves
  <1> QED BY <1>1, <1>4, <1>5, <1>6

\* The rank of a position from above, among the negatives, is its rank.
LEMMA RankOfNegative ==
  ASSUME NEW S, Positions(S), NEW p \in S
  PROVE  Cardinality({q \in {-x : x \in S} : q >= -p}) = Rank(S, p)
  <1> DEFINE P == {q \in S : q <= p}
             N == {q \in {-x : x \in S} : q >= -p}
             f == [q \in P |-> -q]
  <1>1. S \subseteq Int
    BY DEF Positions
  <1>2. IsFiniteSet(P)
    <2>1. P \in SUBSET S
      OBVIOUS
    <2> QED BY <2>1, FS_Subset DEF Positions
  <1>3. f \in [P -> Int] /\ IsInjective(f)
    <2>1. \A q \in P : q \in Int /\ f[q] = -q
      BY <1>1
    <2>2. f \in [P -> Int]
      BY <2>1
    <2>3. \A a, b \in DOMAIN f : f[a] = f[b] => a = b
      BY <2>1
    <2> QED BY <2>2, <2>3 DEF IsInjective
  <1>4. Range(f) = N
    <2>1. ASSUME NEW q \in N PROVE q \in Range(f)
      <3>1. PICK x \in S : q = -x /\ -x >= -p
        BY <2>1
      <3>2. x \in Int /\ p \in Int
        BY <1>1
      <3>3. x \in P
        BY <3>1, <3>2
      <3> QED BY <3>1, <3>3 DEF Range
    <2>2. ASSUME NEW q \in Range(f) PROVE q \in N
      <3>1. PICK x \in P : q = -x
        BY <2>2 DEF Range
      <3>2. x \in S /\ x <= p /\ x \in Int /\ p \in Int
        BY <1>1
      <3>3. -x >= -p
        BY <3>2
      <3> QED BY <3>1, <3>2, <3>3
    <2> QED BY <2>1, <2>2
  <1> QED BY <1>2, <1>3, <1>4, SameSize DEF Rank

\* renumber never trips over the unique index, numbers from 1, and keeps the
\* order of the rows.
LEMMA RenumberedInOrder ==
  ASSUME NEW r, Table(r), DOMAIN r \subseteq Nat
  PROVE  /\ RenumberAccepted(r)
         /\ Table(Renumbered(r))
         /\ DOMAIN Renumbered(r) = 1 .. Cardinality(DOMAIN r)
         /\ \A p \in DOMAIN r : Renumbered(r)[Rank(DOMAIN r, p)] = r[p]
  <1> DEFINE S == DOMAIN r
             N == Rekey(r, Negated(r))
             f == RowNumber(N)
             k == Cardinality(S)
  <1>1. /\ Accepted(r, Negated(r)) /\ Table(N) /\ DOMAIN N = {-p : p \in S}
        /\ \A p \in S : N[-p] = r[p]
        /\ Cardinality(DOMAIN N) = k
    BY NegatedMoves
  <1>2. Positions(S)
    BY DEF Positions, Table
  <1>3. /\ k \in Nat
        /\ \A p \in S : Rank(S, p) \in 1 .. k
        /\ \A p, q \in S : Rank(S, p) = Rank(S, q) => p = q
        /\ \A i \in 1 .. k : \E p \in S : Rank(S, p) = i
    BY <1>2, RankNumbers
  <1>4. \A p \in S : f[-p] = Rank(S, p)
    <2>1. ASSUME NEW p \in S PROVE f[-p] = Rank(S, p)
      <3>1. -p \in DOMAIN N
        BY <1>1
      <3>2. f[-p] = Cardinality({q \in DOMAIN N : q >= -p})
        BY <3>1 DEF RowNumber
      <3> QED BY <1>1, <1>2, <3>2, RankOfNegative
    <2> QED BY <2>1
  <1>5. f \in [DOMAIN N -> Int]
    <2>1. DOMAIN f = DOMAIN N /\ f = [q \in DOMAIN N |-> f[q]]
      BY DEF RowNumber
    <2>2. \A q \in DOMAIN N : f[q] \in Int
      BY <1>1, <1>3, <1>4
    <2> QED BY <2>1, <2>2
  <1>6. IsInjective(f)
    <2>1. DOMAIN f = DOMAIN N
      BY DEF RowNumber
    <2>2. ASSUME NEW a \in DOMAIN N, NEW b \in DOMAIN N, f[a] = f[b] PROVE a = b
      <3>1. PICK p \in S, q \in S : a = -p /\ b = -q
        BY <1>1
      <3> QED BY <1>3, <1>4, <2>2, <3>1
    <2> QED BY <2>1, <2>2 DEF IsInjective
  <1>7. Range(f) = 1 .. k
    <2>1. DOMAIN f = DOMAIN N
      BY DEF RowNumber
    <2>2. \A i \in Range(f) : i \in 1 .. k
      BY <1>1, <1>3, <1>4, <2>1 DEF Range
    <2>3. ASSUME NEW i \in 1 .. k PROVE i \in Range(f)
      <3>1. PICK p \in S : Rank(S, p) = i
        BY <1>3
      <3>2. -p \in DOMAIN f /\ f[-p] = i
        BY <1>1, <1>4, <2>1, <3>1
      <3> QED BY <3>2 DEF Range
    <2> QED BY <2>2, <2>3
  <1>8. Accepted(N, f)
    <2>1. ASSUME NEW a \in DOMAIN N PROVE f[a] \notin DOMAIN N
      <3>1. PICK p \in S : a = -p
        BY <1>1
      <3>2. f[a] \in Nat /\ f[a] >= 1
        BY <1>3, <1>4, <3>1
      <3> QED BY <1>1, <3>2
    <2> QED BY <1>6, <2>1 DEF Accepted
  <1>9. /\ Table(Rekey(N, f)) /\ DOMAIN Rekey(N, f) = Range(f)
        /\ \A q \in DOMAIN N : Rekey(N, f)[f[q]] = N[q]
    BY <1>1, <1>5, <1>6, RekeyMoves
  <1>10. Renumbered(r) = Rekey(N, f)
    BY DEF Renumbered
  <1>11. RenumberAccepted(r)
    BY <1>1, <1>8 DEF RenumberAccepted
  <1>12. ASSUME NEW p \in S PROVE Rekey(N, f)[Rank(S, p)] = r[p]
    <2>1. -p \in DOMAIN N
      BY <1>1
    <2> QED BY <1>1, <1>4, <1>9, <2>1
  <1> QED BY <1>7, <1>9, <1>10, <1>11, <1>12
----------------------------------------------------------------------------
(* The list a client reads.                                                *)

\* ORDER BY id: the track at place i is that of the position of rank i.
LEMMA ListByRank ==
  ASSUME NEW r, Table(r)
  PROVE  /\ ListOf(r) \in [1 .. Cardinality(DOMAIN r) -> Track]
         /\ \A p \in DOMAIN r : ListOf(r)[Rank(DOMAIN r, p)] = r[p]
  <1> DEFINE S == DOMAIN r
             k == Cardinality(S)
             at(i) == CHOOSE p \in S : Rank(S, p) = i
  <1>1. /\ k \in Nat
        /\ \A p \in S : Rank(S, p) \in 1 .. k
        /\ \A p, q \in S : Rank(S, p) = Rank(S, q) => p = q
        /\ \A i \in 1 .. k : \E p \in S : Rank(S, p) = i
    BY RankNumbers DEF Positions, Table
  <1>2. ListOf(r) = [i \in 1 .. k |-> r[at(i)]]
    BY DEF ListOf
  <1>3. \A i \in 1 .. k : at(i) \in S
    BY <1>1
  <1>4. \A p \in S : at(Rank(S, p)) = p
    <2>1. ASSUME NEW p \in S PROVE at(Rank(S, p)) = p
      <3>1. \A q \in S : Rank(S, q) = Rank(S, p) => q = p
        BY <1>1
      <3> QED BY <3>1
    <2> QED BY <2>1
  <1>5. ListOf(r) \in [1 .. k -> Track]
    <2>1. \A i \in 1 .. k : r[at(i)] \in Track
      BY <1>3 DEF Table
    <2> QED BY <1>2, <2>1
  <1>6. \A p \in S : ListOf(r)[Rank(S, p)] = r[p]
    BY <1>1, <1>2, <1>4
  <1> QED BY <1>5, <1>6

\* Of a table without gaps, the list is the table.
LEMMA DenseIsList ==
  ASSUME NEW r, Table(r), Dense(r)
  PROVE  ListOf(r) = r
  <1> DEFINE S == DOMAIN r
             k == Cardinality(S)
  <1>1. k \in Nat /\ S = 1 .. k
    BY FS_CardinalityType DEF Table, Dense
  <1>2. \A p \in S : Rank(S, p) = p
    <2>1. ASSUME NEW p \in S PROVE Rank(S, p) = p
      <3>1. p \in 1 .. k /\ p \in Int
        BY <1>1
      <3>2. {q \in S : q <= p} = 1 .. p
        BY <1>1, <3>1
      <3>3. Cardinality(1 .. p) = p
        BY <3>1, FS_Interval
      <3> QED BY <3>2, <3>3 DEF Rank
    <2> QED BY <2>1
  <1>3. /\ ListOf(r) \in [1 .. k -> Track]
        /\ \A p \in S : ListOf(r)[Rank(S, p)] = r[p]
    BY ListByRank
  <1>4. \A p \in S : ListOf(r)[p] = r[p]
    BY <1>2, <1>3
  <1>5. r \in [1 .. k -> Track]
    BY <1>1 DEF Table
  <1>6. \A p \in 1 .. k : ListOf(r)[p] = r[p]
    BY <1>1, <1>4
  <1>7. ListOf(r) = [p \in 1 .. k |-> ListOf(r)[p]]
    BY <1>3
  <1>8. r = [p \in 1 .. k |-> r[p]]
    BY <1>5
  <1> QED BY <1>6, <1>7, <1>8

\* Renumbering leaves no gap and the list as it was.
LEMMA RenumberedKeepsList ==
  ASSUME NEW r, Table(r), DOMAIN r \subseteq Nat
  PROVE  /\ Dense(Renumbered(r)) /\ ListOf(Renumbered(r)) = ListOf(r)
         /\ Cardinality(DOMAIN Renumbered(r)) = Cardinality(DOMAIN r)
  <1> DEFINE S == DOMAIN r
             k == Cardinality(S)
             m == Renumbered(r)
  <1>1. /\ Table(m) /\ DOMAIN m = 1 .. k
        /\ \A p \in S : m[Rank(S, p)] = r[p]
    BY RenumberedInOrder
  <1>2. k \in Nat /\ \A i \in 1 .. k : \E p \in S : Rank(S, p) = i
    BY RankNumbers DEF Positions, Table
  <1>3. Cardinality(DOMAIN m) = k
    BY <1>1, <1>2, FS_Interval
  <1>4. Dense(m)
    BY <1>1, <1>3 DEF Dense
  <1>5. ListOf(m) = m
    BY <1>1, <1>4, DenseIsList
  <1>6. ListOf(r) \in [1 .. k -> Track] /\ \A p \in S : ListOf(r)[Rank(S, p)] = r[p]
    BY ListByRank
  <1>7. m \in [1 .. k -> Track]
    BY <1>1 DEF Table
  <1>8. \A i \in 1 .. k : m[i] = ListOf(r)[i]
    BY <1>1, <1>2, <1>6
  <1>9. m = ListOf(r)
    <2>1. m = [i \in 1 .. k |-> m[i]]
      BY <1>7
    <2>2. ListOf(r) = [i \in 1 .. k |-> ListOf(r)[i]]
      BY <1>6
    <2> QED BY <1>8, <2>1, <2>2
  <1> QED BY <1>3, <1>4, <1>5, <1>9
----------------------------------------------------------------------------
(* Removing, adding and counting rows.                                     *)

LEMMA KeepSome ==
  ASSUME NEW r, Table(r), NEW S \in SUBSET DOMAIN r
  PROVE  /\ Table(Keep(r, S)) /\ DOMAIN Keep(r, S) = S
         /\ \A p \in S : Keep(r, S)[p] = r[p]
  <1>1. IsFiniteSet(S)
    BY FS_Subset DEF Table
  <1>2. Keep(r, S) \in [S -> Track] /\ DOMAIN Keep(r, S) = S
    BY DEF Keep, Table
  <1> QED BY <1>1, <1>2 DEF Keep, Table

LEMMA DenseCount ==
  ASSUME NEW r, NEW n \in Nat, DOMAIN r = 1 .. n
  PROVE  Dense(r) /\ Cardinality(DOMAIN r) = n
  <1>1. Cardinality(1 .. n) = n
    BY FS_Interval
  <1> QED BY <1>1 DEF Dense

\* The position after the last one.
LEMMA NextIsFree ==
  ASSUME NEW r, Table(r), DOMAIN r \subseteq Nat
  PROVE  /\ NextPos(r) \in Nat \ {0}
         /\ Dense(r) => NextPos(r) = Cardinality(DOMAIN r) + 1
  <1> DEFINE S == DOMAIN r
             n == Cardinality(S)
  <1>1. n \in Nat /\ (n = 0 <=> S = {})
    BY FS_CardinalityType, FS_EmptySet DEF Table
  <1>2. CASE S = {}
    BY <1>1, <1>2 DEF NextPos
  <1>3. CASE S # {}
    <2>1. Max(S) \in S /\ \A p \in S : p <= Max(S)
      BY <1>3, LastPosition DEF Positions, Table
    <2>2. NextPos(r) = Max(S) + 1 /\ Max(S) \in Nat
      BY <1>3, <2>1 DEF NextPos
    <2>3. ASSUME Dense(r) PROVE Max(S) = n
      <3>1. S = 1 .. n /\ n # 0
        BY <1>1, <1>3, <2>3 DEF Dense
      <3>2. n \in S
        BY <1>1, <3>1
      <3>3. n <= Max(S) /\ Max(S) <= n
        BY <2>1, <3>1, <3>2
      <3> QED BY <1>1, <2>2, <3>3
    <2> QED BY <2>2, <2>3
  <1> QED BY <1>2, <1>3

\* Tracks put behind the rows there are, or elsewhere.
LEMMA AddedRows ==
  ASSUME NEW r, Table(r), NEW at \in Nat, NEW ts \in Seq(Track)
  PROVE  LET g == Added(r, at, ts)
         IN /\ Table(g)
            /\ DOMAIN g = DOMAIN r \cup (at .. at + Len(ts) - 1)
            /\ \A p \in DOMAIN r : g[p] = r[p]
  <1> DEFINE g == Added(r, at, ts)
             New == at .. at + Len(ts) - 1
  <1>1. DOMAIN g = DOMAIN r \cup New
    BY DEF Added
  <1>2. IsFiniteSet(DOMAIN r \cup New)
    <2>1. Len(ts) \in Nat
      OBVIOUS
    <2>2. IsFiniteSet(New)
      BY <2>1, FS_Interval
    <2> QED BY <2>2, FS_Union DEF Table
  <1>3. ASSUME NEW p \in DOMAIN r \cup New PROVE p \in Int /\ g[p] \in Track
    <2>1. CASE p \in DOMAIN r
      BY <2>1 DEF Added, Table
    <2>2. CASE p \notin DOMAIN r
      <3>1. p \in New /\ p \in Int /\ p - at + 1 \in 1 .. Len(ts)
        BY <2>2
      <3>2. ts[p - at + 1] \in Track
        BY <3>1
      <3> QED BY <2>2, <3>1, <3>2 DEF Added
    <2> QED BY <2>1, <2>2
  <1>4. g \in [DOMAIN g -> Track]
    <2>1. g = [p \in DOMAIN r \cup New |-> g[p]]
      BY DEF Added
    <2> QED BY <1>1, <1>3, <2>1
  <1>5. \A p \in DOMAIN r : g[p] = r[p]
    BY DEF Added
  <1> QED BY <1>1, <1>2, <1>3, <1>4, <1>5 DEF Table

LEMMA AddedBehind ==
  ASSUME NEW r, Table(r), Dense(r), NEW ts \in Seq(Track)
  PROVE  LET n == Cardinality(DOMAIN r)
             g == Added(r, n + 1, ts)
         IN Dense(g) /\ Cardinality(DOMAIN g) = n + Len(ts)
  <1> DEFINE n == Cardinality(DOMAIN r)
             g == Added(r, n + 1, ts)
  <1>1. n \in Nat /\ DOMAIN r = 1 .. n
    BY FS_CardinalityType DEF Table, Dense
  <1>2. Len(ts) \in Nat
    OBVIOUS
  <1>3. DOMAIN g = (1 .. n) \cup ((n + 1) .. (n + 1) + Len(ts) - 1)
    <2>1. n + 1 \in Nat
      BY <1>1
    <2>2. DOMAIN Added(r, n + 1, ts) = DOMAIN r \cup ((n + 1) .. (n + 1) + Len(ts) - 1)
      BY <2>1, AddedRows
    <2> QED BY <1>1, <2>2
  <1>4. DOMAIN g = 1 .. n + Len(ts)
    <2> HIDE DEF n, g
    <2>1. PICK l \in Nat : l = Len(ts)
      BY <1>2
    <2>2. (1 .. n) \cup ((n + 1) .. (n + 1) + l - 1) = 1 .. n + l
      BY <1>1, <2>1
    <2> QED BY <1>3, <2>1, <2>2
  <1> QED BY <1>1, <1>2, <1>4, DenseCount

LEMMA NoRowsTable == Table(NoRows) /\ DOMAIN NoRows = {} /\ Dense(NoRows)
  <1>1. DOMAIN NoRows = {} /\ IsFiniteSet({}) /\ Cardinality({}) = 0
    BY FS_EmptySet DEF NoRows
  <1>2. NoRows \in [{} -> Track]
    BY <1>1 DEF NoRows
  <1>3. {} = 1 .. 0
    OBVIOUS
  <1> QED BY <1>1, <1>2, <1>3 DEF Table, Dense

\* The counters: all rows, when no track of theirs is gone.
LEMMA CountAll ==
  ASSUME NEW r, Table(r), NEW m
  PROVE  /\ CountOf(r, m) \in Nat
         /\ (\A p \in DOMAIN r : r[p] \in m) => CountOf(r, m) = Cardinality(DOMAIN r)
  <1> DEFINE C == {p \in DOMAIN r : r[p] \in m}
  <1>1. C \in SUBSET DOMAIN r
    OBVIOUS
  <1>2. Cardinality(C) \in Nat
    BY <1>1, FS_Subset, FS_CardinalityType DEF Table
  <1>3. ASSUME \A p \in DOMAIN r : r[p] \in m PROVE C = DOMAIN r
    BY <1>3
  <1> QED BY <1>2, <1>3 DEF CountOf
----------------------------------------------------------------------------
(* Reordering.  e tells where each row of a table r has got to in g.       *)

Carried(r, g, e) == DOMAIN g = Range(e) /\ \A q \in DOMAIN r : g[e[q]] = r[q]

\* The next UPDATE, which takes the row of r at q from e[q] to d[q].
LEMMA CarriedOn ==
  ASSUME NEW r, NEW g, Table(g), NEW e \in [DOMAIN r -> Int], Carried(r, g, e),
         NEW f \in [DOMAIN g -> Int], NEW d \in [DOMAIN r -> Int],
         \A q \in DOMAIN r : f[e[q]] = d[q],
         \A p, q \in DOMAIN r : d[p] = d[q] => p = q,
         \A p, q \in DOMAIN r : d[q] # e[q] => d[q] # e[p]
  PROVE  Accepted(g, f) /\ Table(Rekey(g, f)) /\ Carried(r, Rekey(g, f), d)
  <1>1. DOMAIN e = DOMAIN r /\ DOMAIN d = DOMAIN r /\ DOMAIN f = DOMAIN g
    OBVIOUS
  <1>2. \A p \in DOMAIN g : \E q \in DOMAIN r : p = e[q] /\ f[p] = d[q]
    BY <1>1 DEF Carried, Range
  <1>3. \A q \in DOMAIN r : e[q] \in DOMAIN g
    BY <1>1 DEF Carried, Range
  <1>4. IsInjective(f)
    BY <1>1, <1>2 DEF IsInjective
  <1>5. \A p \in DOMAIN g : f[p] # p => f[p] \notin DOMAIN g
    BY <1>2
  <1>6. Range(f) = Range(d)
    <2>1. ASSUME NEW x \in Range(f) PROVE x \in Range(d)
      BY <1>1, <1>2 DEF Range
    <2>2. ASSUME NEW x \in Range(d) PROVE x \in Range(f)
      BY <1>1, <1>3 DEF Range
    <2> QED BY <2>1, <2>2
  <1>7. /\ Table(Rekey(g, f)) /\ DOMAIN Rekey(g, f) = Range(f)
        /\ \A p \in DOMAIN g : Rekey(g, f)[f[p]] = g[p]
    BY <1>4, RekeyMoves
  <1>8. \A q \in DOMAIN r : Rekey(g, f)[d[q]] = r[q]
    BY <1>3, <1>7 DEF Carried
  <1> QED BY <1>4, <1>5, <1>6, <1>7, <1>8 DEF Accepted, Carried

\* Where the row at q is after each of the four statements.
Down(pos, new, q) == pos < new /\ pos < q /\ q <= new
Up(pos, new, q) == new < pos /\ new <= q /\ q < pos

AfterShift(pos, new, q) ==
  IF q = pos THEN Sentinel
  ELSE IF Down(pos, new, q) THEN -(q - 1) ELSE IF Up(pos, new, q) THEN -(q + 1) ELSE q

AfterFlip(pos, new, q) ==
  IF q = pos THEN Sentinel
  ELSE IF Down(pos, new, q) THEN q - 1 ELSE IF Up(pos, new, q) THEN q + 1 ELSE q

Goes(pos, new, q) == IF q = pos THEN new ELSE AfterFlip(pos, new, q)

\* No row of r is shifted to the sentinel.
Clear(r, pos, new) ==
  \A q \in DOMAIN r : q # pos => AfterShift(pos, new, q) # Sentinel

\* Then the four statements go through, and each row goes where it should.
LEMMA RowsGo ==
  ASSUME NEW r, Table(r), DOMAIN r \subseteq Nat, NEW pos \in Nat \ {0}, NEW new \in Nat,
         pos # new, Clear(r, pos, new)
  PROVE  /\ ReorderAccepted(r, pos, new)
         /\ Table(Reordered(r, pos, new))
         /\ Carried(r, Reordered(r, pos, new), [q \in DOMAIN r |-> Goes(pos, new, q)])
  <1> DEFINE D == DOMAIN r
             a == Rekey(r, Aside(r, pos))
             s == Rekey(a, Shifted(a, pos, new))
             f == Rekey(s, Flipped(s))
             e0 == [q \in D |-> q]
             e1 == [q \in D |-> IF q = pos THEN Sentinel ELSE q]
             e2 == [q \in D |-> AfterShift(pos, new, q)]
             e3 == [q \in D |-> AfterFlip(pos, new, q)]
             e4 == [q \in D |-> Goes(pos, new, q)]
  <1>0. \A q \in D : q \in Nat
    OBVIOUS
  <1>1. Accepted(r, Aside(r, pos)) /\ Table(a) /\ Carried(r, a, e1)
    <2>1. e0 \in [D -> Int] /\ e1 \in [D -> Int] /\ Aside(r, pos) \in [D -> Int]
      BY <1>0 DEF Aside, Sentinel
    <2>2. Carried(r, r, e0)
      BY DEF Carried, Range
    <2>3. \A q \in D : Aside(r, pos)[e0[q]] = e1[q]
      BY DEF Aside
    <2>4. \A p, q \in D : e1[p] = e1[q] => p = q
      BY <1>0 DEF Sentinel
    <2>5. \A p, q \in D : e1[q] # e0[q] => e1[q] # e0[p]
      BY <1>0 DEF Sentinel
    <2> HIDE DEF e0, e1
    <2> QED BY <2>1, <2>2, <2>3, <2>4, <2>5, CarriedOn
  <1>2. Accepted(a, Shifted(a, pos, new)) /\ Table(s) /\ Carried(r, s, e2)
    <2>1. e1 \in [D -> Int] /\ e2 \in [D -> Int]
      BY <1>0 DEF AfterShift, Sentinel
    <2>2. Shifted(a, pos, new) \in [DOMAIN a -> Int]
      BY <1>1 DEF Shifted, Table
    <2>3. ASSUME NEW q \in D PROVE Shifted(a, pos, new)[e1[q]] = e2[q]
      <3>1. e1[q] \in DOMAIN a
        BY <1>1 DEF Carried, Range
      <3>2. CASE q = pos
        BY <3>1, <3>2 DEF Shifted, AfterShift, Sentinel
      <3>3. CASE q # pos
        BY <1>0, <3>1, <3>3 DEF Shifted, AfterShift, Down, Up
      <3> QED BY <3>2, <3>3
    <2>4. ASSUME NEW p \in D, NEW q \in D, e2[p] = e2[q] PROVE p = q
      <3>1. AfterShift(pos, new, p) = AfterShift(pos, new, q)
        BY <2>4
      <3>2. CASE p = pos \/ q = pos
        BY <3>1, <3>2 DEF Clear, AfterShift
      <3>3. CASE p # pos /\ q # pos
        BY <1>0, <3>1, <3>3 DEF AfterShift, Down, Up
      <3> QED BY <3>2, <3>3
    <2>5. ASSUME NEW p \in D, NEW q \in D, e2[q] # e1[q] PROVE e2[q] # e1[p]
      <3>1. q # pos /\ e2[q] = AfterShift(pos, new, q) /\ AfterShift(pos, new, q) # q
        BY <2>5 DEF AfterShift
      <3>2. e2[q] < 0
        BY <1>0, <3>1 DEF AfterShift, Down, Up
      <3>3. e2[q] # Sentinel
        BY <3>1 DEF Clear
      <3> QED BY <1>0, <3>2, <3>3
    <2> HIDE DEF e1, e2
    <2> QED BY <1>1, <2>1, <2>2, <2>3, <2>4, <2>5, CarriedOn
  <1>3. Accepted(s, Flipped(s)) /\ Table(f) /\ Carried(r, f, e3)
    <2>1. e2 \in [D -> Int] /\ e3 \in [D -> Int]
      BY <1>0 DEF AfterShift, AfterFlip, Sentinel
    <2>2. Flipped(s) \in [DOMAIN s -> Int]
      BY <1>2 DEF Flipped, Table
    <2>3. ASSUME NEW q \in D PROVE Flipped(s)[e2[q]] = e3[q]
      <3>1. e2[q] \in DOMAIN s /\ e2[q] = AfterShift(pos, new, q)
        BY <1>2 DEF Carried, Range
      <3>2. CASE q = pos
        BY <3>1, <3>2 DEF Flipped, AfterShift, AfterFlip
      <3>3. CASE q # pos
        <4>1. e2[q] # Sentinel
          BY <3>1, <3>3 DEF Clear
        <4>2. Flipped(s)[e2[q]] = IF e2[q] < 0 THEN -e2[q] ELSE e2[q]
          BY <3>1, <4>1 DEF Flipped
        <4> QED BY <1>0, <3>1, <3>3, <4>2 DEF AfterShift, AfterFlip, Down, Up
      <3> QED BY <3>2, <3>3
    <2>4. ASSUME NEW p \in D, NEW q \in D, e3[p] = e3[q] PROVE p = q
      BY <1>0, <2>4 DEF AfterFlip, Down, Up, Sentinel
    <2>5. ASSUME NEW p \in D, NEW q \in D, e3[q] # e2[q] PROVE e3[q] # e2[p]
      <3>1. q # pos /\ (Down(pos, new, q) \/ Up(pos, new, q))
        BY <2>5 DEF AfterShift, AfterFlip
      <3>2. e3[q] >= 0 /\ e3[q] = IF Down(pos, new, q) THEN q - 1 ELSE q + 1
        BY <1>0, <3>1 DEF AfterFlip, Down, Up
      <3>3. CASE p = pos
        BY <3>2, <3>3 DEF AfterShift, Sentinel
      <3>4. CASE p # pos
        BY <1>0, <3>1, <3>2, <3>4 DEF AfterShift, Down, Up
      <3> QED BY <3>3, <3>4
    <2> HIDE DEF e2, e3
    <2> QED BY <1>2, <2>1, <2>2, <2>3, <2>4, <2>5, CarriedOn
  <1>4. Accepted(f, Placed(f, new)) /\ Table(Rekey(f, Placed(f, new)))
        /\ Carried(r, Rekey(f, Placed(f, new)), e4)
    <2>1. e3 \in [D -> Int] /\ e4 \in [D -> Int]
      BY <1>0 DEF Goes, AfterFlip, Sentinel
    <2>2. Placed(f, new) \in [DOMAIN f -> Int]
      BY <1>3 DEF Placed, Table
    <2>3. ASSUME NEW q \in D PROVE Placed(f, new)[e3[q]] = e4[q]
      <3>1. e3[q] \in DOMAIN f /\ e3[q] = AfterFlip(pos, new, q)
        BY <1>3 DEF Carried, Range
      <3>2. q # pos => e3[q] # Sentinel
        BY <1>0, <3>1 DEF AfterFlip, Sentinel, Down, Up
      <3> QED BY <3>1, <3>2 DEF Placed, Goes, AfterFlip
    <2>4. ASSUME NEW p \in D, NEW q \in D, e4[p] = e4[q] PROVE p = q
      BY <1>0, <2>4 DEF Goes, AfterFlip, Down, Up
    <2>5. ASSUME NEW p \in D, NEW q \in D, e4[q] # e3[q] PROVE e4[q] # e3[p]
      <3>1. q = pos /\ e4[q] = new
        BY <2>5 DEF Goes, AfterFlip
      <3> QED BY <1>0, <3>1 DEF AfterFlip, Down, Up, Sentinel
    <2> HIDE DEF e3, e4
    <2> QED BY <1>3, <2>1, <2>2, <2>3, <2>4, <2>5, CarriedOn
  <1>5. Reordered(r, pos, new) = Rekey(f, Placed(f, new))
    BY DEF Reordered
  <1>6. ReorderAccepted(r, pos, new)
    BY <1>1, <1>2, <1>3, <1>4 DEF ReorderAccepted
  <1> QED BY <1>4, <1>5, <1>6
\* A reordering that goes through moves rows and changes none, wherever a
\* client asks for.
LEMMA ReorderedKeeps ==
  ASSUME NEW r, Table(r), DOMAIN r \subseteq Nat, NEW pos \in Nat, NEW new \in Nat,
         ReorderAccepted(r, pos, new)
  PROVE  LET g == Reordered(r, pos, new)
         IN /\ Table(g) /\ DOMAIN g \subseteq Nat
            /\ Cardinality(DOMAIN g) = Cardinality(DOMAIN r)
            /\ \A t : Cardinality(Copies(g, t)) = Cardinality(Copies(r, t))
  <1> DEFINE a == Rekey(r, Aside(r, pos))
             s == Rekey(a, Shifted(a, pos, new))
             f == Rekey(s, Flipped(s))
             g == Rekey(f, Placed(f, new))
  <1>1. CASE pos = new
    BY <1>1 DEF Reordered
  <1>2. CASE pos # new
    <2>0. /\ IsInjective(Aside(r, pos)) /\ IsInjective(Shifted(a, pos, new))
          /\ IsInjective(Flipped(s)) /\ IsInjective(Placed(f, new))
      BY <1>2 DEF ReorderAccepted, Accepted
    <2>1. /\ Table(a) /\ Cardinality(DOMAIN a) = Cardinality(DOMAIN r)
          /\ \A t : Cardinality(Copies(a, t)) = Cardinality(Copies(r, t))
      <3>1. Aside(r, pos) \in [DOMAIN r -> Int]
        BY DEF Aside, Sentinel, Table
      <3> QED BY <2>0, <3>1, RekeyMoves
    <2>2. /\ Table(s) /\ Cardinality(DOMAIN s) = Cardinality(DOMAIN a)
          /\ \A t : Cardinality(Copies(s, t)) = Cardinality(Copies(a, t))
      <3>1. Shifted(a, pos, new) \in [DOMAIN a -> Int]
        BY <2>1 DEF Shifted, Table
      <3> HIDE DEF a
      <3> QED BY <2>0, <2>1, <3>1, RekeyMoves
    <2>3. Flipped(s) \in [DOMAIN s -> Int] /\ \A p \in DOMAIN s : Flipped(s)[p] >= 0 \/ Flipped(s)[p] = Sentinel
      BY <2>2 DEF Flipped, Table
    <2>4. /\ Table(f) /\ Cardinality(DOMAIN f) = Cardinality(DOMAIN s)
          /\ DOMAIN f = Range(Flipped(s))
          /\ \A t : Cardinality(Copies(f, t)) = Cardinality(Copies(s, t))
      <3> HIDE DEF s
      <3> QED BY <2>0, <2>2, <2>3, RekeyMoves
    <2>5. \A p \in DOMAIN f : p \in Int /\ (p >= 0 \/ p = Sentinel)
      BY <2>3, <2>4 DEF Range, Table
    <2>6. Placed(f, new) \in [DOMAIN f -> Int] /\ \A p \in DOMAIN f : Placed(f, new)[p] \in Nat
      BY <2>5 DEF Placed
    <2>7. /\ Table(g) /\ Cardinality(DOMAIN g) = Cardinality(DOMAIN f)
          /\ DOMAIN g = Range(Placed(f, new))
          /\ \A t : Cardinality(Copies(g, t)) = Cardinality(Copies(f, t))
      <3> HIDE DEF f
      <3> QED BY <2>0, <2>4, <2>6, RekeyMoves
    <2>8. DOMAIN g \subseteq Nat
      BY <2>6, <2>7 DEF Range
    <2>9. Reordered(r, pos, new) = g
      BY <1>2 DEF Reordered
    <2> HIDE DEF a, s, f, g
    <2> QED BY <2>1, <2>2, <2>4, <2>7, <2>8, <2>9
  <1> QED BY <1>1, <1>2

\* The row at pos, once it stands at the sentinel, keeps the others off it.
LEMMA AcceptedIsClear ==
  ASSUME NEW r, Table(r), DOMAIN r \subseteq Nat, NEW pos \in DOMAIN r, NEW new \in Nat,
         pos # new, ReorderAccepted(r, pos, new)
  PROVE  Clear(r, pos, new)
  <1> DEFINE a == Rekey(r, Aside(r, pos))
  <1>0. pos \in Nat /\ \A q \in DOMAIN r : q \in Nat
    OBVIOUS
  <1>1. IsInjective(Aside(r, pos)) /\ Accepted(a, Shifted(a, pos, new))
    BY DEF ReorderAccepted, Accepted
  <1>2. DOMAIN a = Range(Aside(r, pos))
    BY DEF Rekey
  <1>3. Sentinel \in DOMAIN a
    BY <1>2 DEF Aside, Range
  <1>4. ASSUME NEW q \in DOMAIN r, q # pos PROVE AfterShift(pos, new, q) # Sentinel
    <2>1. q \in DOMAIN a
      BY <1>2, <1>4 DEF Aside, Range
    <2>2. Shifted(a, pos, new)[q] = AfterShift(pos, new, q)
      BY <1>0, <1>4, <2>1 DEF Shifted, AfterShift, Down, Up
    <2>3. Shifted(a, pos, new)[q] # q => Shifted(a, pos, new)[q] # Sentinel
      BY <1>1, <1>3, <2>1 DEF Accepted
    <2> QED BY <1>0, <2>2, <2>3 DEF Sentinel
  <1> QED BY <1>4 DEF Clear

\* As long as clients name positions below the sentinel's, it is out of reach.
LEMMA SmallIsClear ==
  ASSUME NEW r, DOMAIN r \subseteq Nat, NEW pos \in Nat, NEW new \in Nat,
         pos < -Sentinel, new < -Sentinel
  PROVE  Clear(r, pos, new)
  BY DEF Clear, AfterShift, Down, Up, Sentinel

\* Within a list without gaps, every row finds its place in the list.
LEMMA GoesWithin ==
  ASSUME NEW n \in Nat, NEW pos \in 1 .. n, NEW new \in 1 .. n
  PROVE  /\ \A q \in 1 .. n : Goes(pos, new, q) \in 1 .. n
         /\ \A i \in 1 .. n : \E q \in 1 .. n : Goes(pos, new, q) = i
  <1>1. \A q \in 1 .. n : Goes(pos, new, q) \in 1 .. n
    BY DEF Goes, AfterFlip, Down, Up
  <1>2. ASSUME NEW i \in 1 .. n PROVE \E q \in 1 .. n : Goes(pos, new, q) = i
    <2>1. CASE i = new
      BY <2>1 DEF Goes
    <2>2. CASE pos < new /\ pos <= i /\ i < new
      <3>1. i + 1 \in 1 .. n /\ Goes(pos, new, i + 1) = i
        BY <2>2 DEF Goes, AfterFlip, Down, Up
      <3> QED BY <3>1
    <2>3. CASE new < pos /\ new < i /\ i <= pos
      <3>1. i - 1 \in 1 .. n /\ Goes(pos, new, i - 1) = i
        BY <2>3 DEF Goes, AfterFlip, Down, Up
      <3> QED BY <3>1
    <2>4. CASE i # new /\ ~(pos < new /\ pos <= i /\ i < new) /\ ~(new < pos /\ new < i /\ i <= pos)
      <3>1. Goes(pos, new, i) = i
        BY <2>4 DEF Goes, AfterFlip, Down, Up
      <3> QED BY <3>1
    <2> QED BY <2>1, <2>2, <2>3, <2>4
  <1> QED BY <1>1, <1>2

LEMMA ReorderedDense ==
  ASSUME NEW r, Table(r), Dense(r), NEW pos \in DOMAIN r, NEW new \in DOMAIN r,
         pos # new, Clear(r, pos, new)
  PROVE  LET g == Reordered(r, pos, new)
         IN /\ DOMAIN g = DOMAIN r /\ Dense(g)
            /\ \A q \in DOMAIN r : g[Goes(pos, new, q)] = r[q]
  <1> DEFINE g == Reordered(r, pos, new)
             e == [q \in DOMAIN r |-> Goes(pos, new, q)]
  <1>1. PICK n \in Nat : n = Cardinality(DOMAIN r) /\ DOMAIN r = 1 .. n
    BY FS_CardinalityType DEF Table, Dense
  <1>2. Carried(r, g, e)
    <2>1. DOMAIN r \subseteq Nat /\ pos \in Nat \ {0} /\ new \in Nat
      BY <1>1
    <2> QED BY <2>1, RowsGo
  <1>3. /\ \A q \in 1 .. n : Goes(pos, new, q) \in 1 .. n
        /\ \A i \in 1 .. n : \E q \in 1 .. n : Goes(pos, new, q) = i
    <2>1. pos \in 1 .. n /\ new \in 1 .. n
      BY <1>1
    <2> QED BY <2>1, GoesWithin
  <1>4. Range(e) = 1 .. n
    <2>1. Range(e) = {Goes(pos, new, q) : q \in 1 .. n}
      BY <1>1 DEF Range
    <2> QED BY <1>3, <2>1
  <1>5. DOMAIN g = 1 .. n
    BY <1>2, <1>4 DEF Carried
  <1>6. \A q \in DOMAIN r : g[Goes(pos, new, q)] = r[q]
    BY <1>2 DEF Carried
  <1> QED BY <1>1, <1>5, <1>6, DenseCount
LEMMA Joined ==
  ASSUME NEW x \in Seq(Track), NEW y \in Seq(Track)
  PROVE  \E z \in Seq(Track) :
            /\ z = x \o y /\ Len(z) = Len(x) + Len(y)
            /\ \A k \in 1 .. Len(x) : z[k] = x[k]
            /\ \A k \in 1 .. Len(y) : z[Len(x) + k] = y[k]
  <1>1. x \o y \in Seq(Track) /\ Len(x \o y) = Len(x) + Len(y)
    OBVIOUS
  <1>2. \A k \in 1 .. Len(x) : (x \o y)[k] = x[k]
    OBVIOUS
  <1>3. \A k \in 1 .. Len(y) : (x \o y)[Len(x) + k] = y[k]
    OBVIOUS
  <1> QED BY <1>1, <1>2, <1>3

\* A stretch of a list.
LEMMA Stretch ==
  ASSUME NEW s \in Seq(Track), NEW a \in 1 .. Len(s) + 1, NEW b \in 0 .. Len(s), a <= b + 1
  PROVE  \E z \in Seq(Track) :
            /\ z = SubSeq(s, a, b) /\ Len(z) = b - a + 1
            /\ \A k \in 1 .. b - a + 1 : z[k] = s[a + k - 1]
  <1>1. /\ Len(SubSeq(s, a, b)) = b - a + 1
        /\ \A k \in 1 .. b - a + 1 : SubSeq(s, a, b)[k] = s[a + k - 1]
    BY SubSeqProperties
  <1>2. SubSeq(s, a, b) \in Seq(Track)
    BY SubSeqProperties
  <1> QED BY <1>1, <1>2

LEMMA RemovedAt ==
  ASSUME NEW s \in Seq(Track), NEW i \in 1 .. Len(s)
  PROVE  \E t \in Seq(Track) :
            /\ t = RemoveAt(s, i) /\ Len(t) = Len(s) - 1
            /\ \A k \in 1 .. Len(s) - 1 : t[k] = IF k < i THEN s[k] ELSE s[k + 1]
  <1>1. PICK n \in Nat : n = Len(s) /\ i \in 1 .. n
    OBVIOUS
  <1>2. PICK x \in Seq(Track) :
           /\ x = SubSeq(s, 1, i - 1) /\ Len(x) = i - 1
           /\ \A k \in 1 .. i - 1 : x[k] = s[k]
    <2>1. 1 \in 1 .. Len(s) + 1 /\ i - 1 \in 0 .. Len(s) /\ 1 <= (i - 1) + 1
      BY <1>1
    <2>2. PICK x \in Seq(Track) :
             /\ x = SubSeq(s, 1, i - 1) /\ Len(x) = (i - 1) - 1 + 1
             /\ \A k \in 1 .. (i - 1) - 1 + 1 : x[k] = s[1 + k - 1]
      BY <2>1, Stretch
    <2>3. (i - 1) - 1 + 1 = i - 1 /\ \A k \in 1 .. i - 1 : 1 + k - 1 = k
      BY <1>1
    <2> QED BY <2>2, <2>3
  <1>3. PICK y \in Seq(Track) :
           /\ y = SubSeq(s, i + 1, n) /\ Len(y) = n - i
           /\ \A k \in 1 .. n - i : y[k] = s[i + k]
    <2>1. i + 1 \in 1 .. Len(s) + 1 /\ n \in 0 .. Len(s) /\ i + 1 <= n + 1
      BY <1>1
    <2>2. PICK y \in Seq(Track) :
             /\ y = SubSeq(s, i + 1, n) /\ Len(y) = n - (i + 1) + 1
             /\ \A k \in 1 .. n - (i + 1) + 1 : y[k] = s[(i + 1) + k - 1]
      BY <2>1, Stretch
    <2>3. n - (i + 1) + 1 = n - i /\ \A k \in 1 .. n - i : (i + 1) + k - 1 = i + k
      BY <1>1
    <2> QED BY <2>2, <2>3
  <1>4. PICK t \in Seq(Track) :
           /\ t = x \o y /\ Len(t) = Len(x) + Len(y)
           /\ \A k \in 1 .. Len(x) : t[k] = x[k]
           /\ \A k \in 1 .. Len(y) : t[Len(x) + k] = y[k]
    BY Joined
  <1>5. t = RemoveAt(s, i)
    BY <1>1, <1>2, <1>3, <1>4 DEF RemoveAt
  <1>6. Len(t) = n - 1
    <2>1. (i - 1) + (n - i) = n - 1
      BY <1>1
    <2> QED BY <1>2, <1>3, <1>4, <2>1
  <1>7. ASSUME NEW k \in 1 .. n - 1 PROVE t[k] = IF k < i THEN s[k] ELSE s[k + 1]
    <2>1. CASE k < i
      <3>1. k \in 1 .. i - 1
        BY <1>1, <2>1
      <3> QED BY <1>2, <1>4, <2>1, <3>1
    <2>2. CASE ~(k < i)
      <3>1. PICK h \in 1 .. n - i : k = (i - 1) + h /\ i + h = k + 1
        <4>1. k - (i - 1) \in 1 .. n - i /\ k = (i - 1) + (k - (i - 1))
              /\ i + (k - (i - 1)) = k + 1
          BY <1>1, <2>2
        <4> QED BY <4>1
      <3>2. t[(i - 1) + h] = y[h]
        BY <1>2, <1>3, <1>4, <3>1
      <3>3. y[h] = s[i + h]
        BY <1>3, <3>1
      <3> QED BY <2>2, <3>1, <3>2, <3>3
    <2> QED BY <2>1, <2>2
  <1> QED BY <1>1, <1>5, <1>6, <1>7

\* u is t of length m with v at place j.
Inserted(u, t, m, j, v) ==
  /\ u = InsertAt(t, j, v) /\ Len(u) = m + 1
  /\ \A k \in 1 .. m + 1 : u[k] = IF k < j THEN t[k] ELSE IF k = j THEN v ELSE t[k - 1]

LEMMA InsertedAt ==
  ASSUME NEW t \in Seq(Track), NEW m \in Nat, m = Len(t), NEW j \in 1 .. m + 1, NEW v \in Track
  PROVE  \E u \in Seq(Track) : Inserted(u, t, m, j, v)
  <1>1. m \in Nat /\ m = Len(t) /\ j \in 1 .. m + 1
    OBVIOUS
  <1>2. PICK x \in Seq(Track) :
           /\ x = SubSeq(t, 1, j - 1) /\ Len(x) = j - 1
           /\ \A k \in 1 .. j - 1 : x[k] = t[k]
    <2>1. 1 \in 1 .. Len(t) + 1 /\ j - 1 \in 0 .. Len(t) /\ 1 <= (j - 1) + 1
      BY <1>1
    <2>2. PICK x \in Seq(Track) :
             /\ x = SubSeq(t, 1, j - 1) /\ Len(x) = (j - 1) - 1 + 1
             /\ \A k \in 1 .. (j - 1) - 1 + 1 : x[k] = t[1 + k - 1]
      BY <2>1, Stretch
    <2>3. (j - 1) - 1 + 1 = j - 1 /\ \A k \in 1 .. j - 1 : 1 + k - 1 = k
      BY <1>1
    <2> QED BY <2>2, <2>3
  <1>3. PICK y \in Seq(Track) :
           /\ y = SubSeq(t, j, m) /\ Len(y) = m - j + 1
           /\ \A k \in 1 .. m - j + 1 : y[k] = t[j + k - 1]
    <2>1. j \in 1 .. Len(t) + 1 /\ m \in 0 .. Len(t) /\ j <= m + 1
      BY <1>1
    <2> QED BY <2>1, Stretch
  <1>4. PICK o \in Seq(Track) : o = <<v>> /\ Len(o) = 1 /\ o[1] = v
    <2>1. <<v>> \in Seq(Track)
      OBVIOUS
    <2>2. Len(<<v>>) = 1 /\ <<v>>[1] = v
      OBVIOUS
    <2> QED BY <2>1, <2>2
  <1>5. PICK z \in Seq(Track) :
           /\ z = x \o o /\ Len(z) = Len(x) + Len(o)
           /\ \A k \in 1 .. Len(x) : z[k] = x[k]
           /\ \A k \in 1 .. Len(o) : z[Len(x) + k] = o[k]
    BY Joined
  <1>6. PICK u \in Seq(Track) :
           /\ u = z \o y /\ Len(u) = Len(z) + Len(y)
           /\ \A k \in 1 .. Len(z) : u[k] = z[k]
           /\ \A k \in 1 .. Len(y) : u[Len(z) + k] = y[k]
    BY Joined
  <1>7. u = InsertAt(t, j, v)
    BY <1>1, <1>2, <1>3, <1>4, <1>5, <1>6 DEF InsertAt
  <1>8. Len(z) = j /\ z[j] = v /\ Len(u) = m + 1
    <2>1. Len(z) = j
      BY <1>1, <1>2, <1>4, <1>5
    <2>2. z[Len(x) + 1] = v /\ Len(x) + 1 = j
      BY <1>1, <1>2, <1>4, <1>5
    <2>3. Len(u) = m + 1
      BY <1>1, <1>3, <1>6, <2>1
    <2> QED BY <2>1, <2>2, <2>3
  <1>9. ASSUME NEW k \in 1 .. m + 1
        PROVE  u[k] = IF k < j THEN t[k] ELSE IF k = j THEN v ELSE t[k - 1]
    <2>1. CASE k < j
      <3>1. k \in 1 .. j - 1 /\ k \in 1 .. j
        BY <1>1, <2>1
      <3>2. u[k] = z[k] /\ z[k] = x[k]
        BY <1>2, <1>5, <1>6, <1>8, <3>1
      <3> QED BY <1>2, <2>1, <3>1, <3>2
    <2>2. CASE k = j
      <3>1. j \in 1 .. j /\ ~(j < j)
        BY <1>1
      <3> QED BY <1>6, <1>8, <2>2, <3>1
    <2>3. CASE j < k
      <3>1. PICK h \in 1 .. m - j + 1 : k = j + h /\ j + h - 1 = k - 1
        <4>1. k - j \in 1 .. m - j + 1 /\ k = j + (k - j) /\ j + (k - j) - 1 = k - 1
          BY <1>1, <2>3
        <4> QED BY <4>1
      <3>2. u[j + h] = y[h]
        BY <1>3, <1>6, <1>8, <3>1
      <3>3. y[h] = t[j + h - 1]
        BY <1>3, <3>1
      <3>4. ~(k < j) /\ k # j
        BY <1>1, <2>3
      <3> QED BY <3>1, <3>2, <3>3, <3>4
    <2> QED BY <1>1, <2>1, <2>2, <2>3
  <1> QED BY <1>7, <1>8, <1>9 DEF Inserted

\* The move on sequences.
LEMMA MovedGoes ==
  ASSUME NEW s \in Seq(Track), NEW i \in 1 .. Len(s), NEW j \in 1 .. Len(s)
  PROVE  /\ Moved(s, i, j) \in [1 .. Len(s) -> Track]
         /\ \A q \in 1 .. Len(s) : Moved(s, i, j)[Goes(i, j, q)] = s[q]
  <1>0. PICK n \in Nat : n = Len(s) /\ i \in 1 .. n /\ j \in 1 .. n /\ s[i] \in Track
    OBVIOUS
  <1>1. PICK t \in Seq(Track) :
           /\ t = RemoveAt(s, i) /\ Len(t) = n - 1
           /\ \A k \in 1 .. n - 1 : t[k] = IF k < i THEN s[k] ELSE s[k + 1]
    BY <1>0, RemovedAt
  <1>2. PICK u \in Seq(Track) :
           /\ u = InsertAt(t, j, s[i]) /\ Len(u) = n
           /\ \A k \in 1 .. n : u[k] = IF k < j THEN t[k] ELSE IF k = j THEN s[i] ELSE t[k - 1]
    <2>1. n - 1 \in Nat /\ (n - 1) + 1 = n /\ n - 1 = Len(t)
      BY <1>0, <1>1
    <2>2. j \in 1 .. (n - 1) + 1
      BY <1>0, <2>1
    <2>3. PICK u \in Seq(Track) : Inserted(u, t, n - 1, j, s[i])
      BY <1>0, <2>1, <2>2, InsertedAt
    <2> QED BY <2>1, <2>3 DEF Inserted
  <1>3. ASSUME NEW q \in 1 .. n PROVE u[Goes(i, j, q)] = s[q]
    <2>1. n \in Nat /\ i \in 1 .. n /\ j \in 1 .. n /\ q \in 1 .. n
      BY <1>0
    <2>2. Goes(i, j, q) \in 1 .. n
      BY <2>1 DEF Goes, AfterFlip, Down, Up
    <2>3. CASE q = i
      BY <1>2, <2>1, <2>3 DEF Goes
    <2>4. CASE Down(i, j, q)
      <3>1. Goes(i, j, q) = q - 1 /\ q - 1 < j /\ q - 1 \in 1 .. n - 1 /\ ~(q - 1 < i)
        BY <2>1, <2>4 DEF Goes, AfterFlip, Down
      <3>2. u[q - 1] = t[q - 1]
        BY <1>2, <2>2, <3>1
      <3>3. t[q - 1] = s[(q - 1) + 1]
        BY <1>1, <3>1
      <3>4. (q - 1) + 1 = q
        BY <2>1
      <3> QED BY <3>1, <3>2, <3>3, <3>4
    <2>5. CASE Up(i, j, q)
      <3>1. Goes(i, j, q) = q + 1 /\ j < q + 1 /\ q \in 1 .. n - 1 /\ q < i /\ q + 1 \in 1 .. n
        BY <2>1, <2>5 DEF Goes, AfterFlip, Down, Up
      <3>2. u[q + 1] = t[(q + 1) - 1]
        BY <1>2, <2>1, <3>1
      <3>3. (q + 1) - 1 = q
        BY <2>1
      <3>4. t[q] = s[q]
        BY <1>1, <3>1
      <3> QED BY <3>1, <3>2, <3>3, <3>4
    <2>6. CASE q # i /\ ~Down(i, j, q) /\ ~Up(i, j, q)
      <3>1. Goes(i, j, q) = q
        BY <2>6 DEF Goes, AfterFlip
      <3>2. CASE q < j
        <4>1. q < i /\ q \in 1 .. n - 1
          BY <2>1, <2>6, <3>2 DEF Down, Up
        <4> QED BY <1>1, <1>2, <2>1, <3>1, <3>2, <4>1
      <3>3. CASE ~(q < j)
        <4>1. j < q /\ i < q /\ q - 1 \in 1 .. n - 1 /\ ~(q - 1 < i) /\ (q - 1) + 1 = q
          BY <2>1, <2>6, <3>3 DEF Down, Up
        <4>2. u[q] = t[q - 1]
          BY <1>2, <2>1, <4>1
        <4> QED BY <1>1, <3>1, <4>1, <4>2
      <3> QED BY <3>2, <3>3
    <2> QED BY <2>3, <2>4, <2>5, <2>6
  <1>4. u \in [1 .. n -> Track]
    BY <1>2
  <1>5. Moved(s, i, j) = u
    BY <1>1, <1>2 DEF Moved
  <1> QED BY <1>0, <1>3, <1>4, <1>5
----------------------------------------------------------------------------
(* Types.                                                                  *)

Inserting == [pc : {"insert"}, ids : Seq(Track) \ {<<>>}, at : Nat \ {0}, moved : BOOLEAN]
Saving == [pc : {"save"}, n : Nat, late : BOOLEAN]
Asking == [pc : {"add"}, ids : Adds] \cup [pc : {"metadata"}, n : Nat]
Simple == [pc : {"idle", "count", "refresh", "child", "fill", "evaluated"}]

Request == Inserting \cup Saving \cup Asking \cup Simple

TInv ==
    /\ Table(rows) /\ DOMAIN rows \subseteq Nat
    /\ pls \in [exists : BOOLEAN, deleted : BOOLEAN, count : Nat]
    /\ media \subseteq Track
    /\ smart \in [filled : BOOLEAN, evaluated : {"never", "fresh", "old"}]
    /\ req \in [Worker -> Request]
    /\ ragged \in BOOLEAN /\ stale \in BOOLEAN
    /\ budget \in [ops : Nat, faults : 0 .. MaxFaults, losses : Nat]

LEMMA RequestKinds ==
  ASSUME NEW q \in Request
  PROVE  /\ q.pc = "insert" => q \in Inserting
         /\ q.pc = "save" => q \in Saving
         /\ q.pc = "add" => q.ids \in Adds
         /\ q.pc = "metadata" => q.n \in Nat
         /\ q.pc = "idle" <=> q = Idle
         /\ q.pc \in {"insert", "save", "add", "metadata", "idle", "count", "refresh", "child",
                      "fill", "evaluated"}
  BY DEF Request, Inserting, Saving, Asking, Simple, Idle

LEMMA Simples == ASSUME NEW v \in {"idle", "count", "refresh", "child", "fill", "evaluated"}
                 PROVE  [pc |-> v] \in Request
  BY DEF Request, Simple

LEMMA AddsAreLists == \A ids \in Adds : ids \in Seq(Track) /\ ids # <<>>
  <1>1. ASSUME NEW ids \in Adds PROVE ids \in Seq(Track) /\ ids # <<>>
    <2>1. PICK n \in 1 .. MaxAdd : ids \in [1 .. n -> Track]
      BY DEF Adds
    <2>2. n \in Nat /\ n # 0
      BY BoundsAssumption, <2>1
    <2>3. ids \in Seq(Track)
      BY <2>1, <2>2
    <2>4. Len(ids) = n
      BY <2>1, <2>2, <2>3
    <2> QED BY <2>2, <2>3, <2>4
  <1> QED BY <1>1

LEMMA ToldShape ==
  ASSUME NEW rq \in [Worker -> Request], NEW m \in BOOLEAN
  PROVE  /\ Told(rq, m) \in [Worker -> Request]
         /\ \A w \in Worker : Told(rq, m)[w].pc = rq[w].pc
         /\ \A w \in Worker : rq[w].pc = "insert" =>
              /\ Told(rq, m)[w].at = rq[w].at
              /\ (Told(rq, m)[w].moved <=> (rq[w].moved \/ m))
         /\ \A w \in Worker : rq[w].pc = "save" => Told(rq, m)[w].late = TRUE
  <1>1. ASSUME NEW w \in Worker
        PROVE  /\ Told(rq, m)[w] \in Request /\ Told(rq, m)[w].pc = rq[w].pc
               /\ rq[w].pc = "insert" => /\ Told(rq, m)[w].at = rq[w].at
                                        /\ (Told(rq, m)[w].moved <=> (rq[w].moved \/ m))
               /\ rq[w].pc = "save" => Told(rq, m)[w].late = TRUE
    <2>1. CASE rq[w].pc = "insert"
      <3>1. rq[w] \in Inserting
        BY <2>1, RequestKinds
      <3>2. Told(rq, m)[w] = [rq[w] EXCEPT !.moved = @ \/ m]
        BY <2>1 DEF Told
      <3>3. (rq[w].moved \/ m) \in BOOLEAN
        OBVIOUS
      <3>4. Told(rq, m)[w] \in Inserting /\ (Told(rq, m)[w].moved <=> (rq[w].moved \/ m))
            /\ Told(rq, m)[w].at = rq[w].at
        BY <3>1, <3>2, <3>3 DEF Inserting
      <3> QED BY <2>1, <3>4 DEF Request, Inserting
    <2>2. CASE rq[w].pc = "save"
      <3>1. rq[w] \in Saving
        BY <2>2, RequestKinds
      <3>2. Told(rq, m)[w] = [rq[w] EXCEPT !.late = TRUE]
        BY <2>2 DEF Told
      <3> QED BY <2>2, <3>1, <3>2 DEF Request, Saving
    <2>3. CASE rq[w].pc \notin {"insert", "save"}
      <3>1. Told(rq, m)[w] = rq[w]
        BY <2>3 DEF Told
      <3> QED BY <2>3, <3>1
    <2> QED BY <2>1, <2>2, <2>3
  <1>2. Told(rq, m) = [w \in Worker |-> Told(rq, m)[w]]
    BY DEF Told
  <1> QED BY <1>1, <1>2

LEMMA ChunkShape ==
  ASSUME NEW ids \in Seq(Track), ids # <<>>
  PROVE  /\ ChunkOf(ids) \in Seq(Track) /\ Len(ChunkOf(ids)) \in Nat \ {0}
         /\ SubSeq(ids, Len(ChunkOf(ids)) + 1, Len(ids)) \in Seq(Track)
  <1> DEFINE k == IF Len(ids) < Chunk THEN Len(ids) ELSE Chunk
  <1>1. Len(ids) \in Nat /\ Len(ids) # 0
    OBVIOUS
  <1>2. k \in Nat /\ 1 <= k /\ k <= Len(ids)
    BY <1>1, BoundsAssumption
  <1>3. ChunkOf(ids) = SubSeq(ids, 1, k)
    BY DEF ChunkOf
  <1>4. SubSeq(ids, 1, k) \in Seq(Track) /\ Len(SubSeq(ids, 1, k)) = k
    <2> HIDE DEF k
    <2>1. \A i \in 1 .. k : ids[i] \in Track
      BY <1>1, <1>2
    <2>2. SubSeq(ids, 1, k) \in Seq(Track)
          /\ Len(SubSeq(ids, 1, k)) = IF 1 <= k THEN k - 1 + 1 ELSE 0
      BY <1>2, <2>1, SubSeqProperties
    <2> QED BY <1>2, <2>2
  <1>5. SubSeq(ids, k + 1, Len(ids)) \in Seq(Track)
    <2> HIDE DEF k
    <2>1. \A i \in k + 1 .. Len(ids) : ids[i] \in Track
      BY <1>1, <1>2
    <2> QED BY <1>1, <1>2, <2>1, SubSeqProperties
  <1> QED BY <1>2, <1>3, <1>4, <1>5
LEMMA TInvInit == Init => TInv
  <1> SUFFICES ASSUME Init PROVE TInv
    OBVIOUS
  <1>1. DOMAIN rows = 1 .. 2 /\ rows \in [1 .. 2 -> Track]
    BY DEF Init
  <1>2. IsFiniteSet(1 .. 2)
    <2>1. 1 \in Int /\ 2 \in Int
      OBVIOUS
    <2> QED BY <2>1, FS_Interval
  <1>3. Table(rows) /\ DOMAIN rows \subseteq Nat
    BY <1>1, <1>2 DEF Table
  <1>4. Idle \in Request
    BY Simples DEF Idle
  <1>5. pls \in [exists : BOOLEAN, deleted : BOOLEAN, count : Nat]
        /\ smart \in [filled : BOOLEAN, evaluated : {"never", "fresh", "old"}]
    BY DEF Init
  <1>6. budget \in [ops : Nat, faults : 0 .. MaxFaults, losses : Nat]
    BY BoundsAssumption DEF Init
  <1>7. req \in [Worker -> Request]
    BY <1>4 DEF Init
  <1>8. media \subseteq Track /\ ragged \in BOOLEAN /\ stale \in BOOLEAN
    BY DEF Init
  <1> QED BY <1>3, <1>5, <1>6, <1>7, <1>8 DEF TInv

\* What Ask leaves of the budget, and what other steps take from it.
LEMMA Budgets ==
  ASSUME TInv
  PROVE  /\ Ask => /\ budget' \in [ops : Nat, faults : 0 .. MaxFaults, losses : Nat]
                   /\ budget'.faults = budget.faults
         /\ budget.faults > 0 /\ budget' = [budget EXCEPT !.faults = @ - 1] =>
              /\ budget' \in [ops : Nat, faults : 0 .. MaxFaults, losses : Nat]
              /\ budget'.faults # MaxFaults
         /\ budget.losses > 0 /\ budget' = [budget EXCEPT !.losses = @ - 1] =>
              /\ budget' \in [ops : Nat, faults : 0 .. MaxFaults, losses : Nat]
              /\ budget'.faults = budget.faults
  <1>1. budget \in [ops : Nat, faults : 0 .. MaxFaults, losses : Nat] /\ MaxFaults \in Nat
    BY BoundsAssumption DEF TInv
  <1>2. Ask => /\ budget' \in [ops : Nat, faults : 0 .. MaxFaults, losses : Nat]
               /\ budget'.faults = budget.faults
    BY <1>1 DEF Ask
  <1>3. ASSUME budget.faults > 0, budget' = [budget EXCEPT !.faults = @ - 1]
        PROVE  /\ budget' \in [ops : Nat, faults : 0 .. MaxFaults, losses : Nat]
               /\ budget'.faults # MaxFaults
    BY <1>1, <1>3
  <1>4. ASSUME budget.losses > 0, budget' = [budget EXCEPT !.losses = @ - 1]
        PROVE  /\ budget' \in [ops : Nat, faults : 0 .. MaxFaults, losses : Nat]
               /\ budget'.faults = budget.faults
    BY <1>1, <1>4
  <1> QED BY <1>2, <1>3, <1>4

\* What is left of the rows, numbered anew.
LEMMA LeftRenumbered ==
  ASSUME TInv, NEW S \in SUBSET DOMAIN rows
  PROVE  LET left == Keep(rows, S)
             g == Renumbered(left)
         IN /\ Table(left) /\ DOMAIN left = S /\ S \subseteq Nat
            /\ \A p \in S : left[p] = rows[p]
            /\ RenumberAccepted(left)
            /\ Table(g) /\ DOMAIN g \subseteq Nat /\ Dense(g)
            /\ Cardinality(DOMAIN g) = Cardinality(DOMAIN left)
            /\ ListOf(g) = ListOf(left)
            /\ \A p \in DOMAIN g : \E q \in S : g[p] = rows[q]
  <1> DEFINE left == Keep(rows, S)
             g == Renumbered(left)
  <1>1. /\ Table(left) /\ DOMAIN left = S /\ S \subseteq Nat
        /\ \A p \in S : left[p] = rows[p]
    BY KeepSome DEF TInv
  <1>2. /\ RenumberAccepted(left) /\ Table(g)
        /\ DOMAIN g = 1 .. Cardinality(S)
        /\ \A p \in S : g[Rank(S, p)] = left[p]
    BY <1>1, RenumberedInOrder
  <1>3. Dense(g) /\ ListOf(g) = ListOf(left) /\ Cardinality(DOMAIN g) = Cardinality(DOMAIN left)
    BY <1>1, RenumberedKeepsList
  <1>4. /\ Cardinality(S) \in Nat
        /\ \A i \in 1 .. Cardinality(S) : \E p \in S : Rank(S, p) = i
    BY <1>1, RankNumbers DEF Positions, Table
  <1>5. DOMAIN g \subseteq Nat
    BY <1>2, <1>4
  <1>6. \A p \in DOMAIN g : \E q \in S : g[p] = rows[q]
    BY <1>1, <1>2, <1>4
  <1> QED BY <1>1, <1>2, <1>3, <1>5, <1>6

\* A transaction keeps the types when its table does.
LEMMA CommitTypes ==
  ASSUME TInv, NEW r, Table(r), DOMAIN r \subseteq Nat, Commit(r), NEW m \in BOOLEAN,
         req' = Told(req, m), ragged' \in BOOLEAN, Ask
  PROVE  TInv'
  <1>1. rows' = r /\ CountOf(r, media) \in Nat
    BY CountAll DEF Commit
  <1>2. Table(rows)' /\ (DOMAIN rows \subseteq Nat)'
    BY <1>1 DEF Table
  <1>3. req' \in [Worker -> Request]
    BY ToldShape DEF TInv
  <1>4. pls' \in [exists : BOOLEAN, deleted : BOOLEAN, count : Nat]
    BY <1>1 DEF Commit, TInv
  <1>5. budget' \in [ops : Nat, faults : 0 .. MaxFaults, losses : Nat]
    BY Budgets
  <1> QED BY <1>2, <1>3, <1>4, <1>5 DEF Commit, TInv

\* A request goes on; rows and playlist are as they were.
LEMMA RequestTypes ==
  ASSUME TInv, NEW w \in Worker, NEW q \in Request, req' = [req EXCEPT ![w] = q],
         UNCHANGED <<rows, pls, media, ragged, stale>>,
         smart' \in [filled : BOOLEAN, evaluated : {"never", "fresh", "old"}],
         budget' \in [ops : Nat, faults : 0 .. MaxFaults, losses : Nat]
  PROVE  TInv'
  <1>1. req' \in [Worker -> Request]
    BY DEF TInv
  <1> QED BY <1>1 DEF TInv, Table

LEMMA TransactionTypes ==
  ASSUME TInv,
         \/ \E gone \in SUBSET Pos \ {{}} : RemoveTracks(gone)
         \/ \E pos \in Pos, new \in 0 .. MaxPos : ReorderTrack(pos, new)
         \/ \E ids \in Adds : Create(ids)
         \/ \E gone \in {{}} \cup {{p} : p \in Pos}, ids \in {<<>>} \cup Adds : Update(gone, ids)
         \/ Delete \/ RemoveOrphans
  PROVE  TInv'
  <1>0. Table(rows) /\ DOMAIN rows \subseteq Nat /\ ragged \in BOOLEAN /\ req \in [Worker -> Request]
    BY DEF TInv
  <1>1. ASSUME NEW gone, RemoveTracks(gone) PROVE TInv'
    <2> DEFINE g == Renumbered(Keep(rows, DOMAIN rows \ gone))
    <2>1. DOMAIN rows \ gone \in SUBSET DOMAIN rows
      OBVIOUS
    <2>2. Table(g) /\ DOMAIN g \subseteq Nat
      BY <2>1, LeftRenumbered
    <2>3. Commit(g) /\ req' = Told(req, TRUE) /\ ragged' \in BOOLEAN /\ Ask
      BY <1>1 DEF RemoveTracks
    <2> HIDE DEF g
    <2> QED BY <2>2, <2>3, CommitTypes
  <1>2. ASSUME NEW pos \in Pos, NEW new \in 0 .. MaxPos, ReorderTrack(pos, new) PROVE TInv'
    <2> DEFINE g == Reordered(rows, pos, new)
    <2>1. pos \in Nat /\ new \in Nat
      BY BoundsAssumption DEF Pos
    <2>2. Table(g) /\ DOMAIN g \subseteq Nat
      BY <1>0, <1>2, <2>1, ReorderedKeeps DEF ReorderTrack
    <2>3. rows' = g /\ Ask /\ req' = Told(req, FALSE) /\ UNCHANGED <<pls, media, smart, stale>>
          /\ ragged' \in BOOLEAN
      BY <1>0, <1>2 DEF ReorderTrack
    <2>4. req' \in [Worker -> Request]
      BY <1>0, <2>3, ToldShape
    <2>5. Table(rows)' /\ (DOMAIN rows \subseteq Nat)'
      BY <2>2, <2>3 DEF Table
    <2> QED BY <2>3, <2>4, <2>5, Budgets DEF TInv
  <1>3. ASSUME NEW ids \in Adds, Create(ids) PROVE TInv'
    <2> DEFINE g == Added(NoRows, 1, ids)
    <2>1. Table(g) /\ DOMAIN g \subseteq Nat
      <3>1. ids \in Seq(Track)
        BY AddsAreLists
      <3>2. PICK at \in Nat : at = 1
        OBVIOUS
      <3>3. LET h == Added(NoRows, at, ids)
            IN Table(h) /\ DOMAIN h = DOMAIN NoRows \cup (at .. at + Len(ids) - 1)
        BY <3>1, NoRowsTable, AddedRows
      <3>4. DOMAIN g = {} \cup (at .. at + Len(ids) - 1)
        BY <3>2, <3>3, NoRowsTable
      <3> QED BY <3>2, <3>3, <3>4
    <2>2. Commit(g) /\ req' = Told(req, TRUE) /\ ragged' \in BOOLEAN /\ Ask
      BY <1>3 DEF Create
    <2> HIDE DEF g
    <2> QED BY <2>1, <2>2, CommitTypes
  <1>4. ASSUME NEW gone, NEW ids \in {<<>>} \cup Adds, Update(gone, ids) PROVE TInv'
    <2> DEFINE kept == IF gone = {} THEN rows ELSE Renumbered(Keep(rows, DOMAIN rows \ gone))
               g == Added(kept, NextPos(kept), ids)
    <2>1. Table(kept) /\ DOMAIN kept \subseteq Nat
      <3>1. DOMAIN rows \ gone \in SUBSET DOMAIN rows
        OBVIOUS
      <3> QED BY <1>0, <3>1, LeftRenumbered
    <2>2. NextPos(kept) \in Nat
      BY <2>1, NextIsFree
    <2>3. ids \in Seq(Track)
      <3>1. <<>> \in Seq(Track)
        OBVIOUS
      <3> QED BY <3>1, AddsAreLists
    <2>4. Commit(g) /\ Ask /\ (gone # {}) \in BOOLEAN /\ req' = Told(req, gone # {})
          /\ ragged' \in BOOLEAN
      BY <1>0, <1>4 DEF Update
    <2> HIDE DEF kept
    <2>5. Table(g) /\ DOMAIN g = DOMAIN kept \cup (NextPos(kept) .. NextPos(kept) + Len(ids) - 1)
      BY <2>1, <2>2, <2>3, AddedRows
    <2>6. DOMAIN g \subseteq Nat
      BY <2>1, <2>2, <2>3, <2>5
    <2> HIDE DEF g
    <2> QED BY <2>4, <2>5, <2>6, CommitTypes
  <1>5. CASE Delete
    <2>1. rows' = NoRows /\ Ask /\ req' = Told(req, TRUE) /\ ragged' = FALSE
          /\ UNCHANGED <<media, smart, stale>>
          /\ pls' = [pls EXCEPT !.exists = FALSE, !.deleted = TRUE]
      BY <1>5 DEF Delete
    <2>2. req' \in [Worker -> Request]
      BY <1>0, <2>1, ToldShape
    <2>3. Table(rows)' /\ (DOMAIN rows \subseteq Nat)'
      BY <2>1, NoRowsTable DEF Table
    <2>4. pls' \in [exists : BOOLEAN, deleted : BOOLEAN, count : Nat]
      BY <2>1 DEF TInv
    <2> QED BY <2>1, <2>2, <2>3, <2>4, Budgets DEF TInv
  <1>6. CASE RemoveOrphans
    <2> DEFINE left == Keep(rows, DOMAIN rows \ Orphans(rows))
               g == Renumbered(left)
    <2>1. DOMAIN rows \ Orphans(rows) \in SUBSET DOMAIN rows
      OBVIOUS
    <2>2. Table(left) /\ Table(g) /\ DOMAIN g \subseteq Nat
      BY <2>1, LeftRenumbered
    <2>3. CountOf(left, media) \in Nat
      BY <2>2, CountAll
    <2>4. rows' = g /\ req' = Told(req, TRUE) /\ ragged' = FALSE /\ stale' = FALSE
          /\ UNCHANGED <<media, smart, budget>>
          /\ pls' = [pls EXCEPT !.count = CountOf(left, media)]
      BY <1>6 DEF RemoveOrphans
    <2> HIDE DEF left, g
    <2>5. req' \in [Worker -> Request]
      BY <1>0, <2>4, ToldShape
    <2>6. Table(rows)' /\ (DOMAIN rows \subseteq Nat)'
      BY <2>2, <2>4 DEF Table
    <2>7. pls' \in [exists : BOOLEAN, deleted : BOOLEAN, count : Nat]
      BY <2>3, <2>4 DEF TInv
    <2> QED BY <2>4, <2>5, <2>6, <2>7 DEF TInv
  <1> QED BY <1>1, <1>2, <1>3, <1>4, <1>5, <1>6
\* What is left of a request after a chunk.
AfterChunk(q, c) ==
  LET rest == SubSeq(q.ids, Len(c) + 1, Len(q.ids))
  IN IF rest = <<>> THEN [pc |-> "count"] ELSE [q EXCEPT !.ids = rest, !.at = @ + Len(c)]

LEMMA AfterChunkShape ==
  ASSUME NEW q \in Inserting
  PROVE  LET c == ChunkOf(q.ids)
             d == AfterChunk(q, c)
         IN /\ d \in Request
            /\ \/ d.pc = "count"
               \/ d.pc = "insert" /\ d.at = q.at + Len(c) /\ d.moved = q.moved
            /\ c \in Seq(Track) /\ Len(c) \in Nat \ {0} /\ q.at \in Nat \ {0}
  <1> DEFINE c == ChunkOf(q.ids)
             rest == SubSeq(q.ids, Len(c) + 1, Len(q.ids))
             d == AfterChunk(q, c)
  <1>1. q.ids \in Seq(Track) /\ q.ids # <<>> /\ q.at \in Nat \ {0} /\ q.moved \in BOOLEAN
    BY DEF Inserting
  <1>2. c \in Seq(Track) /\ Len(c) \in Nat \ {0} /\ rest \in Seq(Track)
    BY <1>1, ChunkShape
  <1>3. CASE rest = <<>>
    BY <1>1, <1>2, <1>3, Simples DEF AfterChunk
  <1>4. CASE rest # <<>>
    <2> HIDE DEF c
    <2>1. d = [q EXCEPT !.ids = rest, !.at = @ + Len(c)]
      BY <1>4 DEF AfterChunk
    <2>2. q.at + Len(c) \in Nat \ {0}
      BY <1>1, <1>2
    <2> HIDE DEF rest, d
    <2>3. d \in Inserting /\ d.at = q.at + Len(c) /\ d.moved = q.moved
      BY <1>2, <1>4, <2>1, <2>2 DEF Inserting
    <2>4. d \in Request /\ d.pc = "insert"
      BY <2>3 DEF Request, Inserting
    <2> QED BY <1>1, <1>2, <2>3, <2>4 DEF c, d, rest
  <1> QED BY <1>3, <1>4

\* A chunk goes in.
LEMMA ChunkTypes ==
  ASSUME TInv, NEW w \in Worker, AddChunk(w)
  PROVE  LET c == ChunkOf(req[w].ids)
         IN /\ TInv'
            /\ c \in Seq(Track) /\ Len(c) \in Nat \ {0} /\ req[w].at \in Nat \ {0}
            /\ req[w] \in Inserting
            /\ rows' = Added(rows, req[w].at, c)
            /\ req' = Told([req EXCEPT ![w] = AfterChunk(req[w], c)], FALSE)
            /\ ragged' = (ragged \/ req[w].moved)
  <1> DEFINE c == ChunkOf(req[w].ids)
             rq == [req EXCEPT ![w] = AfterChunk(req[w], c)]
             g == Added(rows, req[w].at, c)
  <1>1. req[w] \in Inserting
    BY RequestKinds DEF TInv, AddChunk
  <1>2. /\ AfterChunk(req[w], c) \in Request
        /\ c \in Seq(Track) /\ Len(c) \in Nat \ {0} /\ req[w].at \in Nat \ {0}
    BY <1>1, AfterChunkShape
  <1>3. rows' = g /\ req' = Told(rq, FALSE) /\ ragged' = (ragged \/ req[w].moved)
        /\ UNCHANGED <<pls, media, smart, stale, budget>>
    BY DEF AddChunk, AfterChunk
  <1>4. Table(rows) /\ DOMAIN rows \subseteq Nat /\ req \in [Worker -> Request]
    BY DEF TInv
  <1> HIDE DEF c
  <1>5. Table(g) /\ DOMAIN g = DOMAIN rows \cup (req[w].at .. req[w].at + Len(c) - 1)
    <2>1. PICK at \in Nat, ts \in Seq(Track) : at = req[w].at /\ ts = c
      BY <1>2
    <2>2. /\ Table(Added(rows, at, ts))
          /\ DOMAIN Added(rows, at, ts) = DOMAIN rows \cup (at .. at + Len(ts) - 1)
      BY <1>4, AddedRows
    <2> QED BY <2>1, <2>2
  <1>6. DOMAIN g \subseteq Nat
    BY <1>2, <1>4, <1>5
  <1>7. req' \in [Worker -> Request]
    <2>1. rq \in [Worker -> Request]
      BY <1>2, <1>4
    <2> HIDE DEF rq
    <2> QED BY <1>3, <2>1, ToldShape
  <1>8. Table(rows)' /\ (DOMAIN rows \subseteq Nat)'
    BY <1>3, <1>5, <1>6 DEF Table
  <1>9. ragged' \in BOOLEAN
    BY <1>3
  <1>10. TInv'
    BY <1>3, <1>7, <1>8, <1>9 DEF TInv
  <1> QED BY <1>1, <1>2, <1>3, <1>10 DEF c

LEMMA RequestStepTypes ==
  ASSUME TInv, NEW w \in Worker,
         \/ Begin(w) \/ UpdateMetadata(w)
         \/ NotFound(w) \/ Add(w) \/ AddRejected(w)
         \/ CountTracks(w) \/ SaveCounters(w)
         \/ RemoveOldTracks(w) \/ LoadChild(w) \/ InsertMatches(w)
         \/ SetEvaluatedAt(w) \/ Fails(w)
  PROVE  TInv'
  <1>0. /\ req \in [Worker -> Request] /\ req[w] \in Request
        /\ smart \in [filled : BOOLEAN, evaluated : {"never", "fresh", "old"}]
        /\ budget \in [ops : Nat, faults : 0 .. MaxFaults, losses : Nat]
        /\ pls \in [exists : BOOLEAN, deleted : BOOLEAN, count : Nat]
    BY DEF TInv
  <1>1. CASE Begin(w)
    <2>1. PICK q \in Requests : req' = [req EXCEPT ![w] = q]
      BY <1>1 DEF Begin
    <2>2. q \in Request
      BY <1>0, Simples DEF Requests, Request, Asking, Simple
    <2> QED BY <1>0, <1>1, <2>1, <2>2, Budgets, RequestTypes DEF Begin
  <1>2. CASE UpdateMetadata(w)
    <2>1. req[w].n \in Nat
      BY <1>0, <1>2, RequestKinds DEF UpdateMetadata
    <2>2. pls' \in [exists : BOOLEAN, deleted : BOOLEAN, count : Nat]
      BY <1>0, <1>2, <2>1 DEF UpdateMetadata
    <2>3. req' \in [Worker -> Request]
      BY <1>0, <1>2, Simples DEF UpdateMetadata
    <2> QED BY <1>2, <2>2, <2>3 DEF TInv, UpdateMetadata, Table
  <1>3. CASE NotFound(w) \/ AddRejected(w)
    <2>1. Idle \in Request
      BY Simples DEF Idle
    <2> QED BY <1>0, <1>3, <2>1, RequestTypes DEF NotFound, AddRejected
  <1>4. CASE Add(w)
    <2> DEFINE q == [pc |-> "insert", ids |-> req[w].ids, at |-> NextPos(rows), moved |-> FALSE]
    <2>1. req[w].ids \in Seq(Track) /\ req[w].ids # <<>>
      BY <1>0, <1>4, RequestKinds, AddsAreLists DEF Add
    <2>2. NextPos(rows) \in Nat \ {0}
      BY NextIsFree DEF TInv
    <2>3. q \in Request
      <3>1. req[w].ids \in Seq(Track) \ {<<>>}
        BY <2>1
      <3> QED BY <2>2, <3>1 DEF Request, Inserting
    <2>4. req' = [req EXCEPT ![w] = q] /\ UNCHANGED <<rows, pls, media, smart, ragged, stale, budget>>
      BY <1>4 DEF Add
    <2> HIDE DEF q
    <2> QED BY <1>0, <2>3, <2>4, RequestTypes
  <1>5. CASE CountTracks(w)
    <2>1. CountOf(rows, media) \in Nat
      BY CountAll DEF TInv
    <2>2. [pc |-> "save", n |-> CountOf(rows, media), late |-> FALSE] \in Request
      BY <2>1 DEF Request, Saving
    <2> QED BY <1>0, <1>5, <2>2, RequestTypes DEF CountTracks
  <1>6. CASE SaveCounters(w)
    <2>1. req[w].n \in Nat /\ req[w].late \in BOOLEAN
      BY <1>0, <1>6, RequestKinds DEF SaveCounters, Saving
    <2>2. pls' \in [exists : BOOLEAN, deleted : BOOLEAN, count : Nat] /\ stale' \in BOOLEAN
      BY <1>0, <1>6, <2>1 DEF SaveCounters, TInv
    <2>3. req' \in [Worker -> Request]
      BY <1>0, <1>6, Simples DEF SaveCounters, Idle
    <2> QED BY <1>6, <2>2, <2>3 DEF TInv, SaveCounters, Table
  <1>7. CASE RemoveOldTracks(w) \/ LoadChild(w) \/ InsertMatches(w) \/ SetEvaluatedAt(w)
    <2>1. PICK v \in {"idle", "count", "refresh", "child", "fill", "evaluated"} :
             req' = [req EXCEPT ![w] = [pc |-> v]]
      BY <1>7 DEF RemoveOldTracks, LoadChild, InsertMatches, SetEvaluatedAt, Goto
    <2>2. [pc |-> v] \in Request
      BY Simples
    <2>3. smart' \in [filled : BOOLEAN, evaluated : {"never", "fresh", "old"}]
      BY <1>0, <1>7 DEF RemoveOldTracks, LoadChild, InsertMatches, SetEvaluatedAt
    <2>4. UNCHANGED <<rows, pls, media, ragged, stale, budget>>
      BY <1>7 DEF RemoveOldTracks, LoadChild, InsertMatches, SetEvaluatedAt
    <2> QED BY <1>0, <2>1, <2>2, <2>3, <2>4, RequestTypes
  <1>8. CASE Fails(w)
    <2>1. Idle \in Request
      BY Simples DEF Idle
    <2>2. budget' \in [ops : Nat, faults : 0 .. MaxFaults, losses : Nat]
      BY <1>8, Budgets DEF Fails
    <2> QED BY <1>0, <1>8, <2>1, <2>2, RequestTypes DEF Fails
  <1> QED BY <1>1, <1>2, <1>3, <1>4, <1>5, <1>6, <1>7, <1>8

LEMMA TInvStep == TInv /\ [Next]_vars => TInv'
  <1> SUFFICES ASSUME TInv, [Next]_vars PROVE TInv'
    OBVIOUS
  <1>1. ASSUME NEW w \in Worker, AddChunk(w) PROVE TInv'
    BY <1>1, ChunkTypes
  <1>2. CASE DelayPasses
    <2>1. smart' \in [filled : BOOLEAN, evaluated : {"never", "fresh", "old"}]
      BY <1>2 DEF DelayPasses, TInv
    <2> QED BY <1>2, <2>1 DEF TInv, DelayPasses, Table
  <1>3. ASSUME NEW t \in Track, LoseFile(t) PROVE TInv'
    <2>1. budget' \in [ops : Nat, faults : 0 .. MaxFaults, losses : Nat]
      BY <1>3, Budgets DEF LoseFile
    <2> QED BY <1>3, <2>1 DEF TInv, LoseFile, Table
  <1>4. CASE UNCHANGED vars
    BY <1>4 DEF TInv, vars, Table
  <1> QED BY <1>1, <1>2, <1>3, <1>4, RequestStepTypes, TransactionTypes DEF Next

\* Types: rows of known tracks at positions from 0, and what each request
\* carries to the next statement it makes.
THEOREM TypeCorrect == Spec => []TInv
  <1> QED BY TInvInit, TInvStep, PTL DEF Spec
----------------------------------------------------------------------------
(* Gaps and counters.                                                      *)

Size(r) == Cardinality(DOMAIN r)

\* A playlist that is gone has no tracks.
Gone == ~pls.exists => rows = NoRows /\ pls.deleted

\* Who has read the last position names one in the list, or the next, as long
\* as nobody renumbered it.
InPlace == \A w \in Worker :
    req[w].pc = "insert" /\ ~req[w].moved /\ ~ragged => req[w].at <= Size(rows) + 1

\* What was counted holds until the rows change.
Saved == \A w \in Worker :
    req[w].pc = "save" /\ ~req[w].late /\ Orphans(rows) = {} => req[w].n = Size(rows)

\* A request that will count: it is about to, or it is the last that added rows
\* and its next chunk cannot be rejected.
Due(w) == \/ req[w].pc \in {"count", "save"}
          \/ req[w].pc = "insert" /\ ~req[w].moved /\ req[w].at = Size(rows) + 1

Counted ==
    pls.exists /\ ~stale /\ ~ragged /\ Orphans(rows) = {} /\ budget.faults = MaxFaults
        => pls.count = Size(rows) \/ \E w \in Worker : Due(w)

CInv == Gone /\ NoGaps /\ InPlace /\ Saved /\ Counted

LEMMA CInvInit == Init => CInv
  <1> SUFFICES ASSUME Init PROVE CInv
    OBVIOUS
  <1>1. DOMAIN rows = 1 .. 2 /\ 2 \in Nat
    BY DEF Init
  <1>2. Dense(rows) /\ Size(rows) = 2
    <2>1. PICK n \in Nat : n = 2
      BY <1>1
    <2>2. DOMAIN rows = 1 .. n
      BY <1>1, <2>1
    <2> QED BY <2>1, <2>2, DenseCount DEF Size
  <1>3. \A w \in Worker : req[w].pc = "idle"
    BY DEF Init, Idle
  <1>4. pls.exists /\ pls.count = 2
    BY DEF Init
  <1> QED BY <1>2, <1>3, <1>4 DEF CInv, Gone, NoGaps, InPlace, Saved, Counted

LEMMA SizeType == TInv => Size(rows) \in Nat
  BY FS_CardinalityType DEF TInv, Table, Size

\* A transaction that leaves the counters right.
LEMMA Commits ==
  ASSUME TInv, CInv, TInv', NEW m \in BOOLEAN, req' = Told(req, m),
         ragged' <=> (ragged /\ ~m),
         ~ragged' => Dense(rows)',
         ~m /\ ~ragged => Size(rows) <= Size(rows)',
         pls'.exists /\ Orphans(rows)' = {} => pls'.count = Size(rows)',
         ~pls'.exists => rows' = NoRows /\ pls'.deleted
  PROVE  CInv'
  <1>1. Size(rows) \in Nat /\ Size(rows)' \in Nat
    <2>1. (Size(rows) \in Nat)'
      BY FS_CardinalityType DEF TInv, Table, Size
    <2> QED BY <2>1, SizeType
  <1>2. /\ \A w \in Worker : req'[w].pc = req[w].pc
        /\ \A w \in Worker : req[w].pc = "insert" =>
             /\ req'[w].at = req[w].at /\ (req'[w].moved <=> (req[w].moved \/ m))
             /\ req[w].at \in Nat
        /\ \A w \in Worker : req[w].pc = "save" => req'[w].late = TRUE
    <2>1. req \in [Worker -> Request]
      BY DEF TInv
    <2>2. \A w \in Worker : req[w].pc = "insert" => req[w].at \in Nat
      BY <2>1, RequestKinds DEF Inserting
    <2> QED BY <2>1, <2>2, ToldShape
  <1>3. Gone' /\ NoGaps'
    BY DEF Gone, NoGaps
  <1>4. InPlace'
    <2>1. ASSUME NEW w \in Worker, req'[w].pc = "insert", ~req'[w].moved, ~ragged'
          PROVE  req'[w].at <= Size(rows)' + 1
      <3>1. req[w].pc = "insert" /\ ~req[w].moved /\ ~m /\ ~ragged
        BY <1>2, <2>1
      <3>2. req[w].at <= Size(rows) + 1
        BY <3>1 DEF CInv, InPlace
      <3>3. Size(rows) <= Size(rows)' /\ req'[w].at = req[w].at /\ req[w].at \in Nat
        BY <1>2, <3>1
      <3> QED BY <1>1, <3>2, <3>3
    <2> QED BY <2>1 DEF InPlace
  <1>5. Saved'
    BY <1>2 DEF Saved
  <1>6. Counted'
    BY DEF Counted
  <1> QED BY <1>3, <1>4, <1>5, <1>6 DEF CInv

\* Rows that moved are the rows there were.
LEMMA SameTracks ==
  ASSUME NEW r, Table(r), NEW g, Table(g),
         \A t : Cardinality(Copies(g, t)) = Cardinality(Copies(r, t))
  PROVE  \A p \in DOMAIN r : \E q \in DOMAIN g : g[q] = r[p]
  <1>1. ASSUME NEW p \in DOMAIN r PROVE \E q \in DOMAIN g : g[q] = r[p]
    <2> DEFINE t == r[p]
    <2>1. Copies(r, t) \in SUBSET DOMAIN r /\ Copies(g, t) \in SUBSET DOMAIN g /\ Copies(r, t) # {}
      BY DEF Copies
    <2>2. IsFiniteSet(Copies(r, t)) /\ IsFiniteSet(Copies(g, t))
      BY <2>1, FS_Subset DEF Table
    <2>3. Cardinality(Copies(g, t)) # 0
      BY <2>1, <2>2, FS_EmptySet
    <2>4. Copies(g, t) # {}
      BY <2>2, <2>3, FS_EmptySet
    <2> QED BY <2>4 DEF Copies
  <1> QED BY <1>1

LEMMA ReorderCounts ==
  ASSUME TInv, CInv, TInv', NEW pos \in Pos, NEW new \in 0 .. MaxPos, ReorderTrack(pos, new)
  PROVE  CInv'
  <1> DEFINE g == Reordered(rows, pos, new)
  <1>0. /\ pos \in Nat /\ new \in Nat /\ Table(rows) /\ DOMAIN rows \subseteq Nat
        /\ req \in [Worker -> Request] /\ ragged \in BOOLEAN
    BY BoundsAssumption DEF Pos, TInv
  <1>1. /\ Ask /\ ReorderAccepted(rows, pos, new) /\ rows' = g /\ req' = Told(req, FALSE)
        /\ ragged' = (ragged \/ {pos, new} \ DOMAIN rows # {})
        /\ UNCHANGED <<pls, media, smart, stale>> /\ pls.exists
    BY DEF ReorderTrack
  <1>2. /\ Table(g) /\ Cardinality(DOMAIN g) = Cardinality(DOMAIN rows)
        /\ \A t : Cardinality(Copies(g, t)) = Cardinality(Copies(rows, t))
    BY <1>0, <1>1, ReorderedKeeps
  <1>3. Size(rows)' = Size(rows)
    BY <1>1, <1>2 DEF Size
  <1>4. Orphans(rows)' = {} => Orphans(rows) = {}
    <2>1. \A p \in DOMAIN rows : \E q \in DOMAIN g : g[q] = rows[p]
      BY <1>0, <1>2, SameTracks
    <2> HIDE DEF g
    <2> QED BY <1>1, <2>1 DEF Orphans
  <1>5. ~ragged' => ~ragged
    BY <1>0, <1>1
  <1>6. /\ \A w \in Worker : req'[w].pc = req[w].pc
        /\ \A w \in Worker : req[w].pc = "insert" =>
             /\ req'[w].at = req[w].at /\ (req'[w].moved <=> req[w].moved)
        /\ \A w \in Worker : req[w].pc = "save" => req'[w].late = TRUE
    <2>1. FALSE \in BOOLEAN
      OBVIOUS
    <2> QED BY <1>0, <1>1, <2>1, ToldShape
  <1>7. NoGaps'
    <2>1. ASSUME ~ragged' PROVE Dense(rows)'
      <3>1. Dense(rows) /\ pos \in DOMAIN rows /\ new \in DOMAIN rows
        BY <1>1, <1>5, <2>1 DEF CInv, NoGaps
      <3>2. CASE pos = new
        <4>1. rows' = rows
          BY <1>1, <3>2 DEF Reordered
        <4> QED BY <3>1, <4>1 DEF Dense
      <3>3. CASE pos # new
        <4>1. Clear(rows, pos, new)
          BY <1>0, <1>1, <3>1, <3>3, AcceptedIsClear
        <4>2. Dense(g)
          BY <1>0, <3>1, <3>3, <4>1, ReorderedDense
        <4> QED BY <1>1, <4>2 DEF Dense
      <3> QED BY <3>2, <3>3
    <2> QED BY <2>1 DEF NoGaps
  <1>8. Gone'
    BY <1>1 DEF Gone
  <1>9. InPlace'
    BY <1>3, <1>5, <1>6 DEF CInv, InPlace
  <1>10. Saved'
    BY <1>6 DEF Saved
  <1>11. Counted'
    <2>1. ASSUME NEW w \in Worker, Due(w) PROVE Due(w)'
      BY <1>3, <1>6, <2>1 DEF Due
    <2>2. budget'.faults = budget.faults
      BY <1>1, Budgets
    <2> QED BY <1>1, <1>3, <1>4, <1>5, <2>1, <2>2 DEF CInv, Counted
  <1> QED BY <1>7, <1>8, <1>9, <1>10, <1>11 DEF CInv
LEMMA CommitCounts ==
  ASSUME TInv, CInv, TInv', NEW r, Table(r), Commit(r), NEW m \in BOOLEAN, req' = Told(req, m),
         ragged' <=> (ragged /\ ~m), m \/ ~ragged => Dense(r),
         ~m /\ ~ragged => Size(rows) <= Size(r)
  PROVE  CInv'
  <1>1. rows' = r /\ pls'.exists /\ pls'.count = CountOf(r, media) /\ media' = media
    BY DEF Commit, TInv
  <1>2. Size(rows)' = Size(r)
    BY <1>1 DEF Size
  <1>3. ASSUME Orphans(rows)' = {} PROVE pls'.count = Size(rows)'
    <2>1. \A p \in DOMAIN r : r[p] \in media
      BY <1>1, <1>3 DEF Orphans
    <2> QED BY <1>1, <1>2, <2>1, CountAll DEF Size
  <1>4. ~ragged' => Dense(rows)'
    BY <1>1 DEF Dense
  <1> QED BY <1>1, <1>2, <1>3, <1>4, Commits

LEMMA TransactionCounts ==
  ASSUME TInv, CInv, TInv',
         \/ \E gone \in SUBSET Pos \ {{}} : RemoveTracks(gone)
         \/ \E ids \in Adds : Create(ids)
         \/ \E gone \in {{}} \cup {{p} : p \in Pos}, ids \in {<<>>} \cup Adds : Update(gone, ids)
         \/ Delete \/ RemoveOrphans
  PROVE  CInv'
  <1>0. /\ Table(rows) /\ DOMAIN rows \subseteq Nat /\ ragged \in BOOLEAN
        /\ pls \in [exists : BOOLEAN, deleted : BOOLEAN, count : Nat]
    BY DEF TInv
  <1>1. ASSUME NEW gone, RemoveTracks(gone) PROVE CInv'
    <2> DEFINE g == Renumbered(Keep(rows, DOMAIN rows \ gone))
    <2>1. DOMAIN rows \ gone \in SUBSET DOMAIN rows
      OBVIOUS
    <2>2. Table(g) /\ Dense(g)
      BY <2>1, LeftRenumbered
    <2>3. Commit(g) /\ req' = Told(req, TRUE) /\ ~ragged'
      BY <1>1 DEF RemoveTracks
    <2> HIDE DEF g
    <2> QED BY <2>2, <2>3, CommitCounts
  <1>2. ASSUME NEW ids \in Adds, Create(ids) PROVE CInv'
    <2> DEFINE g == Added(NoRows, 1, ids)
    <2>1. Commit(g) /\ req' = Told(req, TRUE) /\ ~ragged'
      BY <1>2 DEF Create
    <2>3. Cardinality(DOMAIN NoRows) + 1 = 1
      BY NoRowsTable, FS_EmptySet
    <2>4. ids \in Seq(Track)
      BY AddsAreLists
    <2>5. Dense(Added(NoRows, Cardinality(DOMAIN NoRows) + 1, ids))
      BY <2>4, NoRowsTable, AddedBehind
    <2>6. Dense(g)
      BY <2>3, <2>5
    <2>7. Table(g)
      BY <2>1 DEF TInv, Commit, Table
    <2> HIDE DEF g
    <2> QED BY <2>1, <2>6, <2>7, CommitCounts
  <1>3. ASSUME NEW gone, NEW ids \in {<<>>} \cup Adds, Update(gone, ids) PROVE CInv'
    <2> DEFINE kept == IF gone = {} THEN rows ELSE Renumbered(Keep(rows, DOMAIN rows \ gone))
               g == Added(kept, NextPos(kept), ids)
               m == gone # {}
    <2>1. /\ Table(kept) /\ DOMAIN kept \subseteq Nat /\ (m \/ ~ragged => Dense(kept))
          /\ (~m => kept = rows)
      <3>1. DOMAIN rows \ gone \in SUBSET DOMAIN rows
        OBVIOUS
      <3> QED BY <1>0, <3>1, LeftRenumbered DEF CInv, NoGaps
    <2>2. ids \in Seq(Track)
      <3>1. <<>> \in Seq(Track)
        OBVIOUS
      <3> QED BY <3>1, AddsAreLists
    <2>3. Commit(g) /\ m \in BOOLEAN /\ req' = Told(req, m) /\ (ragged' <=> (ragged /\ ~m))
      BY <1>0, <1>3 DEF Update
    <2> HIDE DEF kept
    <2>4. Table(g)
      BY <2>3 DEF TInv, Commit, Table
    <2>5. ASSUME m \/ ~ragged PROVE Dense(g) /\ Size(kept) <= Size(g)
      <3>1. Dense(kept) /\ NextPos(kept) = Cardinality(DOMAIN kept) + 1
        BY <2>1, <2>5, NextIsFree
      <3>2. /\ Dense(Added(kept, Cardinality(DOMAIN kept) + 1, ids))
            /\ Cardinality(DOMAIN Added(kept, Cardinality(DOMAIN kept) + 1, ids))
                  = Cardinality(DOMAIN kept) + Len(ids)
        BY <2>1, <2>2, <3>1, AddedBehind
      <3>3. Cardinality(DOMAIN kept) \in Nat /\ Len(ids) \in Nat
        BY <2>1, <2>2, FS_CardinalityType DEF Table
      <3> QED BY <3>1, <3>2, <3>3 DEF Size
    <2> HIDE DEF g
    <2>6. ~m /\ ~ragged => Size(rows) <= Size(g)
      BY <2>1, <2>5
    <2>7. m \/ ~ragged => Dense(g)
      BY <2>5
    <2> HIDE DEF m
    <2> QED BY <2>3, <2>4, <2>6, <2>7, CommitCounts
  <1>4. CASE Delete
    <2>1. rows' = NoRows /\ req' = Told(req, TRUE) /\ ~ragged' /\ ~pls'.exists /\ pls'.deleted
      BY <1>0, <1>4 DEF Delete
    <2>2. Dense(rows)'
      BY <2>1, NoRowsTable DEF Dense
    <2> QED BY <2>1, <2>2, Commits
  <1>5. CASE RemoveOrphans
    <2> DEFINE left == Keep(rows, DOMAIN rows \ Orphans(rows))
               g == Renumbered(left)
    <2>1. DOMAIN rows \ Orphans(rows) \in SUBSET DOMAIN rows
      OBVIOUS
    <2>2. /\ Table(left) /\ Table(g) /\ Dense(g) /\ Size(g) = Size(left)
          /\ DOMAIN left = DOMAIN rows \ Orphans(rows)
          /\ \A p \in DOMAIN left : left[p] = rows[p]
      BY <2>1, LeftRenumbered DEF Size
    <2>3. \A p \in DOMAIN left : left[p] \in media
      BY <2>2 DEF Orphans
    <2>4. CountOf(left, media) = Size(left)
      BY <2>2, <2>3, CountAll DEF Size
    <2>5. Orphans(rows) # {} /\ rows' = g /\ req' = Told(req, TRUE) /\ ~ragged'
          /\ pls' = [pls EXCEPT !.count = CountOf(left, media)]
      BY <1>5 DEF RemoveOrphans
    <2>6. pls.exists
      <3>1. Orphans(NoRows) = {}
        BY NoRowsTable DEF Orphans
      <3> QED BY <2>5, <3>1 DEF CInv, Gone
    <2> HIDE DEF left, g
    <2>7. pls'.exists /\ pls'.count = Size(left)
      BY <1>0, <2>4, <2>5, <2>6
    <2>8. Size(rows)' = Size(left) /\ Dense(rows)'
      BY <2>2, <2>5 DEF Size, Dense
    <2> QED BY <2>5, <2>7, <2>8, Commits
  <1> QED BY <1>1, <1>2, <1>3, <1>4, <1>5
\* A request goes on, or ends; rows and counters are as they were.
LEMMA RequestCounts ==
  ASSUME TInv, CInv, NEW w \in Worker, NEW q, req' = [req EXCEPT ![w] = q],
         UNCHANGED <<rows, pls, media, ragged, stale>>,
         q.pc = "insert" /\ ~q.moved /\ ~ragged => q.at <= Size(rows) + 1,
         q.pc = "save" /\ ~q.late /\ Orphans(rows) = {} => q.n = Size(rows),
         budget'.faults = MaxFaults => budget.faults = MaxFaults,
         Due(w) /\ pls.exists /\ ~ragged /\ budget'.faults = MaxFaults => q.pc \in {"count", "save"}
  PROVE  CInv'
  <1>0. req'[w] = q /\ \A v \in Worker : v # w => req'[v] = req[v]
    BY DEF TInv
  <1>1. Size(rows)' = Size(rows) /\ Orphans(rows)' = Orphans(rows)
    BY DEF Size, Orphans
  <1>2. Gone' /\ NoGaps'
    BY DEF CInv, Gone, NoGaps, Dense
  <1>3. InPlace'
    BY <1>0, <1>1 DEF CInv, InPlace
  <1>4. Saved'
    BY <1>0, <1>1 DEF CInv, Saved
  <1>5. Counted'
    <2>1. ASSUME pls.exists, ~ragged, budget'.faults = MaxFaults, NEW v \in Worker, Due(v)
          PROVE  Due(v)'
      BY <1>0, <1>1, <2>1 DEF Due
    <2> QED BY <1>1, <2>1 DEF CInv, Counted
  <1> QED BY <1>2, <1>3, <1>4, <1>5 DEF CInv

\* A chunk at the next position, or at a place that makes the list ragged.
LEMMA ChunkCounts ==
  ASSUME TInv, CInv, TInv', NEW w \in Worker, AddChunk(w)
  PROVE  CInv'
  <1> DEFINE c == ChunkOf(req[w].ids)
             d == AfterChunk(req[w], c)
             rq == [req EXCEPT ![w] = d]
  <1>0. (Size(rows) \in Nat)'
    BY FS_CardinalityType DEF TInv, Table, Size
  <1>1. /\ req[w] \in Inserting /\ c \in Seq(Track) /\ Len(c) \in Nat \ {0}
        /\ req[w].at \in Nat \ {0}
        /\ rows' = Added(rows, req[w].at, c) /\ req' = Told(rq, FALSE)
        /\ ragged' = (ragged \/ req[w].moved)
    BY ChunkTypes
  <1>2. /\ d \in Request
        /\ \/ d.pc = "count"
           \/ d.pc = "insert" /\ d.at = req[w].at + Len(c) /\ d.moved = req[w].moved
    BY <1>1, AfterChunkShape
  <1>3. /\ pls.exists /\ req[w].pc = "insert" /\ UNCHANGED <<pls, media, smart, stale, budget>>
        /\ (req[w].at .. req[w].at + Len(c) - 1) \cap DOMAIN rows = {}
    BY DEF AddChunk, Places
  <1>4. Table(rows) /\ Size(rows) \in Nat /\ req \in [Worker -> Request] /\ ragged \in BOOLEAN
        /\ req[w].moved \in BOOLEAN
    BY <1>1, SizeType DEF TInv, Inserting
  <1>5. rq \in [Worker -> Request] /\ rq[w] = d /\ \A v \in Worker : v # w => rq[v] = req[v]
    BY <1>2, <1>4
  <1> HIDE DEF c, d, rq
  <1>6. /\ \A v \in Worker : req'[v].pc = rq[v].pc
        /\ \A v \in Worker : rq[v].pc = "insert" =>
             /\ req'[v].at = rq[v].at /\ (req'[v].moved <=> rq[v].moved)
             /\ rq[v].at \in Nat
        /\ \A v \in Worker : rq[v].pc = "save" => req'[v].late = TRUE
    <2>1. FALSE \in BOOLEAN
      OBVIOUS
    <2>2. \A v \in Worker : rq[v].pc = "insert" => rq[v].at \in Nat
      BY <1>5, RequestKinds DEF Inserting
    <2> QED BY <1>1, <1>5, <2>1, <2>2, ToldShape
  <1>7. ASSUME ~ragged' PROVE /\ req[w].at = Size(rows) + 1 /\ ~ragged /\ ~req[w].moved
                             /\ Dense(rows)' /\ Size(rows)' = Size(rows) + Len(c)
    <2>1. ~ragged /\ ~req[w].moved
      BY <1>1, <1>7
    <2>2. req[w].at <= Size(rows) + 1
      BY <1>3, <2>1 DEF CInv, InPlace
    <2>3. Dense(rows) /\ DOMAIN rows = 1 .. Size(rows)
      BY <2>1 DEF CInv, NoGaps, Dense, Size
    <2>4. req[w].at \notin DOMAIN rows
      BY <1>1, <1>3
    <2>5. req[w].at = Size(rows) + 1
      BY <1>1, <1>4, <2>2, <2>3, <2>4
    <2>6. /\ Dense(Added(rows, Cardinality(DOMAIN rows) + 1, c))
          /\ Cardinality(DOMAIN Added(rows, Cardinality(DOMAIN rows) + 1, c))
                = Cardinality(DOMAIN rows) + Len(c)
      BY <1>1, <1>4, <2>3, AddedBehind
    <2>7. rows' = Added(rows, Cardinality(DOMAIN rows) + 1, c)
      BY <1>1, <2>5 DEF Size
    <2>8. Dense(rows)'
      BY <2>6, <2>7 DEF Dense
    <2> QED BY <2>1, <2>5, <2>6, <2>7, <2>8 DEF Size
  <1>8. Gone' /\ NoGaps'
    BY <1>3, <1>7 DEF Gone, NoGaps
  <1>9. InPlace'
    <2>1. ASSUME NEW v \in Worker, req'[v].pc = "insert", ~req'[v].moved, ~ragged'
          PROVE  req'[v].at <= Size(rows)' + 1
      <3>1. rq[v].pc = "insert" /\ ~rq[v].moved /\ req'[v].at = rq[v].at /\ rq[v].at \in Nat
        BY <1>6, <2>1
      <3>2. req[w].at = Size(rows) + 1 /\ ~ragged /\ Size(rows)' = Size(rows) + Len(c)
        BY <1>7, <2>1
      <3>3. CASE v = w
        <4>1. rq[v].at = req[w].at + Len(c)
          BY <1>2, <1>5, <3>1, <3>3
        <4>2. (Size(rows) + 1) + Len(c) = (Size(rows) + Len(c)) + 1
          BY <1>1, <1>4
        <4>3. req'[v].at = Size(rows)' + 1
          BY <3>1, <3>2, <4>1, <4>2
        <4> QED BY <1>0, <4>3
      <3>4. CASE v # w
        <4>1. rq[v].at <= Size(rows) + 1
          BY <1>5, <3>1, <3>2, <3>4 DEF CInv, InPlace
        <4>2. Size(rows) + 1 <= (Size(rows) + Len(c)) + 1
          BY <1>1, <1>4
        <4>3. rq[v].at \in Nat /\ Size(rows)' = Size(rows) + Len(c) /\ req'[v].at = rq[v].at
          BY <3>1, <3>2
        <4>4. PICK x \in Nat, y \in Nat, z \in Nat :
                 x = rq[v].at /\ y = Size(rows) /\ z = Size(rows)' /\ x <= y + 1 /\ y + 1 <= z + 1
          BY <1>4, <1>0, <4>1, <4>2, <4>3
        <4>5. x <= z + 1
          BY <4>4
        <4> QED BY <4>3, <4>4, <4>5
      <3> QED BY <3>3, <3>4
    <2> QED BY <2>1 DEF InPlace
  <1>10. Saved'
    BY <1>6 DEF Saved
  <1>11. Counted'
    <2>1. ASSUME ~ragged' PROVE Due(w)'
      <3>1. req[w].at = Size(rows) + 1 /\ Size(rows)' = Size(rows) + Len(c) /\ ~req[w].moved
        BY <1>7, <2>1
      <3>2. CASE d.pc = "count"
        BY <1>5, <1>6, <3>2 DEF Due
      <3>3. CASE d.pc = "insert" /\ d.at = req[w].at + Len(c) /\ d.moved = req[w].moved
        <4>1. req'[w].pc = "insert" /\ ~req'[w].moved /\ req'[w].at = req[w].at + Len(c)
          BY <1>5, <1>6, <3>1, <3>3
        <4>2. (Size(rows) + 1) + Len(c) = (Size(rows) + Len(c)) + 1
          BY <1>1, <1>4
        <4>3. req'[w].at = Size(rows)' + 1
          BY <3>1, <4>1, <4>2
        <4> QED BY <4>1, <4>3 DEF Due
      <3> QED BY <1>2, <3>2, <3>3
    <2> QED BY <2>1 DEF Counted
  <1> QED BY <1>8, <1>9, <1>10, <1>11 DEF CInv

LEMMA RequestStepCounts ==
  ASSUME TInv, CInv, TInv', NEW w \in Worker,
         \/ Begin(w) \/ UpdateMetadata(w)
         \/ NotFound(w) \/ Add(w) \/ AddRejected(w)
         \/ CountTracks(w) \/ SaveCounters(w)
         \/ RemoveOldTracks(w) \/ LoadChild(w) \/ InsertMatches(w)
         \/ SetEvaluatedAt(w) \/ Fails(w)
  PROVE  CInv'
  <1>0. /\ Table(rows) /\ DOMAIN rows \subseteq Nat /\ Size(rows) \in Nat
        /\ req \in [Worker -> Request] /\ req[w] \in Request
        /\ pls \in [exists : BOOLEAN, deleted : BOOLEAN, count : Nat]
    BY SizeType DEF TInv
  <1>1. CASE Begin(w)
    <2>1. PICK q \in Requests : req' = [req EXCEPT ![w] = q]
      BY <1>1 DEF Begin
    <2>2. q.pc \in {"refresh", "add", "metadata"}
      BY DEF Requests
    <2>3. ~Due(w)
      BY <1>1 DEF Begin, Idle, Due
    <2>4. UNCHANGED <<rows, pls, media, ragged, stale>> /\ budget'.faults = budget.faults
      BY <1>1, Budgets DEF Begin
    <2> QED BY <2>1, <2>2, <2>3, <2>4, RequestCounts
  <1>2. CASE UpdateMetadata(w)
    <2>0. /\ pls'.exists /\ UNCHANGED <<rows, media, smart, ragged, stale, budget>>
          /\ req'[w].pc = "count" /\ \A v \in Worker : v # w => req'[v] = req[v]
      BY <1>0, <1>2 DEF UpdateMetadata
    <2>1. Size(rows)' = Size(rows) /\ Orphans(rows)' = Orphans(rows)
      BY <2>0 DEF Size, Orphans
    <2>2. Gone' /\ NoGaps'
      BY <2>0 DEF CInv, Gone, NoGaps, Dense
    <2>3. InPlace' /\ Saved'
      <3>1. \A v \in Worker : req'[v].pc \in {"insert", "save"} => req'[v] = req[v]
        BY <2>0
      <3> QED BY <2>0, <2>1, <3>1 DEF CInv, InPlace, Saved
    <2>4. Due(w)'
      BY <2>0 DEF Due
    <2> QED BY <2>2, <2>3, <2>4 DEF CInv, Counted
  <1>3. CASE NotFound(w)
    <2>1. req' = [req EXCEPT ![w] = Idle] /\ UNCHANGED <<rows, pls, media, ragged, stale, budget>>
          /\ ~Due(w) /\ Idle.pc = "idle"
      BY <1>3 DEF NotFound, Due, Idle
    <2> QED BY <2>1, RequestCounts
  <1>4. CASE AddRejected(w)
    <2>1. /\ req' = [req EXCEPT ![w] = Idle] /\ UNCHANGED <<rows, pls, media, ragged, stale, budget>>
          /\ Idle.pc = "idle" /\ req[w].pc = "insert"
          /\ ~pls.exists \/ Places(w) \cap DOMAIN rows # {}
      BY <1>4 DEF AddRejected, Idle
    <2>2. req[w].at \in Nat
      BY <1>0, <2>1, RequestKinds DEF Inserting
    <2>3. ASSUME Due(w), pls.exists, ~ragged PROVE FALSE
      <3>1. req[w].at = Size(rows) + 1
        BY <2>1, <2>3 DEF Due
      <3>2. DOMAIN rows = 1 .. Size(rows)
        BY <2>3 DEF CInv, NoGaps, Dense, Size
      <3>3. PICK p \in Places(w) : p \in DOMAIN rows
        BY <2>1, <2>3
      <3>4. p \in Int /\ p >= req[w].at
        <4>1. p \in req[w].at .. req[w].at + Len(ChunkOf(req[w].ids)) - 1
          BY <3>3 DEF Places
        <4>2. p \in Nat
          BY <1>0, <3>3
        <4> QED BY <2>2, <4>1, <4>2
      <3> QED BY <1>0, <3>1, <3>2, <3>3, <3>4
    <2> QED BY <2>1, <2>3, RequestCounts
  <1>5. CASE Add(w)
    <2> DEFINE q == [pc |-> "insert", ids |-> req[w].ids, at |-> NextPos(rows), moved |-> FALSE]
    <2>1. q.pc = "insert" /\ q.at = NextPos(rows)
      OBVIOUS
    <2>2. req' = [req EXCEPT ![w] = q] /\ UNCHANGED <<rows, pls, media, ragged, stale, budget>>
          /\ ~Due(w)
      BY <1>5 DEF Add, Due
    <2> HIDE DEF q
    <2>3. ~ragged => q.at <= Size(rows) + 1
      BY <1>0, <2>1, NextIsFree DEF CInv, NoGaps, Size
    <2> QED BY <2>1, <2>2, <2>3, RequestCounts
  <1>6. CASE CountTracks(w)
    <2> DEFINE q == [pc |-> "save", n |-> CountOf(rows, media), late |-> FALSE]
    <2>1. q.pc = "save" /\ q.n = CountOf(rows, media)
      OBVIOUS
    <2>2. req' = [req EXCEPT ![w] = q] /\ UNCHANGED <<rows, pls, media, ragged, stale, budget>>
      BY <1>6 DEF CountTracks
    <2> HIDE DEF q
    <2>3. Orphans(rows) = {} => q.n = Size(rows)
      <3>1. Orphans(rows) = {} => \A p \in DOMAIN rows : rows[p] \in media
        BY DEF Orphans
      <3> QED BY <1>0, <2>1, <3>1, CountAll DEF Size
    <2> QED BY <2>1, <2>2, <2>3, RequestCounts
  <1>7. CASE SaveCounters(w)
    <2>0. /\ req[w].pc = "save" /\ UNCHANGED <<rows, media, smart, ragged, budget>>
          /\ req' = [req EXCEPT ![w] = Idle] /\ Idle.pc = "idle"
          /\ pls.exists => pls' = [pls EXCEPT !.count = req[w].n] /\ stale' = req[w].late
          /\ ~pls.exists => UNCHANGED pls
      BY <1>7 DEF SaveCounters, Idle
    <2>1. Size(rows)' = Size(rows) /\ Orphans(rows)' = Orphans(rows)
      BY <2>0 DEF Size, Orphans
    <2>2. pls'.exists = pls.exists /\ pls'.deleted = pls.deleted
      BY <1>0, <2>0
    <2>3. Gone' /\ NoGaps'
      BY <2>0, <2>2 DEF CInv, Gone, NoGaps, Dense
    <2>4. \A v \in Worker : req'[v].pc \in {"insert", "save"} => req'[v] = req[v]
      BY <1>0, <2>0
    <2>5. InPlace' /\ Saved'
      BY <2>0, <2>1, <2>4 DEF CInv, InPlace, Saved
    <2>6. Counted'
      <3>1. ASSUME pls'.exists, ~stale', Orphans(rows)' = {} PROVE pls'.count = Size(rows)'
        <4>1. pls.exists /\ pls'.count = req[w].n /\ ~req[w].late
          BY <1>0, <2>0, <2>2, <3>1
        <4>2. req[w].n = Size(rows)
          BY <2>0, <2>1, <3>1, <4>1 DEF CInv, Saved
        <4> QED BY <2>1, <4>1, <4>2
      <3> QED BY <3>1 DEF Counted
    <2> QED BY <2>3, <2>5, <2>6 DEF CInv
  <1>8. CASE RemoveOldTracks(w) \/ LoadChild(w) \/ InsertMatches(w) \/ SetEvaluatedAt(w)
    <2>1. PICK v \in {"idle", "child", "fill", "evaluated"} :
             req' = [req EXCEPT ![w] = [pc |-> v]]
      BY <1>8 DEF RemoveOldTracks, LoadChild, InsertMatches, SetEvaluatedAt, Goto
    <2>2. UNCHANGED <<rows, pls, media, ragged, stale, budget>> /\ ~Due(w)
      BY <1>8 DEF RemoveOldTracks, LoadChild, InsertMatches, SetEvaluatedAt, Due
    <2>3. [pc |-> v].pc = v
      OBVIOUS
    <2> QED BY <2>1, <2>2, <2>3, RequestCounts
  <1>9. CASE Fails(w)
    <2>1. /\ req' = [req EXCEPT ![w] = Idle] /\ UNCHANGED <<rows, pls, media, ragged, stale>>
          /\ Idle.pc = "idle"
      BY <1>9 DEF Fails, Idle
    <2>2. budget'.faults # MaxFaults
      BY <1>9, Budgets DEF Fails
    <2> QED BY <2>1, <2>2, RequestCounts
  <1> QED BY <1>1, <1>2, <1>3, <1>4, <1>5, <1>6, <1>7, <1>8, <1>9

LEMMA CInvStep == TInv /\ CInv /\ TInv' /\ [Next]_vars => CInv'
  <1> SUFFICES ASSUME TInv, CInv, TInv', [Next]_vars PROVE CInv'
    OBVIOUS
  <1>1. ASSUME UNCHANGED <<rows, pls, req, ragged, stale>>, media' \subseteq media,
               budget'.faults = budget.faults
        PROVE  CInv'
    <2>1. Size(rows)' = Size(rows) /\ (Orphans(rows)' = {} => Orphans(rows) = {})
      BY <1>1 DEF Size, Orphans
    <2>2. \A w \in Worker : Due(w)' <=> Due(w)
      BY <1>1, <2>1 DEF Due
    <2>3. Gone' /\ NoGaps' /\ InPlace'
      BY <1>1, <2>1 DEF CInv, Gone, NoGaps, Dense, InPlace
    <2>4. Saved'
      BY <1>1, <2>1 DEF CInv, Saved
    <2>5. Counted'
      BY <1>1, <2>1, <2>2 DEF CInv, Counted
    <2> QED BY <2>3, <2>4, <2>5 DEF CInv
  <1>2. CASE DelayPasses
    BY <1>1, <1>2 DEF DelayPasses
  <1>3. ASSUME NEW t \in Track, LoseFile(t) PROVE CInv'
    <2>1. budget'.faults = budget.faults
      BY <1>3, Budgets DEF LoseFile
    <2> QED BY <1>1, <1>3, <2>1 DEF LoseFile
  <1>4. CASE UNCHANGED vars
    BY <1>1, <1>4 DEF vars
  <1> QED BY <1>2, <1>3, <1>4, RequestStepCounts, ChunkCounts, TransactionCounts, ReorderCounts
          DEF Next

LEMMA CountsFollow == TInv /\ CInv => NoGaps /\ CountsTracks
  <1> SUFFICES ASSUME TInv, CInv PROVE CountsTracks
    BY DEF CInv
  <1>1. ~pls.exists => rows = NoRows
    BY DEF CInv, Gone
  <1>2. Quiet => \A w \in Worker : ~Due(w)
    BY DEF Quiet, Due
  <1> QED BY <1>1, <1>2 DEF CInv, Counted, CountsTracks, Size

LEMMA CountsInvariant == Spec => [](TInv /\ CInv)
  BY TInvInit, TInvStep, CInvInit, CInvStep, PTL DEF Spec

\* Positions run from 1 without a gap, until an AddTracks inserts at a place it
\* read before another request renumbered the list, or a client names a
\* position outside the list.
THEOREM NoGapsCorrect == Spec => []NoGaps
  BY CountsInvariant, CountsFollow, PTL

\* The song count shown is the number of tracks when no request is adding
\* tracks, however requests overlapped; a deleted playlist has no tracks.
THEOREM CountsTracksCorrect == Spec => []CountsTracks
  BY CountsInvariant, CountsFollow, PTL
----------------------------------------------------------------------------
(* The smart playlist.                                                     *)

\* Who removed the tracks will insert them, or somebody else will; only a
\* playlist that was never evaluated has had none.
Filled ==
    budget.faults = MaxFaults /\ ~pls.deleted /\ ~smart.filled
        => \/ \E w \in Worker : req[w].pc \in {"child", "fill"}
           \/ smart.evaluated = "never" /\ \A w \in Worker : req[w].pc # "evaluated"

LEMMA FilledStep == TInv /\ Gone /\ Filled /\ [Next]_vars => Filled'
  <1> SUFFICES ASSUME TInv, Gone, Filled, [Next]_vars PROVE Filled'
    OBVIOUS
  <1>0. /\ req \in [Worker -> Request]
        /\ pls \in [exists : BOOLEAN, deleted : BOOLEAN, count : Nat]
        /\ smart \in [filled : BOOLEAN, evaluated : {"never", "fresh", "old"}]
    BY DEF TInv
  \* Steps that have no part in a refresh.
  <1>1. ASSUME smart' = smart, pls.deleted => pls'.deleted,
               budget'.faults = MaxFaults => budget.faults = MaxFaults,
               \A w \in Worker : /\ req[w].pc \in {"child", "fill"} => req'[w].pc = req[w].pc
                                 /\ req'[w].pc = "evaluated" => req[w].pc = "evaluated"
        PROVE  Filled'
    <2>1. ASSUME NEW w \in Worker, req[w].pc \in {"child", "fill"}
          PROVE  req'[w].pc \in {"child", "fill"}
      BY <1>1, <2>1
    <2> QED BY <1>1, <2>1 DEF Filled
  <1>2. ASSUME NEW m \in BOOLEAN, NEW rq \in [Worker -> Request], req' = Told(rq, m)
        PROVE  \A w \in Worker : req'[w].pc = rq[w].pc
    BY <1>2, ToldShape
  <1>3. ASSUME NEW w \in Worker, Begin(w) PROVE Filled'
    <2>1. PICK q \in Requests : req' = [req EXCEPT ![w] = q]
      BY <1>3 DEF Begin
    <2>2. q.pc \in {"refresh", "add", "metadata"} /\ req[w].pc = "idle"
      BY <1>3 DEF Begin, Requests, Idle
    <2>3. budget'.faults = budget.faults
      BY <1>3, Budgets DEF Begin
    <2> QED BY <1>0, <1>1, <1>3, <2>1, <2>2, <2>3 DEF Begin
  <1>4. ASSUME NEW w \in Worker, UpdateMetadata(w) PROVE Filled'
    BY <1>0, <1>1, <1>4 DEF UpdateMetadata
  <1>5. ASSUME NEW w \in Worker,
               NotFound(w) \/ Add(w) \/ AddRejected(w) \/ CountTracks(w) PROVE Filled'
    BY <1>0, <1>1, <1>5 DEF NotFound, Add, AddRejected, CountTracks, Idle
  <1>6. ASSUME NEW w \in Worker, SaveCounters(w) PROVE Filled'
    <2>1. pls.deleted => pls'.deleted
      BY <1>0, <1>6 DEF SaveCounters
    <2> QED BY <1>0, <1>1, <1>6, <2>1 DEF SaveCounters, Idle
  <1>7. ASSUME NEW w \in Worker, AddChunk(w) PROVE Filled'
    <2> DEFINE d == AfterChunk(req[w], ChunkOf(req[w].ids))
               rq == [req EXCEPT ![w] = d]
    <2>1. req' = Told(rq, FALSE) /\ req[w] \in Inserting
      BY <1>7, ChunkTypes
    <2>2. d \in Request /\ d.pc \in {"count", "insert"}
      BY <2>1, AfterChunkShape
    <2> HIDE DEF d
    <2>3. rq \in [Worker -> Request] /\ rq[w] = d /\ \A v \in Worker : v # w => rq[v] = req[v]
      BY <1>0, <2>2
    <2> HIDE DEF rq
    <2>4. FALSE \in BOOLEAN
      OBVIOUS
    <2>5. \A v \in Worker : req'[v].pc = rq[v].pc
      BY <1>2, <2>1, <2>3, <2>4
    <2>6. UNCHANGED <<smart, pls, budget>> /\ req[w].pc = "insert"
      BY <1>7 DEF AddChunk
    <2> QED BY <1>1, <2>2, <2>3, <2>5, <2>6
  <1>8. ASSUME NEW w \in Worker, RemoveOldTracks(w) PROVE Filled'
    <2>1. req'[w].pc = "child"
      BY <1>0, <1>8 DEF RemoveOldTracks, Goto
    <2> QED BY <2>1 DEF Filled
  <1>9. ASSUME NEW w \in Worker, LoadChild(w) PROVE Filled'
    <2>1. UNCHANGED <<smart, pls, budget>>
      BY <1>9 DEF LoadChild
    <2>2. CASE pls.exists
      <3>1. req'[w].pc = "fill"
        BY <1>0, <1>9, <2>2 DEF LoadChild, Goto
      <3> QED BY <3>1 DEF Filled
    <2>3. CASE ~pls.exists
      <3>1. pls'.deleted
        BY <2>1, <2>3 DEF Gone
      <3> QED BY <3>1 DEF Filled
    <2> QED BY <2>2, <2>3
  <1>10. ASSUME NEW w \in Worker, InsertMatches(w) PROVE Filled'
    <2>1. smart'.filled
      BY <1>0, <1>10 DEF InsertMatches
    <2> QED BY <2>1 DEF Filled
  <1>11. ASSUME NEW w \in Worker, SetEvaluatedAt(w) PROVE Filled'
    <2>1. /\ req[w].pc = "evaluated" /\ smart'.filled = smart.filled /\ UNCHANGED <<pls, budget>>
          /\ \A v \in Worker : v # w => req'[v] = req[v]
      BY <1>0, <1>11 DEF SetEvaluatedAt, Goto
    <2>2. ASSUME budget.faults = MaxFaults, ~pls.deleted, ~smart.filled
          PROVE  \E v \in Worker : req'[v].pc \in {"child", "fill"}
      <3>1. PICK v \in Worker : req[v].pc \in {"child", "fill"}
        BY <2>1, <2>2 DEF Filled
      <3> QED BY <2>1, <3>1
    <2> QED BY <2>1, <2>2 DEF Filled
  <1>12. ASSUME NEW w \in Worker, Fails(w) PROVE Filled'
    <2>1. budget'.faults # MaxFaults
      BY <1>12, Budgets DEF Fails
    <2> QED BY <2>1 DEF Filled
  <1>13. ASSUME \/ \E gone \in SUBSET Pos \ {{}} : RemoveTracks(gone)
                \/ \E pos \in Pos, new \in 0 .. MaxPos : ReorderTrack(pos, new)
                \/ \E ids \in Adds : Create(ids)
                \/ \E gone \in {{}} \cup {{p} : p \in Pos}, ids \in {<<>>} \cup Adds : Update(gone, ids)
                \/ Delete \/ RemoveOrphans
         PROVE  Filled'
    <2>1. PICK m \in BOOLEAN : req' = Told(req, m)
      <3>1. TRUE \in BOOLEAN /\ FALSE \in BOOLEAN /\ \A gone : (gone # {}) \in BOOLEAN
        OBVIOUS
      <3> QED BY <1>13, <3>1 DEF RemoveTracks, ReorderTrack, Create, Update, Delete, RemoveOrphans
    <2>2. \A w \in Worker : req'[w].pc = req[w].pc
      BY <1>0, <1>2, <2>1
    <2>3. smart' = smart
      BY <1>13 DEF RemoveTracks, ReorderTrack, Create, Update, Delete, RemoveOrphans, Commit
    <2>4. pls.deleted => pls'.deleted
      BY <1>0, <1>13
      DEF RemoveTracks, ReorderTrack, Create, Update, Delete, RemoveOrphans, Commit
    <2>5. budget'.faults = budget.faults
      BY <1>13, Budgets DEF RemoveTracks, ReorderTrack, Create, Update, Delete, RemoveOrphans
    <2> QED BY <1>1, <2>2, <2>3, <2>4, <2>5
  <1>14. CASE DelayPasses
    <2>1. UNCHANGED <<req, pls, budget>> /\ smart'.filled = smart.filled /\ smart.evaluated = "fresh"
      BY <1>0, <1>14 DEF DelayPasses
    <2> QED BY <2>1 DEF Filled
  <1>15. ASSUME NEW t \in Track, LoseFile(t) PROVE Filled'
    <2>1. budget'.faults = budget.faults
      BY <1>15, Budgets DEF LoseFile
    <2> QED BY <1>1, <1>15, <2>1 DEF LoseFile
  <1>16. CASE UNCHANGED vars
    BY <1>16 DEF vars, Filled
  <1> QED BY <1>3, <1>4, <1>5, <1>6, <1>7, <1>8, <1>9, <1>10, <1>11, <1>12, <1>13, <1>14, <1>15,
             <1>16 DEF Next

\* However refreshes of a smart playlist overlap: once none is under way, a
\* playlist that was evaluated has its tracks (no statement failed, and the
\* playlist it depends on was not deleted).
THEOREM SmartAtRestCorrect == Spec => []SmartAtRest
  <1>1. Init => Filled
    <2>1. Init => smart.evaluated = "never" /\ \A w \in Worker : req[w].pc = "idle"
      BY DEF Init, Idle
    <2> QED BY <2>1 DEF Filled
  <1>2. TInv /\ CInv => Gone
    BY DEF CInv
  <1>3. Filled => SmartAtRest
    BY DEF Filled, SmartAtRest, Refreshing
  <1> QED BY <1>1, <1>2, <1>3, CountsInvariant, FilledStep, PTL DEF Spec

----------------------------------------------------------------------------
(* The statements on positions.                                            *)

LEMMA MoveInList ==
  ASSUME NEW r, Table(r), Dense(r), NEW pos \in DOMAIN r, NEW new \in DOMAIN r,
         pos < -Sentinel, new < -Sentinel
  PROVE  /\ Dense(Reordered(r, pos, new))
         /\ ListOf(Reordered(r, pos, new)) = Moved(ListOf(r), pos, new)
  <1> DEFINE g == Reordered(r, pos, new)
             u == Moved(r, pos, new)
  <1>1. PICK n \in Nat : n = Cardinality(DOMAIN r) /\ DOMAIN r = 1 .. n
    BY FS_CardinalityType DEF Table, Dense
  <1>2. r \in Seq(Track) /\ Len(r) = n
    BY <1>1 DEF Table
  <1>3. u \in [1 .. n -> Track] /\ \A q \in 1 .. n : u[Goes(pos, new, q)] = r[q]
    BY <1>1, <1>2, MovedGoes
  <1>4. /\ Table(g) /\ DOMAIN g = 1 .. n /\ Dense(g)
        /\ \A q \in 1 .. n : g[Goes(pos, new, q)] = r[q]
    <2>1. CASE pos = new
      <3>1. g = r
        BY <2>1 DEF Reordered
      <3>2. \A q \in 1 .. n : Goes(pos, new, q) = q
        BY <1>1, <2>1 DEF Goes, AfterFlip, Down, Up
      <3> QED BY <1>1, <3>1, <3>2
    <2>2. CASE pos # new
      <3>1. DOMAIN r \subseteq Nat /\ pos \in Nat \ {0} /\ new \in Nat
        BY <1>1
      <3>2. Clear(r, pos, new)
        BY <3>1, SmallIsClear
      <3>3. Table(g)
        BY <2>2, <3>1, <3>2, RowsGo
      <3> QED BY <1>1, <2>2, <3>2, <3>3, ReorderedDense
    <2> QED BY <2>1, <2>2
  <1>5. \A i \in 1 .. n : \E q \in 1 .. n : Goes(pos, new, q) = i
    <2>1. pos \in 1 .. n /\ new \in 1 .. n
      BY <1>1
    <2> QED BY <2>1, GoesWithin
  <1>6. ListOf(r) = r /\ ListOf(g) = g
    BY <1>4, DenseIsList
  <1> HIDE DEF g, u
  <1>7. \A i \in 1 .. n : g[i] = u[i]
    BY <1>3, <1>4, <1>5
  <1>8. g = [i \in 1 .. n |-> g[i]]
    BY <1>4 DEF Table
  <1>9. u = [i \in 1 .. n |-> u[i]]
    BY <1>3
  <1>10. g = u
    BY <1>7, <1>8, <1>9
  <1> QED BY <1>4, <1>6, <1>10 DEF g, u

\* Whatever gaps there are: no renumbering is rejected, and it keeps the order
\* and closes the gaps; no reordering is rejected, in a list without gaps it is
\* the move on sequences, and elsewhere it loses and invents no track.  Clients
\* have to name positions below the sentinel of the reordering: in a list of a
\* million tracks a shifted row can meet it.
THEOREM TracksInPlaceCorrect ==
  ASSUME MaxPos < -Sentinel
  PROVE  Spec => []TracksInPlace
  <1>1. TInv => TracksInPlace
    <2> SUFFICES ASSUME TInv PROVE TracksInPlace
      OBVIOUS
    <2>0. Table(rows) /\ DOMAIN rows \subseteq Nat
      BY DEF TInv
    <2>1. ASSUME NEW gone \in SUBSET Pos
          PROVE  LET left == Keep(rows, DOMAIN rows \ gone)
                 IN /\ RenumberAccepted(left)
                    /\ Dense(Renumbered(left)) /\ ListOf(Renumbered(left)) = ListOf(left)
      <3>1. DOMAIN rows \ gone \in SUBSET DOMAIN rows
        OBVIOUS
      <3> QED BY <3>1, LeftRenumbered
    <2>2. ASSUME NEW pos \in Pos, NEW new \in 0 .. MaxPos
          PROVE  LET after == Reordered(rows, pos, new)
                 IN /\ ReorderAccepted(rows, pos, new)
                    /\ IF Dense(rows) /\ {pos, new} \subseteq DOMAIN rows
                       THEN Dense(after) /\ ListOf(after) = Moved(ListOf(rows), pos, new)
                       ELSE \A t \in Track : Cardinality({p \in DOMAIN after : after[p] = t})
                                               = Cardinality({p \in DOMAIN rows : rows[p] = t})
      <3>1. pos \in Nat \ {0} /\ new \in Nat /\ pos < -Sentinel /\ new < -Sentinel
        BY BoundsAssumption DEF Pos, Sentinel
      <3>2. ReorderAccepted(rows, pos, new)
        <4>1. CASE pos = new
          BY <4>1 DEF ReorderAccepted
        <4>2. CASE pos # new
          <5>1. Clear(rows, pos, new)
            BY <2>0, <3>1, SmallIsClear
          <5> QED BY <2>0, <3>1, <4>2, <5>1, RowsGo
        <4> QED BY <4>1, <4>2
      <3>3. ASSUME Dense(rows), {pos, new} \subseteq DOMAIN rows
            PROVE  /\ Dense(Reordered(rows, pos, new))
                   /\ ListOf(Reordered(rows, pos, new)) = Moved(ListOf(rows), pos, new)
        BY <2>0, <3>1, <3>3, MoveInList
      <3>4. \A t : Cardinality(Copies(Reordered(rows, pos, new), t)) = Cardinality(Copies(rows, t))
        BY <2>0, <3>1, <3>2, ReorderedKeeps
      <3> QED BY <3>2, <3>3, <3>4 DEF Copies
    <2> QED BY <2>1, <2>2 DEF TracksInPlace
  <1> QED BY <1>1, TypeCorrect, PTL
=============================================================================
