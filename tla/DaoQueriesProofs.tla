-------------------------- MODULE DaoQueriesProofs --------------------------
(***************************************************************************)
(* Proofs about the pages of the query server and about the clients that   *)
(* put them together.                                                      *)
(***************************************************************************)
EXTENDS DaoQueries, DaoProofs, SequenceTheorems

(***************************************************************************)
(* The order of a walk.  A finite set of numbers has one increasing        *)
(* sequence, and InOrder finds it.                                         *)
(***************************************************************************)
Increasing(s, S) ==
  /\ s \in [1 .. Cardinality(S) -> S]
  /\ \A i, j \in 1 .. Cardinality(S) : i < j => s[i] < s[j]

LEMMA SameFunction ==
  ASSUME NEW D, NEW S, NEW f \in [D -> S], NEW g \in [D -> S],
         \A x \in D : f[x] = g[x]
  PROVE  f = g
OBVIOUS

LEMMA HasLeast ==
  ASSUME NEW S, IsFiniteSet(S), \A x \in S : x \in Int, S # {}
  PROVE  \E x \in S : \A y \in S : x <= y
<1> DEFINE below(x) == {y \in S : y < x}
           T == {below(x) : x \in S}
<1>1. T \subseteq SUBSET S /\ T # {}
  OBVIOUS
<1>2. PICK m \in T : \A s \in T : s \subseteq m => s = m
  <2> HIDE DEF T
  <2> QED BY <1>1, MinimalSubset
<1>3. PICK x \in S : m = below(x)
  BY DEF T
<1>4. ASSUME NEW y \in S, y < x PROVE FALSE
  <2>1. below(y) \in T
    OBVIOUS
  <2>2. below(y) \subseteq below(x)
    BY <1>4
  <2>3. y \in below(x) /\ y \notin below(y)
    BY <1>4
  <2> QED BY <1>2, <1>3, <2>1, <2>2, <2>3
<1> QED BY <1>4

LEMMA IncreasingExists ==
  ASSUME NEW S, IsFiniteSet(S), \A x \in S : x \in Int
  PROVE  \E s : Increasing(s, S)
<1> DEFINE T == {s \in SUBSET S : ~\E t : Increasing(t, s)}
<1> SUFFICES ASSUME T # {} PROVE FALSE
  OBVIOUS
<1>1. T \subseteq SUBSET S
  OBVIOUS
<1> HIDE DEF T
<1>2. PICK m \in T : \A s \in T : s \subseteq m => s = m
  BY <1>1, MinimalSubset
<1>3. m \in SUBSET S /\ IsFiniteSet(m) /\ ~\E t : Increasing(t, m)
  BY FS_Subset DEF T
<1>4. m # {}
  <2>1. SUFFICES ASSUME m = {} PROVE FALSE
    OBVIOUS
  <2>2. Increasing([i \in 1 .. 0 |-> i], m)
    BY <2>1, FS_EmptySet DEF Increasing
  <2> QED BY <1>3, <2>2
<1>5. PICK x \in m : \A y \in m : x <= y
  BY <1>3, <1>4, HasLeast
<1> DEFINE r == m \ {x}
           n == Cardinality(r)
<1>6. IsFiniteSet(r) /\ n \in Nat /\ Cardinality(m) = n + 1
  <2>1. IsFiniteSet(r) /\ Cardinality(r) = Cardinality(m) - 1
    BY <1>3, FS_RemoveElement
  <2>2. n \in Nat /\ Cardinality(m) \in Nat
    BY <1>3, <2>1, FS_CardinalityType
  <2> QED BY <2>1, <2>2
<1>7. PICK t : Increasing(t, r)
  <2>1. r \notin T /\ r \in SUBSET S
    BY <1>2, <1>3
  <2> QED BY <2>1 DEF T
<1> DEFINE u == [i \in 1 .. n + 1 |-> IF i = 1 THEN x ELSE t[i - 1]]
<1>8. Increasing(u, m)
  <2> HIDE DEF n
  <2>1. t \in [1 .. n -> r] /\ \A i, j \in 1 .. n : i < j => t[i] < t[j]
    BY <1>7 DEF Increasing, n
  <2>2. \A i \in 1 .. n + 1 : i # 1 => i - 1 \in 1 .. n /\ u[i] = t[i - 1]
    BY <1>6
  <2>3. u[1] = x
    BY <1>6
  <2>4. \A i \in 1 .. n : t[i] \in m /\ x < t[i]
    BY <1>3, <1>5, <2>1
  <2>5. u \in [1 .. n + 1 -> m]
    BY <2>2, <2>3, <2>4
  <2>6. ASSUME NEW i \in 1 .. n + 1, NEW j \in 1 .. n + 1, i < j
        PROVE  u[i] < u[j]
    <3>1. CASE i = 1
      BY <1>6, <2>2, <2>3, <2>4, <2>6, <3>1
    <3>2. CASE i # 1
      BY <1>6, <2>1, <2>2, <2>6, <3>2
    <3> QED BY <3>1, <3>2
  <2> HIDE DEF u
  <2> QED BY <1>6, <2>5, <2>6 DEF Increasing
<1> QED BY <1>3, <1>8

(* It meets every member.                                                  *)
LEMMA IncreasingOnto ==
  ASSUME NEW S, IsFiniteSet(S), \A x \in S : x \in Int, NEW s, Increasing(s, S),
         NEW x \in S
  PROVE  \E i \in 1 .. Cardinality(S) : s[i] = x
<1> SUFFICES ASSUME \A i \in 1 .. Cardinality(S) : s[i] # x PROVE FALSE
  OBVIOUS
<1> DEFINE n == Cardinality(S)
<1>1. n \in Nat /\ Cardinality(S \ {x}) = n - 1 /\ IsFiniteSet(S \ {x})
  BY FS_RemoveElement, FS_CardinalityType
<1>2. IsFiniteSet(1 .. n) /\ Cardinality(1 .. n) = n
  BY <1>1, FS_Interval
<1>3. s \in [1 .. n -> S \ {x}]
  BY DEF Increasing
<1>4. PICK i \in 1 .. n, j \in 1 .. n : i # j /\ s[i] = s[j]
  <2>1. Cardinality(S \ {x}) < Cardinality(1 .. n)
    BY <1>1, <1>2
  <2> QED BY <1>1, <1>2, <1>3, <2>1, FS_PigeonHole
<1>5. s[i] \in Int /\ s[j] \in Int /\ (i < j \/ j < i)
  BY <1>1, <1>4 DEF Increasing
<1> QED BY <1>4, <1>5 DEF Increasing

LEMMA IncreasingUnique ==
  ASSUME NEW S, IsFiniteSet(S), \A x \in S : x \in Int,
         NEW s, Increasing(s, S), NEW t, Increasing(t, S)
  PROVE  s = t
<1> DEFINE n == Cardinality(S)
           D == {i \in 1 .. n : s[i] # t[i]}
<1>1. n \in Nat
  BY FS_CardinalityType
<1>2. /\ s \in [1 .. n -> S] /\ t \in [1 .. n -> S]
      /\ \A i, j \in 1 .. n : i < j => s[i] < s[j] /\ t[i] < t[j]
  BY DEF Increasing
<1>same. ASSUME D = {} PROVE s = t
  <2> DEFINE I == 1 .. n
  <2>1. s \in [I -> S] /\ t \in [I -> S]
    BY <1>2
  <2>2. \A i \in I : s[i] = t[i]
    BY <1>same
  <2> HIDE DEF I
  <2> QED BY <2>1, <2>2, SameFunction
<1>3. SUFFICES ASSUME D # {} PROVE FALSE
  BY <1>same
<1>4. IsFiniteSet(D) /\ \A x \in D : x \in Int
  <2>1. IsFiniteSet(1 .. n)
    BY <1>1, FS_Interval
  <2> QED BY <1>1, <2>1, FS_Subset
<1>5. PICK i \in D : \A j \in D : i <= j
  <2> HIDE DEF D
  <2> QED BY <1>3, <1>4, HasLeast
<1>6. /\ i \in 1 .. n /\ s[i] # t[i]
      /\ \A j \in 1 .. n : j < i => s[j] = t[j]
  BY <1>1, <1>5
<1>7. PICK j \in 1 .. n : t[j] = s[i]
  <2>1. s[i] \in S
    BY <1>2, <1>6
  <2> QED BY <2>1, IncreasingOnto
<1>8. PICK k \in 1 .. n : s[k] = t[i]
  <2>1. t[i] \in S
    BY <1>2, <1>6
  <2> QED BY <2>1, IncreasingOnto
<1>9. i \in Int /\ j \in Int /\ k \in Int /\ s[i] \in Int /\ t[i] \in Int
  BY <1>1, <1>2, <1>6
<1>10. CASE s[i] < t[i]
  <2>1. j # i /\ ~(i < j)
    BY <1>2, <1>6, <1>7, <1>9, <1>10
  <2>2. s[j] < s[i] /\ s[j] = s[i]
    BY <1>2, <1>6, <1>7, <1>9, <2>1
  <2> QED BY <1>9, <2>2
<1>11. CASE t[i] < s[i]
  <2>1. k # i /\ ~(i < k)
    BY <1>2, <1>6, <1>8, <1>9, <1>11
  <2>2. t[k] < t[i] /\ t[k] = t[i]
    BY <1>2, <1>6, <1>8, <1>9, <2>1
  <2> QED BY <1>9, <2>2
<1> QED BY <1>6, <1>9, <1>10, <1>11

LEMMA InOrderIncreasing ==
  ASSUME NEW S, IsFiniteSet(S), \A x \in S : x \in Int
  PROVE  Increasing(InOrder(S), S)
<1> DEFINE n == Cardinality(S)
<1>1. n \in Nat
  BY FS_CardinalityType
<1>2. PICK s : Increasing(s, S)
  BY IncreasingExists
<1>3. s \in SetToSeqs(S) /\ \A i, j \in DOMAIN s : i < j => s[i] < s[j]
  <2>1. /\ s \in [1 .. n -> S] /\ DOMAIN s = 1 .. n
        /\ \A i, j \in 1 .. n : i < j => s[i] < s[j]
    BY <1>2 DEF Increasing
  <2>2. \A i \in 1 .. n : i \in Int /\ s[i] \in Int
    BY <1>1, <2>1
  <2>3. \A i, j \in 1 .. n : i # j => s[i] # s[j]
    BY <2>1, <2>2
  <2> QED BY <2>1, <2>3 DEF SetToSeqs
<1>4. /\ InOrder(S) \in SetToSeqs(S)
      /\ \A i, j \in DOMAIN InOrder(S) : i < j => InOrder(S)[i] < InOrder(S)[j]
  BY <1>3 DEF InOrder
<1>5. InOrder(S) \in [1 .. n -> S] /\ DOMAIN InOrder(S) = 1 .. n
  BY <1>4 DEF SetToSeqs
<1> QED BY <1>4, <1>5 DEF Increasing

(* Members that follow one another.                                        *)
LEMMA InOrderInterval ==
  ASSUME NEW a \in Int, NEW n \in Nat
  PROVE  InOrder(a .. a + n - 1) = [i \in 1 .. n |-> a + i - 1]
<1> DEFINE S == a .. a + n - 1
           s == [i \in 1 .. n |-> a + i - 1]
<1>1. IsFiniteSet(S) /\ Cardinality(S) = n
  BY FS_Interval
<1>2. \A x \in S : x \in Int
  OBVIOUS
<1>3. /\ s \in [1 .. n -> S]
      /\ \A i, j \in 1 .. n : i < j => s[i] < s[j]
  OBVIOUS
<1>4. Increasing(s, S)
  <2> HIDE DEF S, s
  <2> QED BY <1>1, <1>3 DEF Increasing
<1>5. Increasing(InOrder(S), S)
  <2> HIDE DEF S
  <2> QED BY <1>1, <1>2, InOrderIncreasing
<1> HIDE DEF S, s
<1>6. InOrder(S) = s
  BY <1>1, <1>2, <1>4, <1>5, IncreasingUnique
<1> QED BY <1>6 DEF S, s

(***************************************************************************)
(* Pages.                                                                  *)
(***************************************************************************)
Half == Word \div 2

LEMMA WordFacts ==
  /\ Word \in Nat /\ Half \in Nat /\ Word = 2 * Half /\ Half > 2
  /\ DefaultLimit \in Nat /\ 0 < DefaultLimit /\ DefaultLimit < Half
  /\ Limits \subseteq 0 .. Word - 1
BY PowerAssumption, QueryAssumption DEF PowerAssumption, QueryAssumption, Half

LEMMA AskedFacts ==
  ASSUME NEW limit \in 0 .. Word - 1
  PROVE  Asked(limit) \in Nat /\ 0 < Asked(limit) /\ Asked(limit) < Word
BY WordFacts DEF Asked

(* The end of the slice as an int: right, or before its beginning.         *)
LEMMA EndOfPage ==
  ASSUME NEW offset \in 0 .. Half - 1, NEW asked \in 0 .. Word - 1
  PROVE  LET end == AsInt64((offset + AsInt64(asked)) % Word)
         IN  IF offset + asked < Half THEN end = offset + asked
             ELSE end \in Int /\ (end < 0 \/ end <= offset)
BY WordFacts DEF AsInt64, Half

(* The entries of a listing from offset on, as many as were asked for.     *)
SliceLen(n, offset, asked) ==
  IF offset >= n THEN 0 ELSE IF offset + asked > n THEN n - offset ELSE asked

Slice(listing, offset, asked) ==
  [i \in 1 .. SliceLen(Len(listing), offset, asked) |-> listing[offset + i]]

LEMMA SubSeqIs ==
  ASSUME NEW T, NEW s \in Seq(T), NEW a \in 0 .. Len(s), NEW b \in 0 .. Len(s)
  PROVE  SubSeq(s, a + 1, b) = IF b <= a THEN <<>>
                               ELSE [i \in 1 .. b - a |-> s[a + i]]
OBVIOUS

(* What Proposals and Votes return, for every listing, every offset that   *)
(* is an int and every limit of a uint64: the entries asked for while      *)
(* offset and limit add up to an int, and nothing when they do not.  The   *)
(* code converts both to int before it adds them, and clips the two ends   *)
(* one after the other.                                                    *)
THEOREM PageIsSlice ==
  ASSUME NEW T, NEW listing \in Seq(T), NEW offset \in 0 .. Half - 1,
         NEW limit \in 0 .. Word - 1
  PROVE  Page(listing, offset, limit) =
           IF offset + Asked(limit) < Half
             THEN Slice(listing, offset, Asked(limit)) ELSE <<>>
<1> DEFINE n == Len(listing)
           asked == Asked(limit)
           end == AsInt64((offset + AsInt64(asked)) % Word)
           within(i) == IF i < 0 THEN 0 ELSE IF i > n THEN n ELSE i
<1>1. n \in Nat /\ offset \in Nat /\ asked \in Nat /\ 0 < asked /\ asked < Word
  BY WordFacts, AskedFacts, LenProperties
<1>2. AsInt64(offset) = offset
  BY WordFacts DEF AsInt64, Half
<1>3. IF offset + asked < Half THEN end = offset + asked
      ELSE end \in Int /\ (end < 0 \/ end <= offset)
  <2>1. asked \in 0 .. Word - 1
    BY <1>1, WordFacts
  <2> HIDE DEF asked
  <2> QED BY <2>1, EndOfPage
<1>4. end \in Int
  BY <1>1, <1>3
<1>5. Page(listing, offset, limit)
        = SubSeq(listing, within(offset) + 1, within(end))
  BY <1>2 DEF Page
<1>6. within(offset) \in 0 .. n /\ within(end) \in 0 .. n
  <2> HIDE DEF end
  <2> QED BY <1>1, <1>4
<1>7. SubSeq(listing, within(offset) + 1, within(end)) =
        IF within(end) <= within(offset) THEN <<>>
        ELSE [i \in 1 .. within(end) - within(offset) |->
                listing[within(offset) + i]]
  <2> HIDE DEF within
  <2> QED BY <1>6, SubSeqIs
<1> HIDE DEF end, asked
<1>8. CASE ~(offset + asked < Half)
  <2>1. within(end) <= within(offset)
    BY <1>1, <1>3, <1>4, <1>8
  <2> QED BY <1>5, <1>7, <1>8, <2>1 DEF asked
<1>9. CASE offset + asked < Half /\ offset >= n
  <2>1. within(end) <= within(offset)
    BY <1>1, <1>4, <1>9
  <2>2. Slice(listing, offset, asked) = [i \in 1 .. 0 |-> listing[offset + i]]
    BY <1>9 DEF Slice, SliceLen
  <2>3. [i \in 1 .. 0 |-> listing[offset + i]] = <<>>
    OBVIOUS
  <2> QED BY <1>5, <1>7, <1>9, <2>1, <2>2, <2>3 DEF asked
<1>10. CASE offset + asked < Half /\ offset < n
  <2> DEFINE k == IF offset + asked > n THEN n - offset ELSE asked
  <2>1. /\ within(offset) = offset /\ within(end) - within(offset) = k
        /\ ~(within(end) <= within(offset))
    <3>1. end = offset + asked
      BY <1>3, <1>10
    <3>2. asked \in Nat /\ n \in Nat /\ offset \in Nat /\ 0 < asked /\ offset < n
      BY <1>1, <1>10
    <3> HIDE DEF n
    <3> QED BY <3>1, <3>2
  <2>2. Slice(listing, offset, asked) = [i \in 1 .. k |-> listing[offset + i]]
    BY <1>1, <1>10 DEF Slice, SliceLen
  <2> HIDE DEF within, k
  <2> QED BY <1>5, <1>7, <1>10, <2>1, <2>2 DEF asked
<1> QED BY <1>1, <1>8, <1>9, <1>10

(* A slice is a sequence that continues what came before it.               *)
Continues(p, s, a, asked, T) ==
  LET n == Len(s)
      k == Len(p)
  IN  /\ p \in Seq(T) /\ k \in Nat /\ a + k <= n
      /\ k = asked \/ a + k = n
      /\ p = <<>> <=> a = n
      /\ \A i \in 1 .. k : p[i] = s[a + i]

LEMMA SliceFacts ==
  ASSUME NEW T, NEW s \in Seq(T), NEW a \in Nat, a <= Len(s),
         NEW asked \in Nat, 0 < asked
  PROVE  Continues(Slice(s, a, asked), s, a, asked, T)
<1> DEFINE n == Len(s)
           k == SliceLen(n, a, asked)
           p == [i \in 1 .. k |-> s[a + i]]
<1>1. n \in Nat /\ a <= n
  BY LenProperties
<1>2. /\ k \in Nat /\ a + k <= n /\ (k = 0 <=> a = n)
      /\ k = asked \/ a + k = n
  <2> HIDE DEF n
  <2> QED BY <1>1 DEF SliceLen
<1>3. Slice(s, a, asked) = p
  BY DEF Slice
<1> HIDE DEF k
<1>4. \A i \in 1 .. k : s[a + i] \in T
  BY <1>1, <1>2, LenProperties
<1>5. p \in Seq(T) /\ Len(p) = k
  BY <1>2, <1>4
<1>6. p = <<>> <=> k = 0
  BY <1>2, <1>5
<1>7. \A i \in 1 .. k : p[i] = s[a + i]
  OBVIOUS
<1> HIDE DEF p
<1> QED BY <1>2, <1>3, <1>5, <1>6, <1>7 DEF Continues

-----------------------------------------------------------------------------
(* The listing of all proposals: their ids from 0 on.                      *)
Ids(n) == [i \in 1 .. n |-> i - 1]

LEMMA ListingIs ==
  ASSUME TypeOK
  PROVE  /\ FilteredProposals("any", "any") = Ids(ProposalSeq)
         /\ Ids(ProposalSeq) \in Seq(Nat) /\ Len(Ids(ProposalSeq)) = ProposalSeq
<1>1. ProposalSeq \in Nat /\ DOMAIN Proposals = 0 .. 0 + ProposalSeq - 1
  BY DEF TypeOK
<1>2. {id \in DOMAIN Proposals :
         /\ "any" \in {"any", Proposals[id].Proposer}
         /\ "any" \in {"any", Proposals[id].Status}} = DOMAIN Proposals
  OBVIOUS
<1>3. InOrder(0 .. 0 + ProposalSeq - 1) = [i \in 1 .. ProposalSeq |-> 0 + i - 1]
  BY <1>1, InOrderInterval
<1>4. FilteredProposals("any", "any") = Ids(ProposalSeq)
  <2>1. FilteredProposals("any", "any") = InOrder(DOMAIN Proposals)
    BY <1>2, Zenon DEF FilteredProposals
  <2>2. [i \in 1 .. ProposalSeq |-> 0 + i - 1] = Ids(ProposalSeq)
    BY <1>1 DEF Ids
  <2> QED BY <1>1, <1>3, <2>1, <2>2
<1>5. Ids(ProposalSeq) \in Seq(Nat) /\ Len(Ids(ProposalSeq)) = ProposalSeq
  BY <1>1 DEF Ids
<1> QED BY <1>4, <1>5

(* A slice of that listing is the listing of its part.                     *)
LEMMA SliceOfIds ==
  ASSUME NEW n \in Nat, NEW offset \in Nat, NEW asked \in Nat, 0 < asked
  PROVE  Slice(Ids(n), offset, asked)
           = InOrder({id \in 0 .. n - 1 : offset <= id /\ id < offset + asked})
<1> DEFINE S == {id \in 0 .. n - 1 : offset <= id /\ id < offset + asked}
           k == SliceLen(n, offset, asked)
<1>1. Len(Ids(n)) = n
  BY DEF Ids
<1>2. Slice(Ids(n), offset, asked) = [i \in 1 .. k |-> Ids(n)[offset + i]]
  BY <1>1 DEF Slice
<1>3. k \in Nat /\ (k # 0 => offset + k <= n)
  BY DEF SliceLen
<1>4. S = offset .. offset + k - 1
  BY DEF SliceLen
<1> HIDE DEF k, S
<1>5. InOrder(S) = [i \in 1 .. k |-> offset + i - 1]
  BY <1>3, <1>4, InOrderInterval
<1>6. \A i \in 1 .. k : Ids(n)[offset + i] = offset + i - 1
  BY <1>3 DEF Ids
<1> QED BY <1>2, <1>5, <1>6 DEF S

(* The steps of a client leave the DAO alone, so that what is proved of    *)
(* every step of the DAO holds here as well.                               *)
LEMMA QueryStep == [QueryNext]_queryVars => [Next]_vars
BY DEF QueryNext, queryVars, StartListing, StartAudit, FetchPage, LastPage

LEMMA QueriesImplementDao == QuerySpec => Spec
BY QueryStep, PTL DEF QuerySpec, Spec

LEMMA QueryTypeInv == QuerySpec => []TypeInv
BY QueriesImplementDao, TypeInvHolds, PTL

(* The slice of Proposals at the limits of uint64 and int, in every state. *)
THEOREM PagesAtTheLimits == QuerySpec => []PageAtTheLimits
<1>1. TypeInv => PageAtTheLimits
  <2> SUFFICES ASSUME TypeOK,
                      NEW offset \in (0 .. 2) \cup {(Word \div 2) - 1},
                      NEW limit \in (0 .. 2) \cup
                            {(Word \div 2) - 2, (Word \div 2) - 1,
                             Word \div 2, Word - 1}
               PROVE  Page(FilteredProposals("any", "any"), offset, limit) =
                        IF offset + Asked(limit) >= Word \div 2 THEN <<>>
                        ELSE InOrder({id \in DOMAIN Proposals :
                                        /\ offset <= id
                                        /\ id < offset + Asked(limit)})
    BY DEF TypeInv, PageAtTheLimits
  <2>1. offset \in 0 .. Half - 1 /\ limit \in 0 .. Word - 1 /\ offset \in Nat
    BY WordFacts DEF Half
  <2>2. Asked(limit) \in Nat /\ 0 < Asked(limit)
    BY <2>1, AskedFacts
  <2>3. /\ FilteredProposals("any", "any") = Ids(ProposalSeq)
        /\ Ids(ProposalSeq) \in Seq(Nat)
    BY ListingIs
  <2>4. ProposalSeq \in Nat /\ DOMAIN Proposals = 0 .. ProposalSeq - 1
    BY DEF TypeOK
  <2>5. Page(Ids(ProposalSeq), offset, limit) =
          IF offset + Asked(limit) < Half
            THEN Slice(Ids(ProposalSeq), offset, Asked(limit)) ELSE <<>>
    BY <2>1, <2>3, PageIsSlice
  <2>6. Slice(Ids(ProposalSeq), offset, Asked(limit))
          = InOrder({id \in DOMAIN Proposals :
                       offset <= id /\ id < offset + Asked(limit)})
    BY <2>1, <2>2, <2>4, SliceOfIds, ZenonT(60)
  <2>7. offset + Asked(limit) >= Word \div 2 <=> ~(offset + Asked(limit) < Half)
    BY <2>1, <2>2, WordFacts DEF Half
  <2> QED BY <2>3, <2>5, <2>6, <2>7
<1> QED BY <1>1, QueryTypeInv, PTL

-----------------------------------------------------------------------------
(***************************************************************************)
(* A client.  What it has seen is the beginning of the listing as it is    *)
(* now, although it was read at different heights: for proposals because   *)
(* ids are given out in order and none is ever removed, for votes because  *)
(* the proposal is decided and no vote can come any more.                  *)
(*                                                                         *)
(* The client stops at the first empty page.  That is the end of the       *)
(* listing only if the page is not empty for another reason: a limit of    *)
(* 2^63 or more is a negative int and gives nothing, and an offset and a   *)
(* limit that add up to 2^63 or more do so too.  The second is harmless    *)
(* when the limit exceeds the listing, because then the first page has all *)
(* of it, and excluded otherwise while the listing is shorter than 2^62.   *)
(***************************************************************************)
WithinInts ==
  /\ \A limit \in Limits : Asked(limit) < Half
  /\ 2 * MaxProposals < Half /\ 2 * Len(Addresses) < Half

Upto(s, k) == [i \in 1 .. k |-> s[i]]

(* One page was full, or all that the client has to see it has seen.       *)
UnderWay(k, limit, known) == k = 0 \/ Asked(limit) <= k \/ known <= k

ListInv ==
  LET k == Len(client.seen)
  IN  /\ k \in Nat /\ client.known \in Nat
      /\ k <= ProposalSeq /\ client.known <= ProposalSeq
      /\ client.seen = Ids(k)
      /\ UnderWay(k, client.limit, client.known)
      /\ client.job = "listed" => client.known <= k

AuditInv ==
  LET k == Len(client.seen)
      n == Len(VotesOf(client.id))
  IN  /\ client.id \in DOMAIN Proposals /\ Finished(client.id)
      /\ k \in Nat /\ k <= n
      /\ client.seen = Upto(VotesOf(client.id), k)
      /\ UnderWay(k, client.limit, n)
      /\ client.job = "audited" => k = n

ClientInv ==
  /\ ProposalSeq <= MaxProposals
  /\ DOMAIN client = {"job", "id", "limit", "seen", "known"}
  /\ client.job \in {"idle", "list", "listed", "audit", "audited"}
  /\ client.job # "idle" => client.limit \in Limits
  /\ client.job \in {"list", "listed"} => ListInv
  /\ client.job \in {"audit", "audited"} => AuditInv

LEMMA Joined ==
  ASSUME NEW T, NEW a \in Seq(T), NEW b \in Seq(T), NEW k, NEW r,
         Len(a) = k, Len(b) = r
  PROVE  /\ a \o b \in Seq(T) /\ Len(a \o b) = k + r
         /\ \A i \in 1 .. k + r :
              (a \o b)[i] = IF i <= k THEN a[i] ELSE b[i - k]
OBVIOUS

(* One page, fetched from where the last one ended.                        *)
LEMMA NextPage ==
  ASSUME WithinInts, NEW T, NEW s \in Seq(T), 2 * Len(s) < Half,
         NEW k \in Nat, k <= Len(s), NEW limit \in Limits,
         NEW known \in Nat, known <= Len(s), UnderWay(k, limit, known)
  PROVE  LET p == Page(s, k, limit)
             m == Len(Upto(s, k) \o p)
         IN  /\ p = <<>> => known <= k
             /\ m \in Nat /\ k <= m /\ m <= Len(s)
             /\ Upto(s, k) \o p = Upto(s, m)
             /\ UnderWay(m, limit, known)
<1> DEFINE p == Page(s, k, limit)
           n == Len(s)
           asked == Asked(limit)
           r == Len(p)
           c == Upto(s, k) \o p
<1>1. /\ n \in Nat /\ Half \in Nat /\ k \in 0 .. Half - 1
      /\ limit \in 0 .. Word - 1
  BY LenProperties, WordFacts
<1>2. asked \in Nat /\ 0 < asked /\ asked < Half
  BY <1>1, AskedFacts DEF WithinInts
<1>3. Upto(s, k) \in Seq(T) /\ Len(Upto(s, k)) = k
  BY LenProperties DEF Upto
<1> HIDE DEF asked, p, n
<1>4. CASE k + asked < Half
  <2>1. p = Slice(s, k, asked)
    BY <1>1, <1>4, PageIsSlice DEF p, asked
  <2>2. Continues(p, s, k, asked, T)
    BY <1>2, <2>1, SliceFacts, Zenon
  <2>3. /\ r \in Nat /\ k + r <= n /\ (r = asked \/ k + r = n)
        /\ p \in Seq(T) /\ (p = <<>> <=> k = n)
        /\ \A i \in 1 .. r : p[i] = s[k + i]
    BY <2>2 DEF Continues, n
  <2>4. /\ c \in Seq(T) /\ Len(c) = k + r
        /\ \A i \in 1 .. k + r : c[i] = IF i <= k THEN Upto(s, k)[i] ELSE p[i - k]
    <3>1. p \in Seq(T) /\ Len(p) = r
      BY <2>3
    <3> HIDE DEF r
    <3> QED BY <1>3, <3>1, Joined, SMTT(30)
  <2>5. \A i \in 1 .. k + r : c[i] = s[i]
    BY <2>3, <2>4 DEF Upto
  <2> HIDE DEF c, r
  <2>6. c = Upto(s, k + r)
    <3>1. Upto(s, k + r) \in Seq(T) /\ Len(Upto(s, k + r)) = k + r
      BY <2>3, LenProperties DEF Upto, n
    <3>2. \A i \in 1 .. k + r : Upto(s, k + r)[i] = s[i]
      BY DEF Upto
    <3> QED BY <2>4, <2>5, <3>1, <3>2, SeqEqual
  <2>7. UnderWay(k + r, limit, known)
    BY <1>1, <1>2, <2>3 DEF UnderWay, asked, n
  <2>8. /\ p = <<>> => known <= k
        /\ k + r \in Nat /\ k <= k + r /\ k + r <= n
    BY <1>1, <2>3 DEF n
  <2> QED BY <2>4, <2>6, <2>7, <2>8 DEF c, p, n
<1>5. CASE ~(k + asked < Half)
  <2>1. p = <<>>
    BY <1>1, <1>5, PageIsSlice DEF p, asked
  <2>2. known <= k
    BY <1>1, <1>2, <1>5 DEF UnderWay, asked, n
  <2>3. c = Upto(s, k)
    BY <1>3, <2>1, ConcatEmptySeq
  <2>4. k <= k /\ k <= n
    BY <1>1 DEF n
  <2> HIDE DEF c
  <2> QED BY <1>3, <2>1, <2>2, <2>3, <2>4 DEF c, p, n
<1> QED BY <1>1, <1>2, <1>4, <1>5

LEMMA UptoIds ==
  ASSUME NEW n \in Nat, NEW k \in Nat, k <= n
  PROVE  Upto(Ids(n), k) = Ids(k)
BY DEF Upto, Ids

(***************************************************************************)
(* The votes on one proposal.                                              *)
(***************************************************************************)
VotersAt(id) ==
  {i \in DOMAIN Addresses : <<id, Addresses[i]>> \in DOMAIN Votes}

LEMMA VotersFacts ==
  ASSUME NEW id
  PROVE  LET n == Cardinality(VotersAt(id))
             w == InOrder(VotersAt(id))
         IN  /\ IsFiniteSet(VotersAt(id)) /\ n \in Nat /\ n <= Len(Addresses)
             /\ \A i \in VotersAt(id) : i \in Int
             /\ Increasing(w, VotersAt(id))
             /\ VotesOf(id) = [i \in 1 .. n |-> Votes[<<id, Addresses[w[i]]>>]]
<1> DEFINE S == VotersAt(id)
           n == Cardinality(S)
           w == InOrder(S)
<1>1. Addresses \in Seq(Users)
  BY QueryAssumption DEF QueryAssumption
<1>2. Len(Addresses) \in Nat /\ DOMAIN Addresses = 1 .. Len(Addresses)
  BY <1>1, LenProperties
<1> DEFINE l == Len(Addresses)
<1>3. S \subseteq 1 .. l
  BY <1>2 DEF VotersAt
<1> HIDE DEF l
<1>4. IsFiniteSet(1 .. l) /\ Cardinality(1 .. l) = l
  <2>1. l \in Nat
    BY <1>2 DEF l
  <2> QED BY <2>1, FS_Interval
<1>5. IsFiniteSet(S) /\ n <= l
  BY <1>3, <1>4, FS_Subset
<1>6. n \in Nat
  BY <1>5, FS_CardinalityType
<1>7. \A i \in S : i \in Int
  BY <1>2, <1>3
<1>8. Increasing(w, S)
  <2> HIDE DEF S
  <2> QED BY <1>5, <1>7, InOrderIncreasing
<1>9. DOMAIN w = 1 .. n
  BY <1>8 DEF Increasing
<1>10. VotesOf(id) = [i \in DOMAIN w |-> Votes[<<id, Addresses[w[i]]>>]]
  BY DEF VotesOf, VotersAt
<1> QED BY <1>5, <1>6, <1>7, <1>8, <1>9, <1>10 DEF l

LEMMA FunctionIsSeq ==
  ASSUME NEW T, NEW n \in Nat, NEW s \in [1 .. n -> T]
  PROVE  s \in Seq(T) /\ Len(s) = n
OBVIOUS

VoteRecord == [Option: Options, VotingPower: Nat \ {0}]

LEMMA VotesOfFacts ==
  ASSUME TypeOK, NEW id
  PROVE  /\ VotesOf(id) \in Seq(VoteRecord)
         /\ Len(VotesOf(id)) = Cardinality(VotersAt(id))
         /\ Len(VotesOf(id)) \in Nat /\ Len(VotesOf(id)) <= Len(Addresses)
<1> DEFINE n == Cardinality(VotersAt(id))
           w == InOrder(VotersAt(id))
<1>1. /\ n \in Nat /\ n <= Len(Addresses) /\ Increasing(w, VotersAt(id))
      /\ VotesOf(id) = [i \in 1 .. n |-> Votes[<<id, Addresses[w[i]]>>]]
  BY VotersFacts
<1>2. ASSUME NEW i \in 1 .. n
      PROVE  Votes[<<id, Addresses[w[i]]>>] \in VoteRecord
  <2>1. w[i] \in VotersAt(id)
    BY <1>1 DEF Increasing
  <2>2. <<id, Addresses[w[i]]>> \in DOMAIN Votes
    BY <2>1 DEF VotersAt
  <2> QED BY <2>2 DEF TypeOK, VoteRecord
<1> HIDE DEF n, w
<1>3. VotesOf(id) \in Seq(VoteRecord) /\ Len(VotesOf(id)) = n
  <2> DEFINE v == VotesOf(id)
  <2>1. v \in [1 .. n -> VoteRecord]
    BY <1>1, <1>2
  <2>2. n \in Nat
    BY <1>1
  <2> HIDE DEF v
  <2>3. v \in Seq(VoteRecord) /\ Len(v) = n
    BY <2>1, <2>2, FunctionIsSeq, Zenon
  <2> QED BY <2>3 DEF v
<1> QED BY <1>1, <1>3 DEF n

(* A step that leaves the votes on a proposal alone leaves their listing.  *)
LEMMA SameVotes ==
  ASSUME NEW id,
         \A u \in Users : /\ <<id, u>> \in DOMAIN Votes' <=> <<id, u>> \in DOMAIN Votes
                          /\ <<id, u>> \in DOMAIN Votes =>
                               Votes'[<<id, u>>] = Votes[<<id, u>>]
  PROVE  VotesOf(id)' = VotesOf(id)
<1> DEFINE n == Cardinality(VotersAt(id))
           w == InOrder(VotersAt(id))
<1>1. \A i \in DOMAIN Addresses : Addresses[i] \in Users
  BY QueryAssumption DEF QueryAssumption
<1>2. VotersAt(id)' = VotersAt(id)
  BY <1>1 DEF VotersAt
<1>3. /\ Increasing(w, VotersAt(id))
      /\ VotesOf(id) = [i \in 1 .. n |-> Votes[<<id, Addresses[w[i]]>>]]
  BY VotersFacts
<1>4. VotesOf(id)' = [i \in 1 .. n |-> Votes'[<<id, Addresses[w[i]]>>]]
  <2>1. VotesOf(id) = [i \in DOMAIN w |-> Votes[<<id, Addresses[w[i]]>>]]
    BY DEF VotesOf, VotersAt
  <2>2. VotesOf(id)' =
          [i \in DOMAIN InOrder(VotersAt(id)') |->
             Votes'[<<id, Addresses[InOrder(VotersAt(id)')[i]]>>]]
    BY DEF VotesOf, VotersAt
  <2>3. DOMAIN w = 1 .. n
    BY <1>3 DEF Increasing
  <2> QED BY <1>2, <2>2, <2>3
<1>5. ASSUME NEW i \in 1 .. n
      PROVE  Votes'[<<id, Addresses[w[i]]>>] = Votes[<<id, Addresses[w[i]]>>]
  <2>1. w[i] \in VotersAt(id)
    BY <1>3 DEF Increasing
  <2> QED BY <1>1, <2>1 DEF VotersAt
<1> HIDE DEF n, w
<1> QED BY <1>3, <1>4, <1>5

(* What the steps of the DAO do to a listing under way: proposals are only *)
(* added, at the end, and a decided one stays decided with its votes.      *)
Lasting(id) ==
  /\ id \in DOMAIN Proposals' /\ Finished(id)'
  /\ VotesOf(id)' = VotesOf(id)

LEMMA StepsOfTheDao ==
  ASSUME TypeInv, ProposalSeq <= MaxProposals, Next
  PROVE  /\ ProposalSeq' <= MaxProposals
         /\ restarts' = restarts =>
              /\ ProposalSeq <= ProposalSeq'
              /\ \A id \in DOMAIN Proposals : Finished(id) => Lasting(id)
<1>1. ProposalSeq \in Nat /\ MaxProposals \in Nat
  BY DaoAssumption DEF TypeInv, TypeOK, DaoAssumption
<1>2. CASE UNCHANGED <<Proposals, ProposalSeq, Votes>>
  BY <1>1, <1>2, SameVotes DEF Lasting, Finished, Voting
<1>3. ASSUME NEW who \in Users, NEW c \in Contents, SubmitProposal(who, c)
      PROVE  /\ ProposalSeq < ProposalSeq' /\ ProposalSeq' <= MaxProposals
             /\ \A id \in DOMAIN Proposals : Finished(id) => Lasting(id)
  <2>1. /\ ProposalSeq' = ProposalSeq + 1 /\ Votes' = Votes
        /\ DOMAIN Proposals' = DOMAIN Proposals \cup {ProposalSeq}
        /\ \A j \in DOMAIN Proposals : Proposals'[j] = Proposals[j]
    BY <1>3, SubmitFacts
  <2>2. ProposalSeq < MaxProposals
    BY <1>3 DEF SubmitProposal
  <2> QED BY <1>1, <2>1, <2>2, SameVotes DEF Lasting, Finished, Voting
<1>4. ASSUME NEW who \in Users, NEW id, NEW option, Vote(who, id, option)
      PROVE  /\ ProposalSeq' = ProposalSeq
             /\ \A j \in DOMAIN Proposals : Finished(j) => Lasting(j)
  <2>1. Voting(id) /\ Proposals' = Proposals /\ ProposalSeq' = ProposalSeq
    BY <1>4 DEF Vote
  <2>2. PICK v : Votes' = Put(Votes, <<id, who>>, v)
    BY <1>4 DEF Vote
  <2>3. ASSUME NEW j \in DOMAIN Proposals, Finished(j) PROVE Lasting(j)
    <3>1. j # id
      BY <2>1, <2>3 DEF Finished
    <3>2. VotesOf(j)' = VotesOf(j)
      BY <2>2, <3>1, SameVotes DEF Put
    <3> QED BY <2>1, <2>3, <3>2 DEF Lasting, Finished, Voting
  <2> QED BY <2>1, <2>3
<1>5. ASSUME NEW id, ProcessProposal(id)
      PROVE  /\ ProposalSeq' = ProposalSeq
             /\ \A j \in DOMAIN Proposals : Finished(j) => Lasting(j)
  <2>1. ProposalSeq' = ProposalSeq /\ Votes' = Votes
    BY <1>5 DEF ProcessProposal
  <2>2. Voting(id)
    BY <1>5, ProcessCases
  <2>3. PICK status : Decided(id, status)
    BY <1>5, ProcessCases DEF Rejects, AddsTld, RefusesTld, RefusesGrant, PaysGrant
  <2>4. ASSUME NEW j \in DOMAIN Proposals, Finished(j) PROVE Lasting(j)
    <3>1. j # id
      BY <2>2, <2>4 DEF Finished
    <3>2. j \in DOMAIN Proposals' /\ Proposals'[j] = Proposals[j]
      BY <2>3, <2>4, <3>1 DEF Decided
    <3>3. VotesOf(j)' = VotesOf(j)
      BY <2>1, SameVotes
    <3> QED BY <2>4, <3>2, <3>3 DEF Lasting, Finished, Voting
  <2> QED BY <2>1, <2>4
<1>6. CASE Deliver
  <2>1. CASE \E who \in Users, c \in Contents : SubmitProposal(who, c)
    <3>1. PICK who \in Users, c \in Contents : SubmitProposal(who, c)
      BY <2>1
    <3>2. /\ ProposalSeq < ProposalSeq' /\ ProposalSeq' <= MaxProposals
          /\ \A id \in DOMAIN Proposals : Finished(id) => Lasting(id)
      BY <1>3, <3>1
    <3>3. ProposalSeq' = ProposalSeq + 1
      BY <3>1, SubmitFacts
    <3> QED BY <1>1, <3>2, <3>3
  <2>2. CASE \E who \in Users, id \in DOMAIN Proposals, option \in Options :
               Vote(who, id, option)
    BY <1>1, <1>4, <2>2
  <2> QED BY <1>2, <1>6, <2>1, <2>2 DEF Deliver, BankSend, Inflation
<1>7. CASE Block
  BY <1>1, <1>2, <1>5, <1>7 DEF Block, EndBlockStart, Commit
<1>8. CASE GenesisRestart
  <2>1. ProposalSeq' = 0 /\ restarts' = restarts + 1 /\ restarts \in Nat
    BY <1>8 DEF GenesisRestart, DaoRestart, TypeInv, TypeOK
  <2> QED BY <1>1, <2>1
<1> QED BY <1>2, <1>6, <1>7, <1>8 DEF Next, BoundReached, vars

-----------------------------------------------------------------------------
(* The client's own steps.                                                 *)
LEMMA InitClient == Init /\ client = NoClient => ClientInv
<1> SUFFICES ASSUME Init, client = NoClient PROVE ClientInv
  OBVIOUS
<1>1. ProposalSeq = 0 /\ MaxProposals \in Nat
  BY DaoAssumption DEF Init, DaoAssumption
<1> QED BY <1>1 DEF ClientInv, NoClient

LEMMA DaoClient ==
  ASSUME TypeInv, ClientInv, Next,
         client' = IF restarts' = restarts THEN client ELSE NoClient
  PROVE  ClientInv'
<1>1. /\ ProposalSeq' <= MaxProposals
      /\ restarts' = restarts =>
           /\ ProposalSeq <= ProposalSeq'
           /\ \A id \in DOMAIN Proposals : Finished(id) => Lasting(id)
  BY StepsOfTheDao DEF ClientInv
<1>2. ProposalSeq \in Nat /\ ProposalSeq' \in Nat
  BY NextTypeInv DEF TypeInv, TypeOK
<1>3. CASE restarts' # restarts
  BY <1>1, <1>3 DEF ClientInv, NoClient
<1>4. CASE restarts' = restarts
  <2>1. client' = client
    BY <1>4
  <2>2. ListInv => ListInv'
    BY <1>1, <1>2, <1>4, <2>1 DEF ListInv
  <2>3. AuditInv => AuditInv'
    <3> SUFFICES ASSUME AuditInv PROVE AuditInv'
      OBVIOUS
    <3>1. Lasting(client.id)
      BY <1>1, <1>4 DEF AuditInv
    <3>2. VotesOf(client.id)' = VotesOf(client.id)
      BY <3>1 DEF Lasting
    <3>3. client.id \in DOMAIN Proposals' /\ Finished(client.id)'
      BY <3>1 DEF Lasting
    <3> QED BY <2>1, <3>2, <3>3 DEF AuditInv
  <2> QED BY <1>1, <2>1, <2>2, <2>3 DEF ClientInv
<1> QED BY <1>3, <1>4

LEMMA StartClient ==
  ASSUME TypeInv, ClientInv, NEW limit \in Limits,
         StartListing(limit) \/ \E id \in DOMAIN Proposals : StartAudit(id, limit)
  PROVE  ClientInv'
<1>1. Ids(0) = <<>> /\ Len(<<>>) = 0
  BY DEF Ids
<1>2. UNCHANGED vars /\ ProposalSeq' <= MaxProposals /\ UnderWay(0, limit, 0)
  BY DEF StartListing, StartAudit, ClientInv, vars, UnderWay
<1>3. CASE StartListing(limit)
  <2>1. client' = [job |-> "list", id |-> 0, limit |-> limit, seen |-> <<>>,
                   known |-> Cardinality(DOMAIN Proposals)]
    BY <1>3 DEF StartListing, NoClient
  <2>2. ProposalSeq \in Nat /\ DOMAIN Proposals = 0 .. ProposalSeq - 1
    BY DEF TypeInv, TypeOK
  <2>3. Cardinality(DOMAIN Proposals) = ProposalSeq
    BY <2>2, FS_Interval
  <2>4. ProposalSeq' = ProposalSeq
    BY <1>2 DEF vars
  <2>5. ListInv'
    BY <1>1, <2>1, <2>2, <2>3, <2>4 DEF ListInv, UnderWay
  <2> QED BY <1>2, <2>1, <2>5 DEF ClientInv
<1>4. ASSUME NEW id \in DOMAIN Proposals, StartAudit(id, limit)
      PROVE  ClientInv'
  <2>1. client' = [job |-> "audit", id |-> id, limit |-> limit, seen |-> <<>>,
                   known |-> 0]
    BY <1>4 DEF StartAudit, NoClient
  <2>2. id \in DOMAIN Proposals' /\ Finished(id)'
    BY <1>2, <1>4 DEF StartAudit, Finished, Voting, vars
  <2>3. Len(VotesOf(id)') \in Nat
    BY <1>2, VotesOfFacts DEF TypeInv, VotesOf, vars
  <2>4. Upto(VotesOf(id)', 0) = <<>>
    BY DEF Upto
  <2>5. AuditInv'
    BY <1>1, <2>1, <2>2, <2>3, <2>4 DEF AuditInv, UnderWay
  <2> QED BY <1>2, <2>1, <2>5 DEF ClientInv
<1> QED BY <1>3, <1>4

(* A page of proposals, and a page of votes.                               *)
LEMMA ListPage ==
  ASSUME WithinInts, TypeInv, ClientInv, client.job = "list"
  PROVE  LET m == Len(client.seen \o Answer)
         IN  /\ Answer = <<>> => client.known <= Len(client.seen)
             /\ m \in Nat /\ m <= ProposalSeq /\ client.known <= ProposalSeq
             /\ client.known \in Nat
             /\ client.seen \o Answer = Ids(m)
             /\ UnderWay(m, client.limit, client.known)
<1> DEFINE s == Ids(ProposalSeq)
           k == Len(client.seen)
<1>1. ListInv /\ client.limit \in Limits /\ ProposalSeq <= MaxProposals
  BY DEF ClientInv
<1>2. /\ k \in Nat /\ k <= ProposalSeq /\ client.seen = Ids(k)
      /\ client.known \in Nat /\ client.known <= ProposalSeq
      /\ UnderWay(k, client.limit, client.known)
  BY <1>1 DEF ListInv
<1>3. /\ FilteredProposals("any", "any") = s
      /\ s \in Seq(Nat) /\ Len(s) = ProposalSeq
  BY ListingIs DEF TypeInv
<1>4. ProposalSeq \in Nat /\ MaxProposals \in Nat /\ Half \in Nat
  BY DaoAssumption, WordFacts DEF TypeInv, TypeOK, DaoAssumption
<1>5. 2 * Len(s) < Half
  BY <1>1, <1>3, <1>4 DEF WithinInts
<1>6. client.seen = Upto(s, k)
  BY <1>2, <1>4, UptoIds
<1>7. Answer = Page(s, k, client.limit)
  BY <1>3 DEF Answer
<1> HIDE DEF s, k
<1>8. LET m == Len(client.seen \o Answer)
      IN  /\ Answer = <<>> => client.known <= k
          /\ m \in Nat /\ m <= ProposalSeq
          /\ client.seen \o Answer = Upto(s, m)
          /\ UnderWay(m, client.limit, client.known)
  BY <1>1, <1>2, <1>3, <1>5, <1>6, <1>7, NextPage, ZenonT(60)
<1>9. \A m \in Nat : m <= ProposalSeq => Upto(s, m) = Ids(m)
  BY <1>4, UptoIds DEF s
<1> QED BY <1>2, <1>8, <1>9 DEF k

LEMMA AuditPage ==
  ASSUME WithinInts, TypeInv, ClientInv, client.job = "audit"
  PROVE  LET m == Len(client.seen \o Answer)
             n == Len(VotesOf(client.id))
         IN  /\ Answer = <<>> => Len(client.seen) = n
             /\ m \in Nat /\ m <= n
             /\ client.seen \o Answer = Upto(VotesOf(client.id), m)
             /\ UnderWay(m, client.limit, n)
<1> DEFINE s == VotesOf(client.id)
           k == Len(client.seen)
<1>1. AuditInv /\ client.limit \in Limits
  BY DEF ClientInv
<1>2. /\ k \in Nat /\ k <= Len(s) /\ client.seen = Upto(s, k)
      /\ UnderWay(k, client.limit, Len(s))
  BY <1>1 DEF AuditInv
<1>3. s \in Seq(VoteRecord) /\ Len(s) \in Nat /\ Len(s) <= Len(Addresses)
  BY VotesOfFacts DEF TypeInv
<1>4. 2 * Len(s) < Half
  <2>1. Len(Addresses) \in Nat
    BY QueryAssumption, LenProperties DEF QueryAssumption
  <2> QED BY <1>3, <2>1, WordFacts DEF WithinInts
<1>5. Answer = Page(s, k, client.limit)
  BY DEF Answer
<1> HIDE DEF s, k
<1>6. LET m == Len(client.seen \o Answer)
      IN  /\ Answer = <<>> => Len(s) <= k
          /\ m \in Nat /\ m <= Len(s)
          /\ client.seen \o Answer = Upto(s, m)
          /\ UnderWay(m, client.limit, Len(s))
  <2>1. Len(s) <= Len(s)
    BY <1>3
  <2> QED BY <1>1, <1>2, <1>3, <1>4, <1>5, <2>1, NextPage, ZenonT(60)
<1>7. Len(s) <= k => k = Len(s)
  BY <1>2, <1>3
<1> QED BY <1>6, <1>7 DEF s, k

LEMMA FetchClient ==
  ASSUME WithinInts, TypeInv, ClientInv, FetchPage
  PROVE  ClientInv'
<1> DEFINE seen == client.seen \o Answer
<1>1. /\ UNCHANGED vars /\ client.job \in {"list", "audit"}
      /\ client' = [client EXCEPT !.seen = seen]
  BY DEF FetchPage
<1>2. DOMAIN client = {"job", "id", "limit", "seen", "known"}
  BY DEF ClientInv
<1> HIDE DEF seen
<1>3. /\ client'.job = client.job /\ client'.id = client.id
      /\ client'.limit = client.limit /\ client'.known = client.known
      /\ client'.seen = seen /\ DOMAIN client' = DOMAIN client
  BY <1>1, <1>2
<1>4. CASE client.job = "list"
  <2>1. ListInv'
    BY <1>1, <1>3, <1>4, ListPage DEF ListInv, vars, seen
  <2> QED BY <1>1, <1>3, <1>4, <2>1 DEF ClientInv, vars
<1>5. CASE client.job = "audit"
  <2>1. AuditInv
    BY <1>5 DEF ClientInv
  <2>2. VotesOf(client.id)' = VotesOf(client'.id)
    BY <1>1, <1>3 DEF VotesOf, vars
  <2>3. AuditInv'
    BY <1>1, <1>3, <1>5, <2>1, <2>2, AuditPage
       DEF AuditInv, Finished, Voting, vars, seen
  <2> QED BY <1>1, <1>3, <1>5, <2>3 DEF ClientInv, vars
<1> QED BY <1>1, <1>4, <1>5

LEMMA LastClient ==
  ASSUME WithinInts, TypeInv, ClientInv, LastPage
  PROVE  ClientInv'
<1> DEFINE job == IF client.job = "list" THEN "listed" ELSE "audited"
<1>1. /\ UNCHANGED vars /\ client.job \in {"list", "audit"} /\ Answer = <<>>
      /\ client' = [client EXCEPT !.job = job]
  BY DEF LastPage
<1>2. DOMAIN client = {"job", "id", "limit", "seen", "known"}
  BY DEF ClientInv
<1> HIDE DEF job
<1>3. /\ client'.job = job /\ client'.id = client.id
      /\ client'.limit = client.limit /\ client'.known = client.known
      /\ client'.seen = client.seen /\ DOMAIN client' = DOMAIN client
  BY <1>1, <1>2
<1>4. CASE client.job = "list"
  <2>1. ListInv /\ client.known <= Len(client.seen)
    BY <1>1, <1>4, ListPage DEF ClientInv
  <2>2. ListInv'
    BY <1>1, <1>3, <2>1 DEF ListInv, vars
  <2> QED BY <1>1, <1>3, <1>4, <2>2 DEF ClientInv, vars, job
<1>5. CASE client.job = "audit"
  <2>1. AuditInv /\ Len(client.seen) = Len(VotesOf(client.id))
    BY <1>1, <1>5, AuditPage DEF ClientInv
  <2>2. VotesOf(client.id)' = VotesOf(client'.id)
    BY <1>1, <1>3 DEF VotesOf, vars
  <2>3. AuditInv'
    BY <1>1, <1>3, <2>1, <2>2 DEF AuditInv, Finished, Voting, vars
  <2> QED BY <1>1, <1>3, <1>5, <2>3 DEF ClientInv, vars, job
<1> QED BY <1>1, <1>4, <1>5

LEMMA NextClient ==
  ASSUME WithinInts, TypeInv, ClientInv, [QueryNext]_queryVars
  PROVE  ClientInv'
<1>1. CASE UNCHANGED queryVars
  <2>1. client' = client /\ UNCHANGED vars
    BY <1>1 DEF queryVars
  <2>2. VotesOf(client.id)' = VotesOf(client.id)
    BY <2>1 DEF VotesOf, vars
  <2>3. ListInv => ListInv'
    BY <2>1 DEF ListInv, vars
  <2>4. AuditInv => AuditInv'
    BY <2>1, <2>2 DEF AuditInv, Finished, Voting, vars
  <2> QED BY <2>1, <2>3, <2>4 DEF ClientInv, vars
<1>2. CASE Next /\ client' = IF restarts' = restarts THEN client ELSE NoClient
  BY <1>2, DaoClient
<1>3. CASE \E limit \in Limits : StartListing(limit)
  BY <1>3, StartClient
<1>4. CASE \E id \in DOMAIN Proposals, limit \in Limits : StartAudit(id, limit)
  BY <1>4, StartClient
<1>5. CASE FetchPage \/ LastPage
  BY <1>5, FetchClient, LastClient
<1> QED BY <1>1, <1>2, <1>3, <1>4, <1>5 DEF QueryNext

LEMMA ClientInvHolds ==
  ASSUME WithinInts
  PROVE  QuerySpec => []ClientInv
<1>1. TypeInv /\ ClientInv /\ [QueryNext]_queryVars => ClientInv'
  BY NextClient
<1> QED BY <1>1, InitClient, QueryTypeInv, PTL DEF QuerySpec

(* The client that lists proposals, whatever is submitted, decided and     *)
(* voted on between its pages: Proposals cuts its pages anew from the      *)
(* whole collection each time, and still they fit.                         *)
THEOREM ListingsComplete ==
  ASSUME WithinInts
  PROVE  QuerySpec => []ListingComplete
<1>1. TypeInv /\ ClientInv => ListingComplete
  <2> SUFFICES ASSUME TypeInv, ClientInv, client.job \in {"list", "listed"}
               PROVE  /\ IsPrefix(client.seen, FilteredProposals("any", "any"))
                      /\ client.job = "listed" =>
                           Len(client.seen) >= client.known
    BY DEF ListingComplete
  <2> DEFINE k == Len(client.seen)
             n == ProposalSeq
  <2>1. /\ k \in Nat /\ client.known \in Nat /\ k <= n /\ client.seen = Ids(k)
        /\ client.job = "listed" => client.known <= k
    BY DEF ClientInv, ListInv
  <2>2. /\ FilteredProposals("any", "any") = Ids(n)
        /\ n \in Nat /\ Len(Ids(n)) = n
    BY ListingIs DEF TypeInv, TypeOK
  <2> HIDE DEF k, n
  <2>3. SubSeq(Ids(k), 1, k) = Ids(k) /\ SubSeq(Ids(n), 1, k) = Ids(k)
    BY <2>1, <2>2 DEF Ids
  <2>4. IsPrefix(client.seen, Ids(n))
    BY <2>1, <2>2, <2>3 DEF IsPrefix, k
  <2> QED BY <2>1, <2>2, <2>4 DEF k
<1> QED BY <1>1, QueryTypeInv, ClientInvHolds, PTL

-----------------------------------------------------------------------------
(* Adding up the listing of the votes is adding up the votes.              *)
LEMMA ListedPower ==
  ASSUME TypeInv, NEW id, NEW option
  PROVE  SumFunction([i \in DOMAIN VotesOf(id) |->
                        IF VotesOf(id)[i].Option = option
                          THEN VotesOf(id)[i].VotingPower ELSE 0])
           = PowerOf(id, {option})
<1> DEFINE S == VotersAt(id)
           n == Cardinality(S)
           w == InOrder(S)
           V == {k \in DOMAIN Votes : k[1] = id}
           b == [i \in 1 .. n |-> <<id, Addresses[w[i]]>>]
           g == [k \in V |-> IF Votes[k].Option = option
                               THEN Votes[k].VotingPower ELSE 0]
           f == [i \in DOMAIN VotesOf(id) |->
                   IF VotesOf(id)[i].Option = option
                     THEN VotesOf(id)[i].VotingPower ELSE 0]
           h == [k \in VotesFor(id, {option}) |-> Votes[k].VotingPower]
<1>1. /\ IsFiniteSet(S) /\ n \in Nat /\ \A i \in S : i \in Int
      /\ Increasing(w, S)
      /\ VotesOf(id) = [i \in 1 .. n |-> Votes[<<id, Addresses[w[i]]>>]]
  BY VotersFacts
<1>2. /\ \A i \in 1 .. n : w[i] \in S
      /\ \A i, j \in 1 .. n : i < j => w[i] < w[j]
  BY <1>1 DEF Increasing
<1>3. /\ Addresses \in Seq(Users) /\ Range(Addresses) = Users
      /\ \A i, j \in DOMAIN Addresses : Addresses[i] = Addresses[j] => i = j
  BY QueryAssumption DEF QueryAssumption
<1>4. IsFiniteSet(V) /\ IsFiniteSet(1 .. n)
  BY <1>1, FS_Subset, FS_Interval DEF TypeInv
<1>5. b \in [1 .. n -> V]
  BY <1>2 DEF VotersAt
<1>6. ASSUME NEW x \in 1 .. n, NEW y \in 1 .. n, b[x] = b[y] PROVE x = y
  <2>1. Addresses[w[x]] = Addresses[w[y]]
    BY <1>6
  <2>2. w[x] \in DOMAIN Addresses /\ w[y] \in DOMAIN Addresses
    BY <1>2 DEF VotersAt
  <2>3. w[x] = w[y]
    BY <1>3, <2>1, <2>2
  <2>4. w[x] \in Int /\ w[y] \in Int
    BY <1>1, <1>2
  <2> QED BY <1>2, <2>3, <2>4
<1>7. {b[x] : x \in 1 .. n} = V
  <2>1. ASSUME NEW k \in V PROVE \E x \in 1 .. n : b[x] = k
    <3>1. PICK u \in Users : k = <<id, u>>
      BY DEF TypeInv, TypeOK
    <3>2. PICK j \in DOMAIN Addresses : Addresses[j] = u
      BY <1>3 DEF Range
    <3>3. j \in S
      BY <3>1, <3>2 DEF VotersAt
    <3>4. PICK x \in 1 .. n : w[x] = j
      <4> HIDE DEF S
      <4> QED BY <1>1, <3>3, IncreasingOnto
    <3> QED BY <3>1, <3>2, <3>4
  <2> QED BY <1>5, <2>1
<1>8. \A k \in V : g[k] \in Nat /\ g[k] \in Int
  BY DEF TypeInv, TypeOK
<1>9. \A x \in 1 .. n : f[x] = g[b[x]]
  BY <1>1, <1>5
<1>10. DOMAIN f = 1 .. n
  BY <1>1
<1>11. \A x \in 1 .. n : f[x] = g[b[x]] /\ f[x] \in Int
  BY <1>5, <1>8, <1>9
<1> HIDE DEF b, g, f, V
<1>12. SumFunctionOnSet(f, 1 .. n) = SumFunctionOnSet(g, V)
  <2> DEFINE I == 1 .. n
  <2>1. /\ IsFiniteSet(I) /\ b \in [I -> V]
        /\ \A x, y \in I : b[x] = b[y] => x = y
        /\ \A x \in I : f[x] = g[b[x]] /\ f[x] \in Int
    BY <1>4, <1>5, <1>6, <1>11
  <2> HIDE DEF I
  <2>2. SumFunctionOnSet(f, I) = SumFunctionOnSet(g, {b[x] : x \in I})
    BY <1>4, <2>1, SumReindex
  <2> QED BY <1>7, <2>2 DEF I
<1> DEFINE U == VotesFor(id, {option})
<1>13. /\ U \in SUBSET V
       /\ \A k \in V : k \notin U => g[k] = 0
       /\ \A k \in U : g[k] = h[k]
  BY DEF VotesFor, V, g
<1>14. SumFunctionOnSet(g, V) = SumFunctionOnSet(g, U)
  BY <1>4, <1>8, <1>13, SumSupport
<1>15. SumFunctionOnSet(g, U) = SumFunctionOnSet(h, U)
  <2>1. IsFiniteSet(U)
    BY <1>4, <1>13, FS_Subset
  <2> HIDE DEF U, h
  <2> QED BY <1>13, <2>1, SumSame
<1>16. SumFunction(f) = SumFunctionOnSet(f, 1 .. n)
  BY <1>10 DEF SumFunction, SumFunctionOnSet, FoldFunction, FoldFunctionOnSet
<1>17. SumFunction(h) = SumFunctionOnSet(h, U)
  BY DEF SumFunction, SumFunctionOnSet, FoldFunction, FoldFunctionOnSet
<1> QED BY <1>12, <1>14, <1>15, <1>16, <1>17 DEF PowerOf, f

(* The client that audits a decision: the votes it reads from Votes, page  *)
(* by page while other proposals are voted on, add up to what TallyResult  *)
(* answers.                                                                *)
THEOREM AuditsAgree ==
  ASSUME WithinInts
  PROVE  QuerySpec => []AuditAgrees
<1>1. TypeInv /\ TallyFinal /\ ClientInv => AuditAgrees
  <2> SUFFICES ASSUME TypeInv, TallyFinal, ClientInv, client.job = "audited"
               PROVE  AuditAgrees
    BY DEF AuditAgrees
  <2> DEFINE s == VotesOf(client.id)
             power(option) ==
               SumFunction([i \in DOMAIN client.seen |->
                              IF client.seen[i].Option = option
                                THEN client.seen[i].VotingPower ELSE 0])
  <2>1. /\ client.id \in DOMAIN Proposals /\ Finished(client.id)
        /\ client.seen = Upto(s, Len(s))
    BY DEF ClientInv, AuditInv
  <2>2. client.seen = s
    <3>1. s \in Seq(VoteRecord)
      BY VotesOfFacts DEF TypeInv
    <3> HIDE DEF s
    <3>2. Upto(s, Len(s)) = s
      BY <3>1 DEF Upto
    <3> QED BY <2>1, <3>2
  <2>3. ASSUME NEW option PROVE power(option) = PowerOf(client.id, {option})
    BY <2>2, ListedPower, Zenon
  <2>4. /\ Proposals[client.id].YesVotes = Yes(client.id)
        /\ Proposals[client.id].NoVotes = No(client.id)
        /\ Proposals[client.id].AbstainVotes = Abstain(client.id)
    BY <2>1 DEF TallyFinal
  <2>5. /\ Proposals[client.id].YesVotes = power("YES")
        /\ Proposals[client.id].NoVotes = power("NO")
        /\ Proposals[client.id].AbstainVotes = power("ABSTAIN")
    <3> HIDE DEF power
    <3> QED BY <2>3, <2>4 DEF Yes, No, Abstain
  <2> HIDE DEF power
  <2> QED BY <2>5 DEF AuditAgrees, TallyResult, power
<1> QED BY <1>1, QueryTypeInv, ClientInvHolds, QueriesImplementDao,
           DecisionsFollowVotes, PTL
=============================================================================
