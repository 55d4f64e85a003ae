------------------------ MODULE BatchSelectionProofs ------------------------
(***************************************************************************)
(* Proofs that the loop of select_batch computes SelectBatch, for any set  *)
(* of papers, costs and limits.                                            *)
(***************************************************************************)
EXTENDS BatchSelection, FiniteSetTheorems, WellFoundedInduction, TLAPS

-----------------------------------------------------------------------------
(***************************************************************************)
(* Sums of costs.  A paper counts as many units as it costs, so a sum of   *)
(* costs is a cardinality, about which the library has theorems.           *)
(***************************************************************************)
Units(papers) == {u \in papers \X (1 .. MaxCost) : u[2] <= Cost[u[1]]}

LEMMA CostFacts ==
  ASSUME NEW p \in Papers
  PROVE  Cost[p] \in 1 .. MaxCost /\ Cost[p] \in Nat /\ MaxCost \in Nat
BY BatchingAssumption

LEMMA PapersFinite ==
  ASSUME NEW papers \in SUBSET Papers
  PROVE  IsFiniteSet(papers)
BY BatchingAssumption, FS_Subset

LEMMA UnitsFinite ==
  ASSUME NEW papers \in SUBSET Papers
  PROVE  IsFiniteSet(Units(papers)) /\ Cardinality(Units(papers)) \in Nat
<1>1. IsFiniteSet(1 .. MaxCost)
  BY BatchingAssumption, FS_Interval
<1>2. IsFiniteSet(papers \X (1 .. MaxCost))
  BY <1>1, PapersFinite, FS_Product
<1>3. Units(papers) \in SUBSET (papers \X (1 .. MaxCost))
  BY DEF Units
<1>4. IsFiniteSet(Units(papers))
  BY <1>2, <1>3, FS_Subset
<1> QED BY <1>4, FS_CardinalityType

LEMMA UnitsOfNone == Cardinality(Units({})) = 0
<1>1. Units({}) = {}
  BY DEF Units
<1> QED BY <1>1, FS_EmptySet

LEMMA UnitsOfOne ==
  ASSUME NEW p \in Papers
  PROVE  Cardinality(Units({p})) = Cost[p]
<1>1. Units({p}) = {p} \X (1 .. Cost[p])
  BY CostFacts, BatchingAssumption DEF Units
<1>2. /\ IsFiniteSet({p}) /\ Cardinality({p}) = 1
      /\ IsFiniteSet(1 .. Cost[p]) /\ Cardinality(1 .. Cost[p]) = Cost[p]
  <2>1. Cost[p] \in Int /\ 1 \in Int /\ ~(1 > Cost[p]) /\ Cost[p] - 1 + 1 = Cost[p]
    BY CostFacts
  <2> QED BY <2>1, FS_Singleton, FS_Interval
<1>3. Cardinality({p} \X (1 .. Cost[p])) = Cardinality({p}) * Cardinality(1 .. Cost[p])
  BY <1>2, FS_Product, Zenon
<1>4. Cardinality(Units({p})) = 1 * Cost[p]
  BY <1>1, <1>2, <1>3, Zenon
<1>5. Cost[p] \in Nat
  BY CostFacts
<1>6. 1 * Cost[p] = Cost[p]
  BY <1>5
<1> QED BY <1>4, <1>6, Zenon

LEMMA UnitsWithout ==
  ASSUME NEW papers \in SUBSET Papers, NEW p \in papers
  PROVE  Cardinality(Units(papers)) = Cost[p] + Cardinality(Units(papers \ {p}))
<1>1. /\ IsFiniteSet(Units({p})) /\ IsFiniteSet(Units(papers \ {p}))
      /\ Cardinality(Units(papers \ {p})) \in Nat
  BY UnitsFinite
<1>2. /\ Units({p}) \cup Units(papers \ {p}) = Units(papers)
      /\ Units({p}) \cap Units(papers \ {p}) = {}
  BY DEF Units
<1>3. Cardinality(Units(papers)) =
        Cardinality(Units({p})) + Cardinality(Units(papers \ {p})) - 0
  <2> DEFINE S == Units({p})
             T == Units(papers \ {p})
  <2>1. IsFiniteSet(S) /\ IsFiniteSet(T) /\ S \cup T = Units(papers) /\ S \cap T = {}
    BY <1>1, <1>2
  <2> HIDE DEF S, T
  <2>2. Cardinality(S \cup T) = Cardinality(S) + Cardinality(T) - Cardinality(S \cap T)
    BY <2>1, FS_Union
  <2>3. Cardinality(S \cap T) = 0
    BY <2>1, FS_EmptySet
  <2>4. Cardinality(Units(papers)) = Cardinality(S) + Cardinality(T) - 0
    BY <2>1, <2>2, <2>3
  <2> QED BY <2>4 DEF S, T
<1>4. Cardinality(Units({p})) = Cost[p] /\ Cost[p] \in Nat
  BY UnitsOfOne, CostFacts
<1> QED BY <1>1, <1>3, <1>4

\* The fold that sums up the costs counts the units, whichever paper it takes next.
LEMMA TotalCostCounts ==
  ASSUME NEW papers \in SUBSET Papers
  PROVE  TotalCost(papers) = Cardinality(Units(papers))
<1> DEFINE pick(s) == CHOOSE x \in s : TRUE
           Sums(g) == g = [s \in SUBSET papers |->
                             IF s = {} THEN 0 ELSE Cost[pick(s)] + g[s \ {pick(s)}]]
           sum == CHOOSE g : Sums(g)
           counted == [s \in SUBSET papers |-> Cardinality(Units(s))]
           wrong == {s \in SUBSET papers : sum[s] # counted[s]}
<1>1. TotalCost(papers) = sum[papers]
  BY DEF TotalCost, MapThenSumSet, MapThenFoldSet
<1>2. ASSUME NEW s \in SUBSET papers, s # {}
      PROVE  pick(s) \in s /\ s \ {pick(s)} \in SUBSET papers
  BY <1>2
<1>3. Sums(counted)
  <2>1. ASSUME NEW s \in SUBSET papers, s # {}
        PROVE  Cardinality(Units(s)) = Cost[pick(s)] + counted[s \ {pick(s)}]
    <3> HIDE DEF pick
    <3>1. s \in SUBSET Papers /\ pick(s) \in s /\ s \ {pick(s)} \in SUBSET papers
      BY <1>2, <2>1
    <3> QED BY <3>1, UnitsWithout
  <2> QED BY <2>1, UnitsOfNone
<1>4. Sums(sum)
  BY <1>3
<1> HIDE DEF sum, pick
<1>5. wrong = {}
  <2> SUFFICES ASSUME wrong # {} PROVE FALSE
    OBVIOUS
  <2>1. IsWellFoundedOn(StrictSubsetOrdering(papers), FiniteSubsetsOf(papers))
    BY FS_StrictSubsetOrderingWellFounded
  <2>2. wrong \subseteq FiniteSubsetsOf(papers)
    BY PapersFinite DEF FiniteSubsetsOf
  <2>3. PICK s \in wrong : \A t \in wrong : <<t, s>> \notin StrictSubsetOrdering(papers)
    BY <2>1, <2>2, WFMin
  <2>4. CASE s = {}
    BY <1>4, <2>4, UnitsOfNone
  <2>5. CASE s # {}
    <3>1. s \in SUBSET Papers /\ pick(s) \in s /\ s \ {pick(s)} \in SUBSET papers
      BY <1>2, <2>5
    <3>2. <<s \ {pick(s)}, s>> \in StrictSubsetOrdering(papers)
      BY <3>1 DEF StrictSubsetOrdering
    <3>3. sum[s \ {pick(s)}] = counted[s \ {pick(s)}]
      BY <2>3, <3>1, <3>2
    <3>4. sum[s] = Cost[pick(s)] + Cardinality(Units(s \ {pick(s)}))
      BY <1>4, <2>5, <3>1, <3>3
    <3> QED BY <3>1, <3>4, UnitsWithout
  <2> QED BY <2>4, <2>5
<1> QED BY <1>1, <1>5

\* What one more paper adds.
LEMMA TotalCostWith ==
  ASSUME NEW papers \in SUBSET Papers, NEW p \in Papers \ papers
  PROVE  /\ TotalCost(papers \cup {p}) = TotalCost(papers) + Cost[p]
         /\ TotalCost(papers) \in Nat
<1>1. (papers \cup {p}) \ {p} = papers /\ papers \cup {p} \in SUBSET Papers
  OBVIOUS
<1>2. Cardinality(Units(papers \cup {p})) = Cost[p] + Cardinality(Units(papers))
  BY <1>1, UnitsWithout
<1> QED BY <1>1, <1>2, TotalCostCounts, UnitsFinite, CostFacts

LEMMA TotalCostMonotone ==
  ASSUME NEW papers \in SUBSET Papers, NEW fewer \in SUBSET papers
  PROVE  TotalCost(fewer) <= TotalCost(papers)
<1>1. Units(fewer) \in SUBSET Units(papers)
  BY DEF Units
<1>2. Cardinality(Units(fewer)) <= Cardinality(Units(papers))
  BY <1>1, UnitsFinite, FS_Subset
<1> QED BY <1>2, TotalCostCounts

-----------------------------------------------------------------------------
\* Papers are numbers, so the loop comes to the first of them.
LEMMA FirstIsLeast ==
  ASSUME rest \subseteq Papers, rest # {}
  PROVE  First \in rest /\ \A q \in rest : First <= q
<1>1. rest \subseteq Nat
  BY BatchingAssumption
<1>2. PICK p \in rest : \A q \in rest : <<q, p>> \notin OpToRel(<, Nat)
  BY <1>1, NatLessThanWellFounded, WFMin
<1>3. \A q \in rest : p <= q
  <2> SUFFICES ASSUME NEW q \in rest, q < p PROVE FALSE
    BY <1>1
  <2>1. <<q, p>> \in OpToRel(<, Nat)
    BY <1>1 DEF OpToRel
  <2> QED BY <1>2, <2>1
<1> QED BY <1>3 DEF First

(***************************************************************************)
(* The inductive invariant: the batch is the part of the papers that the   *)
(* loop has passed, and fits.                                              *)
(***************************************************************************)
SelectionInv ==
  /\ pending \subseteq Papers
  /\ selected \cup rest = pending /\ selected \cap rest = {}
  /\ \A p \in selected, q \in rest : p < q
  /\ estimated = TotalCost(selected)
  /\ Fits(selected)
  /\ done => ~HasRoom

LEMMA NothingFits == TotalCost({}) = 0 /\ Fits({})
<1>1. TotalCost({}) = 0 /\ Cardinality({}) = 0
  BY TotalCostCounts, UnitsOfNone, FS_EmptySet
<1> QED BY <1>1, BatchingAssumption DEF Fits

LEMMA SelectionInit == Init => SelectionInv
BY NothingFits DEF Init, SelectionInv

LEMMA TakeKeeps == ASSUME SelectionInv, Take PROVE SelectionInv'
<1>1. /\ rest # {} /\ rest \subseteq Papers /\ selected \subseteq Papers
      /\ Cardinality(selected) < MaxPapers
      /\ estimated + Cost[First] <= MaxCost
      /\ selected' = selected \cup {First} /\ rest' = rest \ {First}
      /\ estimated' = estimated + Cost[First]
      /\ UNCHANGED <<pending, done>> /\ ~done
  <2>1. selected \in SUBSET Papers /\ First \in Papers
    BY FirstIsLeast DEF SelectionInv, Take, HasRoom
  <2>2. estimated \in Nat /\ Cost[First] \in Nat /\ MaxCost \in Nat
    BY <2>1, TotalCostCounts, UnitsFinite, CostFacts, BatchingAssumption DEF SelectionInv
  <2>3. Cardinality(selected) \in Nat /\ MaxPapers \in Nat
    BY <2>1, PapersFinite, FS_CardinalityType, BatchingAssumption
  <2> QED BY <2>1, <2>2, <2>3 DEF SelectionInv, Take, HasRoom, Full, TooCostly
<1>2. First \in rest /\ \A q \in rest : First <= q
  BY <1>1, FirstIsLeast
<1>3. First \in Papers \ selected
  BY <1>1, <1>2 DEF SelectionInv
<1>4. TotalCost(selected') = TotalCost(selected) + Cost[First]
  BY <1>1, <1>3, TotalCostWith
<1>5. Cardinality(selected') = Cardinality(selected) + 1 /\ Cardinality(selected) \in Nat
  BY <1>1, <1>3, PapersFinite, FS_AddElement, FS_CardinalityType
<1>6. Fits(selected')
  BY <1>1, <1>4, <1>5, BatchingAssumption DEF Fits, SelectionInv
<1>7. \A p \in selected', q \in rest' : p < q
  <2>1. \A q \in rest \ {First} : First < q
    BY <1>1, <1>2, BatchingAssumption
  <2> QED BY <1>1, <2>1 DEF SelectionInv
<1> QED BY <1>1, <1>2, <1>4, <1>6, <1>7 DEF SelectionInv

LEMMA StopKeeps == ASSUME SelectionInv, Stop PROVE SelectionInv'
BY DEF SelectionInv, Stop, HasRoom, Full, TooCostly, First

LEMMA SelectionStep == SelectionInv /\ [Next]_vars => SelectionInv'
<1> SUFFICES ASSUME SelectionInv, [Next]_vars PROVE SelectionInv'
  OBVIOUS
<1>1. CASE UNCHANGED vars
  BY <1>1 DEF vars, SelectionInv, HasRoom, Full, TooCostly, First
<1> QED BY <1>1, TakeKeeps, StopKeeps DEF Next

-----------------------------------------------------------------------------
\* An affordable prefix that goes beyond the batch has the first of the other papers,
\* for which there would have been room.
LEMMA PrefixSelected ==
  ASSUME SelectionInv, done, NEW front \in SUBSET pending,
         IsPrefix(front, pending), Fits(front)
  PROVE  front \subseteq selected
<1> SUFFICES ASSUME NEW q \in front, q \notin selected PROVE FALSE
  OBVIOUS
<1>1. /\ pending \in SUBSET Papers /\ selected \in SUBSET Papers /\ front \in SUBSET Papers
      /\ q \in rest /\ rest \subseteq Papers /\ Papers \subseteq Nat
  BY BatchingAssumption DEF SelectionInv
<1>2. First \in rest /\ First <= q
  BY <1>1, FirstIsLeast
<1>3. selected \cup {First} \subseteq front
  <2>1. First \in front
    BY <1>1, <1>2 DEF IsPrefix, SelectionInv
  <2>2. ASSUME NEW p \in selected PROVE p \in front
    <3>1. p < q /\ p \in Papers /\ p \in pending
      BY <1>1 DEF SelectionInv
    <3> QED BY <1>1, <3>1 DEF IsPrefix
  <2> QED BY <2>1, <2>2
<1>4. First \in Papers \ selected
  BY <1>1, <1>2 DEF SelectionInv
<1>5. /\ estimated \in Nat /\ Cost[First] \in 1 .. MaxCost
      /\ estimated + Cost[First] <= MaxCost
  <2>1. TotalCost(selected \cup {First}) = estimated + Cost[First] /\ estimated \in Nat
    BY <1>1, <1>4, TotalCostWith DEF SelectionInv
  <2>2. TotalCost(selected \cup {First}) <= TotalCost(front)
    BY <1>1, <1>3, TotalCostMonotone
  <2>3. TotalCost(front) <= MaxCost /\ TotalCost(front) \in Nat
    BY <1>1, TotalCostCounts, UnitsFinite DEF Fits
  <2>4. Cost[First] \in 1 .. MaxCost
    BY <1>4, CostFacts
  <2> QED BY <2>1, <2>2, <2>3, <2>4, BatchingAssumption
<1>6. Cardinality(selected) < MaxPapers /\ Cardinality(selected) \in Nat
  <2>1. Cardinality(selected \cup {First}) = Cardinality(selected) + 1
        /\ Cardinality(selected) \in Nat
    BY <1>1, <1>4, PapersFinite, FS_AddElement, FS_CardinalityType
  <2>2. Cardinality(selected \cup {First}) <= Cardinality(front)
    BY <1>1, <1>3, PapersFinite, FS_Subset
  <2>3. Cardinality(front) <= MaxPapers /\ Cardinality(front) \in Nat
    BY <1>1, PapersFinite, FS_CardinalityType DEF Fits
  <2> QED BY <2>1, <2>2, <2>3, BatchingAssumption
<1>7. HasRoom
  BY <1>2, <1>5, <1>6, BatchingAssumption DEF HasRoom, Full, TooCostly
<1> QED BY <1>7 DEF SelectionInv

LEMMA SelectionIsLongest == SelectionInv => LongestPrefix
<1> SUFFICES ASSUME SelectionInv, done PROVE selected = SelectBatch(pending)
  BY DEF LongestPrefix
<1>1. SelectBatch(pending) \subseteq selected
  BY PrefixSelected DEF SelectBatch
<1>2. IsPrefix(selected, pending) /\ Fits(selected) /\ selected \subseteq pending
  BY DEF SelectionInv, IsPrefix
<1>3. selected \subseteq SelectBatch(pending)
  BY <1>2 DEF SelectBatch
<1> QED BY <1>1, <1>3

LEMMA SelectionIsNeverEmpty == SelectionInv => NeverEmpty
<1> SUFFICES ASSUME SelectionInv, done, pending # {}, selected = {} PROVE FALSE
  BY DEF NeverEmpty
<1>1. rest = pending /\ rest \subseteq Papers /\ First \in Papers
  BY FirstIsLeast DEF SelectionInv
<1>2. estimated = 0 /\ Cardinality(selected) = 0
  BY TotalCostCounts, UnitsOfNone, FS_EmptySet DEF SelectionInv
<1>3. HasRoom
  BY <1>1, <1>2, CostFacts, BatchingAssumption DEF HasRoom, Full, TooCostly
<1> QED BY <1>3 DEF SelectionInv

\* A batch is the longest run of the papers, in order, that both limits allow: the loop
\* passes over no paper for a later one, and leaves none that still fits.
THEOREM LongestPrefixSelected == Spec => []LongestPrefix
BY SelectionInit, SelectionStep, SelectionIsLongest, PTL DEF Spec

\* While anything is pending a batch takes something: a single paper always fits.
THEOREM BatchesAreNeverEmpty == Spec => []NeverEmpty
BY SelectionInit, SelectionStep, SelectionIsNeverEmpty, PTL DEF Spec

=============================================================================
