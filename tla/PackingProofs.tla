---------------------------- MODULE PackingProofs ----------------------------
(***************************************************************************)
(* Proofs about Packing, for any batch, any number of workers and any      *)
(* lengths.                                                                *)
(***************************************************************************)
EXTENDS Packing, SeqUtilsProofs

Micro == [samples : SUBSET Id, mm : BOOLEAN, dummy : BOOLEAN, length : Nat, work : Int]

\* No prepared sample is longer than seq_len.
SamplesFit == \A s \in Id : sample[s].len \in 0..SeqLen

\* The bin being split and its sides; before there are micro-batches nothing refers to them.
Phases ==
    /\ halving \in [bin : Nat, rest : SUBSET Id, left : Bin, right : Bin]
    /\ stage = "halve" => halving.bin \in DOMAIN bins
    /\ stage \in {"pack", "split", "halve"} =>
        /\ micro = <<>> /\ groups = <<>> /\ unranked = {} /\ states = {}
        /\ parts = [w \in Worker |-> <<>>] /\ ranks = [w \in Worker |-> <<>>]
    /\ stage \in {"rank", "refine"} => groups # <<>>

\* Karmarkar-Karp sets over the items G, all with as many items.
StateOf(G) == [Worker -> [total : Int, items : Seq(G)]]
Even(state) == \A v, w \in Worker : Len(state[v].items) = Len(state[w].items)

Lengths ==
    /\ \A a \in states : Even(a)
    /\ \A v, w \in Worker : Len(parts[v]) = Len(parts[w])

Types == PackTypeOK /\ SamplesFit /\ Phases /\ Lengths

-----------------------------------------------------------------------------
(* Numbers *)

\* Positions in the second of two lists.
LEMMA Shift ==
    ASSUME NEW m \in Nat, NEW n \in Nat, NEW k \in 1..(m + n), k > m
    PROVE  k - m \in 1..n
OBVIOUS

\* bin_cost is a number.
LEMMA CostIsInt == \A n \in Int : Cost(n) \in Int
BY PackingAssumption DEF Cost

\* The padding is less than the multiple.
LEMMA PaddedToBound == \A n \in Nat : PaddedTo(n) \in 0..(Multiple - 1)
BY PackingAssumption DEF PaddedTo

-----------------------------------------------------------------------------
(* Samples and bins *)

\* prepare_sample returns no more than seq_len tokens.
LEMMA PreparedFits ==
    ASSUME NEW r \in RawSample
    PROVE  Prepared(r).len \in 0..SeqLen
<1>1. Len(r.mask) \in Nat
  BY DEF RawSample
<1>2. CutAtImage(r) \in 0..SeqLen
  <2>. DEFINE kept == SeqSum(SubSeq(r.images, 1, KeptImages(r)))
              lost == {i \in 1..SeqLen : r.mask[i] /\ Placeholders(r, i) > kept}
              before == {i \in 1..SeqLen : \A j \in lost : i < j}
  <2>1. IsFiniteSet(1..SeqLen) /\ Cardinality(1..SeqLen) = SeqLen
    BY FS_Interval, PackingAssumption
  <2>2. before \in SUBSET (1..SeqLen)
    OBVIOUS
  <2>3. Cardinality(before) \in 0..SeqLen
    <3>. HIDE DEF before
    <3>1. IsFiniteSet(before) /\ Cardinality(before) <= SeqLen
      BY <2>1, <2>2, FS_Subset
    <3>. QED BY <3>1, FS_CardinalityType, PackingAssumption
  <2>4. CutAtImage(r) = Cardinality(before)
    BY Zenon DEF CutAtImage
  <2>. QED BY <2>3, <2>4
<1>. QED BY <1>1, <1>2, PackingAssumption DEF Prepared

\* A new bin.
LEMMA EmptyBinTyped == EmptyBin \in Bin
BY PackingAssumption DEF EmptyBin, Bin

\* A bin with a sample more.
LEMMA AddedTyped ==
    ASSUME SamplesFit, NEW bin \in Bin, NEW s \in Id
    PROVE  Added(bin, s) \in Bin
<1>1. sample[s].len \in 0..SeqLen /\ sample[s].len \in Nat /\ Cost(sample[s].len) \in Int
  BY CostIsInt, PackingAssumption DEF SamplesFit
<1>. QED BY <1>1 DEF Added, Bin

\* A micro-batch made of a bin.
LEMMA MicroBatchTyped ==
    ASSUME NEW bin \in Bin
    PROVE  MicroBatch(bin) \in Micro
<1>1. /\ bin.samples \in SUBSET Id /\ bin.length \in Nat /\ bin.work \in Int
      /\ bin.tail \in Nat
  BY PackingAssumption DEF Bin
<1>2. PaddedTo(bin.length) \in Nat
  <2>1. PaddedTo(bin.length) \in 0..(Multiple - 1)
    BY <1>1, PaddedToBound
  <2>. QED BY <2>1, PackingAssumption
<1>3. Cost(bin.tail) \in Int /\ Cost(bin.tail + PaddedTo(bin.length)) \in Int
  BY <1>1, <1>2, CostIsInt
<1>4. HasImages(bin) \in BOOLEAN
  BY DEF HasImages
<1>. QED BY <1>1, <1>2, <1>3, <1>4 DEF MicroBatch, Micro

\* The micro-batches before dummies are added.
LEMMA BatchesTyped ==
    ASSUME NEW B \in Seq(Bin)
    PROVE  /\ [i \in DOMAIN B |-> MicroBatch(B[i])] \in Seq(Micro)
           /\ Len([i \in DOMAIN B |-> MicroBatch(B[i])]) = Len(B)
<1>1. DOMAIN B = 1..Len(B) /\ Len(B) \in Nat
  OBVIOUS
<1>2. \A i \in DOMAIN B : MicroBatch(B[i]) \in Micro
  BY MicroBatchTyped
<1>. QED BY <1>1, <1>2

\* Dummies are of the modality that they fill up.
LEMMA DummiesTyped ==
    ASSUME NEW batches \in Seq(Micro), NEW mm \in BOOLEAN
    PROVE  /\ Dummies(batches, mm) \in Seq({b \in Micro : b.dummy /\ b.mm = mm})
           /\ Len(Dummies(batches, mm)) = (0 - Cardinality(OfModality(batches, mm))) % Workers
<1>. DEFINE group == OfModality(batches, mm)
            first == CHOOSE i \in group : \A j \in group : i <= j
            n == (0 - Cardinality(group)) % Workers
<1>1. group \subseteq 1..Len(batches) /\ Len(batches) \in Nat
  BY DEF OfModality
<1>2. IsFiniteSet(group) /\ Cardinality(group) \in Nat
  <2>. HIDE DEF group
  <2>1. IsFiniteSet(1..Len(batches))
    BY <1>1, FS_Interval
  <2>2. IsFiniteSet(group)
    BY <1>1, <2>1, FS_Subset
  <2>. QED BY <2>2, FS_CardinalityType
<1>3. n \in Nat /\ (group = {} => n = 0)
  BY <1>2, FS_EmptySet, PackingAssumption
<1>4. ASSUME group # {} PROVE first \in group
  <2>1. group \in SUBSET Nat
    BY <1>1
  <2>2. \E i \in group : \A j \in group : i <= j
    BY <1>4, <2>1, LeastNat, Zenon
  <2>. QED BY <2>2
<1>5. ASSUME group # {}
      PROVE  [batches[first] EXCEPT !.dummy = TRUE] \in {b \in Micro : b.dummy /\ b.mm = mm}
  <2>1. batches[first] \in Micro /\ batches[first].mm = mm
    BY <1>4, <1>5 DEF OfModality
  <2>. QED BY <2>1 DEF Micro
<1>6. Dummies(batches, mm) = [i \in 1..n |-> [batches[first] EXCEPT !.dummy = TRUE]]
  BY DEF Dummies
<1>7. \A i \in 1..n : [batches[first] EXCEPT !.dummy = TRUE] \in {b \in Micro : b.dummy /\ b.mm = mm}
  <2>. HIDE DEF n, first, group
  <2>. QED BY <1>3, <1>5
<1>. QED
  <2>. HIDE DEF first
  <2>1. Dummies(batches, mm) \in Seq({b \in Micro : b.dummy /\ b.mm = mm})
    <3>. DEFINE dummy == [batches[first] EXCEPT !.dummy = TRUE]
                kind == {b \in Micro : b.dummy /\ b.mm = mm}
    <3>1. Dummies(batches, mm) = [i \in 1..n |-> dummy] /\ n \in Nat
      BY <1>3, <1>6
    <3>2. \A i \in 1..n : dummy \in kind
      BY <1>7
    <3>. HIDE DEF dummy, kind, n
    <3>3. [i \in 1..n |-> dummy] \in Seq(kind)
      BY <3>1, <3>2
    <3>. QED BY <3>1, <3>3 DEF kind
  <2>2. Len(Dummies(batches, mm)) = n
    BY <1>3, <1>6
  <2>. QED BY <2>1, <2>2
-----------------------------------------------------------------------------
(* Karmarkar-Karp states *)

\* The worker at the other end.
LEMMA MirrorTyped == \A w \in Worker : Mirror(w) \in Worker
BY PackingAssumption DEF Mirror, Worker

\* A chunk as a state, largest first.
LEMMA PushTyped ==
    ASSUME NEW G, NEW chunk \in [Worker -> G], \A i \in G : micro[i].work \in Int
    PROVE  /\ Reversed(Singletons(chunk)) \in StateOf(G)
           /\ Even(Reversed(Singletons(chunk)))
           /\ \A w \in Worker :
                Reversed(Singletons(chunk))[w]
                    = [total |-> micro[chunk[Mirror(w)]].work, items |-> <<chunk[Mirror(w)]>>]
<1>1. \A w \in Worker : Reversed(Singletons(chunk))[w]
                    = [total |-> micro[chunk[Mirror(w)]].work, items |-> <<chunk[Mirror(w)]>>]
  BY MirrorTyped DEF Reversed, Singletons
<1>2. \A w \in Worker : chunk[Mirror(w)] \in G
  BY MirrorTyped
<1>3. \A w \in Worker : <<chunk[Mirror(w)]>> \in Seq(G) /\ Len(<<chunk[Mirror(w)]>>) = 1
  BY <1>2
<1>4. Reversed(Singletons(chunk)) \in StateOf(G)
  <2>1. Reversed(Singletons(chunk)) = [w \in Worker |-> Singletons(chunk)[Mirror(w)]]
    BY DEF Reversed
  <2>2. \A w \in Worker : Singletons(chunk)[Mirror(w)] \in [total : Int, items : Seq(G)]
    BY <1>2, <1>3, MirrorTyped DEF Singletons
  <2>. QED BY <2>1, <2>2 DEF StateOf
<1>5. Even(Reversed(Singletons(chunk)))
  <2>1. \A w \in Worker : Len(Reversed(Singletons(chunk))[w].items) = 1
    <3>1. \A w \in Worker : Reversed(Singletons(chunk))[w].items = <<chunk[Mirror(w)]>>
      BY MirrorTyped DEF Reversed, Singletons
    <3>. QED BY <3>1, <1>3
  <2>. QED BY <2>1, Zenon DEF Even
<1>. QED BY <1>1, <1>4, <1>5

\* Two states merged, before they are sorted.
LEMMA MergedTyped ==
    ASSUME NEW G, NEW a \in StateOf(G), NEW b \in StateOf(G), Even(a), Even(b)
    PROVE  /\ Merged(a, b) \in StateOf(G)
           /\ Even(Merged(a, b))
           /\ \A w \in Worker :
                Merged(a, b)[w].total = a[w].total + b[Mirror(w)].total
<1>1. \A w \in Worker : /\ a[w].total \in Int /\ a[w].items \in Seq(G)
                        /\ b[Mirror(w)].total \in Int /\ b[Mirror(w)].items \in Seq(G)
  BY MirrorTyped DEF StateOf
<1>2. \A w \in Worker : /\ a[w].items \o b[Mirror(w)].items \in Seq(G)
                        /\ Len(a[w].items \o b[Mirror(w)].items)
                            = Len(a[w].items) + Len(b[Mirror(w)].items)
  BY <1>1, ConcatProperties
<1>3. Merged(a, b) \in StateOf(G)
  BY <1>1, <1>2 DEF Merged, StateOf
<1>4. Even(Merged(a, b))
  <2>1. \A w \in Worker :
            Len(Merged(a, b)[w].items) = Len(a[w].items) + Len(b[Mirror(w)].items)
    BY <1>2 DEF Merged
  <2>2. \A v, w \in Worker : /\ Len(a[v].items) = Len(a[w].items)
                             /\ Len(b[Mirror(v)].items) = Len(b[Mirror(w)].items)
    BY MirrorTyped, Zenon DEF Even
  <2>3. \A v, w \in Worker : Len(Merged(a, b)[v].items) = Len(Merged(a, b)[w].items)
    BY <2>1, <2>2
  <2>. QED BY <2>3, Zenon DEF Even
<1>5. \A w \in Worker : Merged(a, b)[w].total = a[w].total + b[Mirror(w)].total
  BY DEF Merged
<1>. QED BY <1>3, <1>4, <1>5

\* Sorting the sets of a state.
LEMMA ShuffledTyped ==
    ASSUME NEW G, NEW a \in StateOf(G), Even(a), NEW p \in Shuffles
    PROVE  /\ [w \in Worker |-> a[p[w]]] \in StateOf(G)
           /\ Even([w \in Worker |-> a[p[w]]])
<1>1. p \in [Worker -> Worker]
  BY DEF Shuffles
<1>. QED BY <1>1 DEF StateOf, Even

-----------------------------------------------------------------------------
(* Types *)

\* prepare_sample leaves samples that fit; nothing is placed yet.
LEMMA TypesInit == Init => Types
<1>. SUFFICES ASSUME Init PROVE Types
  OBVIOUS
<1>1. Id = DOMAIN raw
  BY DEF Init, Id
<1>2. SamplesFit
  <2>1. \A i \in DOMAIN raw : raw[i] \in RawSample
    BY PackingAssumption DEF Init
  <2>2. \A i \in DOMAIN raw : Prepared(raw[i]).len \in 0..SeqLen
    BY <2>1, PreparedFits
  <2>. QED BY <2>2, <1>1 DEF Init, SamplesFit
<1>3. PackTypeOK
  BY <1>1, EmptyBinTyped DEF Init, PackTypeOK
<1>4. Phases /\ Lengths
  BY EmptyBinTyped DEF Init, Phases, Lengths
<1>. QED BY <1>2, <1>3, <1>4 DEF Types

\* What samples are named does not change.
LEMMA SameSamples ==
    ASSUME sample' = sample
    PROVE  Id' = Id /\ Bin' = Bin /\ Micro' = Micro /\ (SamplesFit => SamplesFit')
BY DEF Id, Bin, Micro, SamplesFit

\* A sample into a bin that takes it, or into a new one.
LEMMA PlaceTypes ==
    ASSUME Types, NEW s \in Id, Place(s)
    PROVE  Types'
<1>. USE DEF Types
<1>0. Id' = Id /\ Bin' = Bin /\ SamplesFit'
  BY SameSamples DEF Place
<1>1. bins \in Seq(Bin)
  BY DEF PackTypeOK
<1>2. bins' \in Seq(Bin)
  <2>1. ASSUME NEW i \in DOMAIN bins, bins' = [bins EXCEPT ![i] = Added(@, s)]
        PROVE  bins' \in Seq(Bin)
    <3>1. bins[i] \in Bin
      BY <1>1
    <3>2. Added(bins[i], s) \in Bin
      BY <3>1, AddedTyped
    <3>. QED BY <1>1, <2>1, <3>2
  <2>2. ASSUME bins' = Append(bins, Added(EmptyBin, s)) PROVE bins' \in Seq(Bin)
    <3>1. Added(EmptyBin, s) \in Bin
      BY EmptyBinTyped, AddedTyped
    <3>. QED BY <1>1, <2>2, <3>1
  <2>. QED BY <2>1, <2>2 DEF Place
<1>3. PackTypeOK'
  BY <1>0, <1>2 DEF Place, PackTypeOK
<1>4. Phases' /\ Lengths'
  BY <1>0 DEF Place, Phases, Lengths
<1>. QED BY <1>0, <1>3, <1>4

\* A bin is taken to be split.
LEMMA SplitTypes ==
    ASSUME Types, NEW i \in DOMAIN bins, StartSplit(i)
    PROVE  Types'
<1>. USE DEF Types
<1>0. Id' = Id /\ Bin' = Bin /\ SamplesFit'
  BY SameSamples DEF StartSplit
<1>1. bins[i].samples \in SUBSET Id /\ i \in Nat
  <2>1. bins \in Seq(Bin)
    BY DEF PackTypeOK
  <2>2. bins[i] \in Bin /\ i \in Nat
    BY <2>1
  <2>. QED BY <2>2 DEF Bin
<1>2. PackTypeOK'
  BY <1>0, EmptyBinTyped DEF StartSplit, PackTypeOK
<1>3. Phases' /\ Lengths'
  BY <1>0, <1>1, EmptyBinTyped DEF StartSplit, Phases, Lengths
<1>. QED BY <1>0, <1>2, <1>3

\* A sample of it moves to one side.
LEMMA HalveTypes ==
    ASSUME Types, NEW s \in Id, Halve(s)
    PROVE  Types'
<1>. USE DEF Types
<1>0. Id' = Id /\ Bin' = Bin /\ SamplesFit'
  BY SameSamples DEF Halve
<1>1. halving \in [bin : Nat, rest : SUBSET Id, left : Bin, right : Bin]
  BY DEF Phases
<1>2. Added(halving.left, s) \in Bin /\ Added(halving.right, s) \in Bin
  BY <1>1, AddedTyped
<1>3. halving' \in [bin : Nat, rest : SUBSET Id, left : Bin, right : Bin] /\ halving'.bin = halving.bin
  BY <1>1, <1>2 DEF Halve
<1>4. PackTypeOK'
  BY <1>0, <1>3 DEF Halve, PackTypeOK
<1>5. Phases' /\ Lengths'
  BY <1>0, <1>3 DEF Halve, Phases, Lengths
<1>. QED BY <1>0, <1>4, <1>5

\* The two sides replace it.
LEMMA EndSplitTypes ==
    ASSUME Types, EndSplit
    PROVE  Types'
<1>. USE DEF Types
<1>0. Id' = Id /\ Bin' = Bin /\ SamplesFit'
  BY SameSamples DEF EndSplit
<1>1. bins \in Seq(Bin) /\ halving.left \in Bin /\ halving.right \in Bin
  BY DEF PackTypeOK
<1>2. [bins EXCEPT ![halving.bin] = halving.left] \in Seq(Bin)
  <2>1. halving.bin \in 1..Len(bins)
    BY <1>1 DEF EndSplit, Phases
  <2>. QED BY <1>1, <2>1, ExceptSeq
<1>3. bins' \in Seq(Bin)
  BY <1>1, <1>2, AppendProperties DEF EndSplit
<1>4. PackTypeOK'
  BY <1>0, <1>3 DEF EndSplit, PackTypeOK
<1>5. Phases' /\ Lengths'
  BY <1>0 DEF EndSplit, Phases, Lengths
<1>. QED BY <1>0, <1>4, <1>5

\* Bins become micro-batches, dummies are appended, indices refer to both.
LEMMA FormGroupsTypes ==
    ASSUME Types, FormGroups
    PROVE  Types'
<1>. USE DEF Types
<1>. DEFINE batches == [i \in DOMAIN bins |-> MicroBatch(bins[i])]
<1>0. Id' = Id /\ Bin' = Bin /\ Micro' = Micro /\ SamplesFit'
  BY SameSamples DEF FormGroups
<1>1. batches \in Seq(Micro)
  BY BatchesTyped DEF PackTypeOK
<1>2. Dummies(batches, TRUE) \in Seq(Micro) /\ Dummies(batches, FALSE) \in Seq(Micro)
  <2>. HIDE DEF batches
  <2>1. \A mm \in BOOLEAN : Dummies(batches, mm) \in Seq({b \in Micro : b.dummy /\ b.mm = mm})
    BY <1>1, DummiesTyped
  <2>2. \A mm \in BOOLEAN : {b \in Micro : b.dummy /\ b.mm = mm} \subseteq Micro
    OBVIOUS
  <2>3. \A mm \in BOOLEAN : Dummies(batches, mm) \in Seq(Micro)
    BY <2>1, <2>2, SeqMonotonic
  <2>. QED BY <2>3
<1>3. micro' \in Seq(Micro)
  <2>1. micro' = batches \o Dummies(batches, TRUE) \o Dummies(batches, FALSE)
    BY DEF FormGroups
  <2>. HIDE DEF batches
  <2>. QED BY <1>1, <1>2, <2>1, ConcatProperties
<1>4. /\ stage = "split" /\ stage' = "next" /\ groups' = <<TRUE, FALSE>>
      /\ UNCHANGED <<unplaced, bins, halving, unranked, states, parts, loads, ranks>>
  BY DEF FormGroups
<1>5. /\ unranked = {} /\ states = {}
      /\ parts = [w \in Worker |-> <<>>] /\ ranks = [w \in Worker |-> <<>>]
  BY <1>4 DEF Phases
<1>6. PackTypeOK'
  BY <1>0, <1>3, <1>4, <1>5 DEF PackTypeOK, Micro
<1>7. Phases' /\ Lengths'
  BY <1>0, <1>4 DEF Phases, Lengths
<1>. QED BY <1>0, <1>6, <1>7

\* The steps that only move on to another group or stage.
LEMMA RankTypes ==
    ASSUME Types, StartGroup \/ SkipGroup \/ EndPack \/ Return
    PROVE  Types'
<1>. USE DEF Types
<1>0. Id' = Id /\ Bin' = Bin /\ SamplesFit'
  BY SameSamples DEF StartGroup, SkipGroup, EndPack, Return
<1>1. Group \subseteq DOMAIN micro
  BY DEF Group, OfModality
<1>2. groups # <<>> => Tail(groups) \in Seq(BOOLEAN)
  BY HeadTailProperties DEF PackTypeOK
<1>3. PackTypeOK'
  BY <1>0, <1>1, <1>2 DEF StartGroup, SkipGroup, EndPack, Return, PackTypeOK
<1>4. Phases' /\ Lengths'
  BY <1>0 DEF StartGroup, SkipGroup, EndPack, Return, Phases, Lengths
<1>. QED BY <1>0, <1>3, <1>4

\* Costs are numbers.
LEMMA WorkIsInt ==
    ASSUME PackTypeOK
    PROVE  \A i \in DOMAIN micro : micro[i].work \in Int
<1>. DEFINE M == [samples : SUBSET Id, mm : BOOLEAN, dummy : BOOLEAN, length : Nat, work : Int]
<1>1. micro \in Seq(M)
  BY DEF PackTypeOK
<1>2. \A i \in DOMAIN micro : micro[i] \in M
  <2>. HIDE DEF M
  <2>. QED BY <1>1
<1>. QED BY <1>2

\* A chunk of the sorted items becomes a state: one item per worker.
LEMMA PushTypes ==
    ASSUME Types, Push
    PROVE  Types'
<1>. USE DEF Types
<1>0. Id' = Id /\ Bin' = Bin /\ SamplesFit'
  BY SameSamples DEF Push
<1>1. PICK chunk \in [Worker -> unranked] :
        /\ IsLightest(chunk)
        /\ states' = states \cup {Reversed(Singletons(chunk))}
        /\ unranked' = {i \in unranked : \A w \in Worker : chunk[w] # i}
  BY DEF Push
<1>2. /\ Reversed(Singletons(chunk)) \in StateOf(DOMAIN micro)
      /\ Even(Reversed(Singletons(chunk)))
  <2>1. chunk \in [Worker -> DOMAIN micro]
    BY DEF PackTypeOK
  <2>. QED BY <2>1, PushTyped, WorkIsInt
<1>3. states' \subseteq StateOf(DOMAIN micro) /\ \A a \in states' : Even(a)
  BY <1>1, <1>2 DEF PackTypeOK, StateOf, Lengths
<1>4. PackTypeOK'
  BY <1>0, <1>1, <1>3 DEF Push, PackTypeOK, StateOf
<1>5. Phases' /\ Lengths'
  BY <1>0, <1>3 DEF Push, Phases, Lengths
<1>. QED BY <1>0, <1>4, <1>5

\* Two states merged worker by worker have as many items at every worker again.
LEMMA MergeTypes ==
    ASSUME Types, Merge
    PROVE  Types'
<1>. USE DEF Types
<1>0. Id' = Id /\ Bin' = Bin /\ SamplesFit'
  BY SameSamples DEF Merge
<1>1. PICK a \in states, b \in states, p \in Shuffles :
        states' = (states \ {a, b}) \cup {[w \in Worker |-> Merged(a, b)[p[w]]]}
  BY DEF Merge
<1>2. a \in StateOf(DOMAIN micro) /\ b \in StateOf(DOMAIN micro) /\ Even(a) /\ Even(b)
  BY DEF PackTypeOK, StateOf, Lengths
<1>3. Merged(a, b) \in StateOf(DOMAIN micro) /\ Even(Merged(a, b))
  BY <1>2, MergedTyped
<1>4. /\ [w \in Worker |-> Merged(a, b)[p[w]]] \in StateOf(DOMAIN micro)
      /\ Even([w \in Worker |-> Merged(a, b)[p[w]]])
  BY <1>3, ShuffledTyped
<1>5. states' \subseteq StateOf(DOMAIN micro) /\ \A s \in states' : Even(s)
  BY <1>1, <1>4 DEF PackTypeOK, StateOf, Lengths
<1>6. PackTypeOK'
  BY <1>0, <1>5 DEF Merge, PackTypeOK, StateOf
<1>7. Phases' /\ Lengths'
  BY <1>0, <1>5 DEF Merge, Phases, Lengths
<1>. QED BY <1>0, <1>6, <1>7

\* The last state gives the parts.
LEMMA RefineTypes ==
    ASSUME Types, StartRefine
    PROVE  Types'
<1>. USE DEF Types
<1>0. Id' = Id /\ Bin' = Bin /\ SamplesFit'
  BY SameSamples DEF StartRefine
<1>1. PICK a \in states :
        /\ parts' = [w \in Worker |-> a[w].items] /\ loads' = [w \in Worker |-> a[w].total]
  BY DEF StartRefine
<1>2. a \in StateOf(DOMAIN micro) /\ Even(a)
  BY DEF PackTypeOK, StateOf, Lengths
<1>3. /\ parts' \in [Worker -> Seq(DOMAIN micro)] /\ loads' \in [Worker -> Int]
      /\ \A v, w \in Worker : Len(parts'[v]) = Len(parts'[w])
  BY <1>1, <1>2 DEF StateOf, Even
<1>4. PackTypeOK'
  BY <1>0, <1>3 DEF StartRefine, PackTypeOK
<1>5. Phases' /\ Lengths'
  BY <1>0, <1>3 DEF StartRefine, Phases, Lengths
<1>. QED BY <1>0, <1>4, <1>5

\* Exchanging an item of two partitions.
Exchanged(P, l, i, r, j, w) ==
    IF w = l THEN [P[l] EXCEPT ![i] = P[r][j]]
    ELSE IF w = r THEN [P[r] EXCEPT ![j] = P[l][i]] ELSE P[w]

\* What exchanging two items of two lists does, position by position.
LEMMA Exchange ==
    ASSUME NEW G, NEW P \in [Worker -> Seq(G)], NEW l \in Worker, NEW r \in Worker, l # r,
           NEW i \in 1..Len(P[l]), NEW j \in 1..Len(P[r]), NEW w \in Worker
    PROVE  /\ Exchanged(P, l, i, r, j, w) \in Seq(G)
           /\ Len(Exchanged(P, l, i, r, j, w)) = Len(P[w])
           /\ \A k \in 1..Len(P[w]) :
                Exchanged(P, l, i, r, j, w)[k] =
                    IF w = l /\ k = i THEN P[r][j]
                    ELSE IF w = r /\ k = j THEN P[l][i] ELSE P[w][k]
<1>1. P[r][j] \in G /\ P[l][i] \in G
  BY ElementOfSeq
<1>2. /\ [P[l] EXCEPT ![i] = P[r][j]] \in Seq(G) /\ Len([P[l] EXCEPT ![i] = P[r][j]]) = Len(P[l])
      /\ \A k \in 1..Len(P[l]) :
            [P[l] EXCEPT ![i] = P[r][j]][k] = IF k = i THEN P[r][j] ELSE P[l][k]
  BY <1>1, ExceptSeq
<1>3. /\ [P[r] EXCEPT ![j] = P[l][i]] \in Seq(G) /\ Len([P[r] EXCEPT ![j] = P[l][i]]) = Len(P[r])
      /\ \A k \in 1..Len(P[r]) :
            [P[r] EXCEPT ![j] = P[l][i]][k] = IF k = j THEN P[l][i] ELSE P[r][k]
  BY <1>1, ExceptSeq
<1>. QED BY <1>2, <1>3 DEF Exchanged

\* A swap stays within the two partitions.
LEMMA SwapParts ==
    ASSUME Types, NEW s \in Swaps
    PROVE  /\ s.left \in Worker /\ s.right \in Worker /\ s.left < s.right
           /\ s.i \in 1..Len(parts[s.left]) /\ s.j \in 1..Len(parts[s.right])
           /\ parts[s.left][s.i] \in DOMAIN micro /\ parts[s.right][s.j] \in DOMAIN micro
           /\ micro[parts[s.left][s.i]].work \in Int /\ micro[parts[s.right][s.j]].work \in Int
<1>1. /\ s.left \in Worker /\ s.right \in Worker /\ s.left < s.right
      /\ s.i \in DOMAIN parts[1] /\ s.j \in DOMAIN parts[1]
  BY DEF Swaps
<1>2. 1 \in Worker
  BY PackingAssumption DEF Worker
<1>3. \A w \in Worker : parts[w] \in Seq(DOMAIN micro)
  BY DEF Types, PackTypeOK
<1>4. Len(parts[1]) = Len(parts[s.left]) /\ Len(parts[1]) = Len(parts[s.right])
  BY <1>1, <1>2 DEF Types, Lengths
<1>5. s.i \in 1..Len(parts[s.left]) /\ s.j \in 1..Len(parts[s.right])
  BY <1>1, <1>2, <1>3, <1>4
<1>6. parts[s.left][s.i] \in DOMAIN micro /\ parts[s.right][s.j] \in DOMAIN micro
  BY <1>1, <1>3, <1>5, ElementOfSeq
<1>7. micro[parts[s.left][s.i]].work \in Int /\ micro[parts[s.right][s.j]].work \in Int
  BY <1>6, WorkIsInt DEF Types
<1>. QED BY <1>1, <1>5, <1>6, <1>7

\* A swap is such an exchange.
LEMMA SwapExchanges ==
    ASSUME Types, NEW s \in Swaps, Swap(s)
    PROVE  parts' = [w \in Worker |-> Exchanged(parts, s.left, s.i, s.right, s.j, w)]
<1>1. s.left \in Worker /\ s.right \in Worker /\ s.left # s.right
  BY SwapParts DEF Worker
<1>. QED BY <1>1 DEF Swap, Exchanged, Types, PackTypeOK

\* The loads after a swap are numbers.
LEMMA LoadsAfterTyped ==
    ASSUME Types, NEW s \in Swaps
    PROVE  LoadsAfter(s) \in [Worker -> Int]
<1>. DEFINE gain == micro[parts[s.right][s.j]].work - micro[parts[s.left][s.i]].work
<1>1. gain \in Int
  BY SwapParts
<1>2. loads \in [Worker -> Int]
  BY DEF Types, PackTypeOK
<1>3. s.left \in Worker /\ s.right \in Worker /\ s.left # s.right
  BY SwapParts DEF Worker
<1>4. LoadsAfter(s) = [loads EXCEPT ![s.left] = @ + gain, ![s.right] = @ - gain]
  BY DEF LoadsAfter
<1>. QED
  <2>. HIDE DEF gain
  <2>. QED BY <1>1, <1>2, <1>3, <1>4

\* So a swap keeps the parts' lengths and items.
LEMMA SwapTypes ==
    ASSUME Types, NEW s \in Swaps, Swap(s)
    PROVE  Types'
<1>0. Id' = Id /\ Bin' = Bin /\ SamplesFit'
  BY SameSamples DEF Swap, Types
<1>1. /\ s.left \in Worker /\ s.right \in Worker /\ s.left # s.right
      /\ s.i \in 1..Len(parts[s.left]) /\ s.j \in 1..Len(parts[s.right])
      /\ parts[s.left][s.i] \in DOMAIN micro /\ parts[s.right][s.j] \in DOMAIN micro
  BY SwapParts DEF Worker
<1>2. parts \in [Worker -> Seq(DOMAIN micro)]
  BY DEF Types, PackTypeOK
<1>3. parts' = [w \in Worker |-> Exchanged(parts, s.left, s.i, s.right, s.j, w)]
  BY SwapExchanges
<1>4. /\ parts' \in [Worker -> Seq(DOMAIN micro)]
      /\ \A w \in Worker : Len(parts'[w]) = Len(parts[w])
  BY <1>1, <1>2, <1>3, Exchange
<1>6. loads' \in [Worker -> Int]
  BY LoadsAfterTyped DEF Swap
<1>7. PackTypeOK'
  BY <1>0, <1>4, <1>6 DEF Swap, PackTypeOK, Types
<1>8. Phases' /\ Lengths'
  BY <1>0, <1>4 DEF Swap, Phases, Lengths, Types
<1>. QED BY <1>0, <1>7, <1>8 DEF Types

\* The parts are appended to the ranks.
LEMMA AssignTypes ==
    ASSUME Types, Assign
    PROVE  Types'
<1>. USE DEF Types
<1>0. Id' = Id /\ Bin' = Bin /\ SamplesFit'
  BY SameSamples DEF Assign
<1>1. ranks' \in [Worker -> Seq(DOMAIN micro)]
  <2>1. \A w \in Worker : ranks[w] \o parts[w] \in Seq(DOMAIN micro)
    BY ConcatProperties DEF PackTypeOK
  <2>. QED BY <2>1 DEF Assign
<1>2. groups # <<>>
  BY DEF Assign, Phases
<1>3. groups' \in Seq(BOOLEAN)
  BY <1>2, HeadTailProperties DEF Assign, PackTypeOK
<1>4. PackTypeOK'
  BY <1>0, <1>1, <1>3 DEF Assign, PackTypeOK
<1>5. Phases' /\ Lengths'
  BY <1>0 DEF Assign, Phases, Lengths
<1>. QED BY <1>0, <1>4, <1>5

\* Every step, one case per action.
LEMMA TypesNext ==
    ASSUME Types, [Next]_vars
    PROVE  Types'
<1>1. CASE UNCHANGED vars
  BY <1>1 DEF vars, Types, PackTypeOK, SamplesFit, Phases, Lengths, Id, Bin
<1>2. CASE Next
  BY <1>2, PlaceTypes, SplitTypes, HalveTypes, EndSplitTypes, FormGroupsTypes, RankTypes, PushTypes,
     MergeTypes, RefineTypes, SwapTypes, AssignTypes DEF Next
<1>. QED BY <1>1, <1>2

\* Every variable of the packing keeps its type, whatever batch is packed, for any numbers of
\* workers, lengths and costs.
THEOREM PackTypeCorrect == Spec => []PackTypeOK
<1>1. Types => PackTypeOK
  BY DEF Types
<1>. QED BY <1>1, TypesInit, TypesNext, PTL DEF Spec

-----------------------------------------------------------------------------
(* Ranks in step *)

\* While the micro-batches of a group are distributed, all that is distributed is of the group.
OfTheGroup ==
    /\ stage = "rank" => unranked \subseteq Group /\ states \subseteq StateOf(Group)
    /\ stage = "refine" => parts \in [Worker -> Seq(Group)]

\* The lists of the ranks are as long, and of the same modality at every position.
Aligned ==
    \A v, w \in Worker :
        /\ Len(ranks[v]) = Len(ranks[w])
        /\ \A k \in DOMAIN ranks[v] : micro[ranks[v][k]].mm = micro[ranks[w][k]].mm

\* The group depends on the micro-batches and the groups left only.
LEMMA SameGroup ==
    ASSUME micro' = micro, groups' = groups
    PROVE  Group' = Group
BY DEF Group, OfModality

\* All items of a group are of its modality.
LEMMA GroupModality == \A i \in Group : i \in DOMAIN micro /\ micro[i].mm = Head(groups)
BY DEF Group, OfModality

\* The items of states and parts stay those of the group: merges and swaps bring in none from
\* elsewhere.
LEMMA OfTheGroupNext ==
    ASSUME Types, OfTheGroup, [Next]_vars
    PROVE  OfTheGroup'
<1>1. CASE StartGroup
  BY <1>1, SameGroup DEF StartGroup, OfTheGroup
<1>2. CASE Push
  <2>1. PICK chunk \in [Worker -> unranked] :
            /\ states' = states \cup {Reversed(Singletons(chunk))}
            /\ unranked' = {i \in unranked : \A w \in Worker : chunk[w] # i}
    BY <1>2 DEF Push
  <2>2. unranked \subseteq Group /\ states \subseteq StateOf(Group)
    BY <1>2 DEF Push, OfTheGroup
  <2>3. chunk \in [Worker -> Group] /\ \A i \in Group : micro[i].work \in Int
    BY <2>2, WorkIsInt, GroupModality DEF Types
  <2>4. Reversed(Singletons(chunk)) \in StateOf(Group)
    BY <2>3, PushTyped
  <2>5. Group' = Group
    BY <1>2, SameGroup DEF Push
  <2>. QED BY <1>2, <2>1, <2>2, <2>4, <2>5 DEF Push, OfTheGroup, StateOf
<1>3. CASE Merge
  <2>1. PICK a \in states, b \in states, p \in Shuffles :
            states' = (states \ {a, b}) \cup {[w \in Worker |-> Merged(a, b)[p[w]]]}
    BY <1>3 DEF Merge
  <2>2. states \subseteq StateOf(Group) /\ unranked \subseteq Group
    BY <1>3 DEF Merge, OfTheGroup
  <2>3. Merged(a, b) \in StateOf(Group) /\ Even(Merged(a, b))
    BY <2>2, MergedTyped DEF Types, Lengths
  <2>4. [w \in Worker |-> Merged(a, b)[p[w]]] \in StateOf(Group)
    BY <2>3, ShuffledTyped
  <2>5. Group' = Group
    BY <1>3, SameGroup DEF Merge
  <2>. QED BY <1>3, <2>1, <2>2, <2>4, <2>5 DEF Merge, OfTheGroup, StateOf
<1>4. CASE StartRefine
  <2>1. PICK a \in states : parts' = [w \in Worker |-> a[w].items]
    BY <1>4 DEF StartRefine
  <2>2. a \in StateOf(Group)
    BY <1>4 DEF StartRefine, OfTheGroup
  <2>3. Group' = Group
    BY <1>4, SameGroup DEF StartRefine
  <2>. QED BY <1>4, <2>1, <2>2, <2>3 DEF StartRefine, OfTheGroup, StateOf
<1>5. ASSUME NEW s \in Swaps, Swap(s) PROVE OfTheGroup'
  <2>1. /\ s.left \in Worker /\ s.right \in Worker /\ s.left # s.right
        /\ s.i \in 1..Len(parts[s.left]) /\ s.j \in 1..Len(parts[s.right])
    BY SwapParts DEF Worker
  <2>2. parts \in [Worker -> Seq(Group)]
    BY <1>5 DEF Swap, OfTheGroup
  <2>3. parts' \in [Worker -> Seq(Group)]
    <3>1. parts' = [w \in Worker |-> Exchanged(parts, s.left, s.i, s.right, s.j, w)]
      BY <1>5, SwapExchanges
    <3>. QED BY <2>1, <2>2, <3>1, Exchange
  <2>4. Group' = Group
    BY <1>5, SameGroup DEF Swap
  <2>. QED BY <1>5, <2>3, <2>4 DEF Swap, OfTheGroup
<1>6. CASE EndPack \/ EndSplit \/ FormGroups \/ SkipGroup \/ Assign \/ Return
  BY <1>6 DEF EndPack, EndSplit, FormGroups, SkipGroup, Assign, Return, OfTheGroup
<1>7. ASSUME NEW s \in Id, Place(s) \/ Halve(s) PROVE OfTheGroup'
  BY <1>7 DEF Place, Halve, OfTheGroup
<1>8. ASSUME NEW i \in DOMAIN bins, StartSplit(i) PROVE OfTheGroup'
  BY <1>8 DEF StartSplit, OfTheGroup
<1>9. CASE UNCHANGED vars
  BY <1>9, SameGroup DEF vars, OfTheGroup
<1>. QED BY <1>1, <1>2, <1>3, <1>4, <1>5, <1>6, <1>7, <1>8, <1>9 DEF Next

\* Parts of one length and one modality keep the ranks aligned.
LEMMA AlignedNext ==
    ASSUME Types, OfTheGroup, Aligned, [Next]_vars
    PROVE  Aligned'
<1>1. CASE Assign
  <2>1. /\ \A w \in Worker : ranks'[w] = ranks[w] \o parts[w]
        /\ micro' = micro /\ parts \in [Worker -> Seq(Group)]
    BY <1>1 DEF Assign, OfTheGroup
  <2>2. ranks \in [Worker -> Seq(DOMAIN micro)] /\ parts \in [Worker -> Seq(DOMAIN micro)]
    BY DEF Types, PackTypeOK
  <2>3. \A v, w \in Worker : Len(ranks[v]) = Len(ranks[w]) /\ Len(parts[v]) = Len(parts[w])
    BY DEF Types, Lengths, Aligned
  <2>4. \A w \in Worker :
            /\ Len(ranks'[w]) = Len(ranks[w]) + Len(parts[w])
            /\ DOMAIN ranks'[w] = 1..(Len(ranks[w]) + Len(parts[w]))
            /\ \A k \in 1..(Len(ranks[w]) + Len(parts[w])) :
                ranks'[w][k] = IF k <= Len(ranks[w]) THEN ranks[w][k]
                               ELSE parts[w][k - Len(ranks[w])]
    <3>. SUFFICES ASSUME NEW w \in Worker
         PROVE  /\ Len(ranks'[w]) = Len(ranks[w]) + Len(parts[w])
                /\ DOMAIN ranks'[w] = 1..(Len(ranks[w]) + Len(parts[w]))
                /\ \A k \in 1..(Len(ranks[w]) + Len(parts[w])) :
                    ranks'[w][k] = IF k <= Len(ranks[w]) THEN ranks[w][k]
                                   ELSE parts[w][k - Len(ranks[w])]
      OBVIOUS
    <3>1. ranks[w] \in Seq(DOMAIN micro) /\ parts[w] \in Seq(DOMAIN micro)
      BY <2>2
    <3>2. /\ ranks[w] \o parts[w] \in Seq(DOMAIN micro)
          /\ Len(ranks[w] \o parts[w]) = Len(ranks[w]) + Len(parts[w])
          /\ \A k \in 1..(Len(ranks[w]) + Len(parts[w])) : (ranks[w] \o parts[w])[k] =
                IF k <= Len(ranks[w]) THEN ranks[w][k] ELSE parts[w][k - Len(ranks[w])]
      BY <3>1, ConcatProperties
    <3>. DEFINE c == ranks[w] \o parts[w]
    <3>3. ranks'[w] = c /\ c \in Seq(DOMAIN micro)
      BY <2>1, <3>2
    <3>4. DOMAIN c = 1..Len(c)
      <4>. HIDE DEF c
      <4>. QED BY <3>3, LenProperties
    <3>. HIDE DEF c
    <3>. QED BY <3>2, <3>3, <3>4 DEF c
  <2>5. ASSUME NEW v \in Worker, NEW w \in Worker, NEW k \in DOMAIN ranks'[v]
        PROVE  micro[ranks'[v][k]].mm = micro[ranks'[w][k]].mm
    <3>1. CASE k <= Len(ranks[v])
      <4>1. k \in DOMAIN ranks[v] /\ ranks'[v][k] = ranks[v][k] /\ ranks'[w][k] = ranks[w][k]
        BY <2>2, <2>3, <2>4, <3>1
      <4>. QED BY <4>1 DEF Aligned
    <3>2. CASE k > Len(ranks[v])
      <4>. DEFINE l == k - Len(ranks[v])
      <4>1. k \in 1..(Len(ranks[v]) + Len(parts[v])) /\ k \in 1..(Len(ranks[w]) + Len(parts[w]))
        BY <2>3, <2>4
      <4>2. /\ Len(ranks[v]) \in Nat /\ Len(ranks[v]) = Len(ranks[w])
            /\ Len(parts[v]) \in Nat /\ Len(parts[v]) = Len(parts[w])
        BY <2>2, <2>3
      <4>3. l \in 1..Len(parts[v]) /\ l \in 1..Len(parts[w])
        BY <3>2, <4>1, <4>2, Shift
      <4>4. ranks'[v][k] = parts[v][l] /\ ranks'[w][k] = parts[w][l]
        <5>1. ~ (k <= Len(ranks[v])) /\ ~ (k <= Len(ranks[w]))
          BY <3>2, <4>1, <4>2
        <5>. QED BY <2>4, <4>1, <4>2, <5>1
      <4>5. parts[v][l] \in Group /\ parts[w][l] \in Group
        BY <2>1, <4>3, ElementOfSeq
      <4>. QED BY <4>4, <4>5, GroupModality
    <3>. QED BY <2>2, <2>4, <3>1, <3>2
  <2>6. \A v, w \in Worker : Len(ranks'[v]) = Len(ranks'[w])
    BY <2>3, <2>4
  <2>. QED BY <2>1, <2>5, <2>6 DEF Aligned
<1>2. CASE FormGroups
  <2>1. ranks = [w \in Worker |-> <<>>] /\ ranks' = ranks
    BY <1>2 DEF FormGroups, Types, Phases
  <2>. QED BY <2>1 DEF Aligned
<1>3. CASE UNCHANGED <<micro, ranks>>
  BY <1>3 DEF Aligned
<1>4. [Next]_vars => Assign \/ FormGroups \/ UNCHANGED <<micro, ranks>>
  BY DEF Next, Place, EndPack, StartSplit, Halve, EndSplit, StartGroup, SkipGroup, Push, Merge,
     StartRefine, Swap, Return, vars
<1>. QED BY <1>1, <1>2, <1>3, <1>4

\* All ranks get as many micro-batches, and of the same modality at every position: an
\* invariant of all stages, not of the end only.
THEOREM RanksInStep == Spec => []SameShape
<1>1. Init => Types /\ OfTheGroup /\ Aligned
  BY TypesInit DEF Init, OfTheGroup, Aligned
<1>2. Types /\ OfTheGroup /\ Aligned /\ [Next]_vars => (Types /\ OfTheGroup /\ Aligned)'
  BY TypesNext, OfTheGroupNext, AlignedNext
<1>3. Aligned => SameShape
  BY DEF Aligned, SameShape
<1>. QED BY <1>1, <1>2, <1>3, PTL DEF Spec

-----------------------------------------------------------------------------
(* Loads close to one another *)

\* The costs of micro-batches that follow one another differ by as much.
WithinNeighbours(spread) ==
    \E c \in [Worker -> Group] :
        Neighbours(c) /\ spread <= micro[c[Workers]].work - micro[c[1]].work

\* Chunks are taken from the light end; the sets of a state are in the order of their totals,
\* and no two of them differ by more than the items of one chunk do.
Balanced ==
    stage = "rank" =>
        /\ \A i \in Group \ unranked, j \in unranked : Lighter(i, j)
        /\ \A a \in states :
            /\ \A v, w \in Worker : v < w => a[v].total >= a[w].total
            /\ WithinNeighbours(Spread(a))

\* The first worker and the last one mirror each other.
LEMMA FirstLast == 1 \in Worker /\ Workers \in Worker /\ Mirror(1) = Workers /\ Mirror(Workers) = 1
BY PackingAssumption DEF Worker, Mirror

\* The order of cost, by index among equals, is transitive.
LEMMA LighterTransitive ==
    ASSUME PackTypeOK, NEW i \in DOMAIN micro, NEW j \in DOMAIN micro, NEW k \in DOMAIN micro,
           Lighter(i, j), Lighter(j, k)
    PROVE  Lighter(i, k)
<1>1. DOMAIN micro = 1..Len(micro) /\ Len(micro) \in Nat
  BY DEF PackTypeOK
<1>2. micro[i].work \in Int /\ micro[j].work \in Int /\ micro[k].work \in Int
  BY WorkIsInt
<1>. QED BY <1>1, <1>2 DEF Lighter

\* Of finitely many loads one is the largest.
LEMMA LargestExists ==
    ASSUME NEW f \in [Worker -> Int]
    PROVE  \E m \in Worker : \A w \in Worker : f[w] <= f[m]
<1>. DEFINE HasLargest(n) == \E m \in 1..n : \A w \in 1..n : f[w] <= f[m]
            without == {n \in Worker : ~ HasLargest(n)}
<1>1. Workers \in Nat /\ Worker = 1..Workers /\ Workers \in Worker
  BY PackingAssumption DEF Worker
<1>2. without = {}
  <2>1. SUFFICES ASSUME without # {} PROVE FALSE
    OBVIOUS
  <2>2. without \in SUBSET Nat
    BY <1>1
  <2>3. PICK n \in without : \A k \in without : n <= k
    BY <2>1, <2>2, LeastNat
  <2>4. n # 1
    BY <1>1, <2>3
  <2>5. n - 1 \in Worker /\ n - 1 \notin without
    <3>1. n \in 1..Workers /\ n - 1 \in 1..Workers /\ ~ (n <= n - 1)
      BY <1>1, <2>3, <2>4
    <3>. HIDE DEF without
    <3>. QED BY <1>1, <2>3, <3>1
  <2>6. PICK m \in 1..(n - 1) : \A w \in 1..(n - 1) : f[w] <= f[m]
    BY <2>5
  <2>7. f[m] \in Int /\ f[n] \in Int /\ \A w \in 1..n : f[w] \in Int
    BY <1>1, <2>3, <2>6
  <2>8. CASE f[n] <= f[m]
    <3>1. \A w \in 1..n : f[w] <= f[m]
      BY <1>1, <2>3, <2>6, <2>8
    <3>. QED BY <1>1, <2>3, <2>6, <3>1
  <2>9. CASE f[m] < f[n]
    <3>1. \A w \in 1..n : f[w] <= f[n]
      BY <1>1, <2>3, <2>6, <2>7, <2>9
    <3>. QED BY <1>1, <2>3, <3>1
  <2>. QED BY <2>7, <2>8, <2>9
<1>3. HasLargest(Workers)
  BY <1>1, <1>2
<1>. QED BY <1>1, <1>3

\* No two loads are further apart than the bound.
Within(f, bound) == \A v, w \in Worker : f[v] - f[w] <= bound

\* The loads g are f with a gain moved from r to l.
Moved(f, g, l, r, gain) ==
    /\ g[l] = f[l] + gain /\ g[r] = f[r] - gain
    /\ \A w \in Worker \ {l, r} : g[w] = f[w]

\* A swap that improves the score does not increase the spread of the loads.
LEMMA BetterCloser ==
    ASSUME NEW f \in [Worker -> Int], NEW g \in [Worker -> Int], NEW l \in Worker,
           NEW r \in Worker, l # r, NEW gain \in Int, Moved(f, g, l, r, gain),
           Better(g, f), NEW D \in Int, Within(f, D)
    PROVE  Within(g, D)
<1>. USE DEF Within, Moved
<1>1. CASE \A v \in Worker : \E w \in Worker : g[v] < f[w]
  <2>1. PICK m \in Worker : \A w \in Worker : g[w] <= g[m]
    BY LargestExists
  <2>2. PICK x \in Worker : g[m] < f[x]
    BY <1>1
  <2>3. \A v \in Worker : g[v] < f[x]
    BY <2>1, <2>2
  <2>4. ASSUME NEW w \in Worker PROVE \E y \in Worker : g[w] >= f[y]
    <3>1. CASE w # l /\ w # r
      BY <3>1
    <3>2. CASE gain >= 0
      <4>1. x = r
        BY <2>3, <3>2
      <4>2. g[r] >= f[l] /\ g[l] >= f[l]
        BY <2>3, <3>2, <4>1
      <4>. QED BY <3>1, <4>2
    <3>3. CASE gain < 0
      <4>1. x = l
        BY <2>3, <3>3
      <4>2. g[l] >= f[r] /\ g[r] >= f[r]
        BY <2>3, <3>3, <4>1
      <4>. QED BY <3>1, <4>2
    <3>. QED BY <3>2, <3>3
  <2>5. ASSUME NEW v \in Worker, NEW w \in Worker PROVE g[v] - g[w] <= D
    <3>1. PICK y \in Worker : g[w] >= f[y]
      BY <2>4
    <3>2. f[x] - f[y] <= D /\ g[v] < f[x]
      BY <2>3
    <3>. QED BY <3>1, <3>2
  <2>. QED BY <2>5
<1>2. CASE \A v, w \in Worker : \E x, y \in Worker : g[v] - g[w] < f[x] - f[y]
  <2>. SUFFICES ASSUME NEW v \in Worker, NEW w \in Worker PROVE g[v] - g[w] <= D
    OBVIOUS
  <2>1. \A t \in Worker : \E x, y \in Worker : g[v] - g[t] < f[x] - f[y]
    BY <1>2
  <2>2. \E x, y \in Worker : g[v] - g[w] < f[x] - f[y]
    BY <2>1
  <2>3. PICK x \in Worker, y \in Worker : g[v] - g[w] < f[x] - f[y]
    BY <2>2
  <2>. QED BY <2>3
<1>. QED BY <1>1, <1>2 DEF Better

\* A chunk taken from the light end is of micro-batches that follow one another.
LEMMA LightestNeighbours ==
    ASSUME unranked \subseteq Group, \A i \in Group \ unranked, j \in unranked : Lighter(i, j),
           NEW chunk \in [Worker -> unranked], IsLightest(chunk)
    PROVE  chunk \in [Worker -> Group] /\ Neighbours(chunk)
<1>1. \A v, w \in Worker : v < w => Lighter(chunk[v], chunk[w])
  BY DEF IsLightest
<1>2. ASSUME NEW i \in Group
      PROVE  Lighter(i, chunk[1]) \/ Lighter(chunk[Workers], i) \/ \E w \in Worker : chunk[w] = i
  <2>1. CASE i \in unranked
    BY <2>1 DEF IsLightest
  <2>2. CASE i \notin unranked
    BY <2>2, FirstLast
  <2>. QED BY <2>1, <2>2
<1>. QED BY <1>1, <1>2 DEF Neighbours

\* Merging the largest with the smallest: the spread is at most that of one of the two.
LEMMA MergedSpread ==
    ASSUME NEW G, NEW a \in StateOf(G), NEW b \in StateOf(G), Even(a), Even(b),
           \A v, w \in Worker : v < w => a[v].total >= a[w].total,
           \A v, w \in Worker : v < w => b[v].total >= b[w].total,
           NEW p \in Shuffles
    PROVE  \/ Spread([w \in Worker |-> Merged(a, b)[p[w]]]) <= Spread(a)
           \/ Spread([w \in Worker |-> Merged(a, b)[p[w]]]) <= Spread(b)
<1>. DEFINE x == p[1]
            y == p[Workers]
<1>1. x \in Worker /\ y \in Worker /\ Mirror(x) \in Worker /\ Mirror(y) \in Worker
  BY FirstLast, MirrorTyped DEF Shuffles
<1>2. \A w \in Worker : a[w].total \in Int /\ b[w].total \in Int
  BY DEF StateOf
<1>3. \A w \in Worker : /\ a[w].total <= a[1].total /\ a[w].total >= a[Workers].total
                        /\ b[w].total <= b[1].total /\ b[w].total >= b[Workers].total
  <2>. SUFFICES ASSUME NEW w \in Worker
                PROVE  /\ a[w].total <= a[1].total /\ a[w].total >= a[Workers].total
                       /\ b[w].total <= b[1].total /\ b[w].total >= b[Workers].total
    OBVIOUS
  <2>1. (w = 1 \/ 1 < w) /\ (w = Workers \/ w < Workers)
    BY PackingAssumption DEF Worker
  <2>. QED BY <1>2, <2>1, FirstLast
<1>4. Spread([w \in Worker |-> Merged(a, b)[p[w]]])
        = (a[x].total + b[Mirror(x)].total) - (a[y].total + b[Mirror(y)].total)
  BY <1>1, MergedTyped, FirstLast DEF Spread
<1>5. CASE x <= y
  <2>1. Mirror(y) = Mirror(x) \/ Mirror(y) < Mirror(x)
    BY <1>1, <1>5, PackingAssumption DEF Mirror, Worker
  <2>2. b[Mirror(x)].total <= b[Mirror(y)].total
    BY <1>1, <1>2, <2>1
  <2>. QED BY <1>1, <1>2, <1>3, <1>4, <2>2, FirstLast DEF Spread
<1>6. CASE y < x
  <2>1. a[x].total <= a[y].total
    BY <1>1, <1>6
  <2>. QED BY <1>1, <1>2, <1>3, <1>4, <2>1, FirstLast DEF Spread
<1>7. x <= y \/ y < x
  BY <1>1 DEF Worker
<1>. QED BY <1>5, <1>6, <1>7

\* Neighbours in the order of cost depend on the group only.
LEMMA SameNeighbours ==
    ASSUME micro' = micro, groups' = groups
    PROVE  \A spread : WithinNeighbours(spread) => WithinNeighbours(spread)'
BY SameGroup DEF WithinNeighbours, Neighbours, Lighter

\* A chunk of consecutive items is spread over no more than neighbours are.
LEMMA BalancedPush ==
    ASSUME Types, OfTheGroup, Balanced, Push
    PROVE  Balanced'
<1>1. /\ unranked \subseteq Group /\ Group' = Group /\ stage = "rank" /\ micro' = micro
      /\ \A i \in Group \ unranked, j \in unranked : Lighter(i, j)
      /\ \A a \in states : /\ \A v, w \in Worker : v < w => a[v].total >= a[w].total
                           /\ WithinNeighbours(Spread(a))
  BY SameGroup DEF Push, OfTheGroup, Balanced
<1>2. PICK chunk \in [Worker -> unranked] :
        /\ IsLightest(chunk)
        /\ states' = states \cup {Reversed(Singletons(chunk))}
        /\ unranked' = {i \in unranked : \A w \in Worker : chunk[w] # i}
  BY DEF Push
<1>3. chunk \in [Worker -> Group] /\ Neighbours(chunk)
  BY <1>1, <1>2, LightestNeighbours
<1>4. PackTypeOK /\ Group \subseteq DOMAIN micro
  BY GroupModality DEF Types
<1>5. ASSUME NEW i \in Group \ unranked', NEW j \in unranked' PROVE Lighter(i, j)
  <2>1. j \in unranked /\ \A w \in Worker : chunk[w] # j
    BY <1>2, <1>5
  <2>2. CASE i \notin unranked
    BY <1>1, <1>5, <2>1, <2>2
  <2>3. CASE i \in unranked
    <3>1. PICK w \in Worker : chunk[w] = i
      BY <1>2, <1>5, <2>3
    <3>2. Lighter(chunk[Workers], j)
      BY <1>2, <2>1 DEF IsLightest
    <3>3. CASE w = Workers
      BY <3>1, <3>2, <3>3
    <3>4. CASE w < Workers
      <4>1. Lighter(i, chunk[Workers])
        BY <1>2, <3>1, <3>4, FirstLast DEF IsLightest
      <4>2. i \in DOMAIN micro /\ j \in DOMAIN micro /\ chunk[Workers] \in DOMAIN micro
        BY <1>1, <1>3, <1>4, <2>1, <2>3, FirstLast
      <4>. QED BY <1>4, <3>2, <4>1, <4>2, LighterTransitive
    <3>. QED BY <3>3, <3>4, PackingAssumption DEF Worker
  <2>. QED BY <2>2, <2>3
<1>. DEFINE new == Reversed(Singletons(chunk))
<1>6. \A w \in Worker : new[w].total = micro[chunk[Mirror(w)]].work
  BY MirrorTyped DEF Reversed, Singletons
<1>7. ASSUME NEW v \in Worker, NEW w \in Worker, v < w PROVE new[v].total >= new[w].total
  <2>1. Mirror(w) < Mirror(v) /\ Mirror(v) \in Worker /\ Mirror(w) \in Worker
    BY <1>7, MirrorTyped, PackingAssumption DEF Worker, Mirror
  <2>2. Lighter(chunk[Mirror(w)], chunk[Mirror(v)])
    BY <1>2, <2>1 DEF IsLightest
  <2>3. micro[chunk[Mirror(w)]].work \in Int /\ micro[chunk[Mirror(v)]].work \in Int
    BY <1>3, <1>4, <2>1, WorkIsInt
  <2>. QED BY <1>6, <2>2, <2>3 DEF Lighter
<1>8. WithinNeighbours(Spread(new))
  <2>1. Spread(new) = micro[chunk[Workers]].work - micro[chunk[1]].work
    BY <1>6, FirstLast DEF Spread
  <2>2. micro[chunk[Workers]].work - micro[chunk[1]].work \in Int
    BY <1>3, <1>4, FirstLast, WorkIsInt
  <2>3. Spread(new) <= micro[chunk[Workers]].work - micro[chunk[1]].work
    BY <2>1, <2>2
  <2>. QED BY <1>3, <2>3, Zenon DEF WithinNeighbours
<1>9. \A a \in states' : /\ \A v, w \in Worker : v < w => a[v].total >= a[w].total
                         /\ WithinNeighbours(Spread(a))
  <2>. HIDE DEF new
  <2>. QED BY <1>1, <1>2, <1>7, <1>8 DEF new
<1>10. \A i \in (Group \ unranked)', j \in unranked' : Lighter(i, j)'
  BY <1>1, <1>5 DEF Lighter
<1>11. \A a \in states' : WithinNeighbours(Spread(a))'
  BY <1>1, <1>9, SameNeighbours DEF Push, Spread
<1>. QED BY <1>9, <1>10, <1>11 DEF Balanced

\* The heaviest worker of one state with the lightest of the other: the spread is at most the
\* larger one.
LEMMA BalancedMerge ==
    ASSUME Types, OfTheGroup, Balanced, Merge
    PROVE  Balanced'
<1>1. /\ states \subseteq StateOf(Group) /\ Group' = Group /\ stage = "rank" /\ micro' = micro
      /\ unranked' = unranked /\ groups' = groups
      /\ \A i \in Group \ unranked, j \in unranked : Lighter(i, j)
      /\ \A a \in states : /\ \A v, w \in Worker : v < w => a[v].total >= a[w].total
                           /\ WithinNeighbours(Spread(a))
  BY SameGroup DEF Merge, OfTheGroup, Balanced
<1>2. PICK a \in states, b \in states, p \in Shuffles :
        /\ Descending([w \in Worker |-> Merged(a, b)[p[w]]])
        /\ states' = (states \ {a, b}) \cup {[w \in Worker |-> Merged(a, b)[p[w]]]}
  BY DEF Merge
<1>. DEFINE new == [w \in Worker |-> Merged(a, b)[p[w]]]
<1>3. a \in StateOf(Group) /\ b \in StateOf(Group) /\ Even(a) /\ Even(b)
  BY <1>1 DEF Types, Lengths
<1>4. new \in StateOf(Group)
  BY <1>3, MergedTyped, ShuffledTyped
<1>5. \A v, w \in Worker : v < w => new[v].total >= new[w].total
  <2>. HIDE DEF new
  <2>1. Descending(new)
    BY <1>2 DEF new
  <2>. QED BY <1>4, <2>1 DEF Descending, Larger, StateOf
<1>6. WithinNeighbours(Spread(new))
  <2>1. Spread(new) <= Spread(a) \/ Spread(new) <= Spread(b)
    BY <1>1, <1>3, MergedSpread
  <2>2. Spread(new) \in Int /\ Spread(a) \in Int /\ Spread(b) \in Int
    <3>. HIDE DEF new
    <3>. QED BY <1>3, <1>4, FirstLast DEF Spread, StateOf
  <2>3. ASSUME NEW s \in {a, b}, Spread(new) <= Spread(s) PROVE WithinNeighbours(Spread(new))
    <3>1. PICK c \in [Worker -> Group] :
            Neighbours(c) /\ Spread(s) <= micro[c[Workers]].work - micro[c[1]].work
      BY <1>1, <2>3 DEF WithinNeighbours
    <3>2. micro[c[Workers]].work \in Int /\ micro[c[1]].work \in Int
      BY FirstLast, WorkIsInt, GroupModality DEF Types
    <3>3. Spread(new) <= micro[c[Workers]].work - micro[c[1]].work
      <4>. HIDE DEF new
      <4>. QED BY <2>2, <2>3, <3>1, <3>2
    <3>. QED BY <3>1, <3>3, Zenon DEF WithinNeighbours
  <2>. QED BY <2>1, <2>3
<1>7. \A s \in states' : /\ \A v, w \in Worker : v < w => s[v].total >= s[w].total
                         /\ WithinNeighbours(Spread(s))
  <2>. HIDE DEF new
  <2>. QED BY <1>1, <1>2, <1>5, <1>6 DEF new
<1>8. \A i \in (Group \ unranked)', j \in unranked' : Lighter(i, j)'
  BY <1>1 DEF Lighter
<1>9. \A s \in states' : WithinNeighbours(Spread(s))'
  BY <1>1, <1>7, SameNeighbours DEF Spread
<1>. QED BY <1>7, <1>8, <1>9 DEF Balanced

\* Every step keeps the states balanced.
LEMMA BalancedNext ==
    ASSUME Types, OfTheGroup, Balanced, [Next]_vars
    PROVE  Balanced'
<1>1. CASE StartGroup
  <2>1. unranked' = Group' /\ states' = {}
    BY <1>1, SameGroup DEF StartGroup
  <2>. QED BY <2>1 DEF Balanced
<1>2. CASE stage' # "rank"
  BY <1>2 DEF Balanced
<1>3. CASE UNCHANGED <<stage, micro, groups, unranked, states>>
  <2>1. Group' = Group
    BY <1>3, SameGroup
  <2>2. \A a \in states : WithinNeighbours(Spread(a)) => WithinNeighbours(Spread(a))'
    BY <1>3, SameNeighbours DEF Spread
  <2>. QED BY <1>3, <2>1, <2>2 DEF Balanced, Lighter
<1>4. [Next]_vars => \/ StartGroup \/ Push \/ Merge \/ stage' # "rank"
                     \/ UNCHANGED <<stage, micro, groups, unranked, states>>
  BY DEF Next, Place, EndPack, StartSplit, Halve, EndSplit, FormGroups, SkipGroup, StartRefine,
     Swap, Assign, Return, vars
<1>. QED BY <1>1, <1>2, <1>3, <1>4, BalancedPush, BalancedMerge

\* The loads start as those of a balanced state, and swaps bring them no further apart.
LEMMA LoadsCloseNext ==
    ASSUME Types, OfTheGroup, Balanced, LoadsClose, [Next]_vars
    PROVE  LoadsClose'
<1>1. CASE StartRefine
  <2>1. PICK a \in states : loads' = [w \in Worker |-> a[w].total]
    BY <1>1 DEF StartRefine
  <2>2. /\ a \in StateOf(Group) /\ \A v, w \in Worker : v < w => a[v].total >= a[w].total
        /\ WithinNeighbours(Spread(a))
    BY <1>1 DEF StartRefine, OfTheGroup, Balanced
  <2>3. PICK c \in [Worker -> Group] :
            Neighbours(c) /\ Spread(a) <= micro[c[Workers]].work - micro[c[1]].work
    BY <2>2 DEF WithinNeighbours
  <2>4. \A w \in Worker : a[w].total \in Int
    BY <2>2 DEF StateOf
  <2>5. \A w \in Worker : a[w].total <= a[1].total /\ a[w].total >= a[Workers].total
    <3>. SUFFICES ASSUME NEW w \in Worker
                  PROVE  a[w].total <= a[1].total /\ a[w].total >= a[Workers].total
      OBVIOUS
    <3>1. (w = 1 \/ 1 < w) /\ (w = Workers \/ w < Workers)
      BY PackingAssumption DEF Worker
    <3>. QED BY <2>2, <2>4, <3>1, FirstLast
  <2>6. micro[c[Workers]].work \in Int /\ micro[c[1]].work \in Int
    BY FirstLast, WorkIsInt, GroupModality DEF Types
  <2>7. \A v, w \in Worker : loads'[v] - loads'[w] <= micro[c[Workers]].work - micro[c[1]].work
    BY <2>1, <2>3, <2>4, <2>5, <2>6, FirstLast DEF Spread
  <2>8. Group' = Group /\ micro' = micro /\ Neighbours(c)'
    BY <1>1, <2>3, SameGroup DEF StartRefine, Neighbours, Lighter
  <2>. QED BY <2>3, <2>7, <2>8 DEF LoadsClose
<1>2. ASSUME NEW s \in Swaps, Swap(s) PROVE LoadsClose'
  <2>1. PICK c \in [Worker -> Group] :
            /\ Neighbours(c)
            /\ \A v, w \in Worker : loads[v] - loads[w] <= micro[c[Workers]].work - micro[c[1]].work
    BY <1>2 DEF Swap, LoadsClose
  <2>. DEFINE gain == micro[parts[s.right][s.j]].work - micro[parts[s.left][s.i]].work
              D == micro[c[Workers]].work - micro[c[1]].work
  <2>2. gain \in Int /\ s.left \in Worker /\ s.right \in Worker /\ s.left # s.right
    BY SwapParts DEF Worker
  <2>3. D \in Int
    BY FirstLast, WorkIsInt, GroupModality DEF Types
  <2>4. loads \in [Worker -> Int] /\ loads' \in [Worker -> Int]
    BY <1>2, LoadsAfterTyped DEF Swap, Types, PackTypeOK
  <2>5. /\ Better(loads', loads)
        /\ loads' = [loads EXCEPT ![s.left] = @ + gain, ![s.right] = @ - gain]
    BY <1>2 DEF Swap, LoadsAfter
  <2>6. \A v, w \in Worker : loads'[v] - loads'[w] <= D
    <3>. HIDE DEF gain, D
    <3>1. Within(loads, D)
      BY <2>1 DEF D, Within
    <3>2. Moved(loads, loads', s.left, s.right, gain)
      BY <2>2, <2>4, <2>5 DEF Moved
    <3>3. Within(loads', D)
      BY <2>2, <2>3, <2>4, <2>5, <3>1, <3>2, BetterCloser, Zenon
    <3>. QED BY <3>3 DEF Within
  <2>7. Group' = Group /\ micro' = micro /\ Neighbours(c)'
    BY <1>2, <2>1, SameGroup DEF Swap, Neighbours, Lighter
  <2>. QED BY <2>1, <2>6, <2>7 DEF LoadsClose
<1>3. CASE stage' # "refine"
  BY <1>3 DEF LoadsClose
<1>4. CASE UNCHANGED <<stage, micro, groups, loads>>
  BY <1>4, SameGroup DEF LoadsClose, Neighbours, Lighter
<1>5. [Next]_vars => \/ StartRefine \/ (\E s \in Swaps : Swap(s)) \/ stage' # "refine"
                     \/ UNCHANGED <<stage, micro, groups, loads>>
  BY DEF Next, Place, EndPack, StartSplit, Halve, EndSplit, FormGroups, StartGroup, SkipGroup,
     Push, Merge, Assign, Return, vars
<1>. QED BY <1>1, <1>2, <1>3, <1>4, <1>5

\* The loads of two ranks never differ by more than micro-batches do that follow one another
\* in the order of their cost, however many there are: reversed merges keep the larger of two
\* spreads, and a swap that improves the score increases none.
THEOREM LoadsStayClose == Spec => []LoadsClose
<1>1. Init => Types /\ OfTheGroup /\ Balanced /\ LoadsClose
  BY TypesInit DEF Init, OfTheGroup, Balanced, LoadsClose
<1>2. Types /\ OfTheGroup /\ Balanced /\ LoadsClose /\ [Next]_vars
        => (Types /\ OfTheGroup /\ Balanced /\ LoadsClose)'
  BY TypesNext, OfTheGroupNext, BalancedNext, LoadsCloseNext
<1>. QED BY <1>1, <1>2, PTL DEF Spec
=============================================================================
