------------------------------- MODULE Packing -------------------------------
(***************************************************************************)
(* How a batch of samples becomes one list of micro-batches per trainer    *)
(* rank (src/prime_rl/trainer/batch.py, prepare_batch):                    *)
(*                                                                         *)
(*   samples are truncated to seq_len, an image never in its middle, and   *)
(*   packed into bins, longest first, each into the first bin it fits;     *)
(*   bins are split until every rank can have as many;                     *)
(*   bins become micro-batches, padded to a multiple, and per modality     *)
(*   filled up with dummies;                                               *)
(*   per modality the micro-batches are partitioned among the ranks: by    *)
(*   Karmarkar-Karp differencing, then by swaps that improve the balance.  *)
(*                                                                         *)
(* The trainer's ranks run their lists in lockstep (FSDP collectives): two *)
(* ranks with lists of different length, or with different modalities at   *)
(* the same position, hang.                                                *)
(*                                                                         *)
(* Tokens are left out, and with them the per-token streams; what is kept  *)
(* of a sample is its length, which of its tokens stand for images, and    *)
(* what decides whether it packs with another.  The order of the samples   *)
(* in a bin is that in which they are placed.                              *)
(***************************************************************************)
EXTENDS Integers, Sequences, FiniteSets, SequencesExt, SeqUtils

CONSTANTS
    SeqLen,      \* seq_len
    Workers,     \* num_train_workers
    Multiple,    \* pad_to_multiple_of
    Linear,      \* coefficients of bin_cost: per token,
    Quadratic,   \* and per token squared
    NoImages,    \* sidecar of a text sample (mm_kwargs is None)
    Inputs       \* the batches to pack: sequences of samples

\* A sample carries, per token, whether it is an image placeholder, the number of
\* placeholders of each of its images, the kind of its image tensors and whether it has
\* routed experts.
RawSample == [mask : Seq(BOOLEAN), images : Seq(Nat), sidecar : STRING \cup {NoImages},
              routed : BOOLEAN]

ASSUME PackingAssumption ==
    /\ SeqLen \in Nat \ {0} /\ Workers \in Nat \ {0} /\ Multiple \in Nat \ {0}
    /\ Linear \in Nat /\ Quadratic \in Nat
    /\ Inputs \subseteq Seq(RawSample)

VARIABLES
    stage,     \* where prepare_batch is
    raw,       \* the samples it was given
    sample,    \* the samples as prepare_sample returns them
    unplaced,  \* samples not in a bin yet
    bins,      \* bins
    halving,   \* the bin that split_by_workload is splitting, and its two sides
    micro,     \* the micro-batches of both modalities
    groups,    \* modalities still to be distributed
    unranked,  \* micro-batches that are in no Karmarkar-Karp state yet
    states,    \* the heap of Karmarkar-Karp states
    parts,     \* partitions: per worker, a list of micro-batches
    loads,     \* loads: per worker, the cost of its list
    ranks      \* batches_per_gpu

vars == <<stage, raw, sample, unplaced, bins, halving, micro, groups, unranked, states, parts,
          loads, ranks>>

Worker == 1..Workers
Id == DOMAIN sample

-----------------------------------------------------------------------------
(* prepare_sample *)

\* Image placeholders among the first n tokens.
Placeholders(r, n) == Cardinality({i \in 1..n : r.mask[i]})

\* A sample has a placeholder for every token of its images: _truncate_mm, which takes patches
\* per token to be the same for all of them, presupposes it.
ASSUME ImagesAssumption ==
    \A batch \in Inputs : \A i \in DOMAIN batch :
        batch[i].sidecar # NoImages =>
            Placeholders(batch[i], Len(batch[i].mask)) = SeqSum(batch[i].images)

\* Images all of whose placeholders are among the first seq_len tokens.
KeptImages(r) ==
    LET fits == {n \in 0..Len(r.images) : SeqSum(SubSeq(r.images, 1, n)) <= Placeholders(r, SeqLen)}
    IN  CHOOSE n \in fits : \A m \in fits : m <= n

CutAnywhere(r) == SeqLen

\* Where _truncate_mm cuts: before the first placeholder of the first image not kept.
CutAtImage(r) ==
    LET kept == SeqSum(SubSeq(r.images, 1, KeptImages(r)))
        lost == {i \in 1..SeqLen : r.mask[i] /\ Placeholders(r, i) > kept}
    IN  Cardinality({i \in 1..SeqLen : \A j \in lost : i < j})

\* Only samples with images are cut.
PreparedUncut(r) ==
    [len |-> IF Len(r.mask) <= SeqLen \/ r.sidecar = NoImages THEN Len(r.mask) ELSE CutAtImage(r),
     images |-> r.images, sidecar |-> r.sidecar, routed |-> r.routed]

Prepared(r) ==
    IF Len(r.mask) <= SeqLen
    THEN [len |-> Len(r.mask), images |-> r.images, sidecar |-> r.sidecar, routed |-> r.routed]
    ELSE IF r.sidecar = NoImages
    THEN [len |-> SeqLen, images |-> <<>>, sidecar |-> NoImages, routed |-> r.routed]
    ELSE [len |-> CutAtImage(r), images |-> SubSeq(r.images, 1, KeptImages(r)),
          sidecar |-> IF KeptImages(r) = 0 THEN NoImages ELSE r.sidecar, routed |-> r.routed]

-----------------------------------------------------------------------------
(* Bins *)

\* bin_cost of one sequence; the cost of a bin is the sum over its sequences, so that a bin
\* carries it.
Cost(n) == Linear * n + Quadratic * n * n

EmptyBin == [samples |-> {}, length |-> 0, work |-> 0, tail |-> 0]

\* tail is the length of the sample added last.
Added(bin, s) ==
    [samples |-> bin.samples \cup {s}, length |-> bin.length + sample[s].len,
     work |-> bin.work + Cost(sample[s].len), tail |-> sample[s].len]

IsImage(s) == sample[s].sidecar # NoImages
HasImages(bin) == \E s \in bin.samples : IsImage(s)

Compatible(bin, s) ==
    \A t \in bin.samples :
        /\ sample[t].routed = sample[s].routed
        /\ IsImage(t) /\ IsImage(s) => sample[t].sidecar = sample[s].sidecar

CanAdd(bin, s) == bin.length + sample[s].len <= SeqLen /\ Compatible(bin, s)

\* The sort by decreasing length, which is stable.
Before(s, t) == sample[s].len > sample[t].len \/ (sample[s].len = sample[t].len /\ s < t)
IsFirst(s, S) == s \in S /\ \A t \in S \ {s} : Before(s, t)

Init ==
    /\ stage = "pack"
    /\ raw \in Inputs /\ sample = [i \in DOMAIN raw |-> Prepared(raw[i])]
    /\ unplaced = DOMAIN raw /\ bins = <<>>
    /\ halving = [bin |-> 0, rest |-> {}, left |-> EmptyBin, right |-> EmptyBin]
    /\ micro = <<>> /\ groups = <<>> /\ unranked = {} /\ states = {}
    /\ parts = [w \in Worker |-> <<>>] /\ loads = [w \in Worker |-> 0]
    /\ ranks = [w \in Worker |-> <<>>]

\* The first bin that has room for a sample, or a new one.
Place(s) ==
    /\ stage = "pack" /\ IsFirst(s, unplaced)
    /\ unplaced' = unplaced \ {s}
    /\ \/ \E i \in DOMAIN bins :
            /\ CanAdd(bins[i], s) /\ \A j \in 1..(i - 1) : ~CanAdd(bins[j], s)
            /\ bins' = [bins EXCEPT ![i] = Added(@, s)]
       \/ /\ \A i \in DOMAIN bins : ~CanAdd(bins[i], s)
          /\ bins' = Append(bins, Added(EmptyBin, s))
    /\ UNCHANGED <<stage, raw, sample, halving, micro, groups, unranked, states, parts, loads, ranks>>

EndPack ==
    /\ stage = "pack" /\ unplaced = {}
    /\ stage' = "split"
    /\ UNCHANGED <<raw, sample, unplaced, bins, halving, micro, groups, unranked, states, parts,
                   loads, ranks>>

-----------------------------------------------------------------------------
(* _expand_bins_by_splitting *)

\* Every worker can have as many bins when their number is a multiple of the workers.
Uneven == Len(bins) % Workers # 0

Splittable == {i \in DOMAIN bins : Cardinality(bins[i].samples) > 1 /\ ~HasImages(bins[i])}

\* The bin to split: the most costly, the last of several.
Heaviest(i) ==
    /\ i \in Splittable
    /\ \A j \in Splittable : bins[j].work < bins[i].work \/ (bins[j].work = bins[i].work /\ j <= i)

StartSplit(i) ==
    /\ stage = "split" /\ Uneven /\ Heaviest(i)
    /\ stage' = "halve"
    /\ halving' = [bin |-> i, rest |-> bins[i].samples, left |-> EmptyBin, right |-> EmptyBin]
    /\ UNCHANGED <<raw, sample, unplaced, bins, micro, groups, unranked, states, parts, loads, ranks>>

\* split_by_workload: the longest sample left goes to the side with less work.
Halve(s) ==
    /\ stage = "halve" /\ IsFirst(s, halving.rest)
    /\ halving' =
        IF halving.left.work <= halving.right.work
        THEN [halving EXCEPT !.rest = @ \ {s}, !.left = Added(@, s)]
        ELSE [halving EXCEPT !.rest = @ \ {s}, !.right = Added(@, s)]
    /\ UNCHANGED <<stage, raw, sample, unplaced, bins, micro, groups, unranked, states, parts,
                   loads, ranks>>

\* The bin that is split stays beside its right side.
EndSplitKept ==
    /\ stage = "halve" /\ halving.rest = {}
    /\ stage' = "split"
    /\ bins' = Append(bins, halving.right)
    /\ UNCHANGED <<raw, sample, unplaced, halving, micro, groups, unranked, states, parts, loads,
                   ranks>>

EndSplit ==
    /\ stage = "halve" /\ halving.rest = {}
    /\ stage' = "split"
    /\ bins' = Append([bins EXCEPT ![halving.bin] = halving.left], halving.right)
    /\ UNCHANGED <<raw, sample, unplaced, halving, micro, groups, unranked, states, parts, loads,
                   ranks>>

-----------------------------------------------------------------------------
(* Micro-batches *)

PaddedTo(n) == (0 - n) % Multiple

\* _materialize_bin and pad_micro_batch: the padding extends the last sequence.
MicroBatch(bin) ==
    [samples |-> bin.samples, mm |-> HasImages(bin), dummy |-> FALSE,
     length  |-> bin.length + PaddedTo(bin.length),
     work    |-> bin.work - Cost(bin.tail) + Cost(bin.tail + PaddedTo(bin.length))]

\* All micro-batches in one group.
OneGroup(batches, mm) == IF mm THEN DOMAIN batches ELSE {}

OfModality(batches, mm) == {i \in DOMAIN batches : batches[i].mm = mm}

\* _pad_group_for_distribution: copies of the group's first micro-batch, without loss.
Dummies(batches, mm) ==
    LET group == OfModality(batches, mm)
        first == CHOOSE i \in group : \A j \in group : i <= j
    IN  [i \in 1..((0 - Cardinality(group)) % Workers) |-> [batches[first] EXCEPT !.dummy = TRUE]]

\* No bin left to split, or none that has to be.
FormGroups ==
    /\ stage = "split" /\ (Uneven => Splittable = {})
    /\ stage' = "next"
    /\ LET batches == [i \in DOMAIN bins |-> MicroBatch(bins[i])]
       IN  micro' = batches \o Dummies(batches, TRUE) \o Dummies(batches, FALSE)
    /\ groups' = <<TRUE, FALSE>>
    /\ UNCHANGED <<raw, sample, unplaced, bins, halving, unranked, states, parts, loads, ranks>>

Group == OfModality(micro, Head(groups))

\* _distribute_group, for the micro-batches with images and then for the others.
StartGroup ==
    /\ stage = "next" /\ groups # <<>> /\ Group # {}
    /\ stage' = "rank"
    /\ unranked' = Group /\ states' = {}
    /\ UNCHANGED <<raw, sample, unplaced, bins, halving, micro, groups, parts, loads, ranks>>

SkipGroup ==
    /\ stage = "next" /\ groups # <<>> /\ Group = {}
    /\ groups' = Tail(groups)
    /\ UNCHANGED <<stage, raw, sample, unplaced, bins, halving, micro, unranked, states, parts,
                   loads, ranks>>

-----------------------------------------------------------------------------
(* _karmarkar_karp *)

Lighter(i, j) == micro[i].work < micro[j].work \/ (micro[i].work = micro[j].work /\ i < j)

\* The next num_partitions micro-batches in the order of their cost.
IsLightest(chunk) ==
    /\ \A v, w \in Worker : v < w => Lighter(chunk[v], chunk[w])
    /\ \A i \in unranked : (\A w \in Worker : chunk[w] # i) => Lighter(chunk[Workers], i)

Mirror(w) == Workers + 1 - w

\* Sets of one state or of two have no item in common: the first items decide.
Larger(x, y) == x.total > y.total \/ (x.total = y.total /\ x.items[1] > y.items[1])

Descending(state) == \A v, w \in Worker : v < w => Larger(state[v], state[w])

Singletons(chunk) == [w \in Worker |-> [total |-> micro[chunk[w]].work, items |-> <<chunk[w]>>]]

Reversed(state) == [w \in Worker |-> state[Mirror(w)]]

\* One state of num_partitions sets of one item each, largest first.
Push ==
    /\ stage = "rank" /\ unranked # {}
    /\ \E chunk \in [Worker -> unranked] :
        /\ IsLightest(chunk)
        /\ states' = states \cup {Reversed(Singletons(chunk))}
        /\ unranked' = {i \in unranked : \A w \in Worker : chunk[w] # i}
    /\ UNCHANGED <<stage, raw, sample, unplaced, bins, halving, micro, groups, parts, loads, ranks>>

Spread(state) == state[1].total - state[Workers].total

\* The top of the heap: the state with the largest spread.
IsTop(a, heap) ==
    /\ a \in heap
    /\ \A b \in heap \ {a} :
        Spread(a) > Spread(b) \/ (Spread(a) = Spread(b) /\ Larger(a[1], b[1]))

Shuffles ==
    {p \in [Worker -> Worker] :
        \A v \in Worker : \E w \in Worker : p[w] = v /\ \A u \in Worker : p[u] = v => u = w}

\* Largest to largest, without the reversal that balances.
MergedSameOrder(a, b) ==
    [w \in Worker |-> [total |-> a[w].total + b[w].total, items |-> a[w].items \o b[w].items]]

\* The largest set of one with the smallest of the other, and so on.
Merged(a, b) ==
    [w \in Worker |-> [total |-> a[w].total + b[Mirror(w)].total,
                       items |-> a[w].items \o b[Mirror(w)].items]]

\* Merge the two states with the largest spreads, and sort the sets.
Merge ==
    /\ stage = "rank" /\ unranked = {}
    /\ \E a, b \in states :
        /\ a # b /\ IsTop(a, states) /\ IsTop(b, states \ {a})
        /\ \E p \in Shuffles :
            LET merged == [w \in Worker |-> Merged(a, b)[p[w]]]
            IN  Descending(merged) /\ states' = (states \ {a, b}) \cup {merged}
    /\ UNCHANGED <<stage, raw, sample, unplaced, bins, halving, micro, groups, unranked, parts,
                   loads, ranks>>

\* One state left: its sets are the partitions.
StartRefine ==
    /\ stage = "rank" /\ unranked = {}
    /\ \E a \in states :
        /\ states = {a}
        /\ parts' = [w \in Worker |-> a[w].items] /\ loads' = [w \in Worker |-> a[w].total]
    /\ stage' = "refine"
    /\ UNCHANGED <<raw, sample, unplaced, bins, halving, micro, groups, unranked, states, ranks>>

-----------------------------------------------------------------------------
(* _refine_by_swapping *)

\* The score of loads is their maximum, then their spread; less is better.  Worker sets are
\* finite, so that comparing maxima is comparing loads.
Better(new, old) ==
    \/ \A v \in Worker : \E w \in Worker : new[v] < old[w]
    \/ /\ \A v \in Worker : \E w \in Worker : new[v] <= old[w]
       /\ \A v, w \in Worker : \E x, y \in Worker : new[v] - new[w] < old[x] - old[y]

\* The exchange of two items between two partitions.
Swaps ==
    {s \in [left : Worker, right : Worker, i : DOMAIN parts[1], j : DOMAIN parts[1]] :
        s.left < s.right}

LoadsAfter(s) ==
    LET gain == micro[parts[s.right][s.j]].work - micro[parts[s.left][s.i]].work
    IN  [loads EXCEPT ![s.left] = @ + gain, ![s.right] = @ - gain]

\* Also a swap that leaves the score as it is: the last of those that are equally good.
SwapNotWorse(s) ==
    /\ stage = "refine" /\ ~Better(loads, LoadsAfter(s))
    /\ \A t \in Swaps :
        Better(LoadsAfter(s), LoadsAfter(t)) \/ t.i < s.i \/ (t.i = s.i /\ t.j <= s.j)
    /\ parts' = [parts EXCEPT ![s.left][s.i] = parts[s.right][s.j],
                              ![s.right][s.j] = parts[s.left][s.i]]
    /\ loads' = LoadsAfter(s)
    /\ UNCHANGED <<stage, raw, sample, unplaced, bins, halving, micro, groups, unranked, states,
                   ranks>>

\* The best swap, if it is an improvement; of several that are equally good the code takes
\* the first, here any.
Swap(s) ==
    /\ stage = "refine"
    /\ Better(LoadsAfter(s), loads) /\ \A t \in Swaps : ~Better(LoadsAfter(t), LoadsAfter(s))
    /\ parts' = [parts EXCEPT ![s.left][s.i] = parts[s.right][s.j],
                              ![s.right][s.j] = parts[s.left][s.i]]
    /\ loads' = LoadsAfter(s)
    /\ UNCHANGED <<stage, raw, sample, unplaced, bins, halving, micro, groups, unranked, states,
                   ranks>>

\* No swap improves: the workers get their partitions.
Assign ==
    /\ stage = "refine" /\ \A s \in Swaps : ~Better(LoadsAfter(s), loads)
    /\ stage' = "next"
    /\ ranks' = [w \in Worker |-> ranks[w] \o parts[w]]
    /\ groups' = Tail(groups)
    /\ UNCHANGED <<raw, sample, unplaced, bins, halving, micro, unranked, states, parts, loads>>

Return ==
    /\ stage = "next" /\ groups = <<>>
    /\ stage' = "done"
    /\ UNCHANGED <<raw, sample, unplaced, bins, halving, micro, groups, unranked, states, parts,
                   loads, ranks>>

Next ==
    \/ \E s \in Id : Place(s)
    \/ EndPack
    \/ \E i \in DOMAIN bins : StartSplit(i)
    \/ \E s \in Id : Halve(s)
    \/ EndSplit
    \/ FormGroups \/ StartGroup \/ SkipGroup
    \/ Push \/ Merge \/ StartRefine
    \/ \E s \in Swaps : Swap(s)
    \/ Assign \/ Return

Spec == Init /\ [][Next]_vars

\* Packing is one call in a thread of its own: it goes on.
FairSpec == Spec /\ WF_vars(Next)

-----------------------------------------------------------------------------
(* Properties *)

Bin == [samples : SUBSET Id, length : Nat, work : Int, tail : 0..SeqLen]

PackTypeOK ==
    /\ stage \in {"pack", "split", "halve", "next", "rank", "refine", "done"}
    /\ unplaced \in SUBSET Id
    /\ bins \in Seq(Bin) /\ halving.left \in Bin /\ halving.right \in Bin
    /\ micro \in Seq([samples : SUBSET Id, mm : BOOLEAN, dummy : BOOLEAN, length : Nat, work : Int])
    /\ groups \in Seq(BOOLEAN)
    /\ unranked \subseteq DOMAIN micro
    /\ states \subseteq [Worker -> [total : Int, items : Seq(DOMAIN micro)]]
    /\ parts \in [Worker -> Seq(DOMAIN micro)] /\ loads \in [Worker -> Int]
    /\ ranks \in [Worker -> Seq(DOMAIN micro)]

\* What is kept of a truncated sample's images is what the placeholders left in it ask for.
ImagesMatch(i) ==
    sample[i].sidecar # NoImages => Placeholders(raw[i], sample[i].len) = SeqSum(sample[i].images)

TotalLength(ids) == SeqSum([i \in Id |-> IF i \in ids THEN sample[i].len ELSE 0])

\* No micro-batch is longer than seq_len before padding, none loses an image it is asked for,
\* padding adds less than a multiple, and the loads the swaps go by are those of the lists.
Accounted ==
    /\ \A i \in Id : ImagesMatch(i)
    /\ \A i \in DOMAIN bins :
        bins[i].length = TotalLength(bins[i].samples) /\ bins[i].length <= SeqLen
    /\ \A i \in DOMAIN micro :
        /\ micro[i].length % Multiple = 0
        /\ micro[i].length - TotalLength(micro[i].samples) \in 0..(Multiple - 1)
    /\ stage = "refine" =>
        \A w \in Worker : loads[w] = SeqSum([k \in DOMAIN parts[w] |-> micro[parts[w][k]].work])

\* Every sample is trained on exactly once: it is in one micro-batch that is no dummy, and
\* that micro-batch is at one place of one rank.
EverySampleOnce ==
    stage = "done" =>
        /\ \A i \in Id : \E m \in DOMAIN micro :
            /\ i \in micro[m].samples /\ ~micro[m].dummy
            /\ \A n \in DOMAIN micro : i \in micro[n].samples /\ ~micro[n].dummy => n = m
        /\ \A m \in DOMAIN micro : \E w \in Worker : \E k \in DOMAIN ranks[w] :
            /\ ranks[w][k] = m
            /\ \A v \in Worker : \A l \in DOMAIN ranks[v] :
                ranks[v][l] = m => v = w /\ l = k

\* All ranks have as many micro-batches, and at every position of the same modality: the
\* collectives of a step line up.
SameShape ==
    stage = "done" =>
        \A v, w \in Worker :
            /\ Len(ranks[v]) = Len(ranks[w])
            /\ \A k \in DOMAIN ranks[v] : micro[ranks[v][k]].mm = micro[ranks[w][k]].mm

\* Micro-batches of a group that follow one another in the order of their cost, one per worker.
Neighbours(c) ==
    /\ \A v, w \in Worker : v < w => Lighter(c[v], c[w])
    /\ \A i \in Group :
        Lighter(i, c[1]) \/ Lighter(c[Workers], i) \/ \E w \in Worker : c[w] = i

\* The loads of two ranks differ by no more than the costs of micro-batches that follow one
\* another do: reversed merges and swaps cancel differences, they never add them up.
LoadsClose ==
    stage = "refine" =>
        \E c \in [Worker -> Group] :
            /\ Neighbours(c)
            /\ \A v, w \in Worker :
                loads[v] - loads[w] <= micro[c[Workers]].work - micro[c[1]].work

\* The splits, the merges and the swaps come to an end.
PackingEnds == <>(stage = "done")
=============================================================================
