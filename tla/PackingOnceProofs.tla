-------------------------- MODULE PackingOnceProofs --------------------------
(***************************************************************************)
(* Proofs about Packing: every sample is trained on exactly once, whatever *)
(* is split, merged or swapped on the way; and what is kept twice (lengths *)
(* of bins and micro-batches, loads, images) agrees.                       *)
(***************************************************************************)
EXTENDS PackingProofs

-----------------------------------------------------------------------------
(* Lists of items, one per worker *)

Lists == [Worker -> Seq(DOMAIN micro)]

\* Somewhere in the lists.
Occurs(P, m) == \E w \in Worker : \E k \in 1..Len(P[w]) : P[w][k] = m

\* At one place at most.
Distinct(P) ==
    \A v, w \in Worker : \A k \in 1..Len(P[v]), l \in 1..Len(P[w]) :
        P[v][k] = P[w][l] => v = w /\ k = l

Joined(P, Q) == [w \in Worker |-> P[w] \o Q[w]]
Reordered(P, p) == [w \in Worker |-> P[p[w]]]

\* A position of joined lists is in the first or in the second.
From(P, Q, w, k) == k \in 1..Len(P[w]) \/ \E l \in 1..Len(Q[w]) : k = Len(P[w]) + l

\* Positions in one list and in one that is longer by another.
LEMMA Positions ==
    ASSUME NEW m \in Nat, NEW n \in Nat
    PROVE  /\ \A k \in 1..m : k \in 1..(m + n) /\ k <= m
           /\ \A k \in 1..n : m + k \in 1..(m + n) /\ ~(m + k <= m) /\ (m + k) - m = k
           /\ \A k \in 1..(m + n) : k \in 1..m \/ \E l \in 1..n : k = m + l
<1>1. ASSUME NEW k \in 1..(m + n), k \notin 1..m PROVE \E l \in 1..n : k = m + l
  <2>1. k - m \in 1..n /\ k = m + (k - m)
    BY <1>1
  <2>. QED BY <2>1
<1>. QED BY <1>1

\* The positions of joined lists.
LEMMA JoinedAt ==
    ASSUME NEW P \in Lists, NEW Q \in Lists, NEW w \in Worker
    PROVE  /\ \A k \in 1..Len(P[w]) :
                k \in 1..Len(Joined(P, Q)[w]) /\ Joined(P, Q)[w][k] = P[w][k]
           /\ \A k \in 1..Len(Q[w]) :
                /\ Len(P[w]) + k \in 1..Len(Joined(P, Q)[w])
                /\ Joined(P, Q)[w][Len(P[w]) + k] = Q[w][k]
           /\ \A k \in 1..Len(Joined(P, Q)[w]) : From(P, Q, w, k)
<1>. DEFINE m == Len(P[w])
            n == Len(Q[w])
            j == Joined(P, Q)[w]
<1>1. P[w] \in Seq(DOMAIN micro) /\ Q[w] \in Seq(DOMAIN micro) /\ j = P[w] \o Q[w]
  BY DEF Joined, Lists
<1>2. /\ Len(j) = m + n
      /\ \A k \in 1..(m + n) : j[k] = IF k <= m THEN P[w][k] ELSE Q[w][k - m]
  <2>1. /\ Len(P[w] \o Q[w]) = Len(P[w]) + Len(Q[w])
        /\ \A k \in 1..(Len(P[w]) + Len(Q[w])) :
              (P[w] \o Q[w])[k] = IF k <= Len(P[w]) THEN P[w][k] ELSE Q[w][k - Len(P[w])]
    BY <1>1, ConcatProperties
  <2>. QED BY <1>1, <2>1, Zenon
<1>3. m \in Nat /\ n \in Nat
  BY <1>1, LenProperties
<1>. HIDE DEF m, n, j
<1>4. \A k \in 1..m : k \in 1..Len(j) /\ j[k] = P[w][k]
  BY <1>2, <1>3, Positions
<1>5. \A k \in 1..n : m + k \in 1..Len(j) /\ j[m + k] = Q[w][k]
  <2>. SUFFICES ASSUME NEW k \in 1..n PROVE m + k \in 1..Len(j) /\ j[m + k] = Q[w][k]
    OBVIOUS
  <2>1. m + k \in 1..(m + n) /\ ~(m + k <= m) /\ (m + k) - m = k
    BY <1>3, Positions
  <2>2. j[m + k] = Q[w][(m + k) - m]
    BY <1>2, <2>1
  <2>. QED BY <1>2, <2>1, <2>2
<1>6. \A k \in 1..Len(j) : k \in 1..m \/ \E l \in 1..n : k = m + l
  BY <1>2, <1>3, Positions
<1>. QED BY <1>4, <1>5, <1>6 DEF m, n, j, From

\* Joined lists hold what the two hold.
LEMMA JoinedOccurs ==
    ASSUME NEW P \in Lists, NEW Q \in Lists, NEW m
    PROVE  Occurs(Joined(P, Q), m) <=> Occurs(P, m) \/ Occurs(Q, m)
<1>1. ASSUME NEW w \in Worker, NEW k \in 1..Len(Joined(P, Q)[w]), Joined(P, Q)[w][k] = m
      PROVE  Occurs(P, m) \/ Occurs(Q, m)
  <2>1. CASE k \in 1..Len(P[w])
    <3>1. P[w][k] = m
      BY <1>1, <2>1, JoinedAt, Zenon
    <3>. QED BY <2>1, <3>1, Zenon DEF Occurs
  <2>2. ASSUME NEW l \in 1..Len(Q[w]), k = Len(P[w]) + l PROVE Occurs(Q, m)
    <3>1. Q[w][l] = m
      BY <1>1, <2>2, JoinedAt, Zenon
    <3>. QED BY <3>1, Zenon DEF Occurs
  <2>3. From(P, Q, w, k)
    BY JoinedAt
  <2>. QED BY <2>1, <2>2, <2>3, Zenon DEF From
<1>2. ASSUME NEW w \in Worker, NEW k \in 1..Len(P[w]), P[w][k] = m
      PROVE  Occurs(Joined(P, Q), m)
  BY <1>2, JoinedAt, Zenon DEF Occurs
<1>3. ASSUME NEW w \in Worker, NEW k \in 1..Len(Q[w]), Q[w][k] = m
      PROVE  Occurs(Joined(P, Q), m)
  BY <1>3, JoinedAt, Zenon DEF Occurs
<1>. QED BY <1>1, <1>2, <1>3, Zenon DEF Occurs

\* Lists that have nothing in common are joined without repetition.
LEMMA JoinedDistinct ==
    ASSUME NEW P \in Lists, NEW Q \in Lists,
           Distinct(P), Distinct(Q), \A m : ~(Occurs(P, m) /\ Occurs(Q, m))
    PROVE  Distinct(Joined(P, Q))
<1>. SUFFICES ASSUME NEW v \in Worker, NEW w \in Worker,
                     NEW k \in 1..Len(Joined(P, Q)[v]), NEW l \in 1..Len(Joined(P, Q)[w]),
                     Joined(P, Q)[v][k] = Joined(P, Q)[w][l]
              PROVE  v = w /\ k = l
  BY DEF Distinct
<1>0. From(P, Q, v, k) /\ From(P, Q, w, l)
  BY JoinedAt
<1>1. CASE k \in 1..Len(P[v])
  <2>1. Joined(P, Q)[v][k] = P[v][k]
    BY <1>1, JoinedAt
  <2>2. Occurs(P, P[v][k])
    BY <1>1 DEF Occurs
  <2>3. CASE l \in 1..Len(P[w])
    <3>1. P[w][l] = P[v][k]
      BY <2>1, <2>3, JoinedAt
    <3>. QED BY <1>1, <2>3, <3>1 DEF Distinct
  <2>4. ASSUME NEW j \in 1..Len(Q[w]), l = Len(P[w]) + j PROVE FALSE
    <3>1. Q[w][j] = P[v][k]
      BY <2>1, <2>4, JoinedAt
    <3>2. Occurs(Q, Q[w][j])
      BY DEF Occurs
    <3>. QED BY <2>2, <3>1, <3>2
  <2>. QED BY <1>0, <2>3, <2>4, Zenon DEF From
<1>2. ASSUME NEW i \in 1..Len(Q[v]), k = Len(P[v]) + i PROVE v = w /\ k = l
  <2>1. Joined(P, Q)[v][k] = Q[v][i]
    BY <1>2, JoinedAt
  <2>2. Occurs(Q, Q[v][i])
    BY DEF Occurs
  <2>3. CASE l \in 1..Len(P[w])
    <3>1. P[w][l] = Q[v][i]
      BY <2>1, <2>3, JoinedAt
    <3>2. Occurs(P, P[w][l])
      BY <2>3 DEF Occurs
    <3>. QED BY <2>2, <3>1, <3>2
  <2>4. ASSUME NEW j \in 1..Len(Q[w]), l = Len(P[w]) + j PROVE v = w /\ k = l
    <3>1. Q[w][j] = Q[v][i]
      BY <2>1, <2>4, JoinedAt
    <3>2. v = w /\ i = j
      BY <3>1 DEF Distinct
    <3>. QED BY <1>2, <2>4, <3>2
  <2>. QED BY <1>0, <2>3, <2>4, Zenon DEF From
<1>. QED BY <1>0, <1>1, <1>2, Zenon DEF From

\* Lists in another order hold the same.
LEMMA ReorderedSame ==
    ASSUME NEW P, NEW p \in Shuffles
    PROVE  /\ \A m : Occurs(Reordered(P, p), m) <=> Occurs(P, m)
           /\ Distinct(P) => Distinct(Reordered(P, p))
<1>1. \A w \in Worker : p[w] \in Worker /\ Reordered(P, p)[w] = P[p[w]]
  BY DEF Shuffles, Reordered
<1>2. \A v \in Worker : \E w \in Worker : p[w] = v
  BY DEF Shuffles
<1>3. \A v, w \in Worker : p[v] = p[w] => v = w
  BY <1>1 DEF Shuffles
<1>4. ASSUME NEW m PROVE Occurs(Reordered(P, p), m) <=> Occurs(P, m)
  BY <1>1, <1>2 DEF Occurs
<1>5. ASSUME Distinct(P) PROVE Distinct(Reordered(P, p))
  BY <1>1, <1>3, <1>5 DEF Distinct
<1>. QED BY <1>4, <1>5

\* Largest with smallest is one of the orders.
LEMMA MirrorShuffles == [w \in Worker |-> Mirror(w)] \in Shuffles
<1>1. \A w \in Worker : Mirror(w) \in Worker /\ Mirror(Mirror(w)) = w
  BY MirrorTyped, PackingAssumption DEF Mirror, Worker
<1>2. \A u, w \in Worker : Mirror(u) = w => u = Mirror(w)
  BY <1>1
<1>. QED BY <1>1, <1>2 DEF Shuffles

\* An exchange repeats nothing and loses nothing.
LEMMA ExchangeSame ==
    ASSUME NEW P \in Lists, NEW l \in Worker, NEW r \in Worker, l # r,
           NEW i \in 1..Len(P[l]), NEW j \in 1..Len(P[r]), Distinct(P), NEW R,
           R = [w \in Worker |-> Exchanged(P, l, i, r, j, w)]
    PROVE  /\ Distinct(R)
           /\ \A m : Occurs(P, m) => Occurs(R, m)
<1>1. \A w \in Worker :
        /\ Len(R[w]) = Len(P[w])
        /\ \A k \in 1..Len(P[w]) : R[w][k] = IF w = l /\ k = i THEN P[r][j]
                                             ELSE IF w = r /\ k = j THEN P[l][i] ELSE P[w][k]
  BY Exchange DEF Lists
<1>2. Distinct(R)
  BY <1>1, SMTT(20) DEF Distinct
<1>3. ASSUME NEW w \in Worker, NEW k \in 1..Len(P[w]) PROVE Occurs(R, P[w][k])
  <2>1. CASE w = l /\ k = i
    BY <1>1, <2>1 DEF Occurs
  <2>2. CASE w = r /\ k = j
    BY <1>1, <2>2 DEF Occurs
  <2>3. CASE ~(w = l /\ k = i) /\ ~(w = r /\ k = j)
    BY <1>1, <2>3 DEF Occurs
  <2>. QED BY <2>1, <2>2, <2>3
<1>4. \A m : Occurs(P, m) => \E w \in Worker : \E k \in 1..Len(P[w]) : P[w][k] = m
  BY DEF Occurs
<1>. QED BY <1>2, <1>3, <1>4, Zenon
-----------------------------------------------------------------------------
(* Micro-batches to ranks *)

\* The lists of a Karmarkar-Karp state.
ItemsOf(a) == [w \in Worker |-> a[w].items]

\* A modality that is still to be distributed.
Left(mm) == \E k \in 1..Len(groups) : groups[k] = mm

\* Each micro-batch of a modality that has been distributed is at one place of one rank; of the
\* one under way, it is in one chunk still to be pushed, or at one place of one state, or of the
\* parts.
ItemsOnce ==
    /\ \A i, j \in 1..Len(groups) : groups[i] = groups[j] => i = j
    /\ Distinct(ranks) /\ \A m \in DOMAIN micro : Occurs(ranks, m) <=> ~Left(micro[m].mm)
    /\ stage = "rank" =>
        /\ \A a \in states : Distinct(ItemsOf(a)) /\ \A m \in unranked : ~Occurs(ItemsOf(a), m)
        /\ \A a, b \in states, m \in DOMAIN micro :
            Occurs(ItemsOf(a), m) /\ Occurs(ItemsOf(b), m) => a = b
        /\ \A m \in Group : m \in unranked \/ \E a \in states : Occurs(ItemsOf(a), m)
    /\ stage = "refine" => Distinct(parts) /\ \A m \in Group : Occurs(parts, m)
    /\ stage = "done" => groups = <<>>

\* What is in a list is an item.
LEMMA OccursIsItem ==
    ASSUME NEW G, NEW P \in [Worker -> Seq(G)], NEW m, Occurs(P, m)
    PROVE  m \in G
<1>1. PICK w \in Worker : \E k \in 1..Len(P[w]) : P[w][k] = m
  BY DEF Occurs
<1>2. P[w] \in Seq(G)
  OBVIOUS
<1>. QED BY <1>1, <1>2, ElementOfSeq

\* With the group under way done, its modality is no longer left.
LEMMA TailLeft ==
    ASSUME groups \in Seq(BOOLEAN), groups # <<>>, groups' = Tail(groups),
           \A i, j \in 1..Len(groups) : groups[i] = groups[j] => i = j
    PROVE  /\ \A i, j \in 1..Len(groups') : groups'[i] = groups'[j] => i = j
           /\ \A mm \in BOOLEAN : Left(mm)' <=> Left(mm) /\ mm # Head(groups)
<1>1. /\ Len(groups) \in Nat \ {0} /\ Len(groups') = Len(groups) - 1 /\ Head(groups) = groups[1]
      /\ \A i \in 1..Len(groups') : groups'[i] = groups[i + 1]
  BY HeadTailProperties, LenProperties, EmptySeq
<1>. DEFINE n == Len(groups)
<1>2. \A i \in 1..(n - 1) : i + 1 \in 1..n /\ i + 1 # 1
  BY <1>1
<1>3. \A i \in 1..n : i # 1 => i - 1 \in 1..(n - 1) /\ (i - 1) + 1 = i
  BY <1>1
<1>4. 1 \in 1..n
  BY <1>1
<1>. HIDE DEF n
<1>. QED BY <1>1, <1>2, <1>3, <1>4 DEF Left, n

\* The items of the states are lists of items.
LEMMA ItemsTyped ==
    ASSUME Types, NEW a \in states
    PROVE  ItemsOf(a) \in Lists
<1>1. a \in [Worker -> [total : Int, items : Seq(DOMAIN micro)]]
  BY DEF Types, PackTypeOK
<1>. QED BY <1>1 DEF ItemsOf, Lists

\* A chunk becomes a state: out of unranked, into one list each.
LEMMA PushOnce ==
    ASSUME Types, ItemsOnce, Push
    PROVE  ItemsOnce'
<1>1. PICK chunk \in [Worker -> unranked] :
        /\ IsLightest(chunk)
        /\ states' = states \cup {Reversed(Singletons(chunk))}
        /\ unranked' = {i \in unranked : \A w \in Worker : chunk[w] # i}
  BY DEF Push
<1>. DEFINE new == Reversed(Singletons(chunk))
<1>2. /\ unranked \subseteq DOMAIN micro /\ \A m \in DOMAIN micro : m \in Int /\ micro[m].work \in Int
  BY WorkIsInt DEF Types, PackTypeOK
<1>3. \A v, w \in Worker : chunk[v] = chunk[w] => v = w
  <2>1. ASSUME NEW v \in Worker, NEW w \in Worker, v < w PROVE chunk[v] # chunk[w]
    <3>1. Lighter(chunk[v], chunk[w]) /\ chunk[v] \in DOMAIN micro
      BY <1>1, <1>2, <2>1 DEF IsLightest
    <3>2. \A m \in DOMAIN micro : ~Lighter(m, m)
      BY <1>2 DEF Lighter
    <3>. QED BY <3>1, <3>2
  <2>. QED BY <2>1 DEF Worker
<1>4. \A w \in Worker : ItemsOf(new)[w] = <<chunk[Mirror(w)]>>
  BY MirrorTyped DEF ItemsOf, Reversed, Singletons
<1>5. \A v, w \in Worker : Mirror(v) = Mirror(w) => v = w
  BY PackingAssumption DEF Mirror, Worker
<1>6. \A m : Occurs(ItemsOf(new), m) => \E w \in Worker : chunk[w] = m
  BY <1>4, MirrorTyped DEF Occurs
<1>7. \A w \in Worker : Occurs(ItemsOf(new), chunk[w])
  <2>1. \A w \in Worker : Mirror(w) \in Worker /\ Mirror(Mirror(w)) = w
    BY MirrorTyped, PackingAssumption DEF Mirror, Worker
  <2>. QED BY <1>4, <2>1 DEF Occurs
<1>8. Distinct(ItemsOf(new))
  BY <1>3, <1>4, <1>5, MirrorTyped DEF Distinct
<1>. QED
  <2>. HIDE DEF new
  <2>1. UNCHANGED <<stage, micro, groups, parts, ranks>> /\ stage = "rank" /\ Group' = Group
    BY SameGroup DEF Push
  <2>2. states' = states \cup {new}
    BY <1>1 DEF new
  <2>3. \A a \in states', m \in unranked' : ~Occurs(ItemsOf(a), m)
    BY <1>1, <1>6, <2>1, <2>2 DEF ItemsOnce
  <2>4. \A a \in states : \A m : Occurs(ItemsOf(a), m) => ~Occurs(ItemsOf(new), m)
    BY <1>6, <2>1 DEF ItemsOnce
  <2>5. \A a, b \in states', m \in DOMAIN micro :
            Occurs(ItemsOf(a), m) /\ Occurs(ItemsOf(b), m) => a = b
    BY <2>1, <2>2, <2>4 DEF ItemsOnce
  <2>6. \A m \in Group : m \in unranked' \/ \E a \in states' : Occurs(ItemsOf(a), m)
    BY <1>1, <1>7, <2>1, <2>2 DEF ItemsOnce
  <2>7. \A a \in states' : Distinct(ItemsOf(a))
    BY <1>8, <2>1, <2>2 DEF ItemsOnce
  <2>. QED BY <2>1, <2>3, <2>5, <2>6, <2>7 DEF ItemsOnce, Left, Occurs, Distinct, ItemsOf

\* Two states become one that holds what they held: the reversal and the sort only reorder.
LEMMA MergeOnce ==
    ASSUME Types, ItemsOnce, Merge
    PROVE  ItemsOnce'
<1>1. PICK a \in states, b \in states, p \in Shuffles :
        a # b /\ states' = (states \ {a, b}) \cup {[w \in Worker |-> Merged(a, b)[p[w]]]}
  BY DEF Merge
<1>. DEFINE new == [w \in Worker |-> Merged(a, b)[p[w]]]
            mirror == [w \in Worker |-> Mirror(w)]
            second == Reordered(ItemsOf(b), mirror)
            both == Joined(ItemsOf(a), second)
<1>2. /\ UNCHANGED <<stage, micro, groups, unranked, parts, ranks>> /\ stage = "rank"
      /\ unranked = {} /\ Group' = Group
  BY SameGroup DEF Merge
<1>3. ItemsOf(a) \in Lists /\ ItemsOf(b) \in Lists /\ second \in Lists
  <2>1. ItemsOf(a) \in Lists /\ ItemsOf(b) \in Lists
    BY ItemsTyped
  <2>. QED BY <2>1, MirrorTyped DEF Reordered, Lists
<1>4. ItemsOf(new) = Reordered(both, p)
  <2>1. \A w \in Worker : p[w] \in Worker
    BY DEF Shuffles
  <2>2. \A w \in Worker : Merged(a, b)[w].items = both[w]
    BY MirrorTyped DEF Merged, Joined, Reordered, ItemsOf
  <2>3. \A w \in Worker : ItemsOf(new)[w] = both[p[w]]
    BY <2>1, <2>2 DEF ItemsOf
  <2>. QED BY <2>3 DEF ItemsOf, Reordered
<1>5. \A m : Occurs(second, m) <=> Occurs(ItemsOf(b), m)
  BY MirrorShuffles, ReorderedSame
<1>6. \A m : Occurs(ItemsOf(a), m) => m \in DOMAIN micro
  BY <1>3, OccursIsItem DEF Lists
<1>7. Distinct(ItemsOf(a)) /\ Distinct(second)
  BY <1>2, MirrorShuffles, ReorderedSame DEF ItemsOnce
<1>8. \A m : ~(Occurs(ItemsOf(a), m) /\ Occurs(second, m))
  BY <1>1, <1>2, <1>5, <1>6 DEF ItemsOnce
<1>9. Distinct(ItemsOf(new))
  BY <1>3, <1>4, <1>7, <1>8, JoinedDistinct, ReorderedSame
<1>10. \A m : Occurs(ItemsOf(new), m) <=> Occurs(ItemsOf(a), m) \/ Occurs(ItemsOf(b), m)
  BY <1>3, <1>4, <1>5, JoinedOccurs, ReorderedSame
<1>. QED
  <2>1. states' = (states \ {a, b}) \cup {new}
    BY <1>1
  <2>. HIDE DEF new, second, both, mirror
  <2>2. \A c \in states \ {a, b}, m \in DOMAIN micro : Occurs(ItemsOf(c), m) => ~Occurs(ItemsOf(new), m)
    BY <1>2, <1>10 DEF ItemsOnce
  <2>3. \A c, d \in states', m \in DOMAIN micro :
            Occurs(ItemsOf(c), m) /\ Occurs(ItemsOf(d), m) => c = d
    BY <1>2, <2>1, <2>2 DEF ItemsOnce
  <2>4. \A m \in Group : \E c \in states' : Occurs(ItemsOf(c), m)
    BY <1>2, <1>10, <2>1 DEF ItemsOnce
  <2>5. \A c \in states' : Distinct(ItemsOf(c))
    BY <1>2, <1>9, <2>1 DEF ItemsOnce
  <2>. QED BY <1>2, <2>3, <2>4, <2>5 DEF ItemsOnce, Left, Occurs, Distinct, ItemsOf

\* The one state left becomes the parts.
LEMMA RefineOnce ==
    ASSUME Types, ItemsOnce, StartRefine
    PROVE  ItemsOnce'
<1>1. PICK a \in states : states = {a} /\ parts' = ItemsOf(a)
  BY DEF StartRefine, ItemsOf
<1>2. /\ UNCHANGED <<micro, groups, ranks>> /\ stage = "rank" /\ stage' = "refine" /\ unranked = {}
      /\ Group' = Group
  BY SameGroup DEF StartRefine
<1>3. Distinct(parts') /\ \A m \in Group : Occurs(parts', m)
  BY <1>1, <1>2 DEF ItemsOnce
<1>. QED BY <1>2, <1>3 DEF ItemsOnce, Left, Occurs, Distinct

\* A swap exchanges two of them.
LEMMA SwapOnce ==
    ASSUME Types, ItemsOnce, NEW s \in Swaps, Swap(s)
    PROVE  ItemsOnce'
<1>1. /\ s.left \in Worker /\ s.right \in Worker /\ s.left # s.right
      /\ s.i \in 1..Len(parts[s.left]) /\ s.j \in 1..Len(parts[s.right])
  BY SwapParts DEF Worker
<1>2. /\ UNCHANGED <<stage, micro, groups, ranks>> /\ stage = "refine" /\ Group' = Group
  BY SameGroup DEF Swap
<1>3. parts \in Lists /\ Distinct(parts)
  BY <1>2 DEF Types, PackTypeOK, ItemsOnce, Lists
<1>4. parts' = [w \in Worker |-> Exchanged(parts, s.left, s.i, s.right, s.j, w)]
  BY SwapExchanges
<1>5. Distinct(parts') /\ \A m : Occurs(parts, m) => Occurs(parts', m)
  BY <1>1, <1>3, <1>4, ExchangeSame
<1>. QED BY <1>2, <1>5 DEF ItemsOnce, Left, Occurs, Distinct

\* A micro-batch is with images or without.
LEMMA ModalityTyped ==
    ASSUME Types
    PROVE  \A m \in DOMAIN micro : micro[m].mm \in BOOLEAN
<1>1. micro \in Seq(Micro)
  BY DEF Types, PackTypeOK, Micro
<1>2. \A m \in DOMAIN micro : micro[m] \in Micro
  <2>. HIDE DEF Micro
  <2>. QED BY <1>1
<1>. QED BY <1>2 DEF Micro

\* The parts of the group join the ranks, which held none of it.
LEMMA AssignOnce ==
    ASSUME Types, OfTheGroup, ItemsOnce, Assign
    PROVE  ItemsOnce'
<1>1. /\ ranks' = Joined(ranks, parts) /\ micro' = micro /\ groups' = Tail(groups)
      /\ stage = "refine" /\ stage' = "next"
  BY DEF Assign, Joined
<1>2. ranks \in Lists /\ parts \in Lists /\ parts \in [Worker -> Seq(Group)]
  BY <1>1 DEF Types, PackTypeOK, OfTheGroup, Lists
<1>3. groups \in Seq(BOOLEAN) /\ groups # <<>>
  BY <1>1 DEF Types, PackTypeOK, Phases
<1>4. /\ \A i, j \in 1..Len(groups') : groups'[i] = groups'[j] => i = j
      /\ \A mm \in BOOLEAN : Left(mm)' <=> Left(mm) /\ mm # Head(groups)
  BY <1>1, <1>3, TailLeft DEF ItemsOnce
<1>5. \A m : Occurs(parts, m) <=> m \in Group
  BY <1>1, <1>2, OccursIsItem DEF ItemsOnce
<1>6. Left(Head(groups))
  BY <1>3, HeadTailProperties, LenProperties, EmptySeq DEF Left
<1>7. \A m \in Group : m \in DOMAIN micro /\ Left(micro[m].mm)
  BY <1>6, GroupModality
<1>8. Distinct(ranks')
  BY <1>1, <1>2, <1>5, <1>7, JoinedDistinct DEF ItemsOnce
<1>9. \A m \in DOMAIN micro : Occurs(ranks', m) <=> ~Left(micro[m].mm)'
  <2>1. \A m \in DOMAIN micro : Occurs(ranks', m) <=> Occurs(ranks, m) \/ m \in Group
    BY <1>1, <1>2, <1>5, JoinedOccurs
  <2>2. \A m \in DOMAIN micro : m \in Group <=> micro[m].mm = Head(groups)
    BY DEF Group, OfModality
  <2>3. \A m \in DOMAIN micro : micro[m].mm \in BOOLEAN
    BY ModalityTyped
  <2>4. \A m \in DOMAIN micro : Occurs(ranks, m) <=> ~Left(micro[m].mm)
    BY DEF ItemsOnce
  <2>5. \A m \in DOMAIN micro :
            Left(micro[m].mm)' <=> Left(micro[m].mm) /\ micro[m].mm # Head(groups)
    BY <1>1, <1>4, <2>3 DEF Left
  <2>. QED BY <2>1, <2>2, <2>4, <2>5
<1>. QED BY <1>1, <1>4, <1>8, <1>9 DEF ItemsOnce, Left, Occurs, Distinct

\* A modality without micro-batches is passed over.
LEMMA SkipOnce ==
    ASSUME Types, ItemsOnce, SkipGroup
    PROVE  ItemsOnce'
<1>1. /\ UNCHANGED <<stage, micro, ranks>> /\ groups' = Tail(groups) /\ groups # <<>> /\ Group = {}
      /\ stage = "next" /\ groups \in Seq(BOOLEAN)
  BY DEF SkipGroup, Types, PackTypeOK
<1>2. /\ \A i, j \in 1..Len(groups') : groups'[i] = groups'[j] => i = j
      /\ \A mm \in BOOLEAN : Left(mm)' <=> Left(mm) /\ mm # Head(groups)
  BY <1>1, TailLeft DEF ItemsOnce
<1>3. \A m \in DOMAIN micro : micro[m].mm \in BOOLEAN /\ micro[m].mm # Head(groups)
  <2>2. \A m \in DOMAIN micro : micro[m].mm \in BOOLEAN
    BY ModalityTyped
  <2>. QED BY <1>1, <2>2 DEF Group, OfModality
<1>4. \A m \in DOMAIN micro : Left(micro[m].mm)' <=> Left(micro[m].mm)
  BY <1>1, <1>2, <1>3 DEF Left
<1>. QED BY <1>1, <1>2, <1>4, SMTT(20) DEF ItemsOnce, Occurs, Distinct

\* All micro-batches are there, none with a rank, and both modalities are left.
LEMMA FormOnce ==
    ASSUME Types, Types', FormGroups
    PROVE  ItemsOnce'
<1>1. /\ groups' = <<TRUE, FALSE>> /\ ranks' = [w \in Worker |-> <<>>]
      /\ stage' = "next"
  BY DEF FormGroups, Types, Phases
<1>2. Len(groups') = 2 /\ groups'[1] = TRUE /\ groups'[2] = FALSE
  BY <1>1
<1>3. \A i, j \in 1..Len(groups') : groups'[i] = groups'[j] => i = j
  BY <1>2
<1>4. \A m : ~Occurs(ranks', m)
  BY <1>1 DEF Occurs
<1>5. \A mm \in BOOLEAN : Left(mm)'
  <2>1. 1 \in 1..Len(groups') /\ 2 \in 1..Len(groups')
    BY <1>2
  <2>. QED BY <1>2, <2>1 DEF Left
<1>6. \A m \in DOMAIN micro' : micro'[m].mm \in BOOLEAN
  <2>1. micro' \in Seq(Micro')
    BY DEF Types, PackTypeOK, Micro
  <2>2. \A m \in DOMAIN micro' : micro'[m] \in Micro'
    BY <2>1
  <2>. QED BY <2>2 DEF Micro
<1>7. Distinct(ranks')
  BY <1>4 DEF Distinct, Occurs
<1>8. \A m \in DOMAIN micro' : Occurs(ranks', m) <=> ~Left(micro[m].mm)'
  BY <1>4, <1>5, <1>6 DEF Left
<1>. QED BY <1>1, <1>3, <1>7, <1>8 DEF ItemsOnce, Left, Occurs, Distinct

\* Every step keeps each micro-batch at one place.
LEMMA ItemsOnceNext ==
    ASSUME Types, Types', OfTheGroup, ItemsOnce, [Next]_vars
    PROVE  ItemsOnce'
<1>1. CASE UNCHANGED vars
  BY <1>1, SameGroup DEF vars, ItemsOnce, Left, Occurs, Distinct, ItemsOf
<1>2. CASE StartGroup
  <2>1. /\ UNCHANGED <<micro, groups, ranks>> /\ stage' = "rank" /\ unranked' = Group /\ states' = {}
        /\ Group' = Group
    BY <1>2, SameGroup DEF StartGroup
  <2>. QED BY <2>1 DEF ItemsOnce, Left, Occurs, Distinct
<1>3. CASE Return
  BY <1>3 DEF Return, ItemsOnce, Left, Occurs, Distinct
<1>4. ASSUME EndPack \/ EndSplit
             \/ (\E s \in Id : Place(s) \/ Halve(s)) \/ (\E i \in DOMAIN bins : StartSplit(i))
      PROVE  ItemsOnce'
  <2>1. UNCHANGED <<micro, groups, ranks>> /\ stage' \notin {"rank", "refine", "done"}
    BY <1>4 DEF EndPack, EndSplit, Place, Halve, StartSplit
  <2>. QED BY <2>1 DEF ItemsOnce, Left, Occurs, Distinct
<1>. QED BY <1>1, <1>2, <1>3, <1>4, FormOnce, SkipOnce, PushOnce, MergeOnce, RefineOnce, SwapOnce, AssignOnce
         DEF Next

-----------------------------------------------------------------------------
(* Samples to micro-batches *)

\* In one of the bins.
Contained(f, i) == \E m \in DOMAIN f : i \in f[m].samples

\* In one of them at most.
Apart(f) == \A m, n \in DOMAIN f : \A i \in f[m].samples : i \in f[n].samples => m = n

\* A sample waits to be placed or is in one bin; a bin that is being split holds what is left of
\* it and its two sides, which share nothing; then it is in one micro-batch that is no dummy.
SamplesOnce ==
    /\ stage \in {"pack", "split", "halve"} =>
        Apart(bins) /\ \A i \in Id : i \in unplaced <=> ~Contained(bins, i)
    /\ stage \in {"split", "halve"} => unplaced = {}
    /\ stage = "halve" =>
        /\ bins[halving.bin].samples
            = halving.rest \cup halving.left.samples \cup halving.right.samples
        /\ halving.left.samples \cap halving.right.samples = {}
        /\ halving.rest \cap (halving.left.samples \cup halving.right.samples) = {}
    /\ stage \notin {"pack", "split", "halve"} =>
        \A i \in Id : \E m \in DOMAIN micro :
            /\ i \in micro[m].samples /\ ~micro[m].dummy
            /\ \A n \in DOMAIN micro : i \in micro[n].samples /\ ~micro[n].dummy => n = m

\* A sample goes into one bin, or one of its own.
LEMMA PlaceOnce ==
    ASSUME Types, SamplesOnce, NEW s \in Id, Place(s)
    PROVE  SamplesOnce'
<1>1. /\ stage = "pack" /\ s \in unplaced /\ unplaced' = unplaced \ {s}
      /\ UNCHANGED <<stage, sample>> /\ Id' = Id
  BY DEF Place, IsFirst, Id
<1>2. bins \in Seq(Bin) /\ Apart(bins) /\ ~Contained(bins, s)
  BY <1>1 DEF Types, PackTypeOK, SamplesOnce
<1>3. ASSUME NEW b \in DOMAIN bins, bins' = [bins EXCEPT ![b] = Added(@, s)]
      PROVE  SamplesOnce'
  <2>1. /\ DOMAIN bins' = DOMAIN bins
        /\ \A m \in DOMAIN bins : bins'[m].samples =
              IF m = b THEN bins[m].samples \cup {s} ELSE bins[m].samples
    BY <1>2, <1>3 DEF Added
  <2>2. \A m \in DOMAIN bins : s \notin bins[m].samples
    BY <1>2 DEF Contained
  <2>3. Apart(bins')
    <3>. SUFFICES ASSUME NEW m \in DOMAIN bins, NEW k \in DOMAIN bins,
                         NEW i \in bins'[m].samples, i \in bins'[k].samples
                  PROVE  m = k
      BY <2>1 DEF Apart
    <3>1. CASE i = s
      <4>1. m = b /\ k = b
        BY <2>1, <2>2, <3>1
      <4>. QED BY <4>1
    <3>2. CASE i # s
      <4>1. i \in bins[m].samples /\ i \in bins[k].samples
        BY <2>1, <3>2
      <4>. QED BY <1>2, <4>1 DEF Apart
    <3>. QED BY <3>1, <3>2
  <2>4. \A i : Contained(bins', i) <=> Contained(bins, i) \/ i = s
    BY <2>1 DEF Contained
  <2>. QED BY <1>1, <2>3, <2>4 DEF SamplesOnce, Apart, Contained
<1>4. ASSUME bins' = Append(bins, Added(EmptyBin, s))
      PROVE  SamplesOnce'
  <2>. DEFINE n == Len(bins)
  <2>1. /\ n \in Nat /\ DOMAIN bins = 1..n /\ DOMAIN bins' = 1..(n + 1)
        /\ \A m \in 1..n : bins'[m] = bins[m]
        /\ bins'[n + 1].samples = {s}
    BY <1>2, <1>4, AppendProperties DEF Added, EmptyBin
  <2>. HIDE DEF n
  <2>2. Apart(bins')
    <3>1. \A m \in 1..(n + 1) : m \in 1..n \/ m = n + 1
      BY <2>1
    <3>2. \A m \in 1..n : s \notin bins'[m].samples
      BY <1>2, <2>1 DEF Contained
    <3>4. \A m, k \in 1..n : \A i \in bins'[m].samples : i \in bins'[k].samples => m = k
      BY <1>2, <2>1 DEF Apart
    <3>. QED BY <2>1, <3>1, <3>2, <3>4 DEF Apart
  <2>3. \A i : Contained(bins', i) <=> Contained(bins, i) \/ i = s
    BY <2>1 DEF Contained
  <2>. QED BY <1>1, <2>2, <2>3 DEF SamplesOnce, Apart, Contained
<1>. QED BY <1>3, <1>4 DEF Place

\* A sample moves from what is left to one side.
LEMMA HalveOnce ==
    ASSUME Types, SamplesOnce, NEW s \in Id, Halve(s)
    PROVE  SamplesOnce'
<1>1. /\ UNCHANGED <<stage, sample, unplaced, bins, micro>> /\ stage = "halve" /\ Id' = Id
      /\ s \in halving.rest
  BY DEF Halve, IsFirst, Id
<1>2. halving \in [bin : Nat, rest : SUBSET Id, left : Bin, right : Bin]
  BY DEF Types, Phases
<1>3. /\ halving'.bin = halving.bin /\ halving'.rest = halving.rest \ {s}
      /\ \/ /\ halving'.left.samples = halving.left.samples \cup {s}
            /\ halving'.right = halving.right
         \/ /\ halving'.right.samples = halving.right.samples \cup {s}
            /\ halving'.left = halving.left
  BY <1>2 DEF Halve, Added
<1>. QED BY <1>1, <1>3 DEF SamplesOnce, Apart, Contained

\* The two sides take the place of the bin.
LEMMA EndSplitOnce ==
    ASSUME Types, SamplesOnce, EndSplit
    PROVE  SamplesOnce'
<1>. DEFINE b == halving.bin
            left == halving.left
            right == halving.right
            n == Len(bins)
<1>1. /\ UNCHANGED <<sample, unplaced, micro>> /\ stage = "halve" /\ stage' = "split"
      /\ halving.rest = {} /\ Id' = Id
      /\ bins' = Append([bins EXCEPT ![b] = left], right)
  BY DEF EndSplit, Id
<1>2. bins \in Seq(Bin) /\ b \in DOMAIN bins /\ left \in Bin /\ right \in Bin
  BY <1>1 DEF Types, PackTypeOK, Phases
<1>3. /\ bins[b].samples = left.samples \cup right.samples /\ left.samples \cap right.samples = {}
      /\ Apart(bins) /\ unplaced = {} /\ \A i \in Id : Contained(bins, i)
  BY <1>1 DEF SamplesOnce
<1>4. /\ n \in Nat /\ DOMAIN bins = 1..n /\ DOMAIN bins' = 1..(n + 1) /\ b \in 1..n
      /\ \A m \in 1..n : bins'[m] = IF m = b THEN left ELSE bins[m]
      /\ bins'[n + 1] = right
  <2>1. n \in Nat /\ DOMAIN bins = 1..n /\ b \in 1..n
    BY <1>2
  <2>2. /\ [bins EXCEPT ![b] = left] \in Seq(Bin) /\ Len([bins EXCEPT ![b] = left]) = n
        /\ \A m \in 1..n : [bins EXCEPT ![b] = left][m] = IF m = b THEN left ELSE bins[m]
    BY <1>2, <2>1, ExceptSeq
  <2>. QED BY <1>1, <1>2, <2>1, <2>2, AppendProperties
<1>. HIDE DEF b, left, right, n
<1>5. \A m \in 1..(n + 1) : m \in 1..n \/ m = n + 1
  BY <1>4
<1>6. Apart(bins')
  <2>1. \A m \in 1..n : bins'[m].samples \subseteq bins[m].samples
    BY <1>3, <1>4
  <2>2. \A m \in 1..n : bins'[m].samples \cap right.samples = {}
    BY <1>3, <1>4 DEF Apart
  <2>. QED BY <1>3, <1>4, <1>5, <2>1, <2>2 DEF Apart
<1>7. \A i \in Id : Contained(bins', i)
  <2>. SUFFICES ASSUME NEW i \in Id PROVE Contained(bins', i)
    OBVIOUS
  <2>1. PICK m \in 1..n : i \in bins[m].samples
    BY <1>3, <1>4 DEF Contained
  <2>2. m \in DOMAIN bins' /\ n + 1 \in DOMAIN bins'
    BY <1>4
  <2>. QED BY <1>3, <1>4, <2>1, <2>2 DEF Contained
<1>. QED BY <1>1, <1>3, <1>6, <1>7 DEF SamplesOnce, Apart, Contained

\* The micro-batches that are no dummies are the bins, in their order.
LEMMA FormSamplesOnce ==
    ASSUME Types, SamplesOnce, FormGroups
    PROVE  SamplesOnce'
<1>. DEFINE batches == [i \in DOMAIN bins |-> MicroBatch(bins[i])]
            some == Dummies(batches, TRUE)
            more == Dummies(batches, FALSE)
            n == Len(bins)
<1>1. /\ stage = "split" /\ stage' = "next" /\ UNCHANGED <<sample, bins>> /\ Id' = Id
      /\ micro' = batches \o some \o more
  BY DEF FormGroups, Id
<1>2. bins \in Seq(Bin) /\ Apart(bins) /\ \A i \in Id : Contained(bins, i)
  BY <1>1 DEF Types, PackTypeOK, SamplesOnce
<1>3. batches \in Seq(Micro) /\ Len(batches) = n /\ n \in Nat /\ DOMAIN bins = 1..n
  BY <1>2, BatchesTyped
<1>4. \A i \in 1..n : batches[i].samples = bins[i].samples /\ ~batches[i].dummy
  BY <1>3 DEF MicroBatch
<1>5. some \in Seq({d \in Micro : d.dummy}) /\ more \in Seq({d \in Micro : d.dummy})
  <2>. HIDE DEF batches
  <2>1. \A mm \in BOOLEAN : Dummies(batches, mm) \in Seq({d \in Micro : d.dummy /\ d.mm = mm})
    BY <1>3, DummiesTyped
  <2>2. \A mm \in BOOLEAN : {d \in Micro : d.dummy /\ d.mm = mm} \subseteq {d \in Micro : d.dummy}
    OBVIOUS
  <2>3. \A mm \in BOOLEAN : Dummies(batches, mm) \in Seq({d \in Micro : d.dummy})
    BY <2>1, <2>2, SeqMonotonic
  <2>. QED BY <2>3
<1>. HIDE DEF batches, some, more, n
<1>6. /\ \A m \in 1..n : m \in DOMAIN micro' /\ micro'[m] = batches[m]
      /\ \A m \in DOMAIN micro' : m \in 1..n \/ micro'[m].dummy
  <2>. DEFINE D == {d \in Micro : d.dummy}
              p == Len(some)
              q == Len(more)
              pad == some \o more
  <2>1. p \in Nat /\ q \in Nat /\ some \in Seq(D) /\ more \in Seq(D)
    BY <1>5, LenProperties
  <2>2. some \o more \in Seq(D) /\ micro' = batches \o (some \o more)
    BY <1>1, <1>3, <2>1, ConcatProperties, ConcatAssociative, SeqMonotonic, SMTT(20)
  <2>. HIDE DEF D
  <2>3. Len(pad) \in Nat /\ \A k \in 1..Len(pad) : pad[k] \in D
    BY <2>2, LenProperties, ElementOfSeq
  <2>4. D \subseteq Micro
    BY DEF D
  <2>5. pad \in Seq(Micro)
    BY <2>2, <2>4, SeqMonotonic
  <2>6. /\ Len(batches \o pad) = n + Len(pad) /\ batches \o pad \in Seq(Micro)
        /\ \A k \in 1..(n + Len(pad)) :
              (batches \o pad)[k] = IF k <= n THEN batches[k] ELSE pad[k - n]
    BY <1>3, <2>5, ConcatProperties
  <2>7. micro' = batches \o pad
    BY <2>2
  <2>. HIDE DEF pad
  <2>8. DOMAIN micro' = 1..(n + Len(pad))
    BY <2>6, <2>7
  <2>9. \A k \in 1..(n + Len(pad)) : ~(k <= n) => k - n \in 1..Len(pad)
    BY <1>3, <2>3
  <2>10. \A m \in 1..n : m \in 1..(n + Len(pad)) /\ m <= n
    BY <1>3, <2>3
  <2>11. \A k \in 1..(n + Len(pad)) : k <= n => k \in 1..n
    BY <1>3, <2>3
  <2>12. \A m \in DOMAIN micro' : m \in 1..n \/ micro'[m] \in D
    BY <2>3, <2>6, <2>7, <2>8, <2>9, <2>11
  <2>. QED BY <2>6, <2>7, <2>8, <2>10, <2>12 DEF D
<1>7. ASSUME NEW i \in Id
      PROVE  \E m \in DOMAIN micro' :
                /\ i \in micro'[m].samples /\ ~micro'[m].dummy
                /\ \A k \in DOMAIN micro' : i \in micro'[k].samples /\ ~micro'[k].dummy => k = m
  <2>1. PICK m \in 1..n : i \in bins[m].samples
    BY <1>2, <1>3 DEF Contained
  <2>2. \A k \in 1..n : i \in bins[k].samples => k = m
    BY <1>2, <1>3, <2>1 DEF Apart
  <2>. QED BY <1>4, <1>6, <2>1, <2>2
<1>. QED BY <1>1, <1>7 DEF SamplesOnce, Apart, Contained

\* Every step keeps each sample at one place.
LEMMA SamplesOnceNext ==
    ASSUME Types, SamplesOnce, [Next]_vars
    PROVE  SamplesOnce'
<1>1. CASE UNCHANGED vars
  BY <1>1 DEF vars, SamplesOnce, Apart, Contained, Id
<1>2. CASE EndPack
  BY <1>2 DEF EndPack, SamplesOnce, Apart, Contained, Id
<1>3. ASSUME NEW i \in DOMAIN bins, StartSplit(i) PROVE SamplesOnce'
  BY <1>3 DEF StartSplit, SamplesOnce, Apart, Contained, Id, EmptyBin
<1>4. ASSUME StartGroup \/ SkipGroup \/ Push \/ Merge \/ StartRefine \/ Assign \/ Return
             \/ (\E s \in Swaps : Swap(s))
      PROVE  SamplesOnce'
  <2>1. /\ UNCHANGED <<sample, micro>>
        /\ {stage, stage'} \cap {"pack", "split", "halve"} = {}
    BY <1>4 DEF StartGroup, SkipGroup, Push, Merge, StartRefine, Assign, Return, Swap
  <2>2. stage \notin {"pack", "split", "halve"} /\ stage' \notin {"pack", "split", "halve"}
    BY <2>1, Zenon
  <2>. DEFINE once == \A i \in Id : \E m \in DOMAIN micro :
                        /\ i \in micro[m].samples /\ ~micro[m].dummy
                        /\ \A n \in DOMAIN micro : i \in micro[n].samples /\ ~micro[n].dummy => n = m
  <2>3. once
    BY <2>2, Zenon DEF SamplesOnce
  <2>4. once'
    BY <2>1, <2>3, Zenon DEF Id
  <2>. HIDE DEF once
  <2>5. (once /\ stage \notin {"pack", "split", "halve"} => SamplesOnce)'
    <3>1. stage' # "halve" /\ stage' \notin {"split", "halve"}
      BY <2>2
    <3>. QED BY <2>2, <3>1, Zenon DEF once, SamplesOnce
  <2>. QED BY <2>2, <2>4, <2>5
<1>. QED BY <1>1, <1>2, <1>3, <1>4, PlaceOnce, HalveOnce, EndSplitOnce, FormSamplesOnce DEF Next

-----------------------------------------------------------------------------
(* Every sample once *)

OnceInv == Types /\ OfTheGroup /\ ItemsOnce /\ SamplesOnce

\* Packing starts from a list of the samples, each once, and nothing placed.
LEMMA OnceInit == Init => OnceInv
<1>. SUFFICES ASSUME Init PROVE OnceInv
  OBVIOUS
<1>1. Types /\ OfTheGroup
  BY TypesInit DEF Init, OfTheGroup
<1>2. ItemsOnce
  BY DEF Init, ItemsOnce, Distinct, Occurs
<1>3. SamplesOnce
  BY DEF Init, SamplesOnce, Apart, Contained, Id
<1>. QED BY <1>1, <1>2, <1>3 DEF OnceInv

\* When packing is done, every sample of the batch is in one micro-batch that is no dummy, and
\* that micro-batch at one place of one rank: for any batch and any number of workers.
THEOREM SamplesTrainedOnce == Spec => []EverySampleOnce
<1>1. OnceInv /\ [Next]_vars => OnceInv'
  BY TypesNext, OfTheGroupNext, ItemsOnceNext, SamplesOnceNext DEF OnceInv
<1>2. OnceInv => EverySampleOnce
  <2>. SUFFICES ASSUME OnceInv, stage = "done" PROVE EverySampleOnce
    BY DEF EverySampleOnce
  <2>1. groups = <<>>
    BY DEF OnceInv, ItemsOnce
  <2>2. \A m \in DOMAIN micro : Occurs(ranks, m)
    BY <2>1 DEF OnceInv, ItemsOnce, Left
  <2>3. \A w \in Worker : DOMAIN ranks[w] = 1..Len(ranks[w])
    BY DEF OnceInv, Types, PackTypeOK
  <2>4. \A m \in DOMAIN micro : \E w \in Worker : \E k \in DOMAIN ranks[w] :
            /\ ranks[w][k] = m
            /\ \A v \in Worker : \A l \in DOMAIN ranks[v] : ranks[v][l] = m => v = w /\ l = k
    BY <2>2, <2>3 DEF OnceInv, ItemsOnce, Distinct, Occurs
  <2>. QED BY <2>4 DEF OnceInv, SamplesOnce, EverySampleOnce
<1>. QED BY <1>1, <1>2, OnceInit, PTL DEF Spec

-----------------------------------------------------------------------------
(* Images *)

\* The placeholders before a position are those of the ranks up to it.
LEMMA PlaceholdersUpTo ==
    ASSUME NEW r \in RawSample, NEW n \in Nat, NEW c \in 0..n
    PROVE  /\ Placeholders(r, c) = Cardinality({j \in {i \in 1..n : r.mask[i]} : j <= c})
           /\ Placeholders(r, c) \in Nat
<1>1. {i \in 1..c : r.mask[i]} = {j \in {i \in 1..n : r.mask[i]} : j <= c}
  OBVIOUS
<1>2. {i \in 1..c : r.mask[i]} \in SUBSET (1..c) /\ c \in Nat
  OBVIOUS
<1>3. Cardinality({i \in 1..c : r.mask[i]}) \in Nat
  BY <1>2, RankFacts
<1>. QED BY <1>1, <1>3, Zenon DEF Placeholders

\* The images kept: their placeholders are no more than those that survive.
LEMMA KeptFits ==
    ASSUME NEW r \in RawSample
    PROVE  /\ KeptImages(r) \in 0..Len(r.images)
           /\ SeqSum(SubSeq(r.images, 1, KeptImages(r))) \in 0..Placeholders(r, SeqLen)
<1>. DEFINE fits == {n \in 0..Len(r.images) :
                        SeqSum(SubSeq(r.images, 1, n)) <= Placeholders(r, SeqLen)}
            L == Len(r.images)
            short == {m \in 0..L : L - m \in fits}
<1>1. r.images \in Seq(Nat) /\ L \in Nat /\ SeqLen \in Nat
  BY PackingAssumption DEF RawSample
<1>2. Placeholders(r, SeqLen) \in Nat
  <2>1. SeqLen \in 0..SeqLen
    BY <1>1
  <2>. QED BY <1>1, <2>1, PlaceholdersUpTo
<1>3. \A n \in 0..L : SubSeq(r.images, 1, n) \in Seq(Nat)
  BY <1>1, AfterFacts
<1>4. 0 \in fits
  <2>1. SubSeq(r.images, 1, 0) = <<>>
    BY <1>1
  <2>2. SeqSum(SubSeq(r.images, 1, 0)) = 0
    BY <2>1, SumEmpty, Zenon
  <2>. QED BY <1>1, <1>2, <2>2
<1>5. fits \subseteq 0..L
  OBVIOUS
<1>. HIDE DEF fits, L
<1>6. L \in short /\ short \in SUBSET Nat
  BY <1>1, <1>4
<1>7. PICK m \in short : \A k \in short : m <= k
  <2>1. short # {}
    BY <1>6
  <2>. HIDE DEF short
  <2>. QED BY <1>6, <2>1, LeastNat, Zenon
<1>8. L - m \in fits /\ \A n \in fits : n <= L - m
  <2>. SUFFICES ASSUME NEW n \in fits PROVE n <= L - m
    BY <1>7
  <2>1. n \in 0..L /\ m \in 0..L
    BY <1>5, <1>7
  <2>2. L - n \in 0..L /\ L - (L - n) = n
    BY <1>1, <2>1
  <2>3. L - n \in short
    BY <2>2
  <2>4. m <= L - n
    BY <1>7, <2>3
  <2>. QED BY <1>1, <2>1, <2>4
<1>9. KeptImages(r) \in fits
  <2>1. KeptImages(r) = CHOOSE n \in fits : \A k \in fits : k <= n
    BY Zenon DEF KeptImages, fits
  <2>. QED BY <1>8, <2>1
<1>10. KeptImages(r) \in 0..Len(r.images)
  BY <1>9 DEF fits
<1>11. SeqSum(SubSeq(r.images, 1, KeptImages(r))) <= Placeholders(r, SeqLen)
  BY <1>9 DEF fits
<1>12. SeqSum(SubSeq(r.images, 1, KeptImages(r))) \in Nat
  BY <1>3, <1>10, SumTyped DEF L
<1>. QED BY <1>2, <1>10, <1>11, <1>12

\* The cut leaves as many placeholders as the images kept have.
LEMMA CutMatches ==
    ASSUME NEW r \in RawSample
    PROVE  Placeholders(r, CutAtImage(r)) = SeqSum(SubSeq(r.images, 1, KeptImages(r)))
<1>. DEFINE kept == SeqSum(SubSeq(r.images, 1, KeptImages(r)))
            I == {i \in 1..SeqLen : r.mask[i]}
            lost == {i \in 1..SeqLen : r.mask[i] /\ Placeholders(r, i) > kept}
            before == {i \in 1..SeqLen : \A j \in lost : i < j}
<1>1. SeqLen \in Nat /\ I \in SUBSET (1..SeqLen)
  BY PackingAssumption
<1>2. \A c \in 0..SeqLen :
        Placeholders(r, c) = Rank(I, c) /\ Placeholders(r, c) \in Nat
  BY <1>1, PlaceholdersUpTo DEF Rank
<1>3. Placeholders(r, SeqLen) = Cardinality(I)
  <2>1. {j \in I : j <= SeqLen} = I
    BY <1>1
  <2>2. SeqLen \in 0..SeqLen
    BY <1>1
  <2>. QED BY <1>2, <2>1, <2>2 DEF Rank
<1>4. kept \in 0..Cardinality(I)
  BY <1>3, KeptFits, Zenon
<1>5. CutAtImage(r) = Cardinality(before)
  BY Zenon DEF CutAtImage
<1>. HIDE DEF kept
<1>6. lost = {i \in I : Rank(I, i) > kept}
  <2>1. \A i \in 1..SeqLen : Placeholders(r, i) = Rank(I, i)
    BY <1>1, <1>2
  <2>. HIDE DEF I
  <2>. QED
    <3>1. \A i : i \in I <=> i \in 1..SeqLen /\ r.mask[i]
      BY DEF I
    <3>. QED BY <2>1, <3>1
<1>. HIDE DEF I, lost
<1>7. Cardinality(I) \in Nat
  BY <1>1, RankFacts
<1>8. CASE kept = Cardinality(I)
  <2>1. lost = {}
    <3>1. \A i \in I : Rank(I, i) \in 1..Cardinality(I)
      BY <1>1, RankFacts
    <3>. QED BY <1>6, <1>7, <1>8, <3>1
  <2>2. before = 1..SeqLen
    BY <2>1
  <2>3. CutAtImage(r) = SeqLen
    <3>1. Cardinality(1..SeqLen) = SeqLen
      BY <1>1, FS_Interval
    <3>. QED BY <1>5, <2>2, <3>1, Zenon
  <2>. QED BY <1>3, <1>8, <2>3 DEF kept
<1>9. CASE kept # Cardinality(I)
  <2>1. kept + 1 \in 1..Cardinality(I) /\ kept \in Nat
    BY <1>4, <1>7, <1>9
  <2>2. PICK p \in I : Rank(I, p) = kept + 1
    BY <1>1, <2>1, RankFacts
  <2>3. p \in 1..SeqLen /\ p \in Int /\ p - 1 \in Nat /\ p - 1 \in 0..SeqLen
    BY <1>1, <2>2
  <2>4. p \in lost
    BY <1>6, <2>1, <2>2
  <2>5. ASSUME NEW j \in lost PROVE p <= j
    <3>1. j \in I /\ Rank(I, j) > kept /\ j \in 1..SeqLen
      BY <1>1, <1>6
    <3>2. CASE j < p
      <4>1. Rank(I, j) < Rank(I, p)
        BY <1>1, <2>2, <3>1, <3>2, RankGrows
      <4>2. Rank(I, j) \in Nat
        <5>1. Rank(I, j) \in 1..Cardinality(I)
          BY <1>1, <3>1, RankFacts
        <5>. QED BY <1>7, <5>1
      <4>. QED BY <2>1, <2>2, <3>1, <4>1, <4>2
    <3>. QED BY <2>3, <3>1, <3>2
  <2>6. before = 1..(p - 1)
    <3>1. ASSUME NEW i \in 1..SeqLen, \A j \in lost : i < j PROVE i \in 1..(p - 1)
      BY <2>3, <2>4, <3>1
    <3>2. ASSUME NEW i \in 1..(p - 1), NEW j \in lost PROVE i \in 1..SeqLen /\ i < j
      <4>1. j \in Int /\ i \in Int /\ i <= p - 1 /\ i \in 1..SeqLen
        BY <1>1, <1>6, <2>3
      <4>2. p <= j
        BY <2>5
      <4>. QED BY <2>3, <4>1, <4>2
    <3>3. \A i \in 1..(p - 1) : i \in 1..SeqLen
      BY <1>1, <2>3
    <3>. QED BY <3>1, <3>2, <3>3
  <2>7. CutAtImage(r) = p - 1
    <3>1. Cardinality(1..(p - 1)) = p - 1
      <4>1. 1 \in Int /\ p - 1 \in Int /\ (1 <= p - 1 \/ p - 1 = 0)
        BY <2>3
      <4>. QED BY <2>3, <4>1, FS_Interval
    <3>. QED BY <1>5, <2>6, <3>1, Zenon
  <2>8. Cardinality({j \in I : j <= p - 1}) = kept
    <3>1. {j \in I : j <= p - 1} = {j \in I : j <= p} \ {p}
      <4>1. \A j \in I : j \in Int
        BY <1>1
      <4>2. \A j \in I : j <= p - 1 <=> j <= p /\ j # p
        BY <2>3, <4>1
      <4>. QED BY <4>2
    <3>2. p \in {j \in I : j <= p} /\ IsFiniteSet({j \in I : j <= p})
      <4>1. {j \in I : j <= p} \in SUBSET I
        OBVIOUS
      <4>2. IsFiniteSet(I)
        BY <1>1, RankFacts
      <4>3. p \in {j \in I : j <= p}
        BY <2>2, <2>3
      <4>. QED BY <4>1, <4>2, <4>3, FS_Subset
    <3>3. Cardinality({j \in I : j <= p} \ {p}) = Cardinality({j \in I : j <= p}) - 1
      BY <3>2, FS_RemoveElement
    <3>4. Cardinality({j \in I : j <= p}) = kept + 1
      BY <2>2 DEF Rank
    <3>. QED BY <2>1, <3>1, <3>3, <3>4
  <2>. QED BY <1>2, <2>3, <2>7, <2>8 DEF kept, Rank
<1>. QED BY <1>8, <1>9

\* What prepare_sample returns of an image sample has the placeholders of its images.
LEMMA PreparedMatches ==
    ASSUME NEW batch \in Inputs, NEW i \in DOMAIN batch,
           Prepared(batch[i]).sidecar # NoImages
    PROVE  Placeholders(batch[i], Prepared(batch[i]).len) = SeqSum(Prepared(batch[i]).images)
<1>. DEFINE r == batch[i]
<1>1. r \in RawSample
  BY PackingAssumption
<1>2. r.sidecar # NoImages => Placeholders(r, Len(r.mask)) = SeqSum(r.images)
  BY ImagesAssumption, Zenon
<1>. HIDE DEF r
<1>3. CASE Len(r.mask) <= SeqLen
  <2>1. /\ Prepared(r).len = Len(r.mask) /\ Prepared(r).images = r.images
        /\ Prepared(r).sidecar = r.sidecar
    BY <1>3 DEF Prepared
  <2>2. r.sidecar # NoImages
    BY <2>1 DEF r
  <2>3. Placeholders(r, Prepared(r).len) = SeqSum(Prepared(r).images)
    BY <1>2, <2>1, <2>2, Zenon
  <2>. QED BY <2>3 DEF r
<1>4. CASE ~(Len(r.mask) <= SeqLen)
  <2>1. r.sidecar # NoImages
    BY <1>4 DEF Prepared, r
  <2>2. Prepared(r).len = CutAtImage(r) /\ Prepared(r).images = SubSeq(r.images, 1, KeptImages(r))
    BY <1>4, <2>1 DEF Prepared
  <2>3. Placeholders(r, Prepared(r).len) = SeqSum(Prepared(r).images)
    BY <1>1, <2>2, CutMatches, Zenon
  <2>. QED BY <2>3 DEF r
<1>. QED BY <1>3, <1>4

-----------------------------------------------------------------------------
(* Lengths of bins *)

\* The lengths of the samples S of a batch p, which has n of them, added up.
LengthOf(p, S) == SeqSum([i \in DOMAIN p |-> IF i \in S THEN p[i].len ELSE 0])
IsBatch(p, n) == DOMAIN p = 1..n /\ \A i \in 1..n : p[i].len \in Nat

\* v are the lengths that are added up.
AreLengths(v, p, n, S) ==
    /\ v \in Seq(Nat) /\ v \in Seq(Int) /\ Len(v) = n
    /\ \A i \in 1..n : v[i] = IF i \in S THEN p[i].len ELSE 0

\* What is added up is a sequence.
LEMMA LengthsTyped ==
    ASSUME NEW p, NEW n \in Nat, IsBatch(p, n), NEW S
    PROVE  \E v : AreLengths(v, p, n, S) /\ LengthOf(p, S) = SeqSum(v)
<1>1. [i \in DOMAIN p |-> IF i \in S THEN p[i].len ELSE 0] \in [1..n -> Nat]
  BY DEF IsBatch
<1>2. \A i \in 1..n : [j \in DOMAIN p |-> IF j \in S THEN p[j].len ELSE 0][i]
                        = IF i \in S THEN p[i].len ELSE 0
  BY DEF IsBatch
<1>3. \A v \in [1..n -> Nat] : v \in Seq(Nat) /\ v \in Seq(Int) /\ Len(v) = n
  OBVIOUS
<1>. QED BY <1>1, <1>2, <1>3, Zenon DEF LengthOf, AreLengths

\* One sample more.
LEMMA LengthAdded ==
    ASSUME NEW p, NEW n \in Nat, IsBatch(p, n), NEW S, NEW s \in 1..n, s \notin S
    PROVE  LengthOf(p, S \cup {s}) = LengthOf(p, S) + p[s].len
<1>1. PICK v : AreLengths(v, p, n, S) /\ LengthOf(p, S) = SeqSum(v)
  BY LengthsTyped, Zenon
<1>2. PICK u : AreLengths(u, p, n, S \cup {s}) /\ LengthOf(p, S \cup {s}) = SeqSum(u)
  BY LengthsTyped, Zenon
<1>3. u[s] = p[s].len /\ v[s] = 0 /\ p[s].len \in Nat
  BY <1>1, <1>2 DEF IsBatch, AreLengths
<1>4. \A i \in 1..n : i # s => u[i] = v[i]
  BY <1>1, <1>2 DEF AreLengths
<1>5. u \in Seq(Int) /\ v \in Seq(Int) /\ Len(u) = n /\ Len(v) = n
  BY <1>1, <1>2 DEF AreLengths
<1>6. \A i \in 1..Len(u) : i # s => u[i] = v[i]
  BY <1>4, <1>5
<1>7. s \in 1..Len(u) /\ Len(u) = Len(v)
  BY <1>5
<1>8. SeqSum(u) = SeqSum(v) + (u[s] - v[s])
  BY <1>5, <1>6, <1>7, SumChanged, Zenon
<1>9. SeqSum(v) \in Int
  BY <1>5, SumTyped
<1>. QED BY <1>1, <1>2, <1>3, <1>8, <1>9

\* No sample at all.
LEMMA LengthEmpty ==
    ASSUME NEW p, NEW n \in Nat, IsBatch(p, n)
    PROVE  LengthOf(p, {}) = 0
<1>1. PICK v : AreLengths(v, p, n, {}) /\ LengthOf(p, {}) = SeqSum(v)
  BY LengthsTyped, Zenon
<1>2. \A i \in 1..Len(v) : v[i] = 0
  BY <1>1 DEF AreLengths
<1>3. v \in Seq(Int)
  BY <1>1 DEF AreLengths
<1>4. SeqSum(v) = 0
  BY <1>2, <1>3, SumZeros, Zenon
<1>. QED BY <1>1, <1>4, Zenon

\* Of fewer samples.
LEMMA LengthFewer ==
    ASSUME NEW p, NEW n \in Nat, IsBatch(p, n), NEW T, NEW S \in SUBSET T
    PROVE  LengthOf(p, S) <= LengthOf(p, T)
<1>1. PICK v : AreLengths(v, p, n, S) /\ LengthOf(p, S) = SeqSum(v)
  BY LengthsTyped, Zenon
<1>2. PICK u : AreLengths(u, p, n, T) /\ LengthOf(p, T) = SeqSum(u)
  BY LengthsTyped, Zenon
<1>3. \A i \in 1..Len(v) : v[i] <= u[i]
  <2>. TAKE i \in 1..Len(v)
  <2>1. i \in 1..n /\ v[i] \in Nat /\ u[i] \in Nat /\ p[i].len \in Nat
    BY <1>1, <1>2 DEF IsBatch, AreLengths
  <2>. QED BY <1>1, <1>2, <2>1 DEF AreLengths
<1>4. u \in Seq(Int) /\ v \in Seq(Int) /\ Len(v) = Len(u)
  BY <1>1, <1>2 DEF AreLengths
<1>5. SeqSum(v) <= SeqSum(u)
  BY <1>3, <1>4, SumMonotone, Zenon
<1>. QED BY <1>1, <1>2, <1>5, Zenon

\* The batch is the one given, prepared.
Given ==
    /\ raw \in Inputs
    /\ sample = [i \in DOMAIN raw |-> Prepared(raw[i])]

\* A bin's length is that of its samples.
Filled(p, bin) == bin.length = LengthOf(p, bin.samples)

BinsFilled ==
    /\ \A i \in DOMAIN bins : Filled(sample, bins[i]) /\ bins[i].length <= SeqLen
    /\ Filled(sample, halving.left) /\ Filled(sample, halving.right)

\* A micro-batch is that of its samples and less than a multiple more.
Padded(p, m) ==
    /\ m.length % Multiple = 0
    /\ m.length - LengthOf(p, m.samples) \in 0..(Multiple - 1)

AllPadded == \A i \in DOMAIN micro : Padded(sample, micro[i])

\* The samples are numbered from 1.
LEMMA BatchTyped ==
    ASSUME Types, Given
    PROVE  \E n \in Nat : IsBatch(sample, n) /\ Id = 1..n
<1>1. raw \in Seq(RawSample) /\ Id = DOMAIN raw
  BY PackingAssumption DEF Given, Id
<1>2. DOMAIN raw = 1..Len(raw) /\ Len(raw) \in Nat
  BY <1>1
<1>3. \A i \in Id : sample[i].len \in Nat
  BY PackingAssumption DEF Types, SamplesFit
<1>. QED BY <1>1, <1>2, <1>3 DEF IsBatch, Id

\* A sample added to a bin that does not have it.
LEMMA FilledAdded ==
    ASSUME Types, Given, NEW bin \in Bin, NEW s \in Id, s \notin bin.samples, Filled(sample, bin)
    PROVE  Filled(sample, Added(bin, s))
<1>1. PICK n \in Nat : IsBatch(sample, n) /\ Id = 1..n
  BY BatchTyped
<1>2. /\ Added(bin, s).samples = bin.samples \cup {s}
      /\ Added(bin, s).length = bin.length + sample[s].len
  BY DEF Added
<1>3. LengthOf(sample, bin.samples \cup {s}) = LengthOf(sample, bin.samples) + sample[s].len
  BY <1>1, LengthAdded
<1>. QED BY <1>2, <1>3, Zenon DEF Filled

\* An empty bin.
LEMMA FilledEmpty ==
    ASSUME Types, Given
    PROVE  Filled(sample, EmptyBin)
<1>1. LengthOf(sample, {}) = 0
  BY BatchTyped, LengthEmpty
<1>. QED BY <1>1 DEF Filled, EmptyBin

\* A bin is filled when a sample is placed, and stays within seq_len.
LEMMA PlaceFills ==
    ASSUME Types, Given, SamplesOnce, BinsFilled, NEW s \in Id, Place(s)
    PROVE  BinsFilled'
<1>1. /\ stage = "pack" /\ s \in unplaced /\ UNCHANGED <<sample, halving>>
  BY DEF Place, IsFirst
<1>2. bins \in Seq(Bin) /\ ~Contained(bins, s)
  BY <1>1 DEF Types, PackTypeOK, SamplesOnce
<1>3. ASSUME NEW b \in DOMAIN bins, CanAdd(bins[b], s), bins' = [bins EXCEPT ![b] = Added(@, s)]
      PROVE  BinsFilled'
  <2>1. Filled(sample, Added(bins[b], s))
    BY <1>2, FilledAdded DEF Contained, BinsFilled
  <2>2. Added(bins[b], s).length <= SeqLen
    BY <1>3 DEF CanAdd, Added
  <2>3. /\ DOMAIN bins' = DOMAIN bins
        /\ \A m \in DOMAIN bins : bins'[m] = IF m = b THEN Added(bins[b], s) ELSE bins[m]
    BY <1>2, <1>3
  <2>. QED BY <1>1, <2>1, <2>2, <2>3 DEF BinsFilled
<1>4. ASSUME bins' = Append(bins, Added(EmptyBin, s))
      PROVE  BinsFilled'
  <2>1. Filled(sample, Added(EmptyBin, s))
    <3>1. EmptyBin.samples = {}
      BY DEF EmptyBin
    <3>. QED BY <3>1, FilledEmpty, FilledAdded, EmptyBinTyped
  <2>2. Added(EmptyBin, s).length <= SeqLen
    <3>1. Added(EmptyBin, s).length = 0 + sample[s].len
      BY DEF EmptyBin, Added
    <3>. QED BY <3>1, PackingAssumption DEF Types, SamplesFit
  <2>3. /\ DOMAIN bins' = 1..(Len(bins) + 1) /\ DOMAIN bins = 1..Len(bins) /\ Len(bins) \in Nat
        /\ \A m \in 1..Len(bins) : bins'[m] = bins[m]
        /\ bins'[Len(bins) + 1] = Added(EmptyBin, s)
    <3>1. Added(EmptyBin, s) \in Bin
      BY AddedTyped, EmptyBinTyped DEF Types
    <3>. QED BY <1>2, <1>4, <3>1, AppendProperties
  <2>4. \A m \in DOMAIN bins' : m \in DOMAIN bins \/ m = Len(bins) + 1
    BY <2>3
  <2>5. \A m \in DOMAIN bins' : Filled(sample, bins'[m]) /\ bins'[m].length <= SeqLen
    BY <2>1, <2>2, <2>3, <2>4 DEF BinsFilled
  <2>. QED BY <1>1, <2>5 DEF BinsFilled
<1>. QED BY <1>3, <1>4 DEF Place

\* A sample goes to a side that does not have it.
LEMMA HalveFills ==
    ASSUME Types, Given, SamplesOnce, BinsFilled, NEW s \in Id, Halve(s)
    PROVE  BinsFilled'
<1>1. /\ stage = "halve" /\ s \in halving.rest /\ UNCHANGED <<sample, bins>>
  BY DEF Halve, IsFirst
<1>2. /\ halving \in [bin : Nat, rest : SUBSET Id, left : Bin, right : Bin]
      /\ s \notin halving.left.samples /\ s \notin halving.right.samples
  BY <1>1 DEF Types, Phases, SamplesOnce
<1>3. /\ Filled(sample, Added(halving.left, s)) /\ Filled(sample, Added(halving.right, s))
      /\ Filled(sample, halving.left) /\ Filled(sample, halving.right)
  BY <1>2, FilledAdded DEF BinsFilled
<1>4. \/ halving'.left = Added(halving.left, s) /\ halving'.right = halving.right
      \/ halving'.left = halving.left /\ halving'.right = Added(halving.right, s)
  BY <1>2 DEF Halve
<1>5. Filled(sample, halving'.left) /\ Filled(sample, halving'.right)
  BY <1>3, <1>4, Zenon
<1>. QED BY <1>1, <1>5 DEF BinsFilled

\* The two sides of a bin are no longer than the bin.
LEMMA EndSplitFills ==
    ASSUME Types, Given, SamplesOnce, BinsFilled, EndSplit
    PROVE  BinsFilled'
<1>. DEFINE b == halving.bin
            left == halving.left
            right == halving.right
            n == Len(bins)
<1>1. /\ stage = "halve" /\ UNCHANGED <<sample, halving>>
      /\ bins' = Append([bins EXCEPT ![b] = left], right)
  BY DEF EndSplit
<1>2. bins \in Seq(Bin) /\ b \in DOMAIN bins /\ left \in Bin /\ right \in Bin
  BY <1>1 DEF Types, PackTypeOK, Phases
<1>3. left.samples \subseteq bins[b].samples /\ right.samples \subseteq bins[b].samples
  BY <1>1 DEF SamplesOnce
<1>4. /\ n \in Nat /\ DOMAIN bins = 1..n /\ DOMAIN bins' = 1..(n + 1) /\ b \in 1..n
      /\ \A m \in 1..n : bins'[m] = IF m = b THEN left ELSE bins[m]
      /\ bins'[n + 1] = right
  <2>1. n \in Nat /\ DOMAIN bins = 1..n /\ b \in 1..n
    BY <1>2
  <2>2. /\ [bins EXCEPT ![b] = left] \in Seq(Bin) /\ Len([bins EXCEPT ![b] = left]) = n
        /\ \A m \in 1..n : [bins EXCEPT ![b] = left][m] = IF m = b THEN left ELSE bins[m]
    BY <1>2, <2>1, ExceptSeq
  <2>. QED BY <1>1, <1>2, <2>1, <2>2, AppendProperties
<1>5. ASSUME NEW side \in Bin, Filled(sample, side), side.samples \subseteq bins[b].samples
      PROVE  side.length <= SeqLen
  <2>1. PICK k \in Nat : IsBatch(sample, k)
    BY BatchTyped
  <2>2. LengthOf(sample, side.samples) <= LengthOf(sample, bins[b].samples)
    BY <1>5, <2>1, LengthFewer
  <2>3. /\ side.length = LengthOf(sample, side.samples)
        /\ bins[b].length = LengthOf(sample, bins[b].samples) /\ bins[b].length <= SeqLen
    BY <1>2, <1>5 DEF BinsFilled, Filled
  <2>4. side.length <= bins[b].length
    BY <2>2, <2>3, Zenon
  <2>5. side.length \in Nat /\ bins[b].length \in Nat
    <3>1. bins[b] \in Bin
      BY <1>2
    <3>. QED BY <1>5, <3>1 DEF Bin
  <2>. QED BY <2>3, <2>4, <2>5, PackingAssumption
<1>6. /\ Filled(sample, left) /\ left.length <= SeqLen
      /\ Filled(sample, right) /\ right.length <= SeqLen
  BY <1>2, <1>3, <1>5 DEF BinsFilled
<1>. HIDE DEF b, left, right, n
<1>7. \A m \in DOMAIN bins' : m \in 1..n \/ m = n + 1
  BY <1>4
<1>8. \A m \in 1..n : Filled(sample, bins[m]) /\ bins[m].length <= SeqLen
  BY <1>4 DEF BinsFilled
<1>9. \A m \in DOMAIN bins' : Filled(sample, bins'[m]) /\ bins'[m].length <= SeqLen
  BY <1>4, <1>6, <1>7, <1>8
<1>. QED BY <1>1, <1>9 DEF BinsFilled

\* Every step keeps the bins' lengths.
LEMMA BinsFilledNext ==
    ASSUME Types, Given, SamplesOnce, BinsFilled, [Next]_vars
    PROVE  BinsFilled'
<1>1. CASE UNCHANGED vars
  BY <1>1 DEF vars, BinsFilled
<1>2. ASSUME NEW i \in DOMAIN bins, StartSplit(i) PROVE BinsFilled'
  <2>1. /\ UNCHANGED <<sample, bins>>
        /\ halving'.left = EmptyBin /\ halving'.right = EmptyBin
    BY <1>2 DEF StartSplit
  <2>2. Filled(sample, halving'.left) /\ Filled(sample, halving'.right)
    BY <2>1, FilledEmpty, Zenon
  <2>. QED BY <2>1, <2>2 DEF BinsFilled
<1>3. ASSUME EndPack \/ FormGroups \/ StartGroup \/ SkipGroup \/ Push \/ Merge \/ StartRefine
             \/ Assign \/ Return \/ (\E s \in Swaps : Swap(s))
      PROVE  BinsFilled'
  <2>1. UNCHANGED <<sample, bins, halving>>
    BY <1>3 DEF EndPack, FormGroups, StartGroup, SkipGroup, Push, Merge, StartRefine, Assign,
                Return, Swap
  <2>. QED BY <2>1 DEF BinsFilled
<1>. QED BY <1>1, <1>2, <1>3, PlaceFills, HalveFills, EndSplitFills DEF Next

-----------------------------------------------------------------------------
(* Padding *)

\* The padding makes the length a multiple.
LEMMA PaddingCompletes ==
    ASSUME NEW n \in Nat
    PROVE  (n + PaddedTo(n)) % Multiple = 0
<1>. DEFINE M == Multiple
<1>0. M \in Nat \ {0}
  BY PackingAssumption
<1>. HIDE DEF M
<1>1. 0 - n = M * ((0 - n) \div M) + ((0 - n) % M)
  BY <1>0
<1>2. ((0 - n) \div M) \in Int
  BY <1>0
<1>3. PICK q \in Int : n + ((0 - n) % M) = M * q
  <2>. DEFINE k == 0 - ((0 - n) \div M)
  <2>1. k \in Int /\ n + ((0 - n) % M) = M * k
    BY <1>0, <1>1, <1>2
  <2>. QED BY <2>1
<1>4. \A k \in Int : (M * k) % M = 0
  BY <1>0
<1>5. (n + ((0 - n) % M)) % M = 0
  BY <1>3, <1>4
<1>. QED BY <1>5 DEF PaddedTo, M

\* A micro-batch made of a filled bin.
LEMMA MicroPadded ==
    ASSUME NEW bin \in Bin, Filled(sample, bin)
    PROVE  Padded(sample, MicroBatch(bin))
<1>1. bin.length \in Nat /\ bin.length = LengthOf(sample, bin.samples)
  BY DEF Bin, Filled
<1>2. /\ MicroBatch(bin).length = bin.length + PaddedTo(bin.length)
      /\ MicroBatch(bin).samples = bin.samples
  BY DEF MicroBatch
<1>3. PaddedTo(bin.length) \in 0..(Multiple - 1)
  BY <1>1, PaddedToBound
<1>4. (bin.length + PaddedTo(bin.length)) % Multiple = 0
  BY <1>1, PaddingCompletes
<1>5. (bin.length + PaddedTo(bin.length)) - bin.length = PaddedTo(bin.length)
  BY <1>1, <1>3, PackingAssumption
<1>. QED BY <1>1, <1>2, <1>3, <1>4, <1>5, Zenon DEF Padded

\* So is a dummy, which copies one.
LEMMA DummiesPadded ==
    ASSUME NEW batches \in Seq(Micro), NEW mm \in BOOLEAN,
           \A i \in DOMAIN batches : Padded(sample, batches[i])
    PROVE  \A i \in DOMAIN Dummies(batches, mm) : Padded(sample, Dummies(batches, mm)[i])
<1>. DEFINE group == OfModality(batches, mm)
            first == CHOOSE i \in group : \A j \in group : i <= j
            n == (0 - Cardinality(group)) % Workers
<1>1. Dummies(batches, mm) = [i \in 1..n |-> [batches[first] EXCEPT !.dummy = TRUE]]
  BY DEF Dummies
<1>2. group \in SUBSET (1..Len(batches)) /\ Len(batches) \in Nat /\ group \subseteq DOMAIN batches
  BY DEF OfModality
<1>3. CASE group = {}
  <2>1. Cardinality(group) = 0
    BY <1>3, FS_EmptySet
  <2>2. n = 0
    <3>. HIDE DEF group
    <3>. QED BY <2>1, PackingAssumption
  <2>3. DOMAIN Dummies(batches, mm) = {}
    BY <1>1, <2>2
  <2>. QED BY <2>3
<1>4. CASE group # {}
  <2>1. group \in SUBSET Nat
    BY <1>2
  <2>2. \E i \in group : \A j \in group : i <= j
    BY <1>4, <2>1, LeastNat, Zenon
  <2>3. first \in DOMAIN batches
    BY <1>2, <2>2
  <2>. HIDE DEF first, n
  <2>4. batches[first] \in Micro /\ Padded(sample, batches[first])
    BY <2>3
  <2>5. /\ [batches[first] EXCEPT !.dummy = TRUE].length = batches[first].length
        /\ [batches[first] EXCEPT !.dummy = TRUE].samples = batches[first].samples
    BY <2>4 DEF Micro
  <2>6. Padded(sample, [batches[first] EXCEPT !.dummy = TRUE])
    BY <2>4, <2>5, Zenon DEF Padded
  <2>7. \A i \in DOMAIN Dummies(batches, mm) :
            Dummies(batches, mm)[i] = [batches[first] EXCEPT !.dummy = TRUE]
    BY <1>1
  <2>. QED BY <2>6, <2>7, Zenon
<1>. QED BY <1>3, <1>4

\* Two lists of padded micro-batches joined.
LEMMA PaddedConcat ==
    ASSUME NEW b \in Seq(Micro), NEW c \in Seq(Micro),
           \A i \in DOMAIN b : Padded(sample, b[i]), \A i \in DOMAIN c : Padded(sample, c[i])
    PROVE  \A i \in DOMAIN (b \o c) : Padded(sample, (b \o c)[i])
<1>1. /\ DOMAIN (b \o c) = 1..(Len(b) + Len(c)) /\ Len(b) \in Nat /\ Len(c) \in Nat
      /\ DOMAIN b = 1..Len(b) /\ DOMAIN c = 1..Len(c)
      /\ \A i \in 1..(Len(b) + Len(c)) : (b \o c)[i] = IF i <= Len(b) THEN b[i] ELSE c[i - Len(b)]
  BY ConcatProperties
<1>. TAKE i \in DOMAIN (b \o c)
<1>2. CASE i <= Len(b)
  <2>1. i \in DOMAIN b /\ (b \o c)[i] = b[i]
    BY <1>1, <1>2
  <2>. QED BY <2>1, Zenon
<1>3. CASE ~(i <= Len(b))
  <2>1. i - Len(b) \in DOMAIN c
    BY <1>1, <1>3
  <2>2. (b \o c)[i] = c[i - Len(b)]
    BY <1>1, <1>3
  <2>. QED BY <2>1, <2>2, Zenon
<1>. QED BY <1>2, <1>3

\* The micro-batches are made of filled bins and padded; later none is changed.
LEMMA AllPaddedNext ==
    ASSUME Types, BinsFilled, AllPadded, [Next]_vars
    PROVE  AllPadded'
<1>1. CASE FormGroups
  <2>. DEFINE batches == [i \in DOMAIN bins |-> MicroBatch(bins[i])]
              some == Dummies(batches, TRUE)
              more == Dummies(batches, FALSE)
  <2>1. sample' = sample /\ micro' = batches \o some \o more
    BY <1>1 DEF FormGroups
  <2>2. bins \in Seq(Bin) /\ batches \in Seq(Micro)
    BY BatchesTyped DEF Types, PackTypeOK
  <2>3. \A i \in DOMAIN batches : Padded(sample, batches[i])
    BY <2>2, MicroPadded DEF BinsFilled
  <2>. HIDE DEF batches
  <2>4. /\ \A i \in DOMAIN some : Padded(sample, some[i])
        /\ \A i \in DOMAIN more : Padded(sample, more[i])
    BY <2>2, <2>3, DummiesPadded
  <2>5. some \in Seq(Micro) /\ more \in Seq(Micro)
    <3>1. \A mm \in BOOLEAN : Dummies(batches, mm) \in Seq({d \in Micro : d.dummy /\ d.mm = mm})
      BY <2>2, DummiesTyped
    <3>2. \A mm \in BOOLEAN : {d \in Micro : d.dummy /\ d.mm = mm} \subseteq Micro
      OBVIOUS
    <3>. QED BY <3>1, <3>2, SeqMonotonic
  <2>. HIDE DEF some, more
  <2>6. batches \o some \in Seq(Micro)
    BY <2>2, <2>5, ConcatProperties
  <2>7. \A i \in DOMAIN (batches \o some) : Padded(sample, (batches \o some)[i])
    BY <2>2, <2>3, <2>4, <2>5, PaddedConcat
  <2>8. \A i \in DOMAIN (batches \o some \o more) :
            Padded(sample, (batches \o some \o more)[i])
    BY <2>4, <2>5, <2>6, <2>7, PaddedConcat
  <2>. QED BY <2>1, <2>8, Zenon DEF AllPadded
<1>2. ASSUME ~FormGroups PROVE AllPadded'
  <2>1. UNCHANGED <<sample, micro>>
    BY <1>2 DEF vars, Next, Place, EndPack, StartSplit, Halve, EndSplit, StartGroup, SkipGroup, Push, Merge,
                StartRefine, Swap, Assign, Return
  <2>. QED BY <2>1 DEF AllPadded
<1>. QED BY <1>1, <1>2

-----------------------------------------------------------------------------
(* Loads *)

\* The costs of a list of micro-batches of m, added up.
Costs(m, list) == [k \in DOMAIN list |-> m[list[k]].work]
WorkOf(m, list) == SeqSum(Costs(m, list))

\* The totals of a Karmarkar-Karp state, and the loads, are those of their lists.
Weighed(m, a) == \A w \in Worker : a[w].total = WorkOf(m, a[w].items)
LoadsSummed ==
    /\ \A a \in states : Weighed(micro, a)
    /\ stage = "refine" => \A w \in Worker : loads[w] = WorkOf(micro, parts[w])

\* All costs are numbers.
AreWorks(m) == \A i \in DOMAIN m : m[i].work \in Int

\* The costs of a list are a sequence.
LEMMA CostsTyped ==
    ASSUME NEW m, AreWorks(m), NEW list \in Seq(DOMAIN m)
    PROVE  /\ Costs(m, list) \in Seq(Int) /\ Len(Costs(m, list)) = Len(list)
           /\ \A k \in 1..Len(list) : Costs(m, list)[k] = m[list[k]].work
<1>1. DOMAIN list = 1..Len(list) /\ Len(list) \in Nat /\ \A k \in 1..Len(list) : list[k] \in DOMAIN m
  OBVIOUS
<1>2. \A k \in 1..Len(list) : m[list[k]].work \in Int
  BY <1>1 DEF AreWorks
<1>. QED BY <1>1, <1>2 DEF Costs

\* Of two lists joined.
LEMMA WorkConcat ==
    ASSUME NEW m, AreWorks(m), NEW s \in Seq(DOMAIN m), NEW t \in Seq(DOMAIN m)
    PROVE  WorkOf(m, s \o t) = WorkOf(m, s) + WorkOf(m, t)
<1>. DEFINE st == s \o t
<1>1. /\ st \in Seq(DOMAIN m) /\ Len(st) = Len(s) + Len(t) /\ Len(s) \in Nat /\ Len(t) \in Nat
      /\ \A k \in 1..(Len(s) + Len(t)) : st[k] = IF k <= Len(s) THEN s[k] ELSE t[k - Len(s)]
  BY ConcatProperties
<1>. HIDE DEF st
<1>2. /\ Costs(m, s) \in Seq(Int) /\ Len(Costs(m, s)) = Len(s)
      /\ \A k \in 1..Len(s) : Costs(m, s)[k] = m[s[k]].work
  BY CostsTyped
<1>3. /\ Costs(m, t) \in Seq(Int) /\ Len(Costs(m, t)) = Len(t)
      /\ \A k \in 1..Len(t) : Costs(m, t)[k] = m[t[k]].work
  BY CostsTyped
<1>4. /\ Costs(m, st) \in Seq(Int) /\ Len(Costs(m, st)) = Len(s) + Len(t)
      /\ \A k \in 1..(Len(s) + Len(t)) : Costs(m, st)[k] = m[st[k]].work
  <2>1. /\ Costs(m, st) \in Seq(Int) /\ Len(Costs(m, st)) = Len(st)
        /\ \A k \in 1..Len(st) : Costs(m, st)[k] = m[st[k]].work
    BY <1>1, CostsTyped
  <2>. QED BY <1>1, <2>1, Zenon
<1>5. \A k \in 1..Len(s) : Costs(m, st)[k] = Costs(m, s)[k]
  <2>. TAKE k \in 1..Len(s)
  <2>1. k \in 1..(Len(s) + Len(t)) /\ k <= Len(s)
    BY <1>1
  <2>2. st[k] = s[k]
    BY <1>1, <2>1
  <2>. QED BY <1>2, <1>4, <2>1, <2>2, Zenon
<1>6. \A k \in 1..Len(t) : Costs(m, st)[Len(s) + k] = Costs(m, t)[k]
  <2>. TAKE k \in 1..Len(t)
  <2>1. Len(s) + k \in 1..(Len(s) + Len(t)) /\ ~(Len(s) + k <= Len(s)) /\ (Len(s) + k) - Len(s) = k
    BY <1>1
  <2>2. st[Len(s) + k] = t[k]
    BY <1>1, <2>1
  <2>. QED BY <1>3, <1>4, <2>1, <2>2, Zenon
<1>. DEFINE cs == Costs(m, s)
            ct == Costs(m, t)
            c == Costs(m, st)
<1>7. /\ c \in Seq(Int) /\ cs \in Seq(Int) /\ ct \in Seq(Int) /\ Len(c) = Len(cs) + Len(ct)
      /\ \A k \in 1..Len(cs) : c[k] = cs[k]
      /\ \A k \in 1..Len(ct) : c[Len(cs) + k] = ct[k]
  BY <1>2, <1>3, <1>4, <1>5, <1>6, Zenon
<1>8. SeqSum(c) = SeqSum(cs) + SeqSum(ct)
  <2>. HIDE DEF c, cs, ct
  <2>. QED BY <1>7, SumJoined
<1>. QED BY <1>8, Zenon DEF WorkOf, st

\* Of one micro-batch.
LEMMA WorkSingle ==
    ASSUME NEW m, AreWorks(m), NEW i \in DOMAIN m
    PROVE  WorkOf(m, <<i>>) = m[i].work
<1>1. <<i>> \in Seq(DOMAIN m) /\ Len(<<i>>) = 1 /\ <<i>>[1] = i /\ m[i].work \in Int
  BY DEF AreWorks
<1>2. /\ Costs(m, <<i>>) \in Seq(Int) /\ Len(Costs(m, <<i>>)) = 1
      /\ Costs(m, <<i>>)[1] = m[i].work
  <2>. DEFINE one == <<i>>
  <2>. HIDE DEF one
  <2>1. one \in Seq(DOMAIN m) /\ Len(one) = 1 /\ one[1] = i
    BY <1>1, Zenon DEF one
  <2>2. /\ Costs(m, one) \in Seq(Int) /\ Len(Costs(m, one)) = Len(one)
        /\ \A k \in 1..Len(one) : Costs(m, one)[k] = m[one[k]].work
    BY <2>1, CostsTyped
  <2>3. 1 \in 1..Len(one)
    BY <2>1
  <2>4. Costs(m, one)[1] = m[i].work
    BY <2>1, <2>2, <2>3, Zenon
  <2>. QED BY <2>1, <2>2, <2>4, Zenon DEF one
<1>3. Costs(m, <<i>>) = <<m[i].work>>
  BY <1>1, <1>2
<1>. QED BY <1>1, <1>3, SumOne, Zenon DEF WorkOf

\* Of two lists that differ in one place.
LEMMA WorkReplaced ==
    ASSUME NEW m, AreWorks(m), NEW s \in Seq(DOMAIN m), NEW t \in Seq(DOMAIN m), Len(t) = Len(s),
           NEW p \in 1..Len(s), \A k \in 1..Len(s) : k # p => t[k] = s[k]
    PROVE  WorkOf(m, t) = WorkOf(m, s) + (m[t[p]].work - m[s[p]].work)
<1>. DEFINE cs == Costs(m, s)
            ct == Costs(m, t)
<1>1. /\ cs \in Seq(Int) /\ Len(cs) = Len(s) /\ \A k \in 1..Len(s) : cs[k] = m[s[k]].work
      /\ ct \in Seq(Int) /\ Len(ct) = Len(s) /\ \A k \in 1..Len(s) : ct[k] = m[t[k]].work
  <2>1. cs \in Seq(Int) /\ Len(cs) = Len(s) /\ \A k \in 1..Len(s) : cs[k] = m[s[k]].work
    BY CostsTyped
  <2>2. ct \in Seq(Int) /\ Len(ct) = Len(t) /\ \A k \in 1..Len(t) : ct[k] = m[t[k]].work
    BY CostsTyped
  <2>. QED BY <2>1, <2>2, Zenon
<1>. HIDE DEF cs, ct
<1>2. Len(ct) = Len(cs) /\ p \in 1..Len(ct) /\ \A k \in 1..Len(ct) : k # p => ct[k] = cs[k]
  BY <1>1
<1>3. SeqSum(ct) = SeqSum(cs) + (ct[p] - cs[p])
  BY <1>1, <1>2, SumChanged, Zenon
<1>. QED BY <1>1, <1>3, Zenon DEF WorkOf, cs, ct

\* The micro-batches have costs.
LEMMA WorksTyped ==
    ASSUME Types
    PROVE  AreWorks(micro)
BY WorkIsInt DEF Types, AreWorks

\* A state of single micro-batches.
LEMMA PushSummed ==
    ASSUME Types, LoadsSummed, Push
    PROVE  LoadsSummed'
<1>1. PICK chunk \in [Worker -> unranked] : states' = states \cup {Reversed(Singletons(chunk))}
  BY DEF Push
<1>2. chunk \in [Worker -> DOMAIN micro] /\ \A i \in DOMAIN micro : micro[i].work \in Int
  BY WorkIsInt DEF Types, PackTypeOK
<1>3. ASSUME NEW w \in Worker
      PROVE  Reversed(Singletons(chunk))[w].total
                = WorkOf(micro, Reversed(Singletons(chunk))[w].items)
  <2>. DEFINE i == chunk[Mirror(w)]
  <2>1. i \in DOMAIN micro
    BY <1>2, MirrorTyped
  <2>2. Reversed(Singletons(chunk))[w] = [total |-> micro[i].work, items |-> <<i>>]
    BY <1>2, PushTyped
  <2>. HIDE DEF i
  <2>3. WorkOf(micro, <<i>>) = micro[i].work
    BY <2>1, WorksTyped, WorkSingle
  <2>4. /\ Reversed(Singletons(chunk))[w].total = micro[i].work
        /\ Reversed(Singletons(chunk))[w].items = <<i>>
    BY <2>2
  <2>. QED BY <2>3, <2>4, Zenon
<1>4. Weighed(micro, Reversed(Singletons(chunk)))
  BY <1>3, Zenon DEF Weighed
<1>5. stage' = "rank" /\ micro' = micro
  BY DEF Push
<1>6. \A a \in states' : Weighed(micro, a)
  BY <1>1, <1>4, Zenon DEF LoadsSummed
<1>. QED BY <1>5, <1>6 DEF LoadsSummed

\* Merging adds totals and joins lists.
LEMMA MergeSummed ==
    ASSUME Types, LoadsSummed, Merge
    PROVE  LoadsSummed'
<1>1. PICK a \in states, b \in states, p \in Shuffles :
        states' = (states \ {a, b}) \cup {[w \in Worker |-> Merged(a, b)[p[w]]]}
  BY DEF Merge
<1>. DEFINE new == [w \in Worker |-> Merged(a, b)[p[w]]]
<1>2. /\ a \in [Worker -> [total : Int, items : Seq(DOMAIN micro)]]
      /\ b \in [Worker -> [total : Int, items : Seq(DOMAIN micro)]]
      /\ Weighed(micro, a) /\ Weighed(micro, b)
  BY DEF Types, PackTypeOK, LoadsSummed
<1>3. ASSUME NEW w \in Worker
      PROVE  Merged(a, b)[w].total = WorkOf(micro, Merged(a, b)[w].items)
  <2>. DEFINE s == a[w].items
              t == b[Mirror(w)].items
  <2>1. s \in Seq(DOMAIN micro) /\ t \in Seq(DOMAIN micro) /\ Mirror(w) \in Worker
    BY <1>2, MirrorTyped
  <2>2. a[w].total = WorkOf(micro, s) /\ b[Mirror(w)].total = WorkOf(micro, t)
    BY <1>2, <2>1, Zenon DEF Weighed
  <2>3. /\ Merged(a, b)[w].total = a[w].total + b[Mirror(w)].total
        /\ Merged(a, b)[w].items = s \o t
    BY DEF Merged
  <2>. HIDE DEF s, t
  <2>4. WorkOf(micro, s \o t) = WorkOf(micro, s) + WorkOf(micro, t)
    BY <2>1, WorksTyped, WorkConcat
  <2>. QED BY <2>2, <2>3, <2>4, Zenon
<1>4. p \in [Worker -> Worker]
  BY DEF Shuffles
<1>5. Weighed(micro, new)
  <2>. SUFFICES ASSUME NEW w \in Worker PROVE new[w].total = WorkOf(micro, new[w].items)
    BY Zenon DEF Weighed
  <2>1. p[w] \in Worker /\ new[w] = Merged(a, b)[p[w]]
    BY <1>4
  <2>. QED BY <1>3, <2>1, Zenon
<1>6. stage' = "rank" /\ micro' = micro
  BY DEF Merge
<1>. HIDE DEF new
<1>7. \A c \in states' : Weighed(micro, c)
  <2>1. states' = (states \ {a, b}) \cup {new}
    BY <1>1 DEF new
  <2>. QED BY <1>5, <2>1 DEF LoadsSummed
<1>. QED BY <1>6, <1>7 DEF LoadsSummed

\* The last state's totals are the loads.
LEMMA RefineSummed ==
    ASSUME Types, LoadsSummed, StartRefine
    PROVE  LoadsSummed'
<1>1. PICK a \in states :
        /\ parts' = [w \in Worker |-> a[w].items] /\ loads' = [w \in Worker |-> a[w].total]
  BY DEF StartRefine
<1>2. UNCHANGED <<states, micro>> /\ Weighed(micro, a)
  BY DEF StartRefine, LoadsSummed
<1>3. \A w \in Worker : loads'[w] = a[w].total /\ parts'[w] = a[w].items
  BY <1>1
<1>4. \A w \in Worker : loads'[w] = WorkOf(micro, parts'[w])
  BY <1>2, <1>3, Zenon DEF Weighed
<1>. QED BY <1>2, <1>4 DEF LoadsSummed

\* A swap moves as much load as it moves cost.
LEMMA SwapSummed ==
    ASSUME Types, LoadsSummed, NEW s \in Swaps, Swap(s)
    PROVE  LoadsSummed'
<1>. DEFINE l == s.left
            r == s.right
            a == parts[l][s.i]
            b == parts[r][s.j]
            gain == micro[b].work - micro[a].work
            P == [w \in Worker |-> Exchanged(parts, l, s.i, r, s.j, w)]
<1>1. /\ l \in Worker /\ r \in Worker /\ l # r
      /\ s.i \in 1..Len(parts[l]) /\ s.j \in 1..Len(parts[r])
      /\ a \in DOMAIN micro /\ b \in DOMAIN micro
      /\ micro[a].work \in Int /\ micro[b].work \in Int
  BY SwapParts DEF Worker
<1>2. /\ stage = "refine" /\ UNCHANGED <<stage, states, micro>>
      /\ loads' = [loads EXCEPT ![l] = @ + gain, ![r] = @ - gain]
  BY DEF Swap, LoadsAfter
<1>3. /\ parts \in [Worker -> Seq(DOMAIN micro)] /\ loads \in [Worker -> Int]
      /\ \A w \in Worker : loads[w] = WorkOf(micro, parts[w])
  BY <1>2 DEF Types, PackTypeOK, LoadsSummed
<1>4. parts' = P
  BY SwapExchanges
<1>5. ASSUME NEW w \in Worker
      PROVE  /\ P[w] \in Seq(DOMAIN micro) /\ Len(P[w]) = Len(parts[w])
             /\ \A k \in 1..Len(parts[w]) :
                    P[w][k] = IF w = l /\ k = s.i THEN b ELSE IF w = r /\ k = s.j THEN a
                              ELSE parts[w][k]
  <2>1. P[w] = Exchanged(parts, l, s.i, r, s.j, w)
    OBVIOUS
  <2>2. l \in Worker /\ r \in Worker /\ l # r /\ s.i \in 1..Len(parts[l]) /\ s.j \in 1..Len(parts[r])
    BY <1>1
  <2>. DEFINE i == s.i
              j == s.j
              G == DOMAIN micro
              X == Exchanged(parts, l, i, r, j, w)
  <2>3. /\ X \in Seq(G) /\ Len(X) = Len(parts[w])
        /\ \A k \in 1..Len(parts[w]) :
                X[k] = IF w = l /\ k = i THEN parts[r][j]
                       ELSE IF w = r /\ k = j THEN parts[l][i] ELSE parts[w][k]
    <3>1. /\ l \in Worker /\ r \in Worker /\ l # r /\ i \in 1..Len(parts[l]) /\ j \in 1..Len(parts[r])
          /\ parts \in [Worker -> Seq(G)]
      BY <1>3, <2>2
    <3>. HIDE DEF P, l, r, i, j, G
    <3>. QED BY <3>1, Exchange
  <2>4. P[w] = X
    BY <2>1
  <2>. HIDE DEF X
  <2>. QED BY <2>3, <2>4, Zenon
<1>. HIDE DEF P, l, r, a, b
<1>6. /\ loads'[l] = loads[l] + gain /\ loads'[r] = loads[r] - gain
      /\ \A w \in Worker \ {l, r} : loads'[w] = loads[w]
  <2>. HIDE DEF gain
  <2>. QED BY <1>1, <1>2, <1>3
<1>7. WorkOf(micro, P[l]) = loads[l] + gain
  <2>1. P[l][s.i] = b /\ \A k \in 1..Len(parts[l]) : k # s.i => P[l][k] = parts[l][k]
    BY <1>1, <1>5
  <2>2. /\ P[l] \in Seq(DOMAIN micro) /\ parts[l] \in Seq(DOMAIN micro)
        /\ Len(P[l]) = Len(parts[l]) /\ parts[l][s.i] = a
    BY <1>1, <1>3, <1>5 DEF a
  <2>3. WorkOf(micro, P[l])
            = WorkOf(micro, parts[l]) + (micro[P[l][s.i]].work - micro[parts[l][s.i]].work)
    BY <1>1, <2>1, <2>2, WorksTyped, WorkReplaced
  <2>4. WorkOf(micro, parts[l]) = loads[l]
    BY <1>1, <1>3, Zenon
  <2>. QED BY <2>1, <2>2, <2>3, <2>4, Zenon
<1>8. WorkOf(micro, P[r]) = loads[r] - gain
  <2>1. P[r][s.j] = a /\ \A k \in 1..Len(parts[r]) : k # s.j => P[r][k] = parts[r][k]
    BY <1>1, <1>5
  <2>2. /\ P[r] \in Seq(DOMAIN micro) /\ parts[r] \in Seq(DOMAIN micro)
        /\ Len(P[r]) = Len(parts[r]) /\ parts[r][s.j] = b
    BY <1>1, <1>3, <1>5 DEF b
  <2>3. WorkOf(micro, P[r])
            = WorkOf(micro, parts[r]) + (micro[P[r][s.j]].work - micro[parts[r][s.j]].work)
    BY <1>1, <2>1, <2>2, WorksTyped, WorkReplaced
  <2>4. WorkOf(micro, parts[r]) = loads[r] /\ loads[r] \in Int
    BY <1>1, <1>3
  <2>5. WorkOf(micro, P[r]) = loads[r] + (micro[a].work - micro[b].work)
    BY <2>1, <2>2, <2>3, <2>4, Zenon
  <2>6. loads[r] + (micro[a].work - micro[b].work) = loads[r] - gain
    BY <1>1, <2>4
  <2>. QED BY <2>5, <2>6, Zenon
<1>9. ASSUME NEW w \in Worker, w # l, w # r
      PROVE  WorkOf(micro, P[w]) = loads[w]
  <2>1. /\ P[w] \in Seq(DOMAIN micro) /\ parts[w] \in Seq(DOMAIN micro)
        /\ Len(P[w]) = Len(parts[w]) /\ \A k \in 1..Len(parts[w]) : P[w][k] = parts[w][k]
    BY <1>3, <1>5, <1>9
  <2>2. P[w] = parts[w]
    BY <2>1, SeqEqual
  <2>. QED BY <1>3, <2>2, Zenon
<1>10. \A w \in Worker : loads'[w] = WorkOf(micro, P[w])
  <2>. TAKE w \in Worker
  <2>1. CASE w = l
    BY <1>6, <1>7, <2>1, Zenon
  <2>2. CASE w = r
    BY <1>6, <1>8, <2>2, Zenon
  <2>3. CASE w # l /\ w # r
    BY <1>6, <1>9, <2>3, Zenon
  <2>. QED BY <2>1, <2>2, <2>3
<1>. QED BY <1>2, <1>4, <1>10 DEF LoadsSummed

\* Every step keeps the totals.
LEMMA LoadsSummedNext ==
    ASSUME Types, LoadsSummed, [Next]_vars
    PROVE  LoadsSummed'
<1>1. CASE UNCHANGED vars
  BY <1>1 DEF vars, LoadsSummed
<1>2. CASE FormGroups
  <2>1. states' = {} /\ stage' = "next"
    BY <1>2 DEF FormGroups, Types, Phases
  <2>. QED BY <2>1 DEF LoadsSummed
<1>3. CASE StartGroup
  <2>1. states' = {} /\ stage' = "rank"
    BY <1>3 DEF StartGroup
  <2>. QED BY <2>1 DEF LoadsSummed
<1>4. ASSUME EndPack \/ EndSplit \/ SkipGroup \/ Assign \/ Return
             \/ (\E s \in Id : Place(s) \/ Halve(s)) \/ (\E i \in DOMAIN bins : StartSplit(i))
      PROVE  LoadsSummed'
  <2>1. UNCHANGED <<states, micro>> /\ stage' # "refine"
    BY <1>4 DEF EndPack, EndSplit, SkipGroup, Assign, Return, Place, Halve, StartSplit
  <2>. QED BY <2>1 DEF LoadsSummed
<1>. QED BY <1>1, <1>2, <1>3, <1>4, PushSummed, MergeSummed, RefineSummed, SwapSummed DEF Next

-----------------------------------------------------------------------------
(* Accounted *)

AccountInv == OnceInv /\ Given /\ BinsFilled /\ AllPadded /\ LoadsSummed

\* Nothing packed yet.
LEMMA AccountInit == Init => AccountInv
<1>. SUFFICES ASSUME Init PROVE AccountInv
  OBVIOUS
<1>1. OnceInv /\ Given
  BY OnceInit DEF Init, Given
<1>2. Types
  BY <1>1 DEF OnceInv
<1>3. BinsFilled
  <2>1. bins = <<>> /\ halving.left = EmptyBin /\ halving.right = EmptyBin
    BY DEF Init
  <2>2. Filled(sample, halving.left) /\ Filled(sample, halving.right)
    BY <1>1, <1>2, <2>1, FilledEmpty, Zenon
  <2>. QED BY <2>1, <2>2 DEF BinsFilled
<1>4. AllPadded /\ LoadsSummed
  BY DEF Init, AllPadded, LoadsSummed
<1>. QED BY <1>1, <1>3, <1>4 DEF AccountInv

\* Every step keeps the accounts.
LEMMA AccountNext ==
    ASSUME AccountInv, [Next]_vars
    PROVE  AccountInv'
<1>1. OnceInv'
  BY TypesNext, OfTheGroupNext, ItemsOnceNext, SamplesOnceNext DEF OnceInv, AccountInv
<1>2. Given'
  <2>1. UNCHANGED <<raw, sample>>
    BY DEF vars, Next, Place, EndPack, StartSplit, Halve, EndSplit, FormGroups, StartGroup, SkipGroup, Push,
           Merge, StartRefine, Swap, Assign, Return
  <2>. QED BY <2>1 DEF Given, AccountInv
<1>3. BinsFilled' /\ AllPadded' /\ LoadsSummed'
  BY BinsFilledNext, AllPaddedNext, LoadsSummedNext DEF OnceInv, AccountInv
<1>. QED BY <1>1, <1>2, <1>3 DEF AccountInv

\* What is kept twice agrees, for any batch and any lengths, workers and costs: the images of a
\* truncated sample with the placeholders left in it, a bin's length with its samples, which fit
\* into seq_len, a micro-batch's with its padding, and the loads the swaps go by with the lists.
THEOREM AccountsAgree == Spec => []Accounted
<1>1. AccountInv => Accounted
  <2>. SUFFICES ASSUME AccountInv PROVE Accounted
    OBVIOUS
  <2>0. Types /\ Given /\ BinsFilled /\ AllPadded /\ LoadsSummed
    BY DEF AccountInv, OnceInv
  <2>1. \A i \in Id : ImagesMatch(i)
    <3>. SUFFICES ASSUME NEW i \in Id, sample[i].sidecar # NoImages
                  PROVE  Placeholders(raw[i], sample[i].len) = SeqSum(sample[i].images)
      BY DEF ImagesMatch
    <3>1. raw \in Inputs /\ i \in DOMAIN raw /\ sample[i] = Prepared(raw[i])
      BY <2>0 DEF Given, Id
    <3>2. Prepared(raw[i]).sidecar # NoImages
      BY <3>1
    <3>3. Placeholders(raw[i], Prepared(raw[i]).len) = SeqSum(Prepared(raw[i]).images)
      BY <3>1, <3>2, PreparedMatches
    <3>. QED BY <3>1, <3>3, Zenon
  <2>2. \A S : TotalLength(S) = LengthOf(sample, S)
    BY Zenon DEF TotalLength, LengthOf, Id
  <2>3. \A i \in DOMAIN bins :
            bins[i].length = TotalLength(bins[i].samples) /\ bins[i].length <= SeqLen
    BY <2>0, <2>2, Zenon DEF BinsFilled, Filled
  <2>4. \A i \in DOMAIN micro :
            /\ micro[i].length % Multiple = 0
            /\ micro[i].length - TotalLength(micro[i].samples) \in 0..(Multiple - 1)
    BY <2>0, <2>2, Zenon DEF AllPadded, Padded
  <2>5. stage = "refine" =>
            \A w \in Worker : loads[w] = SeqSum([k \in DOMAIN parts[w] |-> micro[parts[w][k]].work])
    BY <2>0, Zenon DEF LoadsSummed, WorkOf, Costs
  <2>. QED BY <2>1, <2>3, <2>4, <2>5 DEF Accounted
<1>. QED BY <1>1, AccountInit, AccountNext, PTL DEF Spec
=============================================================================
