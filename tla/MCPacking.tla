------------------------------ MODULE MCPacking ------------------------------
(* Small instances of Packing for TLC. *)
EXTENDS Packing

CONSTANT MaxSamples

Text(n, routed) == [mask |-> [i \in 1..n |-> FALSE], images |-> <<>>, sidecar |-> NoImages,
                    routed |-> routed]

\* One image, of n placeholders.
Image(n, kind) == [mask |-> [i \in 1..n |-> TRUE], images |-> <<n>>, sidecar |-> kind,
                   routed |-> FALSE]

\* Text of several lengths, one longer than seq_len, one with routed experts; an image that
\* fits, and two of another kind, the second of which is cut in the middle.
MCSample ==
    { Text(1, FALSE), Text(2, FALSE), Text(3, FALSE), Text(6, FALSE), Text(1, TRUE),
      [mask |-> <<FALSE, TRUE>>, images |-> <<1>>, sidecar |-> "a", routed |-> FALSE],
      [mask |-> <<FALSE, TRUE, TRUE, FALSE, TRUE, TRUE>>, images |-> <<2, 2>>, sidecar |-> "b",
       routed |-> FALSE] }

\* Six images of different kinds, so that each is a micro-batch of its own: enough of them for
\* Karmarkar-Karp to miss the best partition and for a swap to improve it.
Kind == <<"a", "b", "c", "d", "e", "f">>
Apart ==
    {[i \in DOMAIN Kind |-> Image(n[i], Kind[i])] :
        n \in {f \in [DOMAIN Kind -> {1, 3, 5}] : \A i \in 2..Len(Kind) : f[i - 1] <= f[i]}}

MCInputs == Apart \cup UNION {[1..n -> MCSample] : n \in 1..MaxSamples}
=============================================================================
