---------------------------- MODULE EpisodeLedger ----------------------------
(***************************************************************************)
(* What the dispatcher promises the sinks ("Emit-everything invariant",    *)
(* docstring of src/prime_rl/orchestrator/dispatcher.py): a group of       *)
(* rollouts, once opened, delivers group_size episodes, each exactly once. *)
(* It may be given up, and then delivers no more than that.                *)
(***************************************************************************)
EXTENDS Naturals

CONSTANTS Gid, Env, None, GroupSize

VARIABLES
    env,        \* environment of a group, None until it is opened
    delivered,  \* episodes delivered
    abandoned   \* groups given up

vars == <<env, delivered, abandoned>>

Init ==
    /\ env = [g \in Gid |-> None]
    /\ delivered = [g \in Gid |-> 0]
    /\ abandoned = {}

Open(g) ==
    /\ env[g] = None
    /\ \E e \in Env : env' = [env EXCEPT ![g] = e]
    /\ UNCHANGED <<delivered, abandoned>>

Deliver(g) ==
    /\ env[g] # None /\ delivered[g] < GroupSize[env[g]]
    /\ delivered' = [delivered EXCEPT ![g] = @ + 1]
    /\ UNCHANGED <<env, abandoned>>

GiveUp ==
    /\ abandoned' \in SUBSET Gid /\ abandoned \subseteq abandoned'
    /\ UNCHANGED <<env, delivered>>

Next == GiveUp \/ \E g \in Gid : Open(g) \/ Deliver(g)

Spec == Init /\ [][Next]_vars

\* No group delivers more episodes than the sink counts to.
NeverTooMany == \A g \in Gid : env[g] # None => delivered[g] <= GroupSize[env[g]]

Complete(g) == env[g] # None /\ delivered[g] = GroupSize[env[g]]

\* A group, once opened, is served in full unless it is given up.
Served ==
    \A g \in Gid :
        env[g] # None ~> (g \in abandoned \/ Complete(g))
=============================================================================
