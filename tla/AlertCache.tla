----------------------------- MODULE AlertCache -----------------------------
(***************************************************************************)
(* What delivery promises of a speaker's alert cache, whatever sessions,   *)
(* messages and processes are lost on the way: the controller publishes    *)
(* versions of the live set under an epoch and a sequence, each number     *)
(* once, and the speaker's cache moves from one published version to a     *)
(* later one, whole.  Only damage to the store breaks that, and the cache  *)
(* is then marked until a published version replaces it.                   *)
(***************************************************************************)
EXTENDS Integers

CONSTANT None   \* the cache before any version

VARIABLES
    published,  \* set of <<epoch, sequence, version>>
    cache       \* [epoch, acked, occ, corrupt]; epoch 0 before any version

\* One version per epoch and sequence.
Functional(versions) ==
    \A g, h \in versions : g[1] = h[1] /\ g[2] = h[2] => g[3] = h[3]

Init ==
    /\ published = {}
    /\ cache = [epoch |-> 0, acked |-> 0, occ |-> None, corrupt |-> FALSE]

\* The controller publishes versions under numbers not used before.
Publish ==
    /\ published \subseteq published'
    /\ Functional(published')
    /\ UNCHANGED cache

\* The speaker takes a published version: a later one of the same epoch, one
\* of another epoch, or any when its store was damaged.
Take ==
    /\ \E v \in published :
          /\ cache' = [epoch |-> v[1], acked |-> v[2], occ |-> v[3],
                       corrupt |-> FALSE]
          /\ \/ cache.corrupt
             \/ cache.epoch # v[1]
             \/ cache.acked < v[2]
    /\ UNCHANGED published

\* The speaker finds its store damaged.
Damage ==
    /\ cache'.corrupt
    /\ UNCHANGED published

Next == Publish \/ Take \/ Damage

Spec == Init /\ [][Next]_<<published, cache>>
=============================================================================
