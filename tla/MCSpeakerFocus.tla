---------------------------- MODULE MCSpeakerFocus ----------------------------
(* Instances of SpeakerFocus for TLC. *)
EXTENDS SpeakerFocus

CONSTANTS listen, speak, wake, answer, alarm, turn

\* A turn: its wake candidate, its input lease, and the lease and the playback of
\* its answer.
MCOf ==
    [x \in {listen, speak, wake, answer} |->
        [owner |-> turn,
         gen |-> IF x \in {speak, answer} THEN 1 ELSE 2,
         kind |-> IF x \in {speak, answer} THEN "output" ELSE "input"]]
===============================================================================
