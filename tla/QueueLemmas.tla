---------------------------- MODULE QueueLemmas ----------------------------
(***************************************************************************)
(* Facts about sequences used as queues, in the form the proofs of the     *)
(* components cite them.                                                   *)
(***************************************************************************)
EXTENDS Naturals, Sequences, SequenceTheorems, TLAPS

\* The head of a queue leaves, and the others move up.
LEMMA TailOf ==
    ASSUME NEW S, NEW q \in Seq(S), q # <<>>
    PROVE  /\ Tail(q) \in Seq(S) /\ Len(Tail(q)) = Len(q) - 1 /\ Len(q) \in Nat /\ Len(q) > 0
           /\ Head(q) = q[1] /\ q[1] \in S
           /\ \A i \in 1..Len(Tail(q)) : Tail(q)[i] = q[i + 1] /\ i + 1 \in 1..Len(q)
  <1>1. Len(q) \in Nat /\ Len(q) # 0
    BY LenProperties, EmptySeq
  <1>2. Head(q) \in S /\ Tail(q) \in Seq(S) /\ Len(Tail(q)) = Len(q) - 1 /\ Head(q) = q[1]
        /\ \A i \in 1..Len(Tail(q)) : Tail(q)[i] = q[i + 1]
    BY HeadTailProperties
  <1> QED
    BY <1>1, <1>2

\* What is appended is the last.
LEMMA AppendOf ==
    ASSUME NEW S, NEW q \in Seq(S), NEW v \in S
    PROVE  /\ Append(q, v) \in Seq(S) /\ Len(q) \in Nat /\ Len(Append(q, v)) = Len(q) + 1
           /\ Append(q, v) # <<>>
           /\ Append(q, v)[Len(q) + 1] = v
           /\ \A i \in 1..Len(q) : Append(q, v)[i] = q[i]
           /\ \A i \in 1..Len(Append(q, v)) : i \in 1..Len(q) \/ i = Len(q) + 1
  <1>1. Len(q) \in Nat
    BY LenProperties
  <1>2. Append(q, v) \in Seq(S) /\ Append(q, v) # <<>> /\ Len(Append(q, v)) = Len(q) + 1
        /\ \A i \in 1..Len(q) : Append(q, v)[i] = q[i]
        /\ Append(q, v)[Len(q) + 1] = v
    BY AppendProperties
  <1> QED
    BY <1>1, <1>2

\* A queue behind another: the entries of the first, and then of the second.
LEMMA ConcatOf ==
    ASSUME NEW S, NEW q \in Seq(S), NEW r \in Seq(S)
    PROVE  /\ q \o r \in Seq(S) /\ Len(q) \in Nat /\ Len(r) \in Nat
           /\ Len(q \o r) = Len(q) + Len(r)
           /\ \A i \in 1..Len(q) : (q \o r)[i] = q[i]
           /\ \A i \in 1..Len(r) : (q \o r)[Len(q) + i] = r[i] /\ Len(q) + i \in 1..Len(q \o r)
           /\ \A i \in 1..Len(q \o r) : i \in 1..Len(q) \/ \E k \in 1..Len(r) : i = Len(q) + k
  <1>1. Len(q) \in Nat /\ Len(r) \in Nat
    BY LenProperties
  <1>2. /\ q \o r \in Seq(S) /\ Len(q \o r) = Len(q) + Len(r)
        /\ \A i \in 1..Len(q) + Len(r) : (q \o r)[i] = IF i <= Len(q) THEN q[i] ELSE r[i - Len(q)]
    BY ConcatProperties
  <1>3. ASSUME NEW i \in 1..Len(q) + Len(r), i \notin 1..Len(q)
        PROVE  \E k \in 1..Len(r) : i = Len(q) + k
    <2>1. i - Len(q) \in 1..Len(r) /\ i = Len(q) + (i - Len(q))
      BY <1>1, <1>3
    <2> QED
      BY <2>1
  <1>4. \A i \in 1..Len(r) : /\ Len(q) + i \in 1..Len(q) + Len(r)
                             /\ ~(Len(q) + i <= Len(q)) /\ (Len(q) + i) - Len(q) = i
    BY <1>1
  <1>5. \A i \in 1..Len(q) : i \in 1..Len(q) + Len(r) /\ i <= Len(q)
    BY <1>1
  <1> QED
    BY <1>1, <1>2, <1>3, <1>4, <1>5
=============================================================================
