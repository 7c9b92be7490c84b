----------------------- MODULE TTPTransferWindowProofs -----------------------
(***************************************************************************)
(* Proofs about the send window and its timer in TTPTransfer: how much the *)
(* two unsynchronised flushes can have in flight, what wait_for_acks()     *)
(* leaves unacknowledged, and what the timer guards before the first ACK.  *)
(***************************************************************************)
EXTENDS TTPTransferProofs, WellFoundedInduction

-----------------------------------------------------------------------------
(* Sums over finite sets: BytesInFlight is a recursive function, and what it *)
(* computes is proved from a least counterexample                            *)

\* A non-empty set of naturals has a least element.
LEMMA LeastNatural ==
    ASSUME NEW T \in SUBSET Nat, T # {}
    PROVE  \E n \in T : \A m \in T : n <= m
<1>1. PICK n \in T : \A y \in T : ~(<<y, n>> \in OpToRel(<, Nat))
  BY NatLessThanWellFounded, WFMin, Zenon
<1>2. \A y \in T : y < n => <<y, n>> \in OpToRel(<, Nat)
  BY Zenon DEF OpToRel
<1>3. \A m \in T : ~(m < n)
  BY <1>1, <1>2
<1>4. \A m \in T : m \in Nat /\ n \in Nat
  OBVIOUS
<1>5. \A m \in T : n <= m
  BY <1>3, <1>4
<1> QED BY <1>5

\* The element MapThenSumSet takes out of a set first, and what it leaves.
Picked(s) == CHOOSE x \in s : TRUE

Rest(s) == s \ {Picked(s)}

\* f is the recursive function by which BytesInFlight sums the subsets of S.
IsSum(f, S) ==
    f = [s \in SUBSET S |->
           IF s = {} THEN 0 ELSE SequenceSpace(Picked(s).packet) + f[Rest(s)]]

\* Picking takes an element, and leaves a smaller set.
LEMMA RestIsSmaller ==
    ASSUME NEW s, IsFiniteSet(s), s # {}
    PROVE  /\ Picked(s) \in s
           /\ Rest(s) \subseteq s
           /\ IsFiniteSet(Rest(s))
           /\ Cardinality(s) \in Nat /\ Cardinality(Rest(s)) \in Nat
           /\ Cardinality(Rest(s)) < Cardinality(s)
<1>1. Picked(s) \in s
  BY DEF Picked
<1>2. /\ IsFiniteSet(Rest(s))
      /\ Cardinality(Rest(s)) = Cardinality(s) - 1
  BY <1>1, FS_RemoveElement DEF Rest
<1>3. Cardinality(s) \in Nat /\ Cardinality(Rest(s)) \in Nat
  BY <1>2, FS_CardinalityType
<1> QED BY <1>1, <1>2, <1>3 DEF Rest

\* Two such functions agree where both are defined.
LEMMA SumsAgree ==
    ASSUME NEW S, NEW U, NEW f, NEW g, IsSum(f, S), IsSum(g, U),
           NEW v, v \subseteq S, v \subseteq U, IsFiniteSet(v)
    PROVE  f[v] = g[v]
<1> DEFINE Bad == {n \in Nat : \E s : /\ s \subseteq S /\ s \subseteq U /\ IsFiniteSet(s)
                                      /\ Cardinality(s) = n /\ f[s] # g[s]}
<1>1. SUFFICES ASSUME f[v] # g[v] PROVE FALSE
  OBVIOUS
<1>2. Cardinality(v) \in Bad
  BY <1>1, FS_CardinalityType
<1>3. PICK n \in Bad : \A m \in Bad : n <= m
  <2>1. Bad \in SUBSET Nat /\ Bad # {}
    BY <1>2
  <2> HIDE DEF Bad
  <2> QED BY <2>1, LeastNatural
<1>4. PICK s : /\ s \subseteq S /\ s \subseteq U /\ IsFiniteSet(s)
               /\ Cardinality(s) = n /\ f[s] # g[s]
  BY <1>3
<1>5. /\ f[s] = IF s = {} THEN 0 ELSE SequenceSpace(Picked(s).packet) + f[Rest(s)]
      /\ g[s] = IF s = {} THEN 0 ELSE SequenceSpace(Picked(s).packet) + g[Rest(s)]
  BY <1>4 DEF IsSum
<1>6. s # {} /\ f[Rest(s)] # g[Rest(s)]
  BY <1>4, <1>5
<1>7. /\ Rest(s) \subseteq s /\ IsFiniteSet(Rest(s)) /\ Cardinality(s) \in Nat
      /\ Cardinality(Rest(s)) \in Nat /\ Cardinality(Rest(s)) < Cardinality(s)
  BY <1>4, <1>6, RestIsSmaller
<1>8. Rest(s) \subseteq S /\ Rest(s) \subseteq U
  BY <1>4, <1>7
<1>9. Cardinality(Rest(s)) \in Bad
  BY <1>6, <1>7, <1>8
<1> QED
  <2>1. n <= Cardinality(Rest(s))
    BY <1>3, <1>9
  <2> HIDE DEF Bad
  <2> QED BY <1>4, <1>7, <2>1

\* Such a function exists on the subsets of every finite set.
LEMMA SumExists ==
    ASSUME NEW S, IsFiniteSet(S)
    PROVE  \E f : IsSum(f, S)
<1> DEFINE Bad == {n \in Nat : \E s : IsFiniteSet(s) /\ Cardinality(s) = n /\ ~\E f : IsSum(f, s)}
<1>1. SUFFICES ASSUME ~\E f : IsSum(f, S) PROVE FALSE
  OBVIOUS
<1>2. Cardinality(S) \in Bad
  BY <1>1, FS_CardinalityType
<1>3. PICK n \in Bad : \A m \in Bad : n <= m
  <2>1. Bad \in SUBSET Nat /\ Bad # {}
    BY <1>2
  <2> HIDE DEF Bad
  <2> QED BY <2>1, LeastNatural
<1>4. PICK s : IsFiniteSet(s) /\ Cardinality(s) = n /\ ~\E f : IsSum(f, s)
  BY <1>3
<1> DEFINE sumOf(u) == CHOOSE g : IsSum(g, u)
           f == [u \in SUBSET s |->
                   IF u = {} THEN 0
                   ELSE SequenceSpace(Picked(u).packet) + sumOf(Rest(u))[Rest(u)]]
<1>5. ASSUME NEW u \in SUBSET s, u # {}
      PROVE  /\ IsFiniteSet(Rest(u)) /\ Rest(u) \subseteq s /\ Rest(u) # s
             /\ IsSum(sumOf(Rest(u)), Rest(u))
  <2>1. IsFiniteSet(u) /\ Cardinality(u) <= Cardinality(s)
    BY <1>4, FS_Subset
  <2>2. /\ Rest(u) \subseteq u /\ IsFiniteSet(Rest(u)) /\ Cardinality(u) \in Nat
        /\ Cardinality(Rest(u)) \in Nat /\ Cardinality(Rest(u)) < Cardinality(u)
    BY <1>5, <2>1, RestIsSmaller
  <2>3. Cardinality(s) \in Nat
    BY <1>4, FS_CardinalityType
  <2>4. Cardinality(Rest(u)) < n
    BY <1>4, <2>1, <2>2, <2>3
  <2>5. \E g : IsSum(g, Rest(u))
    <3>1. SUFFICES ASSUME ~\E g : IsSum(g, Rest(u)) PROVE FALSE
      OBVIOUS
    <3>2. Cardinality(Rest(u)) \in Bad
      BY <2>2, <3>1
    <3>3. n <= Cardinality(Rest(u))
      BY <1>3, <3>2
    <3>4. n \in Nat
      BY <1>4, <2>3
    <3> HIDE DEF Bad
    <3> QED BY <2>2, <2>4, <3>3, <3>4
  <2>6. IsSum(sumOf(Rest(u)), Rest(u))
    BY <2>5
  <2>7. Rest(u) \subseteq s /\ Rest(u) # s
    BY <1>4, <2>2, <2>4
  <2> QED BY <2>2, <2>6, <2>7
<1>6. ASSUME NEW u \in SUBSET s, u # {}
      PROVE  sumOf(Rest(u))[Rest(u)] = f[Rest(u)]
  <2> DEFINE v == Rest(u)
  <2>1. IsFiniteSet(v) /\ v \in SUBSET s /\ IsSum(sumOf(v), v)
    BY <1>5, <1>6
  <2>2. sumOf(v)[v] = IF v = {} THEN 0 ELSE SequenceSpace(Picked(v).packet) + sumOf(v)[Rest(v)]
    <3> HIDE DEF v
    <3>1. v \in SUBSET v
      OBVIOUS
    <3> DEFINE g == sumOf(v)
    <3>2. IsSum(g, v)
      BY <2>1
    <3> HIDE DEF g
    <3>3. g[v] = IF v = {} THEN 0 ELSE SequenceSpace(Picked(v).packet) + g[Rest(v)]
      BY <3>1, <3>2 DEF IsSum
    <3> QED BY <3>3 DEF g
  <2>3. f[v] = IF v = {} THEN 0
               ELSE SequenceSpace(Picked(v).packet) + sumOf(Rest(v))[Rest(v)]
    BY <2>1
  <2>4. ASSUME v # {}
        PROVE  sumOf(v)[Rest(v)] = sumOf(Rest(v))[Rest(v)]
    <3>1. IsFiniteSet(Rest(v)) /\ IsSum(sumOf(Rest(v)), Rest(v))
      BY <1>5, <2>1, <2>4
    <3>2. Rest(v) \subseteq v
      BY DEF Rest
    <3> HIDE DEF v, sumOf
    <3> QED BY <2>1, <3>1, <3>2, SumsAgree
  <2> HIDE DEF f, v, sumOf
  <2>5. sumOf(v)[v] = f[v]
    BY <2>2, <2>3, <2>4
  <2> QED BY <2>5 DEF v
<1>7. IsSum(f, s)
  <2>1. f = [u \in SUBSET s |->
               IF u = {} THEN 0 ELSE SequenceSpace(Picked(u).packet) + f[Rest(u)]]
    <3>1. \A u \in SUBSET s : (IF u = {} THEN 0
                   ELSE SequenceSpace(Picked(u).packet) + sumOf(Rest(u))[Rest(u)]) =
             IF u = {} THEN 0 ELSE SequenceSpace(Picked(u).packet) + f[Rest(u)]
      <4> HIDE DEF f, sumOf
      <4> QED BY <1>6
    <3> DEFINE a(u) == IF u = {} THEN 0
                   ELSE SequenceSpace(Picked(u).packet) + sumOf(Rest(u))[Rest(u)]
               b(u) == IF u = {} THEN 0 ELSE SequenceSpace(Picked(u).packet) + f[Rest(u)]
    <3>2. f = [u \in SUBSET s |-> a(u)]
      OBVIOUS
    <3>3. \A u \in SUBSET s : a(u) = b(u)
      BY <3>1
    <3>4. f = [u \in SUBSET s |-> b(u)]
      <4> HIDE DEF a, b, f
      <4> QED BY <3>2, <3>3
    <3> QED BY <3>4
  <2> HIDE DEF f
  <2> QED BY <2>1 DEF IsSum
<1> QED BY <1>4, <1>7

\* The sum by the element MapThenSumSet takes first.
LEMMA BytesByPicked ==
    ASSUME NEW s, IsFiniteSet(s)
    PROVE  BytesInFlight(s) =
             IF s = {} THEN 0
             ELSE SequenceSpace(Picked(s).packet) + BytesInFlight(Rest(s))
<1> DEFINE sumOf(u) == CHOOSE g : IsSum(g, u)
<1>1. \A u : BytesInFlight(u) = sumOf(u)[u]
  BY DEF BytesInFlight, MapThenSumSet, MapThenFoldSet, IsSum, Rest, Picked
<1>2. IsSum(sumOf(s), s)
  BY SumExists
<1>3. sumOf(s)[s] = IF s = {} THEN 0 ELSE SequenceSpace(Picked(s).packet) + sumOf(s)[Rest(s)]
  <2> DEFINE g == sumOf(s)
  <2>1. IsSum(g, s)
    BY <1>2
  <2>2. s \in SUBSET s
    OBVIOUS
  <2> HIDE DEF g
  <2>3. g[s] = IF s = {} THEN 0 ELSE SequenceSpace(Picked(s).packet) + g[Rest(s)]
    BY <2>1, <2>2 DEF IsSum
  <2> QED BY <2>3 DEF g
<1>4. ASSUME s # {}
      PROVE  sumOf(s)[Rest(s)] = sumOf(Rest(s))[Rest(s)]
  <2>1. IsFiniteSet(Rest(s)) /\ Rest(s) \subseteq s
    BY <1>4, RestIsSmaller
  <2>2. IsSum(sumOf(Rest(s)), Rest(s))
    BY <2>1, SumExists
  <2> HIDE DEF sumOf
  <2> QED BY <1>2, <2>1, <2>2, SumsAgree
<1> HIDE DEF sumOf
<1> QED BY <1>1, <1>3, <1>4


\* The sequence space of a pending segment.
LEMMA EntrySize ==
    ASSUME NEW e \in PendingEntry
    PROVE  SequenceSpace(e.packet) \in Nat
<1>1. e.packet \in TTPPacket
  BY DEF PendingEntry
<1> QED BY <1>1, SequenceSpaceType

\* The bytes in flight are a number.
LEMMA BytesType ==
    ASSUME NEW P \in SUBSET PendingEntry, IsFiniteSet(P)
    PROVE  BytesInFlight(P) \in Nat
<1> DEFINE Bad == {n \in Nat : \E s \in SUBSET PendingEntry :
                      IsFiniteSet(s) /\ Cardinality(s) = n /\ BytesInFlight(s) \notin Nat}
<1>1. SUFFICES ASSUME BytesInFlight(P) \notin Nat PROVE FALSE
  OBVIOUS
<1>2. Cardinality(P) \in Bad
  BY <1>1, FS_CardinalityType
<1>3. PICK n \in Bad : \A m \in Bad : n <= m
  <2>1. Bad \in SUBSET Nat /\ Bad # {}
    BY <1>2
  <2> HIDE DEF Bad
  <2> QED BY <2>1, LeastNatural
<1>4. PICK s \in SUBSET PendingEntry :
        IsFiniteSet(s) /\ Cardinality(s) = n /\ BytesInFlight(s) \notin Nat
  BY <1>3
<1>5. s # {}
  BY <1>4, BytesByPicked
<1>6. /\ Picked(s) \in s /\ Rest(s) \subseteq s /\ IsFiniteSet(Rest(s))
      /\ Cardinality(s) \in Nat /\ Cardinality(Rest(s)) \in Nat
      /\ Cardinality(Rest(s)) < Cardinality(s)
  BY <1>4, <1>5, RestIsSmaller
<1>7. SequenceSpace(Picked(s).packet) \in Nat
  BY <1>4, <1>6, EntrySize
<1>8. Rest(s) \in SUBSET PendingEntry
  BY <1>4, <1>6
<1>9. BytesInFlight(Rest(s)) \notin Nat
  <2>1. BytesInFlight(s) = SequenceSpace(Picked(s).packet) + BytesInFlight(Rest(s))
    BY <1>4, <1>5, BytesByPicked
  <2> QED BY <1>4, <1>7, <2>1
<1>10. Cardinality(Rest(s)) \in Bad
  BY <1>6, <1>8, <1>9
<1> QED
  <2>1. n <= Cardinality(Rest(s))
    BY <1>3, <1>10
  <2> HIDE DEF Bad
  <2> QED BY <1>4, <1>6, <2>1

\* Every element can be counted first.
LEMMA BytesRemove ==
    ASSUME NEW P \in SUBSET PendingEntry, IsFiniteSet(P), NEW e \in P
    PROVE  BytesInFlight(P) = SequenceSpace(e.packet) + BytesInFlight(P \ {e})
<1> DEFINE Counts(s, x) == BytesInFlight(s) = SequenceSpace(x.packet) + BytesInFlight(s \ {x})
           Bad == {n \in Nat : \E s \in SUBSET PendingEntry :
                      IsFiniteSet(s) /\ Cardinality(s) = n /\ \E x \in s : ~Counts(s, x)}
<1>1. SUFFICES ASSUME ~Counts(P, e) PROVE FALSE
  OBVIOUS
<1>2. Cardinality(P) \in Bad
  <2> HIDE DEF Counts
  <2> QED BY <1>1, FS_CardinalityType
<1>3. PICK n \in Bad : \A m \in Bad : n <= m
  <2>1. Bad \in SUBSET Nat /\ Bad # {}
    BY <1>2
  <2> HIDE DEF Bad
  <2> QED BY <2>1, LeastNatural
<1>4. PICK s \in SUBSET PendingEntry :
        IsFiniteSet(s) /\ Cardinality(s) = n /\ \E x \in s : ~Counts(s, x)
  BY <1>3
<1>5. PICK x \in s : ~Counts(s, x)
  BY <1>4
<1> DEFINE y == Picked(s)
<1>6. y \in s /\ BytesInFlight(s) = SequenceSpace(y.packet) + BytesInFlight(s \ {y})
  BY <1>4, RestIsSmaller, BytesByPicked DEF Rest
<1>7. x # y
  BY <1>5, <1>6
<1> HIDE DEF y
<1>8. ASSUME NEW u \in s, NEW v \in s, u # v
      PROVE  BytesInFlight(s \ {u}) = SequenceSpace(v.packet) + BytesInFlight((s \ {u}) \ {v})
  <2>1. IsFiniteSet(s \ {u}) /\ Cardinality(s \ {u}) = Cardinality(s) - 1
    BY <1>4, FS_RemoveElement
  <2>2. Cardinality(s \ {u}) \in Nat /\ Cardinality(s) \in Nat
    BY <1>4, <2>1, FS_CardinalityType
  <2>3. s \ {u} \in SUBSET PendingEntry /\ v \in s \ {u}
    BY <1>4, <1>8
  <2>4. SUFFICES ASSUME ~Counts(s \ {u}, v) PROVE FALSE
    OBVIOUS
  <2>5. Cardinality(s \ {u}) \in Bad
    <3> HIDE DEF Counts
    <3> QED BY <2>1, <2>2, <2>3, <2>4
  <2>6. n <= Cardinality(s \ {u})
    BY <1>3, <2>5
  <2> HIDE DEF Bad
  <2> QED BY <1>4, <2>1, <2>2, <2>6
<1>9. (s \ {x}) \ {y} = (s \ {y}) \ {x}
  OBVIOUS
<1>10. /\ SequenceSpace(x.packet) \in Nat /\ SequenceSpace(y.packet) \in Nat
       /\ BytesInFlight((s \ {x}) \ {y}) \in Nat
  <2>1. x \in PendingEntry /\ y \in PendingEntry
    BY <1>4, <1>5, <1>6
  <2>2. IsFiniteSet((s \ {x}) \ {y})
    BY <1>4, FS_RemoveElement
  <2>3. (s \ {x}) \ {y} \in SUBSET PendingEntry
    BY <1>4
  <2> QED BY <2>1, <2>2, <2>3, EntrySize, BytesType
<1>11. /\ BytesInFlight(s \ {x}) = SequenceSpace(y.packet) + BytesInFlight((s \ {x}) \ {y})
       /\ BytesInFlight(s \ {y}) = SequenceSpace(x.packet) + BytesInFlight((s \ {x}) \ {y})
  BY <1>5, <1>6, <1>7, <1>8, <1>9
<1>12. BytesInFlight(s) = SequenceSpace(x.packet) + BytesInFlight(s \ {x})
  BY <1>6, <1>10, <1>11
<1> QED BY <1>5, <1>12

\* Adding an entry adds at most its size.
LEMMA BytesAdd ==
    ASSUME NEW P \in SUBSET PendingEntry, IsFiniteSet(P), NEW e \in PendingEntry
    PROVE  BytesInFlight(P \cup {e}) <= BytesInFlight(P) + SequenceSpace(e.packet)
<1>1. SequenceSpace(e.packet) \in Nat /\ BytesInFlight(P) \in Nat
  BY EntrySize, BytesType
<1>2. CASE e \in P
  <2>1. P \cup {e} = P
    BY <1>2
  <2>2. BytesInFlight(P \cup {e}) = BytesInFlight(P)
    BY <2>1, Zenon
  <2> QED BY <1>1, <2>2
<1>3. CASE e \notin P
  <2>1. (P \cup {e}) \ {e} = P
    BY <1>3
  <2>2. P \cup {e} \in SUBSET PendingEntry /\ e \in P \cup {e} /\ IsFiniteSet(P \cup {e})
    BY FS_AddElement
  <2>3. BytesInFlight(P \cup {e}) = SequenceSpace(e.packet) + BytesInFlight(P)
    BY <2>1, <2>2, BytesRemove
  <2> QED BY <1>1, <2>3
<1> QED BY <1>2, <1>3

\* Removing entries adds nothing.
LEMMA BytesSubset ==
    ASSUME NEW P \in SUBSET PendingEntry, IsFiniteSet(P), NEW Q \in SUBSET P
    PROVE  BytesInFlight(Q) <= BytesInFlight(P)
<1> DEFINE Exceeds(s) == Q \subseteq s /\ ~(BytesInFlight(Q) <= BytesInFlight(s))
           Bad == {n \in Nat : \E s \in SUBSET PendingEntry :
                      IsFiniteSet(s) /\ Cardinality(s) = n /\ Exceeds(s)}
<1>1. SUFFICES ASSUME Exceeds(P) PROVE FALSE
  OBVIOUS
<1>2. Cardinality(P) \in Bad
  <2> HIDE DEF Exceeds
  <2> QED BY <1>1, FS_CardinalityType
<1>3. PICK n \in Bad : \A m \in Bad : n <= m
  <2>1. Bad \in SUBSET Nat /\ Bad # {}
    BY <1>2
  <2> HIDE DEF Bad
  <2> QED BY <2>1, LeastNatural
<1>4. PICK s \in SUBSET PendingEntry : IsFiniteSet(s) /\ Cardinality(s) = n /\ Exceeds(s)
  BY <1>3
<1>5. /\ IsFiniteSet(Q) /\ Q \in SUBSET PendingEntry
      /\ BytesInFlight(Q) \in Nat /\ BytesInFlight(s) \in Nat
  <2>1. IsFiniteSet(Q)
    BY FS_Subset
  <2>2. Q \in SUBSET PendingEntry
    OBVIOUS
  <2> QED BY <1>4, <2>1, <2>2, BytesType
<1>6. s # Q
  BY <1>4, <1>5
<1>7. PICK x \in s : x \notin Q
  BY <1>4, <1>6
<1>8. /\ s \ {x} \in SUBSET PendingEntry /\ IsFiniteSet(s \ {x})
      /\ Cardinality(s \ {x}) = Cardinality(s) - 1
  BY <1>4, <1>7, FS_RemoveElement
<1>9. Cardinality(s) \in Nat /\ Cardinality(s \ {x}) \in Nat
  BY <1>4, <1>8, FS_CardinalityType
<1>10. BytesInFlight(s \ {x}) <= BytesInFlight(s) /\ BytesInFlight(s \ {x}) \in Nat
  <2>1. BytesInFlight(s) = SequenceSpace(x.packet) + BytesInFlight(s \ {x})
    BY <1>4, <1>7, BytesRemove
  <2>2. SequenceSpace(x.packet) \in Nat /\ BytesInFlight(s \ {x}) \in Nat
    BY <1>4, <1>7, <1>8, EntrySize, BytesType
  <2> QED BY <2>1, <2>2
<1>11. Exceeds(s \ {x})
  <2>1. Q \subseteq s \ {x}
    BY <1>4, <1>7
  <2>2. ~(BytesInFlight(Q) <= BytesInFlight(s))
    BY <1>4
  <2>3. ~(BytesInFlight(Q) <= BytesInFlight(s \ {x}))
    BY <1>5, <1>10, <2>2
  <2> QED BY <2>1, <2>3
<1>12. Cardinality(s \ {x}) \in Bad
  <2> HIDE DEF Exceeds
  <2> QED BY <1>8, <1>9, <1>11
<1> QED
  <2>1. n <= Cardinality(s \ {x})
    BY <1>3, <1>12
  <2> HIDE DEF Bad
  <2> QED BY <1>4, <1>8, <1>9, <2>1

-----------------------------------------------------------------------------
(* What a step does to the threads and the window of a peer *)

\* SND.UNA moves in ProcessAck alone, and forward.
LEMMA UnackedFrame ==
    ASSUME TypeOK, Next, NEW p \in Peer
    PROVE  /\ \/ send_unacked'[p] = send_unacked[p]
              \/ /\ ProcessAck(p)
                 /\ send_unacked'[p] = Acknowledged(send_unacked[p], current[p].ack)
           /\ send_unacked[p] <= send_unacked'[p]
<1>1. send_unacked[p] \in Nat /\ current[p].ack \in Nat
  BY DEF TypeOK, TTPPacket
<1>2. ASSUME NEW b \in Peer, ProcessAck(b)
      PROVE  send_unacked' = [send_unacked EXCEPT ![b] = Acknowledged(@, current[b].ack)]
  BY <1>2 DEF ProcessAck
<1>3. (\E b \in Peer : ProcessAck(b)) \/ UNCHANGED send_unacked
  BY DEF Next, App, ReceiveLoop, FlushWindow, BuildChunk, Recv, WaitForAcks, StartFlush,
         WaitForAcksReturns, Peek, Admit, PopHead, InsertPending, TransmitHead,
         CheckFirstPending, StartTimer, WaitForPacket, CheckRetransmission, StopTimer,
         LogWindow, ProcessData, FlushOutOfOrder, Reply, TimerExpires, Lose, sequenceVars
<1>4. \/ send_unacked'[p] = send_unacked[p]
      \/ /\ ProcessAck(p)
         /\ send_unacked'[p] = Acknowledged(send_unacked[p], current[p].ack)
  BY <1>2, <1>3 DEF TypeOK
<1>5. send_unacked[p] <= send_unacked'[p]
  BY <1>1, <1>4 DEF Acknowledged
<1> QED BY <1>4, <1>5

\* The statements of _flush_window that use what it has looked at, and where an
\* exception out of it leaves send().
InFlush == (FlushLabel \ {"peek"}) \cup {"raised"}

\* A step that leaves the window of p alone, and no thread of p in the middle of
\* a flush that was not there before.
Quiet(p) ==
    /\ queue'[p] = queue[p] /\ pending'[p] = pending[p] /\ packet'[p] = packet[p]
    /\ \A t \in Thread :
         \/ pc'[p][t] = pc[p][t]
         \/ pc[p][t] \notin InFlush /\ pc'[p][t] \notin InFlush

\* What a step can do to the threads and the window of p.
LEMMA ThreadFrame ==
    ASSUME TypeOK, Next, NEW p \in Peer
    PROVE  \/ \E t \in Thread : FlushWindow(p, t)
           \/ BuildChunk(p) \/ ProcessAck(p)
           \/ Quiet(p)
<1>1. "app" \in Thread /\ "receiver" \in Thread /\ \A u \in Thread : u = "app" \/ u = "receiver"
  BY DEF Thread
<1>2. ASSUME NEW b \in Peer, NEW u \in Thread, NEW label, GoTo(b, u, label),
             b # p \/ (pc[b][u] \notin InFlush /\ label \notin InFlush)
      PROVE  \A t \in Thread :
                \/ pc'[p][t] = pc[p][t]
                \/ pc[p][t] \notin InFlush /\ pc'[p][t] \notin InFlush
  <2>1. /\ pc'[b][u] = label
        /\ \A q \in Peer, v \in Thread : q # b \/ v # u => pc'[q][v] = pc[q][v]
    BY <1>2, GoToEffect
  <2> QED BY <1>2, <2>1
<1>3. ASSUME NEW b \in Peer, b # p, NEW u \in Thread, FlushWindow(b, u)
      PROVE  Quiet(p)
  <2>1. \E label : GoTo(b, u, label)
    BY <1>3 DEF FlushWindow, Peek, Admit, PopHead, InsertPending, TransmitHead,
               CheckFirstPending, StartTimer
  <2>2. queue'[p] = queue[p]
    BY <1>3 DEF FlushWindow, Peek, Admit, PopHead, InsertPending, TransmitHead,
               CheckFirstPending, StartTimer, windowVars, TypeOK
  <2>3. pending'[p] = pending[p]
    BY <1>3 DEF FlushWindow, Peek, Admit, PopHead, InsertPending, TransmitHead,
               CheckFirstPending, StartTimer, windowVars, TypeOK
  <2>4. packet'[p] = packet[p]
    BY <1>3 DEF FlushWindow, Peek, Admit, PopHead, InsertPending, TransmitHead,
               CheckFirstPending, StartTimer, TypeOK
  <2> QED BY <1>2, <1>3, <2>1, <2>2, <2>3, <2>4 DEF Quiet
<1>4. ASSUME NEW b \in Peer, b # p, BuildChunk(b) \/ ProcessAck(b)
      PROVE  Quiet(p)
  <2>1. \E u \in Thread : \E label : GoTo(b, u, label)
    BY <1>1, <1>4 DEF BuildChunk, ProcessAck
  <2>2. queue'[p] = queue[p] /\ pending'[p] = pending[p] /\ packet'[p] = packet[p]
    BY <1>4 DEF BuildChunk, ProcessAck, TypeOK
  <2> QED BY <1>2, <1>4, <2>1, <2>2 DEF Quiet
<1>5. ASSUME NEW b \in Peer,
             \/ StartFlush(b) \/ WaitForAcks(b) \/ WaitForAcksReturns(b)
      PROVE  Quiet(p)
  <2>1. \E label : /\ GoTo(b, "app", label)
                   /\ pc[b]["app"] \notin InFlush /\ label \notin InFlush
    BY <1>5 DEF StartFlush, WaitForAcks, WaitForAcksReturns, At, InFlush, FlushLabel
  <2>2. UNCHANGED <<queue, pending, packet>>
    BY <1>5 DEF StartFlush, WaitForAcks, WaitForAcksReturns, windowVars
  <2> QED BY <1>1, <1>2, <2>1, <2>2 DEF Quiet
<1>6. ASSUME NEW b \in Peer,
             \/ WaitForPacket(b) \/ CheckRetransmission(b) \/ StopTimer(b)
             \/ LogWindow(b) \/ ProcessData(b) \/ FlushOutOfOrder(b) \/ Reply(b)
      PROVE  Quiet(p)
  <2>1. \/ UNCHANGED pc
        \/ \E label : /\ GoTo(b, "receiver", label)
                       /\ pc[b]["receiver"] \notin InFlush /\ label \notin InFlush
    <3> USE DEF At, InFlush, FlushLabel
    <3>1. CASE WaitForPacket(b) BY <3>1 DEF WaitForPacket
    <3>2. CASE CheckRetransmission(b) BY <3>2 DEF CheckRetransmission, Dispatch
    <3>3. CASE StopTimer(b) \/ LogWindow(b) BY <3>3 DEF StopTimer, LogWindow
    <3>4. CASE ProcessData(b) BY <3>4 DEF ProcessData
    <3>5. CASE FlushOutOfOrder(b) BY <3>5 DEF FlushOutOfOrder
    <3>6. CASE Reply(b) BY <3>6 DEF Reply
    <3> QED BY <1>6, <3>1, <3>2, <3>3, <3>4, <3>5, <3>6
  <2>2. UNCHANGED <<queue, pending, packet>>
    BY <1>6 DEF WaitForPacket, CheckRetransmission, StopTimer, LogWindow, ProcessData,
               FlushOutOfOrder, Reply, windowVars
  <2> QED BY <1>1, <1>2, <2>1, <2>2 DEF Quiet
<1>7. ASSUME NEW b \in Peer, Recv(b) \/ TimerExpires(b) \/ Lose(b)
      PROVE  Quiet(p)
  BY <1>7 DEF Recv, TimerExpires, Lose, windowVars, Quiet
<1> QED BY <1>1, <1>3, <1>4, <1>5, <1>6, <1>7 DEF Next, App, ReceiveLoop

-----------------------------------------------------------------------------
(* What is not acknowledged *)

\* Every step keeps what no ACK has covered in the send window.
LEMMA UnackedStep ==
    ASSUME TypeOK, Next, NEW p \in Peer, WindowIsGenuine(p), ArrivalsAreGenuine(p),
           UnackedIsKept(p)
    PROVE  UnackedIsKept(p)'
<1>1. /\ send_unacked[p] \in Nat /\ send_unacked'[p] \in Nat
      /\ send_unacked[p] <= send_unacked'[p]
  <2>1. send_unacked[p] \in Nat
    BY DEF TypeOK
  <2>2. send_unacked'[p] \in Nat
    BY StepTypes DEF TypeOK
  <2> QED BY <2>1, <2>2, UnackedFrame
<1>2. ASSUME NEW j \in 1..Len(sent'[p])
      PROVE  End(sent'[p][j]) <= send_unacked'[p] \/ InWindow(p, sent[p][j])'
  <2>1. CASE j \in 1..Len(sent[p])
    <3>1. PICK pk \in TTPPacket : pk = sent[p][j]
      <4>1. sent[p] \in Seq(TTPPacket)
        BY DEF TypeOK
      <4>2. sent[p][j] \in TTPPacket
        BY <2>1, <4>1
      <4> QED BY <4>2
    <3>2. sent'[p][j] = pk
      BY <2>1, <3>1, SentGrows
    <3>3. SequenceSpace(pk) \in Nat /\ pk.seq \in Nat
      BY SequenceSpaceType DEF TTPPacket
    <3>4. CASE InWindow(p, pk)
      <4>1. End(pk) <= send_unacked'[p] \/ InWindow(p, pk)'
        BY <3>4, InWindowStays
      <4> QED BY <3>2, <4>1 DEF InWindow
    <3>5. CASE End(pk) <= send_unacked[p]
      <4>1. End(pk) <= send_unacked'[p]
        BY <1>1, <3>3, <3>5 DEF End
      <4> QED BY <3>2, <4>1
    <3> QED BY <2>1, <3>1, <3>4, <3>5 DEF UnackedIsKept
  <2>2. CASE j \notin 1..Len(sent[p])
    <3>1. PICK b \in Peer : BuildChunk(b)
      BY <2>2, SentFrame
    <3>2. PICK pk \in TTPPacket :
            /\ sent' = [sent EXCEPT ![b] = Append(@, pk)]
            /\ queue' = [queue EXCEPT ![b] = Append(@, pk)]
      BY <3>1, BuildChunkEffect, TypeParts
    <3>3. b = p
      BY <2>2, <3>2 DEF TypeOK
    <3>4. sent'[p] = Append(sent[p], pk) /\ queue'[p] = Append(queue[p], pk)
      BY <3>2, <3>3 DEF TypeOK
    <3>5. sent[p] \in Seq(TTPPacket) /\ queue[p] \in Seq(TTPPacket)
      BY DEF TypeOK
    <3>6. sent'[p][j] = pk
      BY <2>2, <3>4, <3>5
    <3>7. Len(queue'[p]) \in 1..Len(queue'[p]) /\ queue'[p][Len(queue'[p])] = pk
      BY <3>4, <3>5
    <3> QED BY <3>6, <3>7 DEF InWindow
  <2> QED BY <2>1, <2>2
<1> QED BY <1>2 DEF UnackedIsKept

\* The application is confirmed by wait_for_acks() finding both containers empty,
\* and takes no step afterwards.
LEMMA ConfirmedFrame ==
    ASSUME TypeOK, Next, NEW p \in Peer, pc'[p]["app"] = "confirmed"
    PROVE  \/ pc[p]["app"] = "confirmed"
           \/ Quiet(p) /\ Empty(queue[p], pending[p])
<1>1. "app" \in Thread /\ "receiver" \in Thread /\ "app" # "receiver"
  BY DEF Thread
<1>2. ASSUME pc[p]["app"] # "confirmed"
      PROVE  Quiet(p) /\ Empty(queue[p], pending[p])
  <2>1. ASSUME NEW b \in Peer, NEW u \in Thread, FlushWindow(b, u)
        PROVE  FALSE
    <3>1. \E label : GoTo(b, u, label) /\ label # "confirmed"
      BY <2>1 DEF FlushWindow, Peek, Admit, PopHead, InsertPending, TransmitHead,
                 CheckFirstPending, StartTimer, Flushed, Failed
    <3> QED BY <1>1, <1>2, <3>1, GoToEffect
  <2>2. ASSUME NEW b \in Peer, BuildChunk(b) \/ StartFlush(b) \/ WaitForAcks(b)
        PROVE  FALSE
    <3>1. \E label : GoTo(b, "app", label) /\ label # "confirmed"
      BY <2>2 DEF BuildChunk, StartFlush, WaitForAcks
    <3> QED BY <1>1, <1>2, <3>1, GoToEffect
  <2>3. ASSUME NEW b \in Peer,
               \/ WaitForPacket(b) \/ CheckRetransmission(b) \/ ProcessAck(b) \/ StopTimer(b)
               \/ LogWindow(b) \/ ProcessData(b) \/ FlushOutOfOrder(b) \/ Reply(b)
        PROVE  FALSE
    <3>1. UNCHANGED pc \/ \E label : GoTo(b, "receiver", label)
      BY <2>3 DEF WaitForPacket, CheckRetransmission, Dispatch, ProcessAck, StopTimer,
                 LogWindow, ProcessData, FlushOutOfOrder, Reply
    <3> QED BY <1>1, <1>2, <3>1, GoToEffect
  <2>4. ASSUME NEW b \in Peer, Recv(b) \/ TimerExpires(b) \/ Lose(b)
        PROVE  FALSE
    BY <1>2, <2>4 DEF Recv, TimerExpires, Lose
  <2>5. PICK b \in Peer : WaitForAcksReturns(b)
    BY <1>1, <2>1, <2>2, <2>3, <2>4 DEF Next, App, ReceiveLoop
  <2>6. b = p
    <3>1. \E label : GoTo(b, "app", label)
      BY <2>5 DEF WaitForAcksReturns
    <3> QED BY <1>1, <1>2, <3>1, GoToEffect
  <2>7. GoTo(p, "app", IF Empty(queue[p], pending[p]) THEN "confirmed" ELSE "gave_up")
    BY <2>5, <2>6 DEF WaitForAcksReturns
  <2>8. Empty(queue[p], pending[p])
    BY <1>1, <2>7, GoToEffect
  <2>9. Quiet(p)
    <3>1. UNCHANGED <<queue, pending, packet>>
      BY <2>5 DEF WaitForAcksReturns, windowVars
    <3>2. pc[p]["app"] = "waiting"
      BY <2>5, <2>6 DEF WaitForAcksReturns, At
    <3>3. \A t \in Thread : t # "app" => pc'[p][t] = pc[p][t]
      BY <1>1, <2>7, GoToEffect
    <3>4. pc[p]["app"] \notin InFlush /\ pc'[p]["app"] \notin InFlush
      BY <3>2 DEF InFlush, FlushLabel
    <3> QED BY <3>1, <3>3, <3>4 DEF Quiet
  <2> QED BY <2>8, <2>9
<1> QED BY <1>2

\* A step adds no segment to what is pending or held but the head of the queue.
LEMMA KeptFrame ==
    ASSUME TypeOK, Next, NEW p \in Peer, queue[p] = << >>, ~BuildChunk(p)
    PROVE  /\ queue'[p] = << >>
           /\ (PacketsOf(pending[p]) \cup Held(p))' \subseteq PacketsOf(pending[p]) \cup Held(p)
<1>1. ASSUME NEW t \in Thread, PopHead(p, t)
      PROVE  /\ queue'[p] = << >> /\ pending' = pending
             /\ packet' = packet /\ pc'[p][t] # "insert"
  <2>1. GoTo(p, t, Failed(t)) /\ UNCHANGED <<packet, queue>> /\ pending' = pending
    BY <1>1 DEF PopHead
  <2>2. pc'[p][t] = Failed(t)
    BY <2>1, GoToEffect
  <2> QED BY <2>1, <2>2 DEF Failed
<1>2. queue'[p] = << >>
  <2>1. ASSUME NEW b \in Peer, b # p, BuildChunk(b) \/ \E t \in Thread : PopHead(b, t)
        PROVE  queue'[p] = queue[p]
    BY <2>1 DEF BuildChunk, PopHead, TypeOK
  <2>2. ASSUME NEW b \in Peer, ProcessAck(b) \/ \E t \in Thread : InsertPending(b, t)
        PROVE  queue'[p] = queue[p]
    BY <2>2 DEF ProcessAck, InsertPending
  <2> QED BY <1>1, <2>1, <2>2, WindowFrame
<1>3. ASSUME NEW x \in PacketsOf(pending'[p])
      PROVE  x \in PacketsOf(pending[p]) \cup Held(p)
  <2>1. PICK e \in pending'[p] : x = e.packet
    BY <1>3 DEF PacketsOf
  <2>2. CASE e \in pending[p]
    BY <2>1, <2>2 DEF PacketsOf
  <2>3. CASE \E t \in Thread : InsertPending(p, t) /\ e.packet = packet[p][t]
    BY <2>1, <2>3 DEF InsertPending, Held
  <2> QED BY <2>1, <2>2, <2>3, PendingGrowth
<1>4. ASSUME NEW t \in Thread, pc'[p][t] = "insert"
      PROVE  packet'[p][t] \in Held(p)
  <2>1. ~PopHead(p, t)
    BY <1>1, <1>4
  <2>2. packet'[p][t] = packet[p][t] /\ (pc'[p][t] = pc[p][t] \/ InsertPending(p, t))
    BY <1>4, <2>1, PacketFrame
  <2>3. pc[p][t] = "insert"
    BY <1>4, <2>2 DEF InsertPending, At
  <2> QED BY <2>2, <2>3 DEF Held, At
<1>5. (PacketsOf(pending[p]))' = PacketsOf(pending'[p])
  BY DEF PacketsOf
<1>6. Held(p)' \subseteq Held(p)
  BY <1>4 DEF Held, At
<1> QED BY <1>2, <1>3, <1>5, <1>6

\* What wait_for_acks() has confirmed stays in the hands of one thread at most.
LEMMA ConfirmedStep ==
    ASSUME TypeOK, Next, NEW p \in Peer, ConfirmedHoldsOne(p)
    PROVE  ConfirmedHoldsOne(p)'
<1> SUFFICES ASSUME pc'[p]["app"] = "confirmed"
             PROVE  /\ queue'[p] = << >>
                    /\ \A x, y \in (PacketsOf(pending[p]) \cup Held(p))' : x = y
  BY DEF ConfirmedHoldsOne, At
<1>1. CASE pc[p]["app"] = "confirmed"
  <2>1. queue[p] = << >> /\ \A x, y \in PacketsOf(pending[p]) \cup Held(p) : x = y
    BY <1>1 DEF ConfirmedHoldsOne, At
  <2>2. ~BuildChunk(p)
    BY <1>1 DEF BuildChunk, At
  <2> QED BY <2>1, <2>2, KeptFrame
<1>2. CASE Quiet(p) /\ Empty(queue[p], pending[p])
  <2>1. queue'[p] = << >> /\ pending'[p] = {}
    BY <1>2 DEF Quiet, Empty
  <2>2. \A t \in Thread : At(p, t, "insert")' => t = "receiver"
    BY DEF At, Thread
  <2>3. \A x, y \in Held(p)' : x = y
    BY <2>2 DEF Held
  <2>4. (PacketsOf(pending[p]))' = {}
    BY <2>1 DEF PacketsOf
  <2> QED BY <2>1, <2>3, <2>4
<1> QED BY <1>1, <1>2, ConfirmedFrame

-----------------------------------------------------------------------------
(* Before the first acknowledgement *)

\* What the other side expects comes after p's SYN.
LEMMA ExpectedIsAhead ==
    ASSUME TypeOK, NEW p \in Peer, SentIsChained(p), DeliveredIsPrefix(Other(p))
    PROVE  recv_next[Other(p)] > ISN[p]
<1>1. Other(p) \in Peer /\ Other(Other(p)) = p
  BY OtherPeer
<1> DEFINE n == Len(Delivered(Other(p)))
<1>2. /\ n \in Nat /\ n <= Len(sent[p]) /\ Len(sent[p]) \in Nat
      /\ recv_next[Other(p)] = SeqOf(p, n + 1)
  BY <1>1, DeliveredType DEF DeliveredIsPrefix, TypeOK
<1>3. /\ SeqOf(p, 1) = ISN[p] + 1 /\ ISN[p] \in Nat
      /\ \A i, j \in 1..(Len(sent[p]) + 1) : i < j => SeqOf(p, i) < SeqOf(p, j)
  BY TransferAssumption DEF SentIsChained
<1>4. recv_next[Other(p)] \in Nat
  BY <1>1 DEF TypeOK
<1> HIDE DEF n
<1>5. CASE n = 0
  <2>1. SeqOf(p, n + 1) = SeqOf(p, 1)
    BY <1>5
  <2> QED BY <1>2, <1>3, <2>1
<1>6. CASE n # 0
  <2>1. 1 \in 1..(Len(sent[p]) + 1) /\ n + 1 \in 1..(Len(sent[p]) + 1) /\ 1 < n + 1
    BY <1>2, <1>6
  <2>2. SeqOf(p, 1) < SeqOf(p, n + 1)
    BY <1>3, <2>1
  <2> QED BY <1>2, <1>3, <1>4, <2>2
<1> QED BY <1>5, <1>6

\* A segment p built carries no ACK.
LEMMA TakenIsData ==
    ASSUME TypeOK, NEW p \in Peer, SentIsChained(p), WindowIsGenuine(p), NEW pk, WasTaken(p, pk)
    PROVE  /\ pk \in TTPPacket /\ pk.flags = {"DATA"} /\ pk.payload \in Chunk
<1>1. Len(sent[p]) \in Nat /\ Len(queue[p]) \in Nat /\ sent[p] \in Seq(TTPPacket)
  BY DEF TypeOK
<1>2. PICK i \in 1..Taken(p) : pk = sent[p][i]
  BY DEF WasTaken
<1>3. i \in 1..Len(sent[p])
  BY <1>1, <1>2 DEF Taken
<1> QED BY <1>1, <1>2, <1>3 DEF SentIsChained

\* Every ACK that can reach p is for its SYN at least.
LEMMA AheadStep ==
    ASSUME TypeOK, Next, NEW p \in Peer, AcksAreAhead(p), SentIsChained(p),
           DeliveredIsPrefix(Other(p)), SentIsChained(Other(p)), WindowIsGenuine(Other(p))
    PROVE  AcksAreAhead(p)'
<1>1. Other(p) \in Peer
  BY OtherPeer
<1>2. ASSUME NEW pk \in network'[p]
      PROVE  IsAhead(p, pk)
  <2>1. CASE pk \in network[p]
    BY <2>1 DEF AcksAreAhead
  <2>2. CASE \E t \in Thread : At(Other(p), t, "transmit") /\ pk = packet[Other(p)][t]
    <3>1. WasTaken(Other(p), pk)
      BY <1>1, <2>2 DEF WindowIsGenuine, At
    <3>2. pk.flags = {"DATA"}
      BY <1>1, <3>1, TakenIsData
    <3> QED BY <3>2 DEF IsAhead
  <2>3. CASE \E e \in pending[Other(p)] : pk = e.packet
    <3>1. WasTaken(Other(p), pk)
      BY <1>1, <2>3 DEF WindowIsGenuine
    <3>2. pk.flags = {"DATA"}
      BY <1>1, <3>1, TakenIsData
    <3> QED BY <3>2 DEF IsAhead
  <2>4. CASE pk = BuildPacket(Other(p), {"ACK"}, NoPayload)
    <3>1. pk.ack = recv_next[Other(p)]
      BY <2>4 DEF BuildPacket
    <3> QED BY <3>1, ExpectedIsAhead DEF IsAhead
  <2> QED BY <2>1, <2>2, <2>3, <2>4, NetworkFrame
<1>3. ASSUME pc'[p]["receiver"] \in {"check", "ack"}
      PROVE  IsAhead(p, current'[p])
  <2>1. CASE current'[p] \in network[p]
    BY <2>1 DEF AcksAreAhead
  <2>2. CASE /\ current'[p] = current[p]
             /\ \/ pc'[p]["receiver"] = pc[p]["receiver"]
                \/ /\ pc[p]["receiver"] = "check"
                   /\ pc'[p]["receiver"] = IF "ACK" \in current[p].flags THEN "ack" ELSE "data"
    BY <1>3, <2>2 DEF AcksAreAhead
  <2> QED BY <1>3, <2>1, <2>2, CurrentFrame
<1> QED BY <1>2, <1>3 DEF AcksAreAhead, IsAhead

\* A timer that is stopped was stopped before, unless _process_ack() stops it now.
LEMMA TimerFrame ==
    ASSUME TypeOK, Next, NEW p \in Peer, retransmission'[p].timer = "stopped"
    PROVE  /\ retransmission[p].timer = "stopped" \/ At(p, "receiver", "stop")
           /\ \A t \in Thread : ~StartTimer(p, t)
<1>1. ASSUME NEW b \in Peer, NEW t \in Thread, StartTimer(b, t)
      PROVE  b # p /\ retransmission'[p] = retransmission[p]
  BY <1>1 DEF StartTimer, Start, TypeOK
<1>2. ASSUME NEW b \in Peer, CheckRetransmission(b)
      PROVE  retransmission'[p] = retransmission[p]
  <2>1. \/ UNCHANGED retransmission
        \/ retransmission' = [retransmission EXCEPT ![b] = Restart(@)]
    BY <1>2 DEF CheckRetransmission
  <2> QED BY <2>1 DEF Restart, TypeOK
<1>3. ASSUME NEW b \in Peer, StopTimer(b)
      PROVE  retransmission'[p] = retransmission[p] \/ At(p, "receiver", "stop")
  BY <1>3 DEF StopTimer, TypeOK
<1>4. ASSUME NEW b \in Peer, TimerExpires(b)
      PROVE  retransmission'[p] = retransmission[p]
  BY <1>4 DEF TimerExpires, Expire, TypeOK
<1>5. \/ \E b \in Peer, t \in Thread : StartTimer(b, t)
      \/ \E b \in Peer : CheckRetransmission(b) \/ StopTimer(b) \/ TimerExpires(b)
      \/ UNCHANGED retransmission
  BY DEF Next, App, ReceiveLoop, LogWindow, FlushWindow, Thread, BuildChunk, Recv, WaitForAcks,
         StartFlush, WaitForAcksReturns, Peek, Admit, PopHead, InsertPending, TransmitHead,
         CheckFirstPending, WaitForPacket, ProcessAck, ProcessData, FlushOutOfOrder, Reply, Lose
<1>6. retransmission[p].timer = "stopped" \/ At(p, "receiver", "stop")
  BY <1>1, <1>2, <1>3, <1>4, <1>5
<1> QED BY <1>1, <1>6

\* Before its first ACK the receiver of p does not get into a flush.
LEMMA NoFlushBefore ==
    ASSUME TypeOK, Next, NEW p \in Peer, ~ProcessAck(p),
           pc[p]["receiver"] \notin FlushLabel \cup {"stop"}
    PROVE  pc'[p]["receiver"] \notin FlushLabel \cup {"stop"}
<1>1. "app" \in Thread /\ "receiver" \in Thread /\ "app" # "receiver"
  BY DEF Thread
<1>2. ASSUME NEW b \in Peer, NEW u \in Thread, NEW label, GoTo(b, u, label),
             b # p \/ u # "receiver" \/ label \notin FlushLabel \cup {"stop"}
      PROVE  pc'[p]["receiver"] \notin FlushLabel \cup {"stop"}
  <2>1. /\ pc'[b][u] = label
        /\ \A q \in Peer, v \in Thread : q # b \/ v # u => pc'[q][v] = pc[q][v]
    BY <1>2, GoToEffect
  <2>2. CASE b = p /\ u = "receiver"
    BY <1>2, <2>1, <2>2
  <2>3. CASE ~(b = p /\ u = "receiver")
    <3>1. pc'[p]["receiver"] = pc[p]["receiver"]
      BY <1>1, <2>1, <2>3
    <3> QED BY <3>1
  <2> QED BY <2>2, <2>3
<1>3. ASSUME NEW b \in Peer, NEW u \in Thread, FlushWindow(b, u)
      PROVE  pc'[p]["receiver"] \notin FlushLabel \cup {"stop"}
  <2>1. /\ \E label : GoTo(b, u, label)
        /\ pc[b][u] \in FlushLabel
    BY <1>3 DEF FlushWindow, Peek, Admit, PopHead, InsertPending, TransmitHead,
               CheckFirstPending, StartTimer, At, FlushLabel
  <2>2. b # p \/ u # "receiver"
    BY <2>1
  <2> QED BY <1>2, <2>1, <2>2
<1>4. ASSUME NEW b \in Peer,
             BuildChunk(b) \/ StartFlush(b) \/ WaitForAcks(b) \/ WaitForAcksReturns(b)
      PROVE  pc'[p]["receiver"] \notin FlushLabel \cup {"stop"}
  <2>1. \E label : GoTo(b, "app", label)
    BY <1>4 DEF BuildChunk, StartFlush, WaitForAcks, WaitForAcksReturns
  <2> QED BY <1>1, <1>2, <2>1
<1>5. ASSUME NEW b \in Peer,
             \/ WaitForPacket(b) \/ CheckRetransmission(b) \/ ProcessAck(b) \/ StopTimer(b)
             \/ LogWindow(b) \/ ProcessData(b) \/ FlushOutOfOrder(b) \/ Reply(b)
      PROVE  pc'[p]["receiver"] \notin FlushLabel \cup {"stop"}
  <2>1. CASE b # p
    <3>1. UNCHANGED pc \/ \E label : GoTo(b, "receiver", label)
      BY <1>5 DEF WaitForPacket, CheckRetransmission, Dispatch, ProcessAck, StopTimer,
                 LogWindow, ProcessData, FlushOutOfOrder, Reply
    <3> QED BY <1>1, <1>2, <2>1, <3>1
  <2>2. CASE b = p
    <3>1. ~StopTimer(p)
      BY DEF StopTimer, At
    <3>2. \/ UNCHANGED pc
          \/ \E label : GoTo(p, "receiver", label) /\ label \notin FlushLabel \cup {"stop"}
      <4> USE DEF FlushLabel
      <4>1. CASE WaitForPacket(p) BY <4>1 DEF WaitForPacket
      <4>2. CASE CheckRetransmission(p) BY <4>2 DEF CheckRetransmission, Dispatch
      <4>3. CASE ProcessData(p) BY <4>3 DEF ProcessData
      <4>4. CASE FlushOutOfOrder(p) BY <4>4 DEF FlushOutOfOrder
      <4>5. CASE Reply(p) BY <4>5 DEF Reply
      <4>6. CASE LogWindow(p) BY <4>6 DEF LogWindow
      <4> QED BY <1>5, <2>2, <3>1, <4>1, <4>2, <4>3, <4>4, <4>5, <4>6
    <3> QED BY <1>1, <1>2, <3>2
  <2> QED BY <2>1, <2>2
<1>6. ASSUME NEW b \in Peer, Recv(b) \/ TimerExpires(b) \/ Lose(b)
      PROVE  pc'[p]["receiver"] \notin FlushLabel \cup {"stop"}
  BY <1>6 DEF Recv, TimerExpires, Lose
<1> QED BY <1>1, <1>3, <1>4, <1>5, <1>6 DEF Next, App, ReceiveLoop

\* Until SND.UNA moves, what is pending under a stopped timer is about to be timed.
LEMMA BeforeStep ==
    ASSUME TypeOK, Next, NEW p \in Peer, BeforeFirstAck(p), AcksAreAhead(p),
           ArrivalsAreGenuine(p)
    PROVE  BeforeFirstAck(p)'
<1> SUFFICES ASSUME send_unacked'[p] = ISN[p]
             PROVE  /\ pc'[p]["receiver"] \notin FlushLabel \cup {"stop"}
                    /\ retransmission'[p].timer = "stopped" /\ pending'[p] # {} =>
                         /\ pc'[p]["app"] \in {"transmit", "timer", "start", "raised"}
                         /\ pc'[p]["app"] \in {"transmit", "timer"} =>
                              \E e \in pending'[p] : pending'[p] = {e}
  BY DEF BeforeFirstAck
<1>1. "app" \in Thread /\ "receiver" \in Thread /\ \A t \in Thread : t = "app" \/ t = "receiver"
  BY DEF Thread
<1>2. ~ProcessAck(p)
  <2> SUFFICES ASSUME ProcessAck(p) PROVE FALSE
    OBVIOUS
  <2>1. current[p].ack > ISN[p]
    BY DEF ProcessAck, At, ArrivalsAreGenuine, AcksAreAhead, IsAhead
  <2>2. send_unacked'[p] = Acknowledged(send_unacked[p], current[p].ack)
    BY DEF ProcessAck, TypeOK
  <2>3. current[p].ack \in Nat /\ send_unacked[p] \in Nat /\ ISN[p] \in Nat
    BY TransferAssumption DEF TypeOK, TTPPacket
  <2> QED BY <2>1, <2>2, <2>3 DEF Acknowledged
<1>3. send_unacked[p] = ISN[p]
  BY <1>2, UnackedFrame
<1>4. pc[p]["receiver"] \notin FlushLabel \cup {"stop"}
  BY <1>3 DEF BeforeFirstAck
<1>5. pc'[p]["receiver"] \notin FlushLabel \cup {"stop"}
  BY <1>2, <1>4, NoFlushBefore
<1>6. ASSUME retransmission'[p].timer = "stopped", pending'[p] # {}
      PROVE  /\ pc'[p]["app"] \in {"transmit", "timer", "start", "raised"}
             /\ pc'[p]["app"] \in {"transmit", "timer"} =>
                  \E e \in pending'[p] : pending'[p] = {e}
  <2>1. retransmission[p].timer = "stopped" /\ \A t \in Thread : ~StartTimer(p, t)
    BY <1>4, <1>6, TimerFrame DEF At
  <2>2. ASSUME pending[p] # {}
        PROVE  /\ pc[p]["app"] \in {"transmit", "timer", "start", "raised"}
               /\ pc[p]["app"] \in {"transmit", "timer"} =>
                    \E e \in pending[p] : pending[p] = {e}
    BY <1>3, <2>1, <2>2 DEF BeforeFirstAck
  <2>3. CASE \E t \in Thread : FlushWindow(p, t)
    <3>1. FlushWindow(p, "app")
      <4>1. ~FlushWindow(p, "receiver")
        BY <1>4 DEF FlushWindow, Peek, Admit, PopHead, InsertPending, TransmitHead,
                   CheckFirstPending, StartTimer, At, FlushLabel
      <4> QED BY <1>1, <2>3, <4>1
    <3>2. CASE Peek(p, "app") \/ Admit(p, "app") \/ PopHead(p, "app")
      <4>1. pending'[p] = pending[p]
        BY <3>2 DEF Peek, Admit, PopHead, windowVars
      <4>2. pc[p]["app"] \in {"peek", "admit", "pop"}
        BY <3>2 DEF Peek, Admit, PopHead, At
      <4> QED BY <1>6, <2>2, <4>1, <4>2
    <3>3. CASE InsertPending(p, "app")
      <4>1. pc[p]["app"] = "insert" /\ pc'[p]["app"] = "transmit"
        BY <1>1, <3>3, GoToEffect DEF InsertPending, At
      <4>2. pending[p] = {}
        BY <2>2, <4>1
      <4>3. \E e : pending'[p] = {e}
        BY <3>3, <4>2 DEF InsertPending, MarkPending, TypeOK
      <4> QED BY <4>1, <4>3
    <3>4. CASE TransmitHead(p, "app")
      <4>1. pending'[p] = pending[p] /\ pc[p]["app"] = "transmit"
        BY <3>4 DEF TransmitHead, At, windowVars
      <4>2. pc'[p]["app"] \in {"timer", "raised"}
        BY <1>1, <3>4, GoToEffect DEF TransmitHead, Failed
      <4> QED BY <1>6, <2>2, <4>1, <4>2
    <3>5. CASE CheckFirstPending(p, "app")
      <4>1. pending'[p] = pending[p] /\ pc[p]["app"] = "timer"
        BY <3>5 DEF CheckFirstPending, At, windowVars
      <4>2. Cardinality(pending[p]) = 1
        BY <1>6, <2>2, <4>1, FS_Singleton
      <4>3. pc'[p]["app"] \in {"start", "raised"}
        BY <1>1, <3>5, <4>2, GoToEffect DEF CheckFirstPending, Failed
      <4> QED BY <4>3
    <3> QED BY <1>1, <2>1, <3>1, <3>2, <3>3, <3>4, <3>5 DEF FlushWindow
  <2>4. CASE BuildChunk(p)
    <3>1. pending'[p] = pending[p] /\ pc[p]["app"] \in {"idle", "building"}
      BY <2>4 DEF BuildChunk, At
    <3> QED BY <1>6, <2>2, <3>1
  <2>5. CASE Quiet(p)
    <3>1. pending'[p] = pending[p]
      BY <2>5 DEF Quiet
    <3>2. pc[p]["app"] \in InFlush
      BY <1>6, <2>2, <3>1 DEF InFlush, FlushLabel
    <3>3. pc'[p]["app"] = pc[p]["app"]
      BY <1>1, <2>5, <3>2 DEF Quiet
    <3> QED BY <1>6, <2>2, <3>1, <3>3
  <2> QED BY <1>2, <2>3, <2>4, <2>5, ThreadFrame
<1> QED BY <1>5, <1>6

-----------------------------------------------------------------------------
(* The theorems on what is confirmed and on the timer *)

\* A new connection has nothing to acknowledge.
LEMMA WindowInit == ASSUME Init PROVE WindowInv
<1>1. ASSUME NEW p \in Peer
      PROVE  /\ sent[p] = << >> /\ pending[p] = {} /\ network[p] = {}
             /\ pc[p]["receiver"] = "wait" /\ pc[p]["app"] = "idle"
  BY DEF Init, Thread
<1>2. ASSUME NEW p \in Peer
      PROVE  /\ UnackedIsKept(p) /\ ConfirmedHoldsOne(p)
             /\ AcksAreAhead(p) /\ BeforeFirstAck(p)
  <2>1. UnackedIsKept(p)
    <3>1. Len(sent[p]) = 0
      BY <1>1
    <3> QED BY <3>1 DEF UnackedIsKept
  <2>2. ConfirmedHoldsOne(p)
    BY <1>1 DEF ConfirmedHoldsOne, At
  <2>3. AcksAreAhead(p)
    BY <1>1 DEF AcksAreAhead
  <2>4. BeforeFirstAck(p)
    BY <1>1 DEF BeforeFirstAck, FlushLabel
  <2> QED BY <2>1, <2>2, <2>3, <2>4
<1> QED BY <1>2 DEF WindowInv

\* Every step keeps the invariant of the window, given that of the transfer.
LEMMA WindowInvStep == ASSUME IInv, WindowInv, Next PROVE WindowInv'
<1>1. TypeOK
  BY DEF IInv
<1>2. ASSUME NEW p \in Peer
      PROVE  /\ SentIsChained(p) /\ WindowIsGenuine(p) /\ ArrivalsAreGenuine(p)
             /\ DeliveredIsPrefix(p)
             /\ UnackedIsKept(p) /\ ConfirmedHoldsOne(p)
             /\ AcksAreAhead(p) /\ BeforeFirstAck(p)
  BY DEF IInv, WindowInv
<1>3. ASSUME NEW p \in Peer
      PROVE  /\ UnackedIsKept(p)' /\ ConfirmedHoldsOne(p)'
             /\ AcksAreAhead(p)' /\ BeforeFirstAck(p)'
  <2>1. Other(p) \in Peer
    BY OtherPeer
  <2>2. UnackedIsKept(p)'
    BY <1>1, <1>2, UnackedStep
  <2>3. ConfirmedHoldsOne(p)'
    BY <1>1, <1>2, ConfirmedStep
  <2>4. AcksAreAhead(p)'
    BY <1>1, <1>2, <2>1, AheadStep
  <2>5. BeforeFirstAck(p)'
    BY <1>1, <1>2, BeforeStep
  <2> QED BY <2>2, <2>3, <2>4, <2>5
<1> QED BY <1>3 DEF WindowInv

\* What the window holds is what is not acknowledged, every ACK is for the SYN at
\* least, and data pending before the first one is timed, or about to be.
THEOREM WindowInvariance == Spec => []WindowInv
<1>1. Init => WindowInv
  BY WindowInit
<1>2. IInv /\ WindowInv /\ [Next]_vars => WindowInv'
  <2> SUFFICES ASSUME IInv, WindowInv, [Next]_vars PROVE WindowInv'
    OBVIOUS
  <2>1. CASE Next
    BY <2>1, WindowInvStep
  <2>2. CASE UNCHANGED vars
    <3> USE <2>2 DEF WindowInv, vars, sequenceVars, windowVars, receiveVars, historyVars
    <3>1. \A p \in Peer : UnackedIsKept(p)'
      BY DEF UnackedIsKept, InWindow, Held, At
    <3>2. \A p \in Peer : ConfirmedHoldsOne(p)'
      <4>1. \A p \in Peer : Held(p)' = Held(p) /\ (PacketsOf(pending[p]))' = PacketsOf(pending[p])
        BY DEF Held, At, PacketsOf
      <4> QED BY <4>1 DEF ConfirmedHoldsOne, At
    <3>3. \A p \in Peer : AcksAreAhead(p)'
      BY DEF AcksAreAhead, IsAhead
    <3>4. \A p \in Peer : BeforeFirstAck(p)'
      BY DEF BeforeFirstAck
    <3> QED BY <3>1, <3>2, <3>3, <3>4
  <2> QED BY <2>1, <2>2
<1> QED BY <1>1, <1>2, Invariance, PTL DEF Spec

\* wait_for_acks() returns True with at most one segment unacknowledged, the one
\* in the hands of the receiver's flush.
THEOREM ConfirmationMissesOne == Spec => []ConfirmedButOne
<1>1. IInv /\ WindowInv => ConfirmedButOne
  <2> SUFFICES ASSUME IInv, WindowInv, NEW p \in Peer, At(p, "app", "confirmed")
               PROVE  Cardinality({i \in 1..Len(sent[p]) : End(sent[p][i]) > send_unacked[p]}) <= 1
    BY DEF ConfirmedButOne
  <2> DEFINE unacked == {i \in 1..Len(sent[p]) : End(sent[p][i]) > send_unacked[p]}
  <2>1. TypeOK /\ SentIsChained(p) /\ UnackedIsKept(p) /\ ConfirmedHoldsOne(p)
    BY DEF IInv, WindowInv
  <2>2. /\ sent[p] \in Seq(TTPPacket) /\ Len(sent[p]) \in Nat
        /\ send_unacked[p] \in Nat
    BY <2>1 DEF TypeOK
  <2>3. ASSUME NEW i \in unacked
        PROVE  sent[p][i] \in PacketsOf(pending[p]) \cup Held(p)
    <3>1. ~(End(sent[p][i]) <= send_unacked[p])
      <4>1. sent[p][i] \in TTPPacket
        BY <2>2
      <4>2. SequenceSpace(sent[p][i]) \in Nat /\ sent[p][i].seq \in Nat
        BY <4>1, SequenceSpaceType DEF TTPPacket
      <4>3. End(sent[p][i]) \in Nat
        BY <4>2 DEF End
      <4> QED BY <2>2, <2>3, <4>3
    <3>2. InWindow(p, sent[p][i])
      BY <2>1, <3>1 DEF UnackedIsKept
    <3>3. Len(queue[p]) = 0
      BY <2>1 DEF ConfirmedHoldsOne
    <3> QED BY <3>2, <3>3 DEF InWindow
  <2>4. ASSUME NEW i \in unacked, NEW j \in unacked
        PROVE  i = j
    <3>1. sent[p][i] = sent[p][j]
      BY <2>1, <2>3 DEF ConfirmedHoldsOne
    <3> QED BY <2>1, <3>1, SentIsDistinct
  <2> HIDE DEF unacked
  <2>5. CASE unacked = {}
    BY <2>5, FS_EmptySet DEF unacked
  <2>6. CASE unacked # {}
    <3>1. PICK i \in unacked : TRUE
      BY <2>6
    <3>2. unacked = {i}
      BY <2>4, <3>1
    <3>3. Cardinality(unacked) = 1
      BY <3>2, FS_Singleton
    <3> QED BY <3>3 DEF unacked
  <2> QED BY <2>5, <2>6
<1> QED BY <1>1, Invariance, WindowInvariance, PTL

\* Until a first ACK has come, the timer guards what is pending whenever the
\* receiver is between segments and the application out of its flush.
THEOREM FirstDataIsTimed == Spec => []TimedUntilAcknowledged
<1>1. WindowInv => TimedUntilAcknowledged
  BY DEF WindowInv, TimedUntilAcknowledged, BeforeFirstAck, At
<1> QED BY <1>1, WindowInvariance, PTL

-----------------------------------------------------------------------------
(* How much is in flight *)

\* A slice of send() is at most MAX_PACKET_SIZE, so that there is a largest chunk.
LEMMA LargestChunk ==
    ASSUME Chunk # {}
    PROVE  /\ Largest \in Nat
           /\ \A chunk \in Chunk : ChunkSize[chunk] <= Largest
<1> DEFINE sizes == {ChunkSize[chunk] : chunk \in Chunk}
           Slack == {n \in Nat : \E size \in sizes : size + n = MAX_PACKET_SIZE}
<1>1. sizes \subseteq 1..MAX_PACKET_SIZE /\ sizes # {}
  BY ChunkAssumption
<1> HIDE DEF sizes
<1>8. ASSUME NEW size \in sizes PROVE MAX_PACKET_SIZE - size \in Slack
  <2> DEFINE rest == MAX_PACKET_SIZE - size
  <2>1. size \in 1..MAX_PACKET_SIZE
    BY <1>1
  <2>2. rest \in Nat /\ size + rest = MAX_PACKET_SIZE
    BY <2>1 DEF MAX_PACKET_SIZE
  <2> HIDE DEF rest
  <2>3. rest \in Slack
    BY <2>2
  <2> QED BY <2>3 DEF rest
<1>2. PICK n \in Slack : \A m \in Slack : n <= m
  <2>1. PICK size \in sizes : TRUE
    BY <1>1
  <2>2. MAX_PACKET_SIZE - size \in Slack
    BY <1>8
  <2>3. Slack \in SUBSET Nat /\ Slack # {}
    BY <2>2
  <2> HIDE DEF Slack
  <2> QED BY <2>3, LeastNatural
<1>3. PICK most \in sizes : most + n = MAX_PACKET_SIZE
  BY <1>2
<1>4. \A size \in sizes : most >= size
  <2> SUFFICES ASSUME NEW size \in sizes PROVE most >= size
    OBVIOUS
  <2>1. MAX_PACKET_SIZE - size \in Slack
    BY <1>8
  <2>2. n <= MAX_PACKET_SIZE - size /\ n \in Nat
    BY <1>2, <2>1
  <2>3. size \in Nat /\ most \in Nat
    BY <1>1
  <2> QED BY <1>3, <2>2, <2>3 DEF MAX_PACKET_SIZE
<1>5. Max(sizes) \in sizes /\ \A size \in sizes : Max(sizes) >= size
  BY <1>4 DEF Max
<1>6. Largest = Max(sizes)
  BY DEF Largest, sizes
<1>7. Largest \in Nat /\ \A size \in sizes : size <= Largest
  <2>1. \A size \in sizes : size \in Nat
    BY <1>1
  <2> QED BY <1>5, <1>6, <2>1
<1> QED BY <1>7 DEF sizes

\* A queued segment, and one a thread holds, take no more than the largest chunk.
LEMMA WindowSizes ==
    ASSUME TypeOK, Chunk # {}, NEW p \in Peer, SentIsChained(p), WindowIsGenuine(p)
    PROVE  /\ \A k \in 1..Len(queue[p]) :
                SequenceSpace(queue[p][k]) \in Nat /\ SequenceSpace(queue[p][k]) <= Largest
           /\ \A t \in Thread : HeldSize(p, t) \in Nat
           /\ \A t \in Thread : At(p, t, "insert") => HeldSize(p, t) <= Largest
<1>1. Len(sent[p]) \in Nat /\ Len(queue[p]) \in Nat /\ sent[p] \in Seq(TTPPacket)
  BY DEF TypeOK
<1>2. ASSUME NEW pk \in TTPPacket, pk.flags = {"DATA"}, pk.payload \in Chunk
      PROVE  SequenceSpace(pk) \in Nat /\ SequenceSpace(pk) <= Largest
  BY <1>2, DataSpace, LargestChunk
<1>3. ASSUME NEW k \in 1..Len(queue[p])
      PROVE  SequenceSpace(queue[p][k]) \in Nat /\ SequenceSpace(queue[p][k]) <= Largest
  <2>1. /\ Taken(p) + k \in 1..Len(sent[p])
        /\ queue[p][k] = sent[p][Taken(p) + k]
    <3>1. Len(queue[p]) <= Len(sent[p]) /\ queue[p][k] = sent[p][Taken(p) + k]
      BY DEF WindowIsGenuine
    <3> DEFINE n == Len(sent[p])
               q == Len(queue[p])
    <3>2. n \in Nat /\ q \in Nat /\ q <= n /\ k \in 1..q
      BY <1>1, <3>1
    <3>3. Taken(p) = n - q
      BY DEF Taken
    <3> HIDE DEF n, q
    <3>4. Taken(p) + k \in 1..n
      BY <3>2, <3>3
    <3> QED BY <3>1, <3>4 DEF n
  <2>2. /\ sent[p][Taken(p) + k] \in TTPPacket /\ sent[p][Taken(p) + k].flags = {"DATA"}
        /\ sent[p][Taken(p) + k].payload \in Chunk
    <3> DEFINE i == Taken(p) + k
    <3>1. i \in 1..Len(sent[p])
      BY <2>1
    <3> HIDE DEF i
    <3>2. sent[p][i] \in TTPPacket /\ sent[p][i].flags = {"DATA"} /\ sent[p][i].payload \in Chunk
      BY <1>1, <3>1 DEF SentIsChained
    <3> QED BY <3>2 DEF i
  <2> QED BY <1>2, <2>1, <2>2
<1>4. ASSUME NEW t \in Thread
      PROVE  HeldSize(p, t) \in Nat
  <2>1. packet[p][t] \in TTPPacket
    BY DEF TypeOK
  <2> QED BY <2>1, SequenceSpaceType DEF HeldSize
<1>5. ASSUME NEW t \in Thread, At(p, t, "insert")
      PROVE  HeldSize(p, t) <= Largest
  <2>1. WasTaken(p, packet[p][t])
    BY <1>5 DEF WindowIsGenuine, At
  <2>2. packet[p][t] \in TTPPacket /\ packet[p][t].flags = {"DATA"}
        /\ packet[p][t].payload \in Chunk
    BY <2>1, TakenIsData
  <2> QED BY <1>2, <2>2 DEF HeldSize
<1> QED BY <1>3, <1>4, <1>5

\* The size of the next segment and the limit it sets.
LEMMA NextSizes ==
    ASSUME TypeOK, Chunk # {}, NEW p \in Peer, SentIsChained(p), WindowIsGenuine(p)
    PROVE  /\ NextSize(p) \in Nat /\ Largest \in Nat /\ WindowSize[p] \in Nat
           /\ queue[p] # << >> => /\ NextSize(p) = SequenceSpace(Head(queue[p]))
                                  /\ NextSize(p) <= Largest
                                  /\ Limit(p) = WindowSize[p] + Largest
           /\ queue[p] = << >> => NextSize(p) = 0 /\ Limit(p) = WindowSize[p]
<1>1. WindowSize[p] \in Nat /\ Largest \in Nat
  BY TransferAssumption, LargestChunk
<1>2. CASE queue[p] = << >>
  BY <1>1, <1>2 DEF NextSize, Limit
<1>3. CASE queue[p] # << >>
  <2>1. queue[p] \in Seq(TTPPacket)
    BY DEF TypeOK
  <2>2. 1 \in 1..Len(queue[p]) /\ Head(queue[p]) = queue[p][1]
    BY <1>3, <2>1
  <2>3. SequenceSpace(queue[p][1]) \in Nat /\ SequenceSpace(queue[p][1]) <= Largest
    BY <2>2, WindowSizes
  <2> QED BY <1>1, <1>3, <2>2, <2>3 DEF NextSize, Limit
<1> QED BY <1>2, <1>3

\* A step that adds nothing to pending, leaves the queue, and moves no thread into
\* or out of the statements between next_packet() and the insertion.
LEMMA BoundedQuiet ==
    ASSUME TypeOK, TypeOK', Chunk # {}, NEW p \in Peer, SentIsChained(p), WindowIsGenuine(p),
           WindowIsBounded(p), pending'[p] \subseteq pending[p], queue'[p] = queue[p],
           \A t \in Thread :
              \/ pc'[p][t] = pc[p][t] /\ packet'[p][t] = packet[p][t]
              \/ /\ pc[p][t] \notin {"admit", "pop", "insert"}
                 /\ pc'[p][t] \notin {"admit", "pop", "insert"}
    PROVE  WindowIsBounded(p)'
<1>1. /\ IsFiniteSet(pending[p]) /\ IsFiniteSet(pending'[p])
      /\ Bytes(p) \in Nat /\ Bytes(p)' \in Nat /\ Bytes(p)' <= Bytes(p)
  <2>1. pending[p] \in SUBSET PendingEntry /\ pending'[p] \in SUBSET PendingEntry
    BY DEF TypeOK
  <2>2. IsFiniteSet(pending[p]) /\ IsFiniteSet(pending'[p])
    BY FS_Subset DEF WindowIsBounded
  <2>3. BytesInFlight(pending[p]) \in Nat /\ BytesInFlight(pending'[p]) \in Nat
    BY <2>1, <2>2, BytesType
  <2>4. BytesInFlight(pending'[p]) <= BytesInFlight(pending[p])
    BY <2>1, <2>2, BytesSubset
  <2> QED BY <2>2, <2>3, <2>4 DEF Bytes
<1>2. /\ NextSize(p) \in Nat /\ Largest \in Nat /\ WindowSize[p] \in Nat /\ Limit(p) \in Nat
      /\ NextSize(p)' = NextSize(p) /\ Limit(p)' = Limit(p)
  <2>1. NextSize(p)' = NextSize(p) /\ Limit(p)' = Limit(p)
    BY DEF NextSize, Limit
  <2>2. Limit(p) \in Nat
    BY NextSizes
  <2> QED BY <2>1, <2>2, NextSizes
<1>3. Bytes(p)' <= WindowSize[p] + Largest
  BY <1>1, <1>2 DEF WindowIsBounded
<1>4. ASSUME NEW t \in Thread, NEW other \in Thread, t # other
      PROVE  ExcessOfOne(p, t, other)'
  <2>1. ExcessOfOne(p, t, other)
    BY <1>4 DEF WindowIsBounded
  <2>2. ASSUME NEW u \in Thread, pc'[p][u] \in {"admit", "pop", "insert"}
        PROVE  /\ pc[p][u] = pc'[p][u] /\ packet'[p][u] = packet[p][u]
               /\ IsHead(p, u)' = IsHead(p, u) /\ HeldSize(p, u)' = HeldSize(p, u)
               /\ HeldSize(p, u) \in Nat
    <3>1. pc[p][u] = pc'[p][u] /\ packet'[p][u] = packet[p][u]
      BY <2>2
    <3>2. HeldSize(p, u) \in Nat
      BY WindowSizes
    <3> QED BY <3>1, <3>2 DEF IsHead, HeldSize
  <2>3. ASSUME NEW u \in Thread, pc'[p][u] \notin {"pop", "insert"}
        PROVE  pc[p][u] \notin {"pop", "insert"}
    BY <2>3
  <2> HIDE DEF NextSize, Limit, Bytes, HeldSize, IsHead
  <2> DEFINE m == pc'[p][t]
             o == pc'[p][other]
  <2>4. CASE m = "admit"
    <3>1. o = "admit" => IsHead(p, t)' \/ IsHead(p, other)'
      BY <2>1, <2>2, <2>4 DEF ExcessOfOne, At
    <3> QED BY <2>4, <3>1 DEF ExcessOfOne, At
  <2>5. CASE m = "pop"
    <3>1. pc[p][t] = "pop"
      BY <2>2, <2>5
    <3>2. o = "admit" => IsHead(p, other)' \/ Bytes(p)' + NextSize(p)' <= WindowSize[p]
      BY <1>1, <1>2, <2>1, <2>2, <3>1 DEF ExcessOfOne, At
    <3>3. o \notin {"pop", "insert"} => Bytes(p)' + NextSize(p)' <= Limit(p)'
      BY <1>1, <1>2, <2>1, <2>3, <3>1 DEF ExcessOfOne, At
    <3>4. o = "pop" => Bytes(p)' + NextSize(p)' <= WindowSize[p]
      BY <1>1, <1>2, <2>1, <2>2, <3>1 DEF ExcessOfOne, At
    <3> QED BY <2>5, <3>2, <3>3, <3>4 DEF ExcessOfOne, At
  <2>6. CASE m = "insert"
    <3>1. /\ pc[p][t] = "insert" /\ packet'[p][t] = packet[p][t]
          /\ HeldSize(p, t)' = HeldSize(p, t) /\ HeldSize(p, t) \in Nat
      BY <2>2, <2>6
    <3>2. o = "admit" => \/ IsHead(p, other)'
                         \/ packet'[p][other] = packet'[p][t]
                         \/ Bytes(p)' + HeldSize(p, t)' <= WindowSize[p]
      BY <1>1, <1>2, <2>1, <2>2, <3>1 DEF ExcessOfOne, At
    <3>3. o = "pop" => Bytes(p)' + HeldSize(p, t)' + NextSize(p)' <= Limit(p)'
      BY <1>1, <1>2, <2>1, <2>2, <3>1 DEF ExcessOfOne, At
    <3>4. Bytes(p)' + HeldSize(p, t)' <= WindowSize[p] + Largest
      BY <1>1, <1>2, <2>1, <3>1 DEF ExcessOfOne, At
    <3>5. o = "insert" =>
             Bytes(p)' + HeldSize(p, t)' + HeldSize(p, other)' <= WindowSize[p] + Largest
      BY <1>1, <1>2, <2>1, <2>2, <3>1 DEF ExcessOfOne, At
    <3> QED BY <2>6, <3>2, <3>3, <3>4, <3>5 DEF ExcessOfOne, At
  <2>7. CASE m \notin {"admit", "pop", "insert"}
    BY <2>7 DEF ExcessOfOne, At
  <2> QED BY <2>4, <2>5, <2>6, <2>7
<1> QED BY <1>1, <1>3, <1>4 DEF WindowIsBounded

\* Two threads, of which a step moves one.
LEMMA TwoThreads ==
    ASSUME NEW t \in Thread
    PROVE  \E other \in Thread : other # t /\ \A u \in Thread : u = t \/ u = other
BY DEF Thread

\* A step of a flush is a step of the thread that runs it.
LEMMA FlushMovesOne ==
    ASSUME TypeOK, NEW p \in Peer, NEW t \in Thread, NEW other \in Thread, other # t,
           FlushWindow(p, t)
    PROVE  pc'[p][other] = pc[p][other] /\ packet'[p][other] = packet[p][other]
<1>1. \E label : GoTo(p, t, label)
  BY DEF FlushWindow, Peek, Admit, PopHead, InsertPending, TransmitHead, CheckFirstPending,
         StartTimer
<1>2. pc'[p][other] = pc[p][other]
  BY <1>1, GoToEffect
<1>3. packet'[p][other] = packet[p][other]
  BY DEF FlushWindow, Peek, Admit, PopHead, InsertPending, TransmitHead, CheckFirstPending,
         StartTimer, TypeOK
<1> QED BY <1>2, <1>3

\* It is enough to look at the pair of the thread that moved and the other one.
LEMMA BoundedPair ==
    ASSUME NEW p \in Peer, NEW t \in Thread, NEW other \in Thread, other # t,
           \A u \in Thread : u = t \/ u = other,
           IsFiniteSet(pending'[p]), Bytes(p)' <= WindowSize[p] + Largest,
           ExcessOfOne(p, t, other)', ExcessOfOne(p, other, t)'
    PROVE  WindowIsBounded(p)'
<1>1. \A u \in Thread, v \in Thread : u # v => (u = t /\ v = other) \/ (u = other /\ v = t)
  OBVIOUS
<1>2. ASSUME NEW u \in Thread, NEW v \in Thread, u # v
      PROVE  ExcessOfOne(p, u, v)'
  <2>1. CASE u = t /\ v = other
    BY <2>1
  <2>2. CASE u = other /\ v = t
    BY <2>2
  <2> QED BY <1>1, <1>2, <2>1, <2>2
<1> QED BY <1>2 DEF WindowIsBounded

\* What a thread has measured is the head of the queue at that moment.
LEMMA BoundedPeek ==
    ASSUME TypeOK, TypeOK', Chunk # {}, NEW p \in Peer, SentIsChained(p), WindowIsGenuine(p),
           WindowIsBounded(p), NEW t \in Thread, Peek(p, t)
    PROVE  WindowIsBounded(p)'
<1>1. PICK other \in Thread : other # t /\ \A u \in Thread : u = t \/ u = other
  BY TwoThreads
<1>2. /\ pc'[p][other] = pc[p][other] /\ packet'[p][other] = packet[p][other]
      /\ pc[p][t] = "peek" /\ queue' = queue /\ pending' = pending
  BY <1>1, FlushMovesOne DEF FlushWindow, Peek, At, windowVars
<1>3. CASE pc'[p][t] = "admit"
  <2>1. queue[p] # << >> /\ packet'[p][t] = Head(queue[p])
    <3>1. \/ GoTo(p, t, Flushed(t)) \/ GoTo(p, t, Failed(t))
          \/ queue[p] # << >> /\ packet' = [packet EXCEPT ![p][t] = Head(queue[p])]
      BY DEF Peek
    <3>2. ~GoTo(p, t, Flushed(t)) /\ ~GoTo(p, t, Failed(t))
      BY <1>3, GoToEffect DEF Flushed, Failed
    <3> QED BY <3>1, <3>2 DEF TypeOK
  <2>2. IsHead(p, t)'
    BY <1>2, <2>1 DEF IsHead
  <2>3. /\ Bytes(p)' = Bytes(p) /\ NextSize(p)' = NextSize(p) /\ Limit(p)' = Limit(p)
        /\ HeldSize(p, other)' = HeldSize(p, other) /\ IsFiniteSet(pending'[p])
        /\ Bytes(p) <= WindowSize[p] + Largest
    BY <1>2 DEF Bytes, NextSize, Limit, HeldSize, WindowIsBounded
  <2>4. ExcessOfOne(p, other, t)
    BY <1>1 DEF WindowIsBounded
  <2>5. ExcessOfOne(p, t, other)'
    BY <1>3, <2>2 DEF ExcessOfOne, At
  <2> HIDE DEF IsHead, Bytes, NextSize, Limit, HeldSize
  <2>6. ExcessOfOne(p, other, t)'
    <3>1. pc[p][other] = "pop" => Bytes(p)' + NextSize(p)' <= Limit(p)'
      BY <1>2, <2>3, <2>4 DEF ExcessOfOne, At
    <3>2. pc[p][other] = "insert" => Bytes(p)' + HeldSize(p, other)' <= WindowSize[p] + Largest
      BY <1>2, <2>3, <2>4 DEF ExcessOfOne, At
    <3> QED BY <1>2, <1>3, <2>2, <3>1, <3>2 DEF ExcessOfOne, At
  <2> QED BY <1>1, <2>3, <2>5, <2>6, BoundedPair
<1>4. CASE pc'[p][t] # "admit"
  <2>1. pc'[p][t] \notin {"admit", "pop", "insert"}
    <3>1. GoTo(p, t, Flushed(t)) \/ GoTo(p, t, "admit") \/ GoTo(p, t, Failed(t))
      BY DEF Peek
    <3> QED BY <1>4, <3>1, GoToEffect DEF Flushed, Failed
  <2>2. \A u \in Thread :
          \/ pc'[p][u] = pc[p][u] /\ packet'[p][u] = packet[p][u]
          \/ /\ pc[p][u] \notin {"admit", "pop", "insert"}
             /\ pc'[p][u] \notin {"admit", "pop", "insert"}
    BY <1>1, <1>2, <2>1
  <2> QED BY <1>2, <2>2, BoundedQuiet
<1> QED BY <1>3, <1>4

\* A thread about to pop has measured the next segment, or the other thread has.
LEMMA BoundedAdmit ==
    ASSUME TypeOK, TypeOK', Chunk # {}, NEW p \in Peer, SentIsChained(p), WindowIsGenuine(p),
           WindowIsBounded(p), NEW t \in Thread, Admit(p, t)
    PROVE  WindowIsBounded(p)'
<1>1. PICK other \in Thread : other # t /\ \A u \in Thread : u = t \/ u = other
  BY TwoThreads
<1>2. /\ pc'[p][other] = pc[p][other] /\ packet'[p][other] = packet[p][other]
      /\ pc[p][t] = "admit" /\ queue' = queue /\ pending' = pending
  BY <1>1, FlushMovesOne DEF FlushWindow, Admit, At, windowVars
<1>3. /\ Bytes(p)' = Bytes(p) /\ NextSize(p)' = NextSize(p) /\ Limit(p)' = Limit(p)
      /\ HeldSize(p, other)' = HeldSize(p, other) /\ IsFiniteSet(pending'[p])
      /\ Bytes(p) <= WindowSize[p] + Largest /\ IsHead(p, other)' = IsHead(p, other)
  BY <1>2 DEF Bytes, NextSize, Limit, HeldSize, IsHead, WindowIsBounded
<1>4. ExcessOfOne(p, other, t) /\ ExcessOfOne(p, t, other)
  BY <1>1 DEF WindowIsBounded
<1>5. /\ Bytes(p) \in Nat /\ HeldSize(p, t) \in Nat /\ HeldSize(p, other) \in Nat
  BY WindowSizes, BytesType DEF WindowIsBounded, Bytes, TypeOK
<1>6. /\ NextSize(p) \in Nat /\ Largest \in Nat /\ WindowSize[p] \in Nat
      /\ queue[p] # << >> => /\ NextSize(p) = SequenceSpace(Head(queue[p]))
                             /\ NextSize(p) <= Largest
                             /\ Limit(p) = WindowSize[p] + Largest
      /\ queue[p] = << >> => NextSize(p) = 0 /\ Limit(p) = WindowSize[p]
  BY NextSizes
<1>7. pc[p][other] = "insert" =>
        /\ HeldSize(p, other) <= Largest
        /\ Bytes(p) + HeldSize(p, other) <= WindowSize[p] + Largest
  BY <1>4, WindowSizes DEF ExcessOfOne, At
<1>8. CASE CanSend(WindowSize[p], pending[p], SequenceSpace(packet[p][t])) /\ GoTo(p, t, "pop")
  <2>1. Bytes(p) + HeldSize(p, t) <= WindowSize[p]
    <3>1. HeldSize(p, t) <= WindowSize[p] - Bytes(p)
      BY <1>8 DEF CanSend, HeldSize, Bytes
    <3> QED BY <1>5, <1>6, <3>1
  <2>2. pc'[p][t] = "pop"
    BY <1>8, GoToEffect
  <2>3. IsHead(p, t) => queue[p] # << >> /\ HeldSize(p, t) = NextSize(p)
    BY <1>6 DEF IsHead, HeldSize
  <2>4. packet[p][t] = packet[p][other] => HeldSize(p, t) = HeldSize(p, other)
    BY DEF HeldSize
  <2> HIDE DEF IsHead, Bytes, NextSize, Limit, HeldSize
  <2>5. Bytes(p) + NextSize(p) <= Limit(p)
    BY <1>5, <1>6, <2>1
  <2>6. pc[p][other] = "admit" => IsHead(p, other) \/ Bytes(p) + NextSize(p) <= WindowSize[p]
    BY <1>2, <1>4, <2>1, <2>3 DEF ExcessOfOne, At
  <2>7. pc[p][other] = "pop" => Bytes(p) + NextSize(p) <= WindowSize[p]
    BY <1>2, <1>4, <2>1, <2>3 DEF ExcessOfOne, At
  <2>8. pc[p][other] = "insert" => Bytes(p) + HeldSize(p, other) + NextSize(p) <= Limit(p)
    <3> SUFFICES ASSUME pc[p][other] = "insert"
                 PROVE  Bytes(p) + HeldSize(p, other) + NextSize(p) <= Limit(p)
      OBVIOUS
    <3>1. \/ IsHead(p, t)
          \/ packet[p][t] = packet[p][other]
          \/ Bytes(p) + HeldSize(p, other) <= WindowSize[p]
      BY <1>2, <1>4 DEF ExcessOfOne, At
    <3>2. CASE IsHead(p, t)
      BY <1>5, <1>6, <1>7, <2>1, <2>3, <3>2
    <3>3. CASE Bytes(p) + HeldSize(p, other) <= WindowSize[p]
      BY <1>5, <1>6, <3>3
    <3>4. CASE packet[p][t] = packet[p][other]
      BY <2>1, <2>4, <3>3, <3>4
    <3> QED BY <3>1, <3>2, <3>3, <3>4
  <2>9. ExcessOfOne(p, t, other)'
    BY <1>2, <1>3, <2>2, <2>5, <2>6, <2>7 DEF ExcessOfOne, At
  <2>10. ExcessOfOne(p, other, t)'
    BY <1>2, <1>3, <1>7, <2>2, <2>7, <2>8 DEF ExcessOfOne, At
  <2> QED BY <1>1, <1>3, <2>9, <2>10, BoundedPair
<1>9. CASE GoTo(p, t, Flushed(t)) \/ GoTo(p, t, Failed(t))
  <2>1. pc'[p][t] \notin {"admit", "pop", "insert"}
    BY <1>9, GoToEffect DEF Flushed, Failed
  <2>2. ExcessOfOne(p, t, other)'
    BY <2>1 DEF ExcessOfOne, At
  <2> HIDE DEF IsHead, Bytes, NextSize, Limit, HeldSize
  <2>3. pc[p][other] = "pop" => Bytes(p) + NextSize(p) <= Limit(p)
    BY <1>2, <1>4 DEF ExcessOfOne, At
  <2>4. ExcessOfOne(p, other, t)'
    BY <1>2, <1>3, <1>7, <2>1, <2>3 DEF ExcessOfOne, At
  <2> QED BY <1>1, <1>3, <2>2, <2>4, BoundedPair
<1> QED BY <1>8, <1>9 DEF Admit

\* A thread that has popped holds what it or the other thread has measured.
LEMMA BoundedPop ==
    ASSUME TypeOK, TypeOK', Next, Chunk # {}, NEW p \in Peer, SentIsChained(p),
           WindowIsGenuine(p), WindowIsBounded(p), NEW t \in Thread, PopHead(p, t)
    PROVE  WindowIsBounded(p)'
<1>1. PICK other \in Thread : other # t /\ \A u \in Thread : u = t \/ u = other
  BY TwoThreads
<1>2. /\ pc'[p][other] = pc[p][other] /\ packet'[p][other] = packet[p][other]
      /\ pc[p][t] = "pop" /\ pending' = pending
  BY <1>1, FlushMovesOne DEF FlushWindow, PopHead, At
<1>3. /\ Bytes(p)' = Bytes(p) /\ HeldSize(p, other)' = HeldSize(p, other)
      /\ IsFiniteSet(pending'[p]) /\ Bytes(p) <= WindowSize[p] + Largest
  BY <1>2 DEF Bytes, HeldSize, WindowIsBounded
<1>4. ExcessOfOne(p, other, t) /\ ExcessOfOne(p, t, other)
  BY <1>1 DEF WindowIsBounded
<1>5. Bytes(p) \in Nat /\ HeldSize(p, other) \in Nat
  BY WindowSizes, BytesType DEF WindowIsBounded, Bytes, TypeOK
<1>6. /\ NextSize(p) \in Nat /\ Largest \in Nat /\ WindowSize[p] \in Nat
      /\ queue[p] # << >> => /\ NextSize(p) = SequenceSpace(Head(queue[p]))
                             /\ NextSize(p) <= Largest
                             /\ Limit(p) = WindowSize[p] + Largest
      /\ queue[p] = << >> => NextSize(p) = 0 /\ Limit(p) = WindowSize[p]
  BY NextSizes
<1>7. pc[p][other] = "insert" => Bytes(p) + HeldSize(p, other) <= WindowSize[p] + Largest
  BY <1>4 DEF ExcessOfOne, At
<1>8. CASE queue[p] # << >>
  <2>1. /\ pc'[p][t] = "insert" /\ packet'[p][t] = Head(queue[p])
        /\ queue'[p] = Tail(queue[p])
    BY <1>8, WindowPop
  <2>2. HeldSize(p, t)' = NextSize(p) /\ NextSize(p) <= Largest /\ Limit(p) = WindowSize[p] + Largest
    BY <1>6, <1>8, <2>1 DEF HeldSize
  <2>3. NextSize(p)' \in Nat /\ WindowSize[p] + NextSize(p)' <= Limit(p)'
    <3>1. queue[p] \in Seq(TTPPacket)
      BY DEF TypeOK
    <3>2. CASE queue'[p] = << >>
      BY <1>6, <3>2 DEF NextSize, Limit
    <3>3. CASE queue'[p] # << >>
      <4>1. 2 \in 1..Len(queue[p]) /\ Head(queue'[p]) = queue[p][2]
        BY <1>8, <2>1, <3>1, <3>3
      <4>2. SequenceSpace(queue[p][2]) \in Nat /\ SequenceSpace(queue[p][2]) <= Largest
        BY <4>1, WindowSizes
      <4> QED BY <1>6, <3>3, <4>1, <4>2 DEF NextSize, Limit
    <3> QED BY <3>2, <3>3
  <2>4. IsHead(p, other) => packet'[p][other] = packet'[p][t]
    BY <1>2, <2>1 DEF IsHead
  <2> DEFINE next == NextSize(p)'
             limit == Limit(p)'
             held == HeldSize(p, t)'
  <2>5. held = NextSize(p) /\ next \in Nat /\ WindowSize[p] + next <= limit
    BY <2>2, <2>3
  <2> HIDE DEF IsHead, Bytes, NextSize, Limit, HeldSize, next, limit, held
  <2>6. Bytes(p) + held <= WindowSize[p] + Largest
    <3>1. CASE pc[p][other] \notin {"pop", "insert"}
      BY <1>2, <1>4, <2>2, <2>5, <3>1 DEF ExcessOfOne, At
    <3>2. CASE pc[p][other] = "pop"
      BY <1>2, <1>4, <1>5, <1>6, <2>5, <3>2 DEF ExcessOfOne, At
    <3>3. CASE pc[p][other] = "insert"
      <4>1. Bytes(p) + HeldSize(p, other) + NextSize(p) <= Limit(p)
        BY <1>2, <1>4, <3>3 DEF ExcessOfOne, At
      <4> QED BY <1>5, <1>6, <2>2, <2>5, <4>1
    <3> QED BY <3>1, <3>2, <3>3
  <2>7. pc[p][other] = "admit" => \/ packet'[p][other] = packet'[p][t]
                                  \/ Bytes(p) + held <= WindowSize[p]
    BY <1>2, <1>4, <2>4, <2>5 DEF ExcessOfOne, At
  <2>8. pc[p][other] = "pop" => Bytes(p) + held + next <= limit
    <3> SUFFICES ASSUME pc[p][other] = "pop" PROVE Bytes(p) + held + next <= limit
      OBVIOUS
    <3>1. Bytes(p) + NextSize(p) <= WindowSize[p]
      BY <1>2, <1>4 DEF ExcessOfOne, At
    <3>2. limit \in Int
      <4>1. Limit(p)' = WindowSize[p] \/ Limit(p)' = WindowSize[p] + Largest
        BY DEF Limit
      <4> QED BY <1>6, <4>1 DEF limit
    <3> QED BY <1>5, <1>6, <2>5, <3>1, <3>2
  <2>9. pc[p][other] = "insert" =>
          Bytes(p) + held + HeldSize(p, other) <= WindowSize[p] + Largest
    <3> SUFFICES ASSUME pc[p][other] = "insert"
                 PROVE  Bytes(p) + held + HeldSize(p, other) <= WindowSize[p] + Largest
      OBVIOUS
    <3>1. Bytes(p) + HeldSize(p, other) + NextSize(p) <= Limit(p)
      BY <1>2, <1>4 DEF ExcessOfOne, At
    <3> QED BY <1>5, <1>6, <2>2, <2>5, <3>1
  <2>10. ExcessOfOne(p, t, other)'
    BY <1>2, <1>3, <2>1, <2>6, <2>7, <2>8, <2>9 DEF ExcessOfOne, At, next, limit, held
  <2>11. ExcessOfOne(p, other, t)'
    <3>1. pc[p][other] = "insert" =>
            Bytes(p) + HeldSize(p, other) + held <= WindowSize[p] + Largest
      BY <1>5, <1>6, <2>5, <2>9
    <3> QED BY <1>2, <1>3, <1>7, <2>1, <3>1 DEF ExcessOfOne, At, next, limit, held
  <2> QED BY <1>1, <1>3, <2>10, <2>11, BoundedPair
<1>9. CASE queue[p] = << >>
  <2>1. queue'[p] = queue[p] /\ pc'[p][t] \in {"raised", "dead"}
    BY <1>9, WindowPop
  <2>2. NextSize(p)' = NextSize(p) /\ Limit(p)' = Limit(p)
    BY <2>1 DEF NextSize, Limit
  <2>3. ExcessOfOne(p, t, other)'
    BY <2>1 DEF ExcessOfOne, At
  <2> HIDE DEF IsHead, Bytes, NextSize, Limit, HeldSize
  <2>4. pc[p][other] = "pop" => Bytes(p) + NextSize(p) <= Limit(p)
    BY <1>2, <1>4, <1>6, <1>9 DEF ExcessOfOne, At
  <2>5. ExcessOfOne(p, other, t)'
    BY <1>2, <1>3, <1>7, <2>1, <2>2, <2>4 DEF ExcessOfOne, At
  <2> QED BY <1>1, <1>3, <2>3, <2>5, BoundedPair
<1> QED BY <1>8, <1>9

\* An insertion puts in flight what the thread held.
LEMMA BoundedInsert ==
    ASSUME TypeOK, TypeOK', Chunk # {}, NEW p \in Peer, SentIsChained(p), WindowIsGenuine(p),
           WindowIsBounded(p), NEW t \in Thread, InsertPending(p, t)
    PROVE  WindowIsBounded(p)'
<1>1. PICK other \in Thread : other # t /\ \A u \in Thread : u = t \/ u = other
  BY TwoThreads
<1>2. /\ pc'[p][other] = pc[p][other] /\ packet'[p][other] = packet[p][other]
      /\ pc[p][t] = "insert" /\ pc'[p][t] = "transmit" /\ queue' = queue
  BY <1>1, FlushMovesOne, GoToEffect DEF FlushWindow, InsertPending, At
<1>3. /\ NextSize(p)' = NextSize(p) /\ Limit(p)' = Limit(p)
      /\ HeldSize(p, other)' = HeldSize(p, other)
  BY <1>2 DEF NextSize, Limit, HeldSize
<1>4. ExcessOfOne(p, t, other)
  BY <1>1 DEF WindowIsBounded
<1>5. /\ Bytes(p) \in Nat /\ HeldSize(p, t) \in Nat /\ HeldSize(p, other) \in Nat
  BY WindowSizes, BytesType DEF WindowIsBounded, Bytes, TypeOK
<1>6. NextSize(p) \in Nat /\ Limit(p) \in Nat /\ Largest \in Nat /\ WindowSize[p] \in Nat
  BY NextSizes
<1>7. IsFiniteSet(pending'[p]) /\ Bytes(p)' \in Nat /\ Bytes(p)' <= Bytes(p) + HeldSize(p, t)
  <2> DEFINE e == [packet |-> packet[p][t], position |-> inserted[p]]
  <2>1. e \in PendingEntry /\ e.packet = packet[p][t]
    BY DEF PendingEntry, TypeOK
  <2>2. pending'[p] = pending[p] \cup {e}
    BY DEF InsertPending, MarkPending, TypeOK
  <2> HIDE DEF e
  <2>3. pending[p] \in SUBSET PendingEntry /\ IsFiniteSet(pending[p])
    BY DEF TypeOK, WindowIsBounded
  <2>4. IsFiniteSet(pending'[p]) /\ pending'[p] \in SUBSET PendingEntry
    BY <2>1, <2>2, <2>3, FS_AddElement
  <2>5. BytesInFlight(pending'[p]) \in Nat
    BY <2>4, BytesType
  <2>6. BytesInFlight(pending'[p]) <= BytesInFlight(pending[p]) + SequenceSpace(packet[p][t])
    BY <2>1, <2>2, <2>3, BytesAdd
  <2> QED BY <2>4, <2>5, <2>6 DEF Bytes, HeldSize
<1> HIDE DEF IsHead, Bytes, NextSize, Limit, HeldSize
<1> DEFINE bytes == Bytes(p)'
<1>8. bytes \in Nat /\ bytes <= Bytes(p) + HeldSize(p, t)
  BY <1>7
<1> HIDE DEF bytes
<1>9. bytes <= WindowSize[p] + Largest
  <2>1. Bytes(p) + HeldSize(p, t) <= WindowSize[p] + Largest
    BY <1>2, <1>4 DEF ExcessOfOne, At
  <2> QED BY <1>5, <1>6, <1>8, <2>1
<1>10. pc[p][other] = "pop" => bytes + NextSize(p) <= Limit(p)
  <2> SUFFICES ASSUME pc[p][other] = "pop" PROVE bytes + NextSize(p) <= Limit(p)
    OBVIOUS
  <2>1. Bytes(p) + HeldSize(p, t) + NextSize(p) <= Limit(p)
    BY <1>2, <1>4 DEF ExcessOfOne, At
  <2> QED BY <1>5, <1>6, <1>8, <2>1
<1>11. pc[p][other] = "insert" => bytes + HeldSize(p, other) <= WindowSize[p] + Largest
  <2> SUFFICES ASSUME pc[p][other] = "insert"
               PROVE  bytes + HeldSize(p, other) <= WindowSize[p] + Largest
    OBVIOUS
  <2>1. Bytes(p) + HeldSize(p, t) + HeldSize(p, other) <= WindowSize[p] + Largest
    BY <1>2, <1>4 DEF ExcessOfOne, At
  <2> QED BY <1>5, <1>6, <1>8, <2>1
<1>12. ExcessOfOne(p, t, other)'
  BY <1>2 DEF ExcessOfOne, At
<1>13. ExcessOfOne(p, other, t)'
  BY <1>2, <1>3, <1>10, <1>11 DEF ExcessOfOne, At, bytes
<1> QED BY <1>1, <1>7, <1>9, <1>12, <1>13, BoundedPair DEF bytes

\* A segment built while the receiver is about to pop from an empty queue is the
\* one it pops without having measured it.
LEMMA BoundedBuild ==
    ASSUME TypeOK, TypeOK', Next, Chunk # {}, NEW p \in Peer, SentIsChained(p),
           WindowIsGenuine(p), WindowIsBounded(p), BuildChunk(p)
    PROVE  WindowIsBounded(p)'
<1>1. /\ "app" \in Thread /\ "receiver" \in Thread /\ "app" # "receiver"
      /\ \A u \in Thread : u = "app" \/ u = "receiver"
  BY DEF Thread
<1>2. /\ pc'[p]["receiver"] = pc[p]["receiver"] /\ packet' = packet
      /\ pc[p]["app"] \in {"idle", "building"} /\ pc'[p]["app"] = "building"
      /\ pending' = pending
  BY <1>1, GoToEffect DEF BuildChunk, At
<1>3. /\ Bytes(p)' = Bytes(p) /\ HeldSize(p, "receiver")' = HeldSize(p, "receiver")
      /\ IsFiniteSet(pending'[p]) /\ Bytes(p) <= WindowSize[p] + Largest
  BY <1>2 DEF Bytes, HeldSize, WindowIsBounded
<1>4. ExcessOfOne(p, "receiver", "app")
  BY <1>1 DEF WindowIsBounded
<1>5. Bytes(p) \in Nat
  BY BytesType DEF WindowIsBounded, Bytes, TypeOK
<1>6. /\ NextSize(p) \in Nat /\ Largest \in Nat /\ WindowSize[p] \in Nat
      /\ queue[p] # << >> => Limit(p) = WindowSize[p] + Largest
      /\ queue[p] = << >> => NextSize(p) = 0 /\ Limit(p) = WindowSize[p]
  BY NextSizes
<1>7. /\ NextSize(p)' \in Nat /\ Limit(p)' = WindowSize[p] + Largest
      /\ queue[p] = << >> => NextSize(p)' <= Largest
      /\ queue[p] # << >> => NextSize(p)' = NextSize(p)
  <2>1. PICK pk \in TTPPacket :
          /\ pk.flags = {"DATA"} /\ pk.payload \in Chunk
          /\ queue' = [queue EXCEPT ![p] = Append(@, pk)]
    BY BuildChunkEffect, TypeParts
  <2>2. queue'[p] = Append(queue[p], pk) /\ queue[p] \in Seq(TTPPacket)
    BY <2>1 DEF TypeOK
  <2>3. SequenceSpace(pk) \in Nat /\ SequenceSpace(pk) <= Largest
    BY <2>1, DataSpace, LargestChunk
  <2>4. queue'[p] # << >>
    BY <2>2
  <2>5. Head(queue'[p]) = IF queue[p] = << >> THEN pk ELSE Head(queue[p])
    <3>1. Head(queue'[p]) = queue'[p][1]
      BY <2>2, <2>4
    <3>2. CASE queue[p] = << >>
      BY <2>2, <3>1, <3>2
    <3>3. CASE queue[p] # << >>
      <4>1. 1 \in 1..Len(queue[p]) /\ Head(queue[p]) = queue[p][1]
        BY <2>2, <3>3
      <4> QED BY <2>2, <3>1, <3>3, <4>1
    <3> QED BY <3>2, <3>3
  <2>6. Limit(p)' = WindowSize[p] + Largest
    BY <2>4 DEF Limit
  <2>7. CASE queue[p] = << >>
    <3>1. NextSize(p)' = SequenceSpace(pk)
      BY <2>4, <2>5, <2>7 DEF NextSize
    <3> QED BY <2>3, <2>6, <2>7, <3>1
  <2>8. CASE queue[p] # << >>
    <3>1. NextSize(p)' = NextSize(p)
      BY <2>4, <2>5, <2>8 DEF NextSize
    <3> QED BY <1>6, <2>6, <2>8, <3>1
  <2> QED BY <2>7, <2>8
<1> HIDE DEF IsHead, Bytes, NextSize, Limit, HeldSize
<1> DEFINE next == NextSize(p)'
<1>8. pc[p]["receiver"] = "pop" => Bytes(p) + next <= WindowSize[p] + Largest
  <2> SUFFICES ASSUME pc[p]["receiver"] = "pop"
               PROVE  Bytes(p) + next <= WindowSize[p] + Largest
    OBVIOUS
  <2>1. Bytes(p) + NextSize(p) <= Limit(p)
    BY <1>2, <1>4 DEF ExcessOfOne, At
  <2>2. /\ next \in Nat
        /\ queue[p] = << >> => next <= Largest
        /\ queue[p] # << >> => next = NextSize(p)
    BY <1>7
  <2> HIDE DEF next
  <2> QED BY <1>5, <1>6, <2>1, <2>2
<1>9. pc[p]["receiver"] = "insert" =>
        Bytes(p) + HeldSize(p, "receiver") <= WindowSize[p] + Largest
  BY <1>4 DEF ExcessOfOne, At
<1>10. ExcessOfOne(p, "app", "receiver")'
  BY <1>2 DEF ExcessOfOne, At
<1>11. ExcessOfOne(p, "receiver", "app")'
  BY <1>2, <1>3, <1>7, <1>8, <1>9 DEF ExcessOfOne, At
<1> QED BY <1>1, <1>3, <1>10, <1>11, BoundedPair

\* Every step keeps the bound.
LEMMA BoundedStep ==
    ASSUME TypeOK, Next, Chunk # {}, NEW p \in Peer, SentIsChained(p), WindowIsGenuine(p),
           WindowIsBounded(p)
    PROVE  WindowIsBounded(p)'
<1>1. TypeOK'
  BY StepTypes
<1>2. "receiver" \in Thread
  BY DEF Thread
<1>3. ASSUME NEW t \in Thread, FlushWindow(p, t)
      PROVE  WindowIsBounded(p)'
  <2>1. CASE TransmitHead(p, t) \/ CheckFirstPending(p, t) \/ StartTimer(p, t)
    <3>1. queue' = queue /\ pending' = pending
      BY <2>1 DEF TransmitHead, CheckFirstPending, StartTimer, windowVars
    <3>2. pc[p][t] \in {"transmit", "timer", "start"}
      BY <2>1 DEF TransmitHead, CheckFirstPending, StartTimer, At
    <3>3. pc'[p][t] \notin {"admit", "pop", "insert"}
      BY <2>1, GoToEffect DEF TransmitHead, CheckFirstPending, StartTimer, Failed
    <3>4. \A u \in Thread :
            \/ pc'[p][u] = pc[p][u] /\ packet'[p][u] = packet[p][u]
            \/ /\ pc[p][u] \notin {"admit", "pop", "insert"}
               /\ pc'[p][u] \notin {"admit", "pop", "insert"}
      BY <1>3, <3>2, <3>3, FlushMovesOne
    <3> QED BY <1>1, <3>1, <3>4, BoundedQuiet
  <2> QED BY <1>1, <1>3, <2>1, BoundedPeek, BoundedAdmit, BoundedPop, BoundedInsert
          DEF FlushWindow
<1>4. CASE ProcessAck(p)
  <2>1. queue' = queue /\ packet' = packet /\ pc[p]["receiver"] = "ack"
    BY <1>4 DEF ProcessAck, At
  <2>2. pending'[p] \subseteq pending[p]
    BY <1>4 DEF ProcessAck, Unacknowledged, TypeOK
  <2>3. \A u \in Thread :
          \/ pc'[p][u] = pc[p][u] /\ packet'[p][u] = packet[p][u]
          \/ /\ pc[p][u] \notin {"admit", "pop", "insert"}
             /\ pc'[p][u] \notin {"admit", "pop", "insert"}
    <3>1. GoTo(p, "receiver", "peek") \/ GoTo(p, "receiver", "dead")
      BY <1>4 DEF ProcessAck
    <3> QED BY <1>2, <2>1, <3>1, GoToEffect
  <2> QED BY <1>1, <2>1, <2>2, <2>3, BoundedQuiet
<1>5. CASE Quiet(p)
  <2>1. \A u \in Thread :
          \/ pc'[p][u] = pc[p][u] /\ packet'[p][u] = packet[p][u]
          \/ /\ pc[p][u] \notin {"admit", "pop", "insert"}
             /\ pc'[p][u] \notin {"admit", "pop", "insert"}
    BY <1>5 DEF Quiet, InFlush, FlushLabel
  <2> QED BY <1>1, <1>5, <2>1, BoundedQuiet DEF Quiet
<1>6. CASE BuildChunk(p)
  BY <1>1, <1>6, BoundedBuild
<1> QED BY <1>3, <1>4, <1>5, <1>6, ThreadFrame

\* What is in flight, what the threads hold and what they have measured stay
\* within the window and one segment.
THEOREM BoundInvariance ==
    ASSUME Chunk # {}
    PROVE  Spec => [](\A p \in Peer : WindowIsBounded(p))
<1>1. Init => \A p \in Peer : WindowIsBounded(p)
  <2> SUFFICES ASSUME Init, NEW p \in Peer PROVE WindowIsBounded(p)
    OBVIOUS
  <2>1. /\ pending[p] = {}
        /\ \A t \in Thread : pc[p][t] \in {"idle", "wait"}
    BY DEF Init, Thread
  <2>2. IsFiniteSet(pending[p]) /\ Bytes(p) = 0
    BY <2>1, FS_EmptySet, BytesByPicked DEF Bytes
  <2>3. Bytes(p) <= WindowSize[p] + Largest
    BY <2>2, TransferAssumption, LargestChunk
  <2>4. \A t \in Thread, other \in Thread : t # other => ExcessOfOne(p, t, other)
    BY <2>1 DEF ExcessOfOne, At
  <2> QED BY <2>2, <2>3, <2>4 DEF WindowIsBounded
<1>2. IInv /\ (\A p \in Peer : WindowIsBounded(p)) /\ [Next]_vars
        => (\A p \in Peer : WindowIsBounded(p))'
  <2> SUFFICES ASSUME IInv, \A p \in Peer : WindowIsBounded(p), [Next]_vars, NEW p \in Peer
               PROVE  WindowIsBounded(p)'
    OBVIOUS
  <2>1. TypeOK /\ SentIsChained(p) /\ WindowIsGenuine(p)
    BY DEF IInv
  <2>2. CASE Next
    BY <2>1, <2>2, BoundedStep
  <2>3. CASE UNCHANGED vars
    <3>1. UNCHANGED <<queue, pending, packet, pc>>
      BY <2>3 DEF vars, windowVars
    <3>2. TypeOK'
      BY <2>1, <2>3 DEF TypeOK, vars, sequenceVars, windowVars, receiveVars, historyVars
    <3> QED BY <2>1, <3>1, <3>2, BoundedQuiet
  <2> QED BY <2>2, <2>3
<1> QED BY <1>1, <1>2, Invariance, PTL DEF Spec

\* However the two flushes interleave, what is in flight exceeds the window by no
\* more than one segment.
THEOREM ExcessIsOneSegment ==
    ASSUME Chunk # {}
    PROVE  Spec => []ExcessIsBounded
<1>1. (\A p \in Peer : WindowIsBounded(p)) => ExcessIsBounded
  BY DEF WindowIsBounded, ExcessIsBounded, Bytes, Largest
<1> QED BY <1>1, BoundInvariance, PTL
=============================================================================
