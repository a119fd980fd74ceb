------------------------- MODULE EquicCountersProofs -------------------------
(***************************************************************************)
(* What the operations on the counters map do, for every map: lemmas for   *)
(* the proofs about the servers that use it.                               *)
(***************************************************************************)
EXTENDS EquicCounters, FiniteSetTheorems, TLAPS

(* A counter put under an address leaves a map of counters. *)
LEMMA PutType ==
  ASSUME NEW m, IsCounterMap(m), NEW a \in Addr, NEW v \in Nat
  PROVE  IsCounterMap(Put(m, a, v))
BY DEF IsCounterMap, Put

(* So does an increment, whatever becomes of the update. *)
LEMMA IncType ==
  ASSUME NEW m, IsCounterMap(m), NEW a \in Addr,
         NEW m2 \in equic_inc_counter(m, a)
  PROVE  IsCounterMap(m2)
<1>1. CASE a \in DOMAIN m
  <2>1. m[a] + 1 \in Nat
    BY <1>1 DEF IsCounterMap
  <2>2. IsCounterMap(Put(m, a, m[a] + 1))
    BY <2>1, PutType
  <2> QED
    BY <1>1, <2>2 DEF equic_inc_counter, Replace, Failed
<1>2. CASE a \notin DOMAIN m
  <2>1. IsCounterMap(Put(m, a, 1))
    BY PutType
  <2> QED
    BY <1>2, <2>1 DEF equic_inc_counter, Insert, Failed
<1> QED
  BY <1>1, <1>2

(* So does a decrement: it finds zero and lets it be. *)
LEMMA DecType ==
  ASSUME NEW m, IsCounterMap(m), NEW a, NEW m2 \in equic_dec_counter(m, a)
  PROVE  IsCounterMap(m2)
<1>1. CASE a \in DOMAIN m /\ m[a] # 0
  <2>1. a \in Addr /\ m[a] - 1 \in Nat
    BY <1>1 DEF IsCounterMap
  <2>2. IsCounterMap(Put(m, a, m[a] - 1))
    BY <2>1, PutType
  <2> QED
    BY <1>1, <2>2 DEF equic_dec_counter, Replace, Failed
<1>2. CASE ~ (a \in DOMAIN m /\ m[a] # 0)
  BY <1>2 DEF equic_dec_counter
<1> QED
  BY <1>1, <1>2

(* An increment that cannot fail adds one, unless it finds the map full.   *)
LEMMA IncEffect ==
  ASSUME NEW m, NEW a, NEW m2 \in equic_inc_counter(m, a), ~ UpdateMayFail
  PROVE  m2 = IF a \in DOMAIN m THEN Put(m, a, m[a] + 1)
              ELSE IF HasRoom(m) THEN Put(m, a, 1) ELSE m
BY DEF equic_inc_counter, Replace, Insert, Failed

(* A decrement that cannot fail takes one off an entry that has one. *)
LEMMA DecEffect ==
  ASSUME NEW m, NEW a, NEW m2 \in equic_dec_counter(m, a), ~ UpdateMayFail
  PROVE  m2 = IF a \in DOMAIN m /\ m[a] # 0 THEN Put(m, a, m[a] - 1) ELSE m
BY DEF equic_dec_counter, Replace, Failed

(* No room is won by adding an entry. *)
LEMMA RoomOnlyShrinks ==
  ASSUME NEW m, IsCounterMap(m), NEW a \in Addr, NEW v, HasRoom(Put(m, a, v))
  PROVE  HasRoom(m)
<1> DEFINE D == DOMAIN m \cup {a}
<1>1. D \subseteq Addr /\ IsFiniteSet(Addr)
  BY CountersAssumption DEF IsCounterMap
<1>2. IsFiniteSet(D)
  BY <1>1, FS_Subset
<1>3. IsFiniteSet(DOMAIN m) /\ Cardinality(DOMAIN m) <= Cardinality(D)
  BY <1>2, FS_Subset
<1>4. Cardinality(D) \in Nat /\ Cardinality(DOMAIN m) \in Nat
  BY <1>2, <1>3, FS_CardinalityType
<1>5. DOMAIN Put(m, a, v) = D
  BY DEF Put
<1>6. Cardinality(D) < MAX_ENTRIES
  BY <1>5 DEF HasRoom
<1>7. MAX_ENTRIES \in Nat
  BY CountersAssumption
<1> HIDE DEF D
<1> QED
  BY <1>3, <1>4, <1>6, <1>7 DEF HasRoom

=============================================================================
