---------------------------- MODULE LIDMapProofs ----------------------------
(***************************************************************************)
(* Theorems about LIDMap: the types and the bound of the two maps, that    *)
(* they are each other's inverse and tell what the table holds, and that   *)
(* the cache implements LIDStore.                                          *)
(***************************************************************************)
EXTENDS LIDMap, FiniteSetTheorems, TLAPS

Tables == [Lids -> Pns \cup {Nobody}]
PNMaps == [Pns -> Lids \cup {Nobody, Absent}]
LIDMaps == [Lids -> Pns \cup {Nobody, Absent}]

\* The two maps have their types, and neither is larger than Max.
MapsOK ==
    /\ pnToLID \in PNMaps /\ lidToPN \in LIDMaps
    /\ Cardinality(Present(pnToLID)) <= Max /\ Cardinality(Present(lidToPN)) <= Max

-----------------------------------------------------------------------------
(* Tables                                                                  *)

\* What the partner of a source is, without the choice in its definition.
LEMMA PartnerFacts ==
    ASSUME NEW t \in Tables, Abstract!OneToOne(t)
    PROVE  /\ \A l \in Lids : Partner(t, l) = t[l]
           /\ \A p \in Pns, l \in Lids : Partner(t, p) = l <=> t[l] = p
           /\ \A p \in Pns : Partner(t, p) \in Lids \cup {Nobody}
           /\ \A p \in Pns : Partner(t, p) = Nobody <=> \A l \in Lids : t[l] # p
  <1>1. \A l \in Lids : Partner(t, l) = t[l]
    BY DEF Partner, Abstract!Partner
  <1>2. ASSUME NEW p \in Pns
        PROVE  /\ \A l \in Lids : Partner(t, p) = l <=> t[l] = p
               /\ Partner(t, p) \in Lids \cup {Nobody}
               /\ Partner(t, p) = Nobody <=> \A l \in Lids : t[l] # p
    <2>1. p \notin Lids /\ p # Nobody /\ Nobody \notin Lids
      BY LIDMapAssumption DEF Sources
    <2>2. CASE \E l \in Lids : t[l] = p
      <3> DEFINE k == CHOOSE l \in Lids : t[l] = p
      <3>1. k \in Lids /\ t[k] = p
        BY <2>2
      <3>2. Partner(t, p) = k
        BY <2>1, <2>2 DEF Partner, Abstract!Partner
      <3>3. \A l \in Lids : t[l] = p => l = k
        BY <3>1, <2>1 DEF Abstract!OneToOne
      <3> QED BY <3>1, <3>2, <3>3, <2>1
    <2>3. CASE ~ \E l \in Lids : t[l] = p
      <3>1. Partner(t, p) = Nobody
        BY <2>1, <2>3 DEF Partner, Abstract!Partner
      <3> QED BY <3>1, <2>3, <2>1
    <2> QED BY <2>2, <2>3
  <1> QED BY <1>1, <1>2

\* Storing a pair keeps a table one to one and changes the partners of the pair and
\* of those who were paired with them.
LEMMA StoredFacts ==
    ASSUME NEW t \in Tables, Abstract!OneToOne(t), NEW l \in Lids, NEW p \in Pns
    PROVE  /\ Stored(t, l, p) \in Tables
           /\ Abstract!OneToOne(Stored(t, l, p))
           /\ Partner(Stored(t, l, p), l) = p /\ Partner(Stored(t, l, p), p) = l
           /\ \A s \in Sources \ {l, p} :
                 Partner(Stored(t, l, p), s) =
                     IF Partner(t, s) \in {l, p} THEN Nobody ELSE Partner(t, s)
  <1> DEFINE u == Stored(t, l, p)
  <1>a. Lids \cap Pns = {} /\ Nobody \notin Pns /\ Nobody \notin Lids
    BY LIDMapAssumption DEF Sources
  <1>1. u \in Tables
    BY DEF Stored, Tables
  <1>2. \A k \in Lids : u[k] = IF k = l THEN p ELSE IF t[k] = p THEN Nobody ELSE t[k]
    BY DEF Stored
  <1> HIDE DEF u
  <1>3. Abstract!OneToOne(u)
    BY <1>2, <1>a DEF Abstract!OneToOne
  <1>4. Partner(u, l) = p /\ Partner(u, p) = l
    BY <1>1, <1>2, <1>3, PartnerFacts
  <1>5. ASSUME NEW s \in Lids, s # l
        PROVE  Partner(u, s) = IF Partner(t, s) \in {l, p} THEN Nobody ELSE Partner(t, s)
    <2>1. Partner(u, s) = u[s] /\ Partner(t, s) = t[s] /\ t[s] # l
      BY <1>1, <1>3, <1>a, PartnerFacts DEF Tables
    <2> QED BY <2>1, <1>2, <1>5
  <1>6. ASSUME NEW s \in Pns, s # p
        PROVE  Partner(u, s) = IF Partner(t, s) \in {l, p} THEN Nobody ELSE Partner(t, s)
    <2>1. Partner(t, s) \in Lids \cup {Nobody} /\ Partner(t, s) # p
      BY PartnerFacts, <1>a
    <2>2. CASE Partner(t, s) = l
      <3>1. \A k \in Lids : t[k] = s => k = l
        BY <2>2, PartnerFacts
      <3>2. \A k \in Lids : u[k] # s
        BY <3>1, <1>2, <1>6, <1>a
      <3> QED BY <3>2, <2>2, <1>1, <1>3, PartnerFacts
    <2>3. CASE Partner(t, s) \in Lids \ {l}
      <3>1. t[Partner(t, s)] = s
        BY <2>3, PartnerFacts
      <3>2. u[Partner(t, s)] = s
        BY <3>1, <2>3, <1>2, <1>6
      <3> QED BY <3>2, <2>3, <2>1, <1>1, <1>3, PartnerFacts
    <2>4. CASE Partner(t, s) = Nobody
      <3>1. \A k \in Lids : t[k] # s
        BY <2>4, PartnerFacts
      <3>2. \A k \in Lids : u[k] # s
        BY <3>1, <1>2, <1>6, <1>a
      <3> QED BY <3>2, <2>4, <2>1, <1>a, <1>1, <1>3, PartnerFacts
    <2> QED BY <2>1, <2>2, <2>3, <2>4
  <1> QED BY <1>1, <1>3, <1>4, <1>5, <1>6 DEF u, Sources

-----------------------------------------------------------------------------
(* The maps                                                                *)

\* A set that gets k fits if it has room or gives up v.
LEMMA Room ==
    ASSUME NEW S, IsFiniteSet(S), Cardinality(S) <= Max, NEW k, NEW v, NEW T,
           T \subseteq (S \ {v}) \cup {k},
           k \in S \/ Cardinality(S) < Max \/ v \in S
    PROVE  Cardinality(T) <= Max
  <1>0. Max \in Nat /\ Cardinality(S) \in Nat
    BY LIDMapAssumption, FS_CardinalityType
  <1>1. CASE k \in S
    <2>1. T \in SUBSET S
      BY <1>1
    <2>2. Cardinality(T) <= Cardinality(S) /\ IsFiniteSet(T)
      BY <2>1, FS_Subset
    <2>3. Cardinality(T) \in Nat
      BY <2>2, FS_CardinalityType
    <2> QED BY <2>2, <2>3, <1>0
  <1>2. CASE k \notin S
    <2> DEFINE R == S \ {v}
    <2>1. IsFiniteSet(R) /\ Cardinality(R) = IF v \in S THEN Cardinality(S) - 1 ELSE Cardinality(S)
      BY FS_RemoveElement
    <2>2. Cardinality(R) < Max
      BY <2>1, <1>0, <1>2
    <2> HIDE DEF R
    <2>3. IsFiniteSet(R \cup {k}) /\ Cardinality(R \cup {k}) <= Cardinality(R) + 1
      <3>1. Cardinality(R) \in Nat
        BY <2>1, FS_CardinalityType
      <3>2. IsFiniteSet(R)
        BY <2>1
      <3>3. /\ IsFiniteSet(R \cup {k})
            /\ Cardinality(R \cup {k}) = IF k \in R THEN Cardinality(R) ELSE Cardinality(R) + 1
        BY ONLY <3>2, FS_AddElement
      <3> QED BY <3>1, <3>3
    <2>4. T \in SUBSET (R \cup {k})
      BY DEF R
    <2>5. IsFiniteSet(T) /\ Cardinality(T) <= Cardinality(R \cup {k})
      BY <2>3, <2>4, FS_Subset
    <2>6. Cardinality(T) \in Nat /\ Cardinality(R \cup {k}) \in Nat /\ Cardinality(R) \in Nat
      BY <2>1, <2>3, <2>5, FS_CardinalityType
    <2> QED BY <2>2, <2>3, <2>5, <2>6, <1>0
  <1> QED BY <1>1, <1>2

LEMMA PresentFinite ==
    /\ \A m \in PNMaps : IsFiniteSet(Present(m))
    /\ \A m \in LIDMaps : IsFiniteSet(Present(m))
  <1>1. ASSUME NEW m \in PNMaps PROVE IsFiniteSet(Present(m))
    <2>1. Present(m) \in SUBSET Pns
      BY DEF Present, PNMaps
    <2> QED BY <2>1, FS_Subset, LIDMapAssumption
  <1>2. ASSUME NEW m \in LIDMaps PROVE IsFiniteSet(Present(m))
    <2>1. Present(m) \in SUBSET Lids
      BY DEF Present, LIDMaps
    <2> QED BY <2>1, FS_Subset, LIDMapAssumption
  <1> QED BY <1>1, <1>2

\* cacheMappingLocked: the pair is cached, the maps stay inverse and within their
\* bound, and of the other entries only those of the pair's former partners and of
\* the two victims and their partners go.
LEMMA MappingStep ==
    ASSUME MapsOK, MapsAgree, NEW l \in Lids, NEW p \in Pns,
           NEW v \in Pns \cup {Nil}, NEW w \in Lids \cup {Nil},
           cacheMappingLocked(l, p, v, w)
    PROVE  /\ MapsOK' /\ MapsAgree'
           /\ pnToLID'[p] = l /\ lidToPN'[l] = p
           /\ \A q \in Pns \ {p} :
                 \/ pnToLID'[q] = pnToLID[q]
                 \/ /\ pnToLID'[q] = Absent
                    /\ pnToLID[q] = l \/ q = v \/ pnToLID[q] = w
           /\ \A k \in Lids \ {l} :
                 \/ lidToPN'[k] = lidToPN[k]
                 \/ /\ lidToPN'[k] = Absent
                    /\ lidToPN[k] = p \/ k = w \/ lidToPN[k] = v
  <1> DEFINE pns == FreshPNs(l, p)
             fresh == FreshLIDs(l, p)
             lids == EvictedReverse(pns, fresh, v)
             pns2 == EvictedReverse(lids, Evicted(pns, v), w)
             lids2 == Evicted(lids, w)
  <1>a. /\ Lids \cap Pns = {} /\ Nobody \notin Pns \cup Lids /\ Absent \notin Pns \cup Lids
        /\ Nil \notin Pns \cup Lids /\ Absent # Nobody
    BY LIDMapAssumption DEF Sources
  <1>b. /\ v \in Victims(pns, p) /\ w \in Victims(lids, l)
        /\ pnToLID' = [pns2 EXCEPT ![p] = l]
        /\ lidToPN' = [lids2 EXCEPT ![l] = p]
    BY DEF cacheMappingLocked
  <1>c. pnToLID \in PNMaps /\ lidToPN \in LIDMaps
    BY DEF MapsOK
  <1>1. /\ pns \in PNMaps /\ fresh \in LIDMaps
        /\ \A q \in Pns : pns[q] = IF q # p /\ pnToLID[q] = l THEN Absent ELSE pnToLID[q]
        /\ \A k \in Lids : fresh[k] = IF k # l /\ lidToPN[k] = p THEN Absent ELSE lidToPN[k]
    BY <1>c, <1>a DEF FreshPNs, FreshLIDs, Without, PNMaps, LIDMaps, MapsAgree
  <1> HIDE DEF pns, fresh
  <1>2. v # Nil => v \in Pns \ {p} /\ pns[v] # Absent
    BY <1>b, <1>1, <1>a DEF Victims, Present, PNMaps
  <1>3. /\ lids \in LIDMaps
        /\ \A k \in Lids : lids[k] = IF v # Nil /\ pns[v] = k /\ fresh[k] = v THEN Absent ELSE fresh[k]
    BY <1>1, <1>2, <1>a DEF EvictedReverse, Without, LIDMaps, PNMaps
  <1> HIDE DEF lids
  <1>4. w # Nil => w \in Lids \ {l} /\ lids[w] # Absent
    BY <1>b, <1>3, <1>a DEF Victims, Present, LIDMaps
  <1>5. /\ lids2 \in LIDMaps
        /\ \A k \in Lids : lids2[k] = IF k = w THEN Absent ELSE lids[k]
    BY <1>3, <1>4, <1>a DEF Evicted, Without, LIDMaps
  <1>6. /\ Evicted(pns, v) \in PNMaps
        /\ \A q \in Pns : Evicted(pns, v)[q] = IF q = v THEN Absent ELSE pns[q]
    BY <1>1, <1>2, <1>a DEF Evicted, Without, PNMaps
  <1>7. /\ pns2 \in PNMaps
        /\ \A q \in Pns : pns2[q] =
              IF w # Nil /\ lids[w] = q /\ Evicted(pns, v)[q] = w THEN Absent ELSE Evicted(pns, v)[q]
    BY <1>3, <1>4, <1>6, <1>a DEF EvictedReverse, Without, LIDMaps, PNMaps
  <1> HIDE DEF pns2, lids2
  <1>8. /\ pnToLID' \in PNMaps /\ lidToPN' \in LIDMaps
        /\ pnToLID'[p] = l /\ lidToPN'[l] = p
        /\ \A q \in Pns \ {p} : pnToLID'[q] = pns2[q]
        /\ \A k \in Lids \ {l} : lidToPN'[k] = lids2[k]
    BY <1>b, <1>5, <1>7 DEF PNMaps, LIDMaps
  <1>9. \A q \in Pns \ {p} :
           \/ pnToLID'[q] = pnToLID[q]
           \/ /\ pnToLID'[q] = Absent
              /\ pnToLID[q] = l \/ q = v \/ pnToLID[q] = w
    BY <1>8, <1>7, <1>6, <1>1
  <1>10. \A k \in Lids \ {l} :
           \/ lidToPN'[k] = lidToPN[k]
           \/ /\ lidToPN'[k] = Absent
              /\ lidToPN[k] = p \/ k = w \/ lidToPN[k] = v
    BY <1>8, <1>5, <1>3, <1>1
  <1>11. MapsAgree'
    <2>1. ASSUME NEW k \in Lids, NEW q \in Pns, pnToLID'[q] = k PROVE lidToPN'[k] = q
      BY <2>1, <1>1, <1>2, <1>3, <1>4, <1>5, <1>6, <1>7, <1>8, <1>a DEF MapsAgree
    <2>2. ASSUME NEW k \in Lids, NEW q \in Pns, lidToPN'[k] = q PROVE pnToLID'[q] = k
      BY <2>2, <1>1, <1>2, <1>3, <1>4, <1>5, <1>6, <1>7, <1>8, <1>a DEF MapsAgree
    <2> QED BY <2>1, <2>2 DEF MapsAgree
  <1>12. Cardinality(Present(pnToLID')) <= Max
    <2>1. IsFiniteSet(Present(pnToLID)) /\ IsFiniteSet(Present(pns))
      BY <1>c, <1>1, PresentFinite
    <2>2. Present(pns) \in SUBSET Present(pnToLID)
      BY <1>1, <1>c DEF Present, PNMaps
    <2>3. Cardinality(Present(pns)) <= Max
      <3>1. Cardinality(Present(pns)) <= Cardinality(Present(pnToLID))
        BY <2>1, <2>2, FS_Subset
      <3> QED BY <3>1, <2>1, FS_CardinalityType, LIDMapAssumption DEF MapsOK
    <2>4. Present(pnToLID') \subseteq (Present(pns) \ {v}) \cup {p}
      BY <1>1, <1>6, <1>7, <1>8 DEF Present, PNMaps
    <2>5. p \in Present(pns) \/ Cardinality(Present(pns)) < Max \/ v \in Present(pns)
      <3>1. p \in Present(pns) <=> pns[p] # Absent
        BY <1>1 DEF Present, PNMaps
      <3> QED BY <3>1, <1>b, <2>1, FS_CardinalityType, LIDMapAssumption DEF Victims
    <2> QED BY <2>1, <2>3, <2>4, <2>5, Room
  <1>13. Cardinality(Present(lidToPN')) <= Max
    <2>1. IsFiniteSet(Present(lidToPN)) /\ IsFiniteSet(Present(lids))
      BY <1>c, <1>3, PresentFinite
    <2>2. Present(lids) \in SUBSET Present(lidToPN)
      BY <1>1, <1>3, <1>c DEF Present, LIDMaps
    <2>3. Cardinality(Present(lids)) <= Max
      <3>1. Cardinality(Present(lids)) <= Cardinality(Present(lidToPN))
        BY <2>1, <2>2, FS_Subset
      <3> QED BY <3>1, <2>1, FS_CardinalityType, LIDMapAssumption DEF MapsOK
    <2>4. Present(lidToPN') \subseteq (Present(lids) \ {w}) \cup {l}
      BY <1>3, <1>5, <1>8 DEF Present, LIDMaps
    <2>5. l \in Present(lids) \/ Cardinality(Present(lids)) < Max \/ w \in Present(lids)
      <3>1. l \in Present(lids) <=> lids[l] # Absent
        BY <1>3 DEF Present, LIDMaps
      <3> QED BY <3>1, <1>b, <2>1, FS_CardinalityType, LIDMapAssumption DEF Victims
    <2> QED BY <2>1, <2>3, <2>4, <2>5, Room
  <1> QED BY <1>8, <1>9, <1>10, <1>11, <1>12, <1>13 DEF MapsOK

\* cacheMissLocked, in the same way.
LEMMA MissStep ==
    ASSUME MapsOK, MapsAgree, NEW s \in Sources, NEW v \in Sources \cup {Nil}, cacheMissLocked(s, v)
    PROVE  /\ MapsOK' /\ MapsAgree'
           /\ Cached(s)' = IF Cached(s) = Absent THEN Nobody ELSE Cached(s)
           /\ \A q \in Sources \ {s} :
                 \/ Cached(q)' = Cached(q)
                 \/ Cached(q)' = Absent /\ (q = v \/ Cached(q) = v)
  <1>a. /\ Lids \cap Pns = {} /\ Nobody \notin Pns \cup Lids /\ Absent \notin Pns \cup Lids
        /\ Nil \notin Pns \cup Lids /\ Absent # Nobody
    BY LIDMapAssumption DEF Sources
  <1>c. pnToLID \in PNMaps /\ lidToPN \in LIDMaps
    BY DEF MapsOK
  <1>f. IsFiniteSet(Present(pnToLID)) /\ IsFiniteSet(Present(lidToPN))
    BY <1>c, PresentFinite
  <1>1. CASE s \in Pns
    <2>1. /\ v \in Victims(pnToLID, s)
          /\ pnToLID' = [Evicted(pnToLID, v) EXCEPT ![s] = IF @ = Absent THEN Nobody ELSE @]
          /\ lidToPN' = EvictedReverse(pnToLID, lidToPN, v)
      BY <1>1, <1>a DEF cacheMissLocked
    <2>2. v # Nil => v \in Pns \ {s} /\ pnToLID[v] # Absent /\ pnToLID[s] = Absent
      BY <2>1, <1>c, <1>a DEF Victims, Present, PNMaps
    <2>3. /\ pnToLID' \in PNMaps
          /\ pnToLID'[s] = IF pnToLID[s] = Absent THEN Nobody ELSE pnToLID[s]
          /\ \A q \in Pns \ {s} : pnToLID'[q] = IF q = v THEN Absent ELSE pnToLID[q]
      <3>1. Evicted(pnToLID, v) \in PNMaps
        BY <2>2, <1>c DEF Evicted, Without, PNMaps
      <3>2. \A q \in Pns : Evicted(pnToLID, v)[q] = IF q = v THEN Absent ELSE pnToLID[q]
        BY <2>2, <1>c, <1>a DEF Evicted, Without, PNMaps
      <3>3. s # v
        BY <2>2, <1>1, <1>a
      <3> HIDE DEF Evicted
      <3> QED BY <3>1, <3>2, <3>3, <2>1, <1>1 DEF PNMaps
    <2>4. /\ lidToPN' \in LIDMaps
          /\ \A k \in Lids : lidToPN'[k] =
                IF v # Nil /\ pnToLID[v] = k /\ lidToPN[k] = v THEN Absent ELSE lidToPN[k]
      BY <2>1, <2>2, <1>c, <1>a DEF EvictedReverse, Without, PNMaps, LIDMaps
    <2>5. MapsAgree'
      BY <2>2, <2>3, <2>4, <1>1, <1>a DEF MapsAgree
    <2>6. Cardinality(Present(pnToLID')) <= Max
      <3>1. Present(pnToLID') \subseteq (Present(pnToLID) \ {v}) \cup {s}
        BY <2>3, <1>c DEF Present, PNMaps
      <3>2. s \in Present(pnToLID) \/ Cardinality(Present(pnToLID)) < Max \/ v \in Present(pnToLID)
        <4>1. s \in Present(pnToLID) <=> pnToLID[s] # Absent
          BY <1>1, <1>c DEF Present, PNMaps
        <4> QED BY <4>1, <2>1, <1>f, FS_CardinalityType, LIDMapAssumption DEF Victims
      <3> QED BY <3>1, <3>2, <1>f, Room DEF MapsOK
    <2>7. Cardinality(Present(lidToPN')) <= Max
      <3>1. Present(lidToPN') \in SUBSET Present(lidToPN)
        BY <2>4, <1>c DEF Present, LIDMaps
      <3>2. Cardinality(Present(lidToPN')) <= Cardinality(Present(lidToPN)) /\ IsFiniteSet(Present(lidToPN'))
        BY <3>1, <1>f, FS_Subset
      <3> QED BY <3>2, <1>f, FS_CardinalityType, LIDMapAssumption DEF MapsOK
    <2> QED BY <2>3, <2>4, <2>5, <2>6, <2>7, <1>1, <1>a DEF MapsOK, Cached, Sources
  <1>2. CASE s \in Lids
    <2>1. /\ v \in Victims(lidToPN, s)
          /\ lidToPN' = [Evicted(lidToPN, v) EXCEPT ![s] = IF @ = Absent THEN Nobody ELSE @]
          /\ pnToLID' = EvictedReverse(lidToPN, pnToLID, v)
      BY <1>2, <1>a DEF cacheMissLocked
    <2>2. v # Nil => v \in Lids \ {s} /\ lidToPN[v] # Absent /\ lidToPN[s] = Absent
      BY <2>1, <1>c, <1>a DEF Victims, Present, LIDMaps
    <2>3. /\ lidToPN' \in LIDMaps
          /\ lidToPN'[s] = IF lidToPN[s] = Absent THEN Nobody ELSE lidToPN[s]
          /\ \A q \in Lids \ {s} : lidToPN'[q] = IF q = v THEN Absent ELSE lidToPN[q]
      <3>1. Evicted(lidToPN, v) \in LIDMaps
        BY <2>2, <1>c DEF Evicted, Without, LIDMaps
      <3>2. \A q \in Lids : Evicted(lidToPN, v)[q] = IF q = v THEN Absent ELSE lidToPN[q]
        BY <2>2, <1>c, <1>a DEF Evicted, Without, LIDMaps
      <3>3. s # v
        BY <2>2, <1>2, <1>a
      <3> HIDE DEF Evicted
      <3> QED BY <3>1, <3>2, <3>3, <2>1, <1>2 DEF LIDMaps
    <2>4. /\ pnToLID' \in PNMaps
          /\ \A k \in Pns : pnToLID'[k] =
                IF v # Nil /\ lidToPN[v] = k /\ pnToLID[k] = v THEN Absent ELSE pnToLID[k]
      BY <2>1, <2>2, <1>c, <1>a DEF EvictedReverse, Without, PNMaps, LIDMaps
    <2>5. MapsAgree'
      BY <2>2, <2>3, <2>4, <1>2, <1>a DEF MapsAgree
    <2>6. Cardinality(Present(lidToPN')) <= Max
      <3>1. Present(lidToPN') \subseteq (Present(lidToPN) \ {v}) \cup {s}
        BY <2>3, <1>c DEF Present, LIDMaps
      <3>2. s \in Present(lidToPN) \/ Cardinality(Present(lidToPN)) < Max \/ v \in Present(lidToPN)
        <4>1. s \in Present(lidToPN) <=> lidToPN[s] # Absent
          BY <1>2, <1>c DEF Present, LIDMaps
        <4> QED BY <4>1, <2>1, <1>f, FS_CardinalityType, LIDMapAssumption DEF Victims
      <3> QED BY <3>1, <3>2, <1>f, Room DEF MapsOK
    <2>7. Cardinality(Present(pnToLID')) <= Max
      <3>1. Present(pnToLID') \in SUBSET Present(pnToLID)
        BY <2>4, <1>c DEF Present, PNMaps
      <3>2. Cardinality(Present(pnToLID')) <= Cardinality(Present(pnToLID)) /\ IsFiniteSet(Present(pnToLID'))
        BY <3>1, <1>f, FS_Subset
      <3> QED BY <3>2, <1>f, FS_CardinalityType, LIDMapAssumption DEF MapsOK
    <2> QED BY <2>3, <2>4, <2>5, <2>6, <2>7, <1>2, <1>a DEF MapsOK, Cached, Sources
  <1> QED BY <1>1, <1>2 DEF Sources

-----------------------------------------------------------------------------
(* What the maps say                                                       *)

Says(pm, lm, s) == IF s \in Pns THEN pm[s] ELSE lm[s]

\* What the maps have of the sources one is sure of is what the table holds.
Exact(pm, lm, t, unsure) ==
    \A s \in Sources \ unsure : Says(pm, lm, s) # Absent => Says(pm, lm, s) = Partner(t, s)

\* What they do not have, and have not lost, is not in the table.
Complete(pm, lm, t, unsure, lost) ==
    \A s \in Sources \ unsure :
        Says(pm, lm, s) = Absent /\ s \notin lost => Partner(t, s) = Nobody

\* Caching a pair that is stored, too, keeps the maps exact, and complete but for
\* what the victims take with them.
LEMMA MappingExact ==
    ASSUME MapsOK, MapsAgree, NEW l \in Lids, NEW p \in Pns,
           NEW v \in Pns \cup {Nil}, NEW w \in Lids \cup {Nil},
           cacheMappingLocked(l, p, v, w),
           NEW t \in Tables, Abstract!OneToOne(t), NEW unsure, NEW lost,
           Exact(pnToLID, lidToPN, t, unsure)
    PROVE  /\ Exact(pnToLID', lidToPN', Stored(t, l, p), unsure \ {l, p})
           /\ filled /\ Complete(pnToLID, lidToPN, t, unsure, lost)
              => Complete(pnToLID', lidToPN', Stored(t, l, p), unsure \ {l, p},
                          (lost \ {l, p}) \cup Pushed(v, w))
  <1> DEFINE u == Stored(t, l, p)
  <1>a. /\ Lids \cap Pns = {} /\ Nobody \notin Pns \cup Lids /\ Absent \notin Pns \cup Lids
        /\ Nil \notin Pns \cup Lids /\ Absent # Nobody
    BY LIDMapAssumption DEF Sources
  <1>1. /\ MapsAgree' /\ pnToLID'[p] = l /\ lidToPN'[l] = p
        /\ \A s \in Sources \ {l, p} :
              \/ Says(pnToLID', lidToPN', s) = Says(pnToLID, lidToPN, s)
              \/ /\ Says(pnToLID', lidToPN', s) = Absent
                 /\ \/ Says(pnToLID, lidToPN, s) \in {l, p}
                    \/ s \in {v, w} \/ Says(pnToLID, lidToPN, s) \in {v, w}
    BY MappingStep, <1>a DEF Says, Sources
  <1>2. /\ Partner(u, l) = p /\ Partner(u, p) = l
        /\ \A s \in Sources \ {l, p} :
              Partner(u, s) = IF Partner(t, s) \in {l, p} THEN Nobody ELSE Partner(t, s)
    BY StoredFacts
  <1> HIDE DEF u
  <1>3. Says(pnToLID', lidToPN', l) = p /\ Says(pnToLID', lidToPN', p) = l
    BY <1>1, <1>a DEF Says
  <1>4. \A s \in Sources \ {l, p} : Says(pnToLID', lidToPN', s) \notin {l, p}
    BY <1>1, <1>a DEF MapsAgree, Says, Sources, MapsOK, PNMaps, LIDMaps
  <1>5. Exact(pnToLID', lidToPN', u, unsure \ {l, p})
    <2> SUFFICES ASSUME NEW s \in Sources, s \notin unsure \ {l, p}, Says(pnToLID', lidToPN', s) # Absent
                 PROVE  Says(pnToLID', lidToPN', s) = Partner(u, s)
      BY DEF Exact
    <2>1. CASE s \in {l, p}
      BY <2>1, <1>2, <1>3
    <2>2. CASE s \notin {l, p}
      BY <2>2, <1>1, <1>2, <1>4 DEF Exact
    <2> QED BY <2>1, <2>2
  <1>6. ASSUME filled, Complete(pnToLID, lidToPN, t, unsure, lost)
        PROVE  Complete(pnToLID', lidToPN', u, unsure \ {l, p}, (lost \ {l, p}) \cup Pushed(v, w))
    <2> SUFFICES ASSUME NEW s \in Sources, s \notin unsure \ {l, p}, Says(pnToLID', lidToPN', s) = Absent,
                        s \notin lost \ {l, p}, s \notin Pushed(v, w)
                 PROVE  Partner(u, s) = Nobody
      BY DEF Complete
    <2>1. s \notin {l, p}
      BY <1>3, <1>a
    <2>2. Says(pnToLID, lidToPN, s) = Cached(s)
      BY DEF Says, Cached
    <2>3. s \notin {v, w} /\ Says(pnToLID, lidToPN, s) \notin {v, w}
      BY <2>2, <1>6 DEF Pushed
    <2>4. CASE Says(pnToLID, lidToPN, s) = Absent
      <3>1. Partner(t, s) = Nobody
        BY <2>4, <2>1, <1>6 DEF Complete
      <3> QED BY <3>1, <2>1, <1>2
    <2>5. CASE Says(pnToLID, lidToPN, s) # Absent
      <3>1. Says(pnToLID, lidToPN, s) \in {l, p}
        BY <2>5, <2>1, <2>3, <1>1
      <3>2. Partner(t, s) \in {l, p}
        BY <3>1, <2>5, <2>1 DEF Exact
      <3> QED BY <3>2, <2>1, <1>2
    <2> QED BY <2>4, <2>5
  <1> QED BY <1>5, <1>6 DEF u

-----------------------------------------------------------------------------
(* The inductive invariant                                                 *)

\* A lookup that holds the lock: its rows are in the table, and a source that is
\* still missing and has a row finds it among them.
ScanInv ==
    \A c \in Clients : holder = c /\ pc[c] \in Scanning =>
        /\ todo \subseteq Rows
        /\ \A s \in missing[c] : Partner(db, s) # Nobody => \E r \in todo : s \in {r[1], r[2]}

\* FillCache: the maps hold the rows scanned so far, and all of them if the table
\* is not too large.
FillInv ==
    Filling =>
        /\ todo \subseteq Rows /\ doubt = {}
        /\ Cardinality(Rows) <= Max =>
              /\ \A r \in Rows \ todo : pnToLID[r[2]] = r[1]
              /\ \A p \in Pns : pnToLID[p] # Absent => <<pnToLID[p], p>> \in Rows \ todo
              /\ \A l \in Lids : lidToPN[l] # Absent => <<l, lidToPN[l]>> \in Rows \ todo

\* A transaction has stored its own pairs and has left alone what they do not
\* mention.
PutInv ==
    IF Putting
    THEN /\ \A l \in Lids : tx[l] \in {db[l], Nobody} \/ <<l, tx[l]>> \in mine
         /\ \A l \in Lids : l \notin Of(mine) /\ db[l] \notin Of(mine) => tx[l] = db[l]
         /\ todo # {} \/ \E m \in mine : tx[m[1]] = m[2]
    ELSE mine = {} /\ victims = {}

IInv ==
    /\ TypeOK /\ MapsAgree /\ CacheExact
    /\ Abstract!OneToOne(db) /\ Abstract!OneToOne(tx)
    /\ ScanInv /\ FillInv /\ PutInv

\* Who holds the lock decides what is going on.
LEMMA HolderDecides ==
    /\ holder = Nil => ~Putting /\ ~Filling
    /\ \A c \in Clients : holder = c => (Putting <=> pc[c] = "put") /\ (Filling <=> pc[c] = "fill")
  BY LIDMapAssumption DEF Putting, Filling

LEMMA TypeGives ==
    ASSUME TypeOK
    PROVE  MapsOK /\ db \in Tables /\ tx \in Tables
  BY DEF TypeOK, MapsOK, Tables, PNMaps, LIDMaps

LEMMA InitInv == Init => IInv
  <1> SUFFICES ASSUME Init PROVE IInv
    OBVIOUS
  <1> USE DEF Init
  <1>a. Nobody \notin Pns \cup Lids /\ Absent \notin Pns \cup Lids /\ Nil \notin Clients
    BY LIDMapAssumption DEF Sources
  <1>1. Present(pnToLID) = {} /\ Present(lidToPN) = {}
    BY DEF Present
  <1>2. Cardinality(Present(pnToLID)) <= Max /\ Cardinality(Present(lidToPN)) <= Max
    BY <1>1, FS_EmptySet, LIDMapAssumption
  <1>3. TypeOK
    BY <1>2 DEF TypeOK, Scanning
  <1>4. MapsAgree
    BY <1>a DEF MapsAgree
  <1>5. ~Putting /\ ~Filling
    BY HolderDecides
  <1>6. \A s \in Sources : Cached(s) = Absent
    BY DEF Cached, Sources
  <1>7. CacheExact
    BY <1>6 DEF CacheExact
  <1>8. Abstract!OneToOne(db) /\ Abstract!OneToOne(tx)
    BY DEF Abstract!OneToOne
  <1>9. ScanInv /\ FillInv /\ PutInv
    BY <1>5, <1>a DEF ScanInv, FillInv, PutInv
  <1> QED BY <1>3, <1>4, <1>7, <1>8, <1>9 DEF IInv

\* A step that leaves tables, maps and history alone keeps the maps exact if View,
\* Unsure and Lost stay and the cache does not become complete.
LEMMA ExactKept ==
    ASSUME CacheExact, UNCHANGED <<maps, filled>>,
           View' = View, Unsure' = Unsure, Lost' = Lost, Filling => Filling'
    PROVE  CacheExact'
  BY DEF CacheExact, Cached, maps

\* What a lookup tells from the maps is right.
LEMMA CacheIsRight ==
    ASSUME IInv, holder = Nil, NEW kind, NEW s \in Sources, Answered(kind, s)
    PROVE  Abstract!Right(FromCache(s)[1], FromCache(s)[2])
  <1>1. ~Putting /\ ~Filling
    BY HolderDecides
  <1>2. View = db /\ Unsure = doubt /\ Lost = forgotten
    BY <1>1 DEF View, Unsure, Lost
  <1>3. Partner(db, s) = Abstract!Partner(db, s)
    BY DEF Partner
  <1>4. Absent \notin Sources /\ Absent # Nobody
    BY LIDMapAssumption
  <1> QED BY <1>1, <1>2, <1>3, <1>4 DEF IInv, CacheExact, Answered, FromCache, Abstract!Right

\* The step of a lookup that tells right answers is one of the abstract store.
LEMMA IsAnswer ==
    ASSUME TypeOK', UNCHANGED <<db, doubt>>, \A a \in told' : Abstract!Right(a[1], a[2])
    PROVE  Abstract!Next
  BY DEF Abstract!Next, Abstract!Answer, TypeOK, Sources, Abstract!Sources

LEMMA LookupStep ==
    ASSUME IInv, NEW c \in Clients, NEW kind \in Scanning, NEW asked \in SUBSET Sources,
           Lookup(c, kind, asked)
    PROVE  IInv' /\ Abstract!Next
  <1> DEFINE open == {s \in asked : ~Answered(kind, s)}
  <1> USE DEF Lookup
  <1>a. Absent \notin Sources /\ Absent # Nobody /\ Nil \notin Clients
    BY LIDMapAssumption
  <1>0. TypeOK
    BY DEF IInv
  <1>1. \A s \in asked \ open : FromCache(s) \in Sources \X (Sources \cup {Nobody})
    BY <1>0, <1>a DEF TypeOK, FromCache, Cached, Sources
  <1>2. TypeOK'
    <2>1. told' \subseteq Sources \X (Sources \cup {Nobody})
      BY <1>1
    <2>2. missing' \in [Clients -> SUBSET Sources] /\ pc' \in [Clients -> Scanning \cup {"idle", "fill", "put"}]
      BY <1>0 DEF TypeOK
    <2> QED BY <1>0, <2>1, <2>2 DEF TypeOK, txn, maps, gaps
  <1>3. ~Putting /\ ~Filling /\ ~Putting' /\ ~Filling'
    BY <1>a DEF Putting, Filling
  <1>4. CacheExact'
    BY <1>3, ExactKept DEF IInv, View, Unsure, Lost, gaps
  <1>5. MapsAgree' /\ Abstract!OneToOne(db)' /\ Abstract!OneToOne(tx)'
    BY DEF IInv, MapsAgree, maps, txn, Abstract!OneToOne
  <1>6. ScanInv' /\ FillInv' /\ PutInv'
    BY <1>3, <1>a DEF IInv, ScanInv, FillInv, PutInv, txn
  <1>7. \A a \in told' : Abstract!Right(a[1], a[2])
    BY CacheIsRight
  <1>8. Abstract!Next
    BY <1>2, <1>7, IsAnswer DEF gaps
  <1> QED BY <1>2, <1>4, <1>5, <1>6, <1>8 DEF IInv

\* Whoever asks for a source with a row is answered by one of the rows.
LEMMA RowOfSource ==
    ASSUME db \in Tables, Abstract!OneToOne(db), NEW s \in Sources
    PROVE  /\ Partner(db, s) # Nobody => \E r \in Rows : s \in {r[1], r[2]}
           /\ \A r \in Rows : r[1] = s => Partner(db, s) = r[2]
           /\ \A r \in Rows : r[2] = s => Partner(db, s) = r[1]
  <1>a. Lids \cap Pns = {} /\ Nobody \notin Pns \cup Lids
    BY LIDMapAssumption DEF Sources
  <1>1. CASE s \in Lids
    <2>1. Partner(db, s) = db[s]
      BY <1>1, PartnerFacts
    <2>2. db[s] # Nobody => <<s, db[s]>> \in Rows
      BY <1>1 DEF Rows, Pairs, Tables
    <2> QED BY <1>1, <2>1, <2>2, <1>a DEF Rows, Pairs
  <1>2. CASE s \in Pns
    <2>1. Partner(db, s) \in Lids \cup {Nobody} /\ \A l \in Lids : Partner(db, s) = l <=> db[l] = s
      BY <1>2, PartnerFacts
    <2>2. Partner(db, s) # Nobody => <<Partner(db, s), s>> \in Rows
      BY <1>2, <2>1 DEF Rows, Pairs
    <2> QED BY <1>2, <2>1, <2>2, <1>a DEF Rows, Pairs
  <1> QED BY <1>1, <1>2 DEF Sources

LEMMA QueryStep ==
    ASSUME IInv, NEW c \in Clients, Query(c)
    PROVE  IInv' /\ Abstract!Next
  <1> DEFINE known == {s \in missing[c] : pc[c] = "manyPNs" /\ Answered("manyPNs", s)}
             open == missing[c] \ known
  <1>a. Absent \notin Sources /\ Absent # Nobody /\ Nil \notin Clients
    BY LIDMapAssumption
  <1>0. TypeOK
    BY DEF IInv
  <1>q. /\ pc[c] \in Scanning /\ holder = Nil
        /\ told' = {FromCache(s) : s \in known}
        /\ missing' = [missing EXCEPT ![c] = open]
        /\ todo' = {r \in Rows : r[1] \in open \/ r[2] \in open}
        /\ holder' = c
        /\ UNCHANGED <<db, txn, maps, filled, pc, gaps>>
    BY DEF Query
  <1>m. missing[c] \subseteq Sources
    BY <1>0 DEF TypeOK
  <1>1. \A s \in known : FromCache(s) \in Sources \X (Sources \cup {Nobody})
    BY <1>0, <1>m, <1>a DEF TypeOK, FromCache, Cached, Sources
  <1>2. TypeOK'
    <2>1. told' \subseteq Sources \X (Sources \cup {Nobody})
      BY <1>1, <1>q
    <2>2. missing' \in [Clients -> SUBSET Sources] /\ todo' \subseteq Pairs
      BY <1>0, <1>m, <1>q DEF TypeOK, Rows
    <2> QED BY <1>0, <1>q, <2>1, <2>2 DEF TypeOK, txn, maps, gaps
  <1>3. ~Putting /\ ~Filling /\ ~Putting' /\ ~Filling'
    BY <1>a, <1>q DEF Putting, Filling, Scanning
  <1>4. CacheExact'
    BY <1>3, <1>q, ExactKept DEF IInv, View, Unsure, Lost, gaps
  <1>5. MapsAgree' /\ Abstract!OneToOne(db)' /\ Abstract!OneToOne(tx)'
    BY <1>q DEF IInv, MapsAgree, maps, txn, Abstract!OneToOne
  <1>6. FillInv' /\ PutInv'
    BY <1>3, <1>q, <1>a DEF IInv, FillInv, PutInv, txn
  <1>7. ScanInv'
    <2>1. Rows' = Rows /\ missing'[c] = open /\ todo' \subseteq Rows
      BY <1>0, <1>q DEF Rows, TypeOK
    <2>2. \A s \in open : Partner(db, s) # Nobody => \E r \in todo' : s \in {r[1], r[2]}
      BY <1>q, <1>m, <1>0, TypeGives, RowOfSource DEF IInv
    <2>3. \A s \in open : Partner(db, s)' = Partner(db, s)
      BY <1>q DEF Partner, Abstract!Partner
    <2> QED BY <2>1, <2>2, <2>3, <1>q DEF ScanInv
  <1>8. \A a \in told' : Abstract!Right(a[1], a[2])
    BY <1>q, <1>m, CacheIsRight
  <1>9. Abstract!Next
    BY <1>2, <1>8, <1>q, IsAnswer DEF gaps
  <1> QED BY <1>2, <1>4, <1>5, <1>6, <1>7, <1>9 DEF IInv

\* Caching a row that is in the table already.
LEMMA StoredAlready ==
    ASSUME NEW t \in Tables, Abstract!OneToOne(t), NEW l \in Lids, NEW p \in Pns, t[l] = p
    PROVE  Stored(t, l, p) = t
  <1>1. p # Nobody
    BY LIDMapAssumption DEF Sources
  <1>2. \A k \in Lids : (IF k = l THEN p ELSE IF t[k] = p THEN Nobody ELSE t[k]) = t[k]
    BY <1>1 DEF Abstract!OneToOne
  <1> QED BY <1>2 DEF Stored, Tables

LEMMA ScanRowStep ==
    ASSUME IInv, NEW c \in Clients, ScanRow(c)
    PROVE  IInv' /\ Abstract!Next
  <1> PICK r \in todo, v \in Pns \cup {Nil}, w \in Lids \cup {Nil} :
          /\ cacheMappingLocked(r[1], r[2], v, w)
          /\ forgotten' = (forgotten \ {r[1], r[2]}) \cup Pushed(v, w)
          /\ told' = ({<<r[1], r[2]>>, <<r[2], r[1]>>}) \cap (missing[c] \X Sources)
          /\ missing' = [missing EXCEPT ![c] = @ \ {r[1], r[2]}]
          /\ todo' = todo \ {r}
    BY DEF ScanRow
  <1>q. holder = c /\ pc[c] \in Scanning /\ UNCHANGED <<db, txn, filled, holder, pc, doubt>>
    BY DEF ScanRow
  <1>a. Lids \cap Pns = {} /\ Nil \notin Clients /\ Nobody \notin Sources
    BY LIDMapAssumption DEF Sources
  <1>0. TypeOK /\ MapsOK /\ db \in Tables /\ MapsAgree /\ Abstract!OneToOne(db)
    BY TypeGives DEF IInv
  <1>r. r \in Rows /\ r[1] \in Lids /\ r[2] \in Pns /\ db[r[1]] = r[2] /\ todo \subseteq Rows
    BY <1>q DEF IInv, ScanInv, Rows, Pairs
  <1>m. missing[c] \subseteq Sources
    BY <1>0 DEF TypeOK
  <1>1. MapsOK' /\ MapsAgree'
    BY <1>0, <1>r, MappingStep
  <1>2. TypeOK'
    <2>1. told' \subseteq Sources \X (Sources \cup {Nobody})
      BY <1>m
    <2>2. missing' \in [Clients -> SUBSET Sources] /\ todo' \subseteq Pairs
      BY <1>0 DEF TypeOK
    <2>3. forgotten' \subseteq Sources
      BY <1>0 DEF TypeOK, Pushed
    <2> QED BY <1>0, <1>1, <1>q, <2>1, <2>2, <2>3 DEF TypeOK, MapsOK, PNMaps, LIDMaps, txn
  <1>3. ~Putting /\ ~Filling /\ ~Putting' /\ ~Filling'
    BY <1>q DEF Putting, Filling, Scanning
  <1>4. CacheExact'
    <2>1. Stored(db, r[1], r[2]) = db
      BY <1>0, <1>r, StoredAlready
    <2>2. /\ Exact(pnToLID, lidToPN, db, doubt)
          /\ filled => Complete(pnToLID, lidToPN, db, doubt, forgotten)
      BY <1>3 DEF IInv, CacheExact, Exact, Complete, Says, Cached, View, Unsure, Lost
    <2>3. /\ Exact(pnToLID', lidToPN', db, doubt \ {r[1], r[2]})
          /\ filled => Complete(pnToLID', lidToPN', db, doubt \ {r[1], r[2]}, forgotten')
      <3>1. /\ Exact(pnToLID', lidToPN', Stored(db, r[1], r[2]), doubt \ {r[1], r[2]})
            /\ filled /\ Complete(pnToLID, lidToPN, db, doubt, forgotten)
               => Complete(pnToLID', lidToPN', Stored(db, r[1], r[2]), doubt \ {r[1], r[2]},
                           (forgotten \ {r[1], r[2]}) \cup Pushed(v, w))
        <4>1. Exact(pnToLID, lidToPN, db, doubt)
          BY <2>2
        <4> QED BY <4>1, <1>0, <1>r, MappingExact
      <3> QED BY <2>1, <2>2, <3>1
    <2>4. View' = db /\ Unsure' = doubt /\ Lost' = forgotten'
      BY <1>3, <1>q DEF View, Unsure, Lost
    <2>5. \A s \in Sources : /\ Cached(s)' = Says(pnToLID', lidToPN', s)
                             /\ Partner(View, s)' = Partner(db, s)
      BY <2>4 DEF Cached, Says, Partner, Abstract!Partner
    <2> QED BY <2>3, <2>4, <2>5, <1>q DEF CacheExact, Exact, Complete
  <1>5. Abstract!OneToOne(db)' /\ Abstract!OneToOne(tx)'
    BY <1>q DEF IInv, txn, Abstract!OneToOne
  <1>6. FillInv' /\ PutInv'
    BY <1>3, <1>q DEF IInv, FillInv, PutInv, txn
  <1>7. ScanInv'
    <2>1. Rows' = Rows /\ missing'[c] = missing[c] \ {r[1], r[2]}
      BY <1>0, <1>q DEF Rows, TypeOK
    <2>2. \A s \in missing[c] : Partner(db, s) # Nobody => \E x \in todo : s \in {x[1], x[2]}
      BY <1>q DEF IInv, ScanInv
    <2>3. \A s \in missing[c] : Partner(db, s)' = Partner(db, s)
      BY <1>q DEF Partner, Abstract!Partner
    <2>4. \A s \in missing'[c] : Partner(db, s)' # Nobody => \E x \in todo' : s \in {x[1], x[2]}
      BY <2>1, <2>2, <2>3
    <2> QED BY <2>1, <2>4, <1>r, <1>q DEF ScanInv
  <1>8. \A a \in told' : Abstract!Right(a[1], a[2])
    <2> SUFFICES ASSUME NEW a \in told' PROVE Abstract!Right(a[1], a[2])
      OBVIOUS
    <2>1. a[1] \in Sources
      BY <1>m
    <2>2. a = <<r[1], r[2]>> \/ a = <<r[2], r[1]>>
      OBVIOUS
    <2>3. a[2] = Partner(db, a[1])
      BY <2>1, <2>2, <1>0, <1>r, RowOfSource
    <2> QED BY <2>3 DEF Abstract!Right, Partner
  <1>9. Abstract!Next
    BY <1>2, <1>8, <1>q, IsAnswer
  <1> QED BY <1>1, <1>2, <1>4, <1>5, <1>6, <1>7, <1>9 DEF IInv

LEMMA CacheMissStep ==
    ASSUME IInv, NEW c \in Clients, CacheMiss(c)
    PROVE  IInv' /\ Abstract!Next
  <1> PICK s \in missing[c], v \in Sources \cup {Nil} :
          /\ cacheMissLocked(s, v)
          /\ forgotten' = forgotten \cup Pushed(v, Nil)
          /\ told' = {<<s, Nobody>>}
          /\ missing' = [missing EXCEPT ![c] = @ \ {s}]
    BY DEF CacheMiss
  <1>q. /\ holder = c /\ pc[c] \in Scanning /\ todo = {}
        /\ UNCHANGED <<db, txn, filled, holder, pc, todo, doubt>>
    BY DEF CacheMiss, Scanning
  <1>a. Absent # Nobody /\ Nil \notin Sources
    BY LIDMapAssumption
  <1>0. TypeOK /\ MapsOK /\ db \in Tables /\ MapsAgree /\ Abstract!OneToOne(db)
    BY TypeGives DEF IInv
  <1>m. missing[c] \subseteq Sources /\ s \in Sources
    BY <1>0 DEF TypeOK
  <1>n. Partner(db, s) = Nobody
    BY <1>q DEF IInv, ScanInv
  <1>1. /\ MapsOK' /\ MapsAgree'
        /\ Cached(s)' = IF Cached(s) = Absent THEN Nobody ELSE Cached(s)
        /\ \A q \in Sources \ {s} :
              \/ Cached(q)' = Cached(q)
              \/ Cached(q)' = Absent /\ (q = v \/ Cached(q) = v)
    BY <1>0, <1>m, MissStep
  <1>2. TypeOK'
    <2>1. told' \subseteq Sources \X (Sources \cup {Nobody})
      BY <1>m
    <2>2. missing' \in [Clients -> SUBSET Sources]
      BY <1>0 DEF TypeOK
    <2>3. forgotten' \subseteq Sources
      BY <1>0 DEF TypeOK, Pushed
    <2> QED BY <1>0, <1>1, <1>q, <2>1, <2>2, <2>3 DEF TypeOK, MapsOK, PNMaps, LIDMaps, txn
  <1>3. ~Putting /\ ~Filling /\ ~Putting' /\ ~Filling'
    BY <1>q DEF Putting, Filling, Scanning
  <1>4. CacheExact'
    <2>1. \A q \in Sources : Partner(View, q)' = Partner(db, q) /\ Partner(View, q) = Partner(db, q)
      BY <1>3, <1>q DEF View, Partner, Abstract!Partner
    <2>2. Unsure = doubt /\ Unsure' = doubt /\ Lost = forgotten /\ Lost' = forgotten'
      BY <1>3, <1>q DEF Unsure, Lost
    <2>3. filled => \A q \in Sources : q = v \/ Cached(q) = v => q \in forgotten'
      BY DEF Pushed
    <2> QED BY <2>1, <2>2, <2>3, <1>1, <1>3, <1>m, <1>n, <1>q, <1>a DEF IInv, CacheExact
  <1>5. Abstract!OneToOne(db)' /\ Abstract!OneToOne(tx)'
    BY <1>q DEF IInv, txn, Abstract!OneToOne
  <1>6. FillInv' /\ PutInv'
    BY <1>3, <1>q DEF IInv, FillInv, PutInv, txn
  <1>7. ScanInv'
    <2>1. missing'[c] = missing[c] \ {s}
      BY <1>0 DEF TypeOK
    <2>2. \A x \in missing[c] : Partner(db, x) = Nobody /\ Partner(db, x)' = Partner(db, x)
      BY <1>q DEF IInv, ScanInv, Partner, Abstract!Partner
    <2> QED BY <2>1, <2>2, <1>q DEF ScanInv
  <1>8. \A a \in told' : Abstract!Right(a[1], a[2])
    BY <1>n DEF Abstract!Right, Partner
  <1>9. Abstract!Next
    BY <1>2, <1>8, <1>q, IsAnswer
  <1> QED BY <1>1, <1>2, <1>4, <1>5, <1>6, <1>7, <1>9 DEF IInv

\* Giving back the lock ends what the holder was doing.
LEMMA Released ==
    ASSUME TypeOK, NEW c \in Clients, Return(c)
    PROVE  /\ ~Putting' /\ ~Filling' /\ ScanInv' /\ FillInv' /\ PutInv'
           /\ Abstract!OneToOne(tx)'
           /\ tx' \in Tables /\ holder' \in Clients \cup {Nil}
           /\ pc' \in [Clients -> Scanning \cup {"idle", "fill", "put"}]
           /\ missing' \in [Clients -> SUBSET Sources]
           /\ todo' = {} /\ mine' = {} /\ victims' = {}
  <1>a. Nil \notin Clients
    BY LIDMapAssumption
  <1>1. ~Putting' /\ ~Filling'
    BY <1>a DEF Return, Putting, Filling
  <1>2. ScanInv' /\ FillInv' /\ PutInv'
    BY <1>1, <1>a DEF Return, ScanInv, FillInv, PutInv
  <1>3. Abstract!OneToOne(tx)'
    BY DEF Return, Abstract!OneToOne
  <1> QED BY <1>1, <1>2, <1>3 DEF Return, TypeOK, Tables

LEMMA LookupReturnsStep ==
    ASSUME IInv, NEW c \in Clients, LookupReturns(c) \/ LookupFails(c)
    PROVE  IInv' /\ Abstract!Next
  <1>q. /\ holder = c /\ pc[c] \in Scanning /\ Return(c)
        /\ UNCHANGED <<db, maps, filled, gaps>>
        /\ (todo = {} /\ told' = missing[c] \X {Nobody}) \/ told' = {}
    BY DEF LookupReturns, LookupFails
  <1>0. TypeOK
    BY DEF IInv
  <1>m. missing[c] \subseteq Sources
    BY <1>0 DEF TypeOK
  <1>1. /\ ~Putting' /\ ~Filling' /\ ScanInv' /\ FillInv' /\ PutInv' /\ Abstract!OneToOne(tx)'
        /\ tx' \in Tables /\ holder' \in Clients \cup {Nil}
        /\ pc' \in [Clients -> Scanning \cup {"idle", "fill", "put"}]
        /\ missing' \in [Clients -> SUBSET Sources]
        /\ todo' = {} /\ mine' = {} /\ victims' = {}
    BY <1>0, <1>q, Released
  <1>2. TypeOK'
    BY <1>0, <1>1, <1>q, <1>m DEF TypeOK, maps, gaps, Tables
  <1>3. ~Putting /\ ~Filling
    BY <1>q DEF Putting, Filling, Scanning
  <1>4. CacheExact'
    BY <1>1, <1>3, <1>q, ExactKept DEF IInv, View, Unsure, Lost, gaps
  <1>5. MapsAgree' /\ Abstract!OneToOne(db)'
    BY <1>q DEF IInv, MapsAgree, maps, Abstract!OneToOne
  <1>6. \A a \in told' : Abstract!Right(a[1], a[2])
    <2> SUFFICES ASSUME NEW a \in told' PROVE Abstract!Right(a[1], a[2])
      OBVIOUS
    <2>1. todo = {} /\ a[1] \in missing[c] /\ a[2] = Nobody
      BY <1>q
    <2>2. Partner(db, a[1]) = Nobody
      BY <2>1, <1>q DEF IInv, ScanInv
    <2> QED BY <2>1, <2>2 DEF Abstract!Right, Partner
  <1>7. Abstract!Next
    BY <1>2, <1>6, <1>q, IsAnswer DEF gaps
  <1> QED BY <1>1, <1>2, <1>4, <1>5, <1>7 DEF IInv

-----------------------------------------------------------------------------
(* FillCache                                                               *)

LEMMA FillCacheStep ==
    ASSUME IInv, NEW c \in Clients, FillCache(c)
    PROVE  IInv' /\ Abstract!Next
  <1> USE DEF FillCache
  <1>a. Nobody \notin Pns \cup Lids /\ Absent \notin Pns \cup Lids /\ Nil \notin Clients
    BY LIDMapAssumption DEF Sources
  <1>0. TypeOK
    BY DEF IInv
  <1>1. Present(pnToLID') = {} /\ Present(lidToPN') = {}
    BY DEF Present
  <1>2. Cardinality(Present(pnToLID')) <= Max /\ Cardinality(Present(lidToPN')) <= Max
    BY <1>1, FS_EmptySet, LIDMapAssumption
  <1>3. TypeOK'
    BY <1>0, <1>2 DEF TypeOK, txn, Present, Rows
  <1>4. ~Putting /\ ~Putting' /\ Filling'
    BY <1>0, <1>a DEF Putting, Filling, TypeOK
  <1>5. MapsAgree'
    BY <1>a DEF MapsAgree
  <1>6. CacheExact'
    <2>1. \A s \in Sources : Cached(s)' = Absent
      BY DEF Cached, Sources
    <2> QED BY <2>1, <1>4 DEF CacheExact
  <1>7. Abstract!OneToOne(db)' /\ Abstract!OneToOne(tx)'
    BY DEF IInv, txn, Abstract!OneToOne
  <1>8. ScanInv' /\ PutInv'
    BY <1>0, <1>4 DEF IInv, TypeOK, ScanInv, PutInv, txn, Scanning
  <1>9. FillInv'
    BY DEF FillInv, Rows
  <1>10. Abstract!Next
    BY DEF Abstract!Next, Abstract!Refill
  <1> QED BY <1>3, <1>5, <1>6, <1>7, <1>8, <1>9, <1>10 DEF IInv

\* While a table that is not too large is scanned, nothing has to be evicted.
LEMMA NothingEvicted ==
    ASSUME TypeOK, NEW r \in todo, todo \subseteq Rows, Cardinality(Rows) <= Max,
           \A p \in Pns : pnToLID[p] # Absent => <<pnToLID[p], p>> \in Rows \ todo,
           \A l \in Lids : lidToPN[l] # Absent => <<l, lidToPN[l]>> \in Rows \ todo
    PROVE  Cardinality(Present(pnToLID)) < Max /\ Cardinality(Present(lidToPN)) < Max
  <1>0. pnToLID \in PNMaps /\ lidToPN \in LIDMaps
    BY TypeGives DEF MapsOK
  <1>1. IsFiniteSet(Pairs)
    BY FS_Product, LIDMapAssumption DEF Pairs
  <1>2. IsFiniteSet(Rows)
    <2>1. Rows \in SUBSET Pairs
      BY DEF Rows
    <2> QED BY <1>1, <2>1, FS_Subset
  <1> DEFINE rest == Rows \ {r}
  <1>3. IsFiniteSet(rest) /\ Cardinality(rest) = Cardinality(Rows) - 1
    BY <1>2, FS_RemoveElement
  <1>4. Cardinality(rest) < Max
    BY <1>2, <1>3, FS_CardinalityType, LIDMapAssumption
  <1>5. Cardinality(Present(pnToLID)) <= Cardinality(rest)
    <2> DEFINE f == [p \in Present(pnToLID) |-> <<pnToLID[p], p>>]
    <2>1. f \in [Present(pnToLID) -> rest]
      BY <1>0 DEF Present, PNMaps
    <2>2. \A p, q \in Present(pnToLID) : f[p] = f[q] => p = q
      OBVIOUS
    <2> HIDE DEF f
    <2>3. f \in Injection(Present(pnToLID), rest)
      BY <2>1, <2>2 DEF Injection, IsInjective
    <2> QED BY <2>3, <1>3, FS_Injection
  <1>6. Cardinality(Present(lidToPN)) <= Cardinality(rest)
    <2> DEFINE f == [l \in Present(lidToPN) |-> <<l, lidToPN[l]>>]
    <2>1. f \in [Present(lidToPN) -> rest]
      BY <1>0 DEF Present, LIDMaps
    <2>2. \A p, q \in Present(lidToPN) : f[p] = f[q] => p = q
      OBVIOUS
    <2> HIDE DEF f
    <2>3. f \in Injection(Present(lidToPN), rest)
      BY <2>1, <2>2 DEF Injection, IsInjective
    <2> QED BY <2>3, <1>3, FS_Injection
  <1>7. /\ Cardinality(Present(pnToLID)) \in Nat /\ Cardinality(Present(lidToPN)) \in Nat
        /\ Cardinality(rest) \in Nat /\ Max \in Nat
    BY <1>0, <1>3, PresentFinite, FS_CardinalityType, LIDMapAssumption
  <1> HIDE DEF rest
  <1> QED BY <1>4, <1>5, <1>6, <1>7

\* With room in both maps there are no victims.
LEMMA NoVictims ==
    ASSUME MapsOK, MapsAgree, Cardinality(Present(pnToLID)) < Max, Cardinality(Present(lidToPN)) < Max,
           NEW l \in Lids, NEW p \in Pns, NEW v \in Pns \cup {Nil}, NEW w \in Lids \cup {Nil},
           cacheMappingLocked(l, p, v, w)
    PROVE  v = Nil /\ w = Nil
  <1> DEFINE pns == FreshPNs(l, p)
             lids == EvictedReverse(pns, FreshLIDs(l, p), v)
  <1>1. pns \in PNMaps /\ FreshLIDs(l, p) \in LIDMaps
    BY DEF MapsOK, FreshPNs, FreshLIDs, Without, PNMaps, LIDMaps
  <1>2. Present(pns) \in SUBSET Present(pnToLID)
    BY DEF MapsOK, FreshPNs, Without, PNMaps, Present
  <1>3. Cardinality(Present(pns)) < Max
    <2>1. IsFiniteSet(Present(pnToLID)) /\ IsFiniteSet(Present(pns))
      BY <1>1, PresentFinite DEF MapsOK
    <2>2. Cardinality(Present(pns)) <= Cardinality(Present(pnToLID))
      BY <2>1, <1>2, FS_Subset
    <2> QED BY <2>1, <2>2, FS_CardinalityType, LIDMapAssumption
  <1>4. v = Nil
    <2>1. v \in Victims(pns, p)
      BY DEF cacheMappingLocked
    <2>2. IsFiniteSet(Present(pns))
      BY <1>1, PresentFinite
    <2> QED BY <2>1, <2>2, <1>3, FS_CardinalityType, LIDMapAssumption DEF Victims
  <1>5. lids = FreshLIDs(l, p)
    BY <1>4 DEF EvictedReverse
  <1>6. Present(lids) \in SUBSET Present(lidToPN)
    BY <1>5 DEF MapsOK, FreshLIDs, Without, LIDMaps, Present
  <1>7. Cardinality(Present(lids)) < Max
    <2>1. IsFiniteSet(Present(lidToPN)) /\ IsFiniteSet(Present(lids))
      BY <1>1, <1>5, PresentFinite DEF MapsOK
    <2>2. Cardinality(Present(lids)) <= Cardinality(Present(lidToPN))
      BY <2>1, <1>6, FS_Subset
    <2> QED BY <2>1, <2>2, FS_CardinalityType, LIDMapAssumption
  <1>8. w = Nil
    <2>1. w \in Victims(lids, l)
      BY DEF cacheMappingLocked
    <2>2. IsFiniteSet(Present(lids))
      BY <1>1, <1>5, PresentFinite
    <2> HIDE DEF lids
    <2> QED BY <2>1, <2>2, <1>7, FS_CardinalityType, LIDMapAssumption DEF Victims
  <1> QED BY <1>4, <1>8

LEMMA FillRowStep ==
    ASSUME IInv, NEW c \in Clients, FillRow(c)
    PROVE  IInv' /\ Abstract!Next
  <1> PICK r \in todo, v \in Pns \cup {Nil}, w \in Lids \cup {Nil} :
          cacheMappingLocked(r[1], r[2], v, w) /\ todo' = todo \ {r}
    BY DEF FillRow
  <1>q. /\ holder = c /\ pc[c] = "fill"
        /\ UNCHANGED <<db, txn, filled, holder, pc, missing, gaps>> /\ told' = {}
    BY DEF FillRow
  <1>a. Lids \cap Pns = {} /\ Nil \notin Pns \cup Lids /\ Absent \notin Pns \cup Lids
    BY LIDMapAssumption DEF Sources
  <1>0. TypeOK /\ MapsOK /\ db \in Tables /\ MapsAgree /\ Abstract!OneToOne(db)
    BY TypeGives DEF IInv
  <1>3. ~Putting /\ Filling /\ ~Putting' /\ Filling'
    BY <1>q DEF Putting, Filling
  <1>r. /\ todo \subseteq Rows /\ doubt = {}
        /\ r[1] \in Lids /\ r[2] \in Pns /\ r = <<r[1], r[2]>> /\ db[r[1]] = r[2]
    BY <1>3 DEF IInv, FillInv, Rows, Pairs
  <1>1. /\ MapsOK' /\ MapsAgree' /\ pnToLID'[r[2]] = r[1] /\ lidToPN'[r[1]] = r[2]
        /\ \A q \in Pns \ {r[2]} :
              \/ pnToLID'[q] = pnToLID[q]
              \/ pnToLID'[q] = Absent /\ (pnToLID[q] = r[1] \/ q = v \/ pnToLID[q] = w)
        /\ \A k \in Lids \ {r[1]} :
              \/ lidToPN'[k] = lidToPN[k]
              \/ lidToPN'[k] = Absent /\ (lidToPN[k] = r[2] \/ k = w \/ lidToPN[k] = v)
    BY <1>0, <1>r, MappingStep
  <1>2. TypeOK'
    <2>1. todo' \subseteq Pairs
      BY <1>0 DEF TypeOK
    <2> QED BY <1>0, <1>1, <1>q, <2>1 DEF TypeOK, MapsOK, PNMaps, LIDMaps, txn, gaps
  <1>4. CacheExact'
    <2>1. Stored(db, r[1], r[2]) = db
      BY <1>0, <1>r, StoredAlready
    <2>2. Exact(pnToLID, lidToPN, db, {})
      BY <1>3, <1>r DEF IInv, CacheExact, Exact, Says, Cached, View, Unsure
    <2>3. Exact(pnToLID', lidToPN', Stored(db, r[1], r[2]), {} \ {r[1], r[2]})
      BY <2>2, <1>0, <1>r, MappingExact
    <2>4. View' = db /\ Unsure' = {}
      BY <1>3, <1>q, <1>r DEF View, Unsure, gaps
    <2>5. \A s \in Sources : /\ Cached(s)' = Says(pnToLID', lidToPN', s)
                             /\ Partner(View, s)' = Partner(db, s)
      BY <2>4 DEF Cached, Says, Partner, Abstract!Partner
    <2> QED BY <2>1, <2>3, <2>4, <2>5, <1>3 DEF CacheExact, Exact
  <1>5. Abstract!OneToOne(db)' /\ Abstract!OneToOne(tx)'
    BY <1>q DEF IInv, txn, Abstract!OneToOne
  <1>6. ScanInv' /\ PutInv'
    BY <1>3, <1>q DEF IInv, ScanInv, PutInv, txn, Scanning
  <1>7. FillInv'
    <2>1. Rows' = Rows /\ todo' \subseteq Rows /\ doubt' = {}
      BY <1>q, <1>r DEF Rows, gaps
    <2>2. ASSUME Cardinality(Rows) <= Max
          PROVE  /\ \A x \in Rows \ todo' : pnToLID'[x[2]] = x[1]
                 /\ \A p \in Pns : pnToLID'[p] # Absent => <<pnToLID'[p], p>> \in Rows \ todo'
                 /\ \A l \in Lids : lidToPN'[l] # Absent => <<l, lidToPN'[l]>> \in Rows \ todo'
      <3>1. /\ \A x \in Rows \ todo : pnToLID[x[2]] = x[1]
            /\ \A p \in Pns : pnToLID[p] # Absent => <<pnToLID[p], p>> \in Rows \ todo
            /\ \A l \in Lids : lidToPN[l] # Absent => <<l, lidToPN[l]>> \in Rows \ todo
        BY <2>2, <1>3 DEF IInv, FillInv
      <3>2. v = Nil /\ w = Nil
        <4>1. Cardinality(Present(pnToLID)) < Max /\ Cardinality(Present(lidToPN)) < Max
          BY <3>1, <2>2, <1>0, <1>r, NothingEvicted
        <4> QED BY <4>1, <1>0, <1>r, NoVictims
      <3>3. \A l \in Lids, p \in Pns : <<l, p>> \in Rows => db[l] = p
        BY DEF Rows
      <3>4. \A q \in Pns \ {r[2]} : pnToLID'[q] = pnToLID[q]
        <4> SUFFICES ASSUME NEW q \in Pns \ {r[2]}, pnToLID[q] = r[1] \/ q = v \/ pnToLID[q] = w
                     PROVE  FALSE
          BY <1>1
        <4>2. pnToLID[q] # Nil
          BY <1>0, <1>a, LIDMapAssumption DEF MapsOK, PNMaps, Sources
        <4>3. pnToLID[q] = r[1]
          BY <4>2, <3>2, <1>a
        <4>4. <<r[1], q>> \in Rows
          BY <4>3, <3>1, <1>a, <1>r
        <4> QED BY <4>4, <3>3, <1>r
      <3>5. \A k \in Lids \ {r[1]} : lidToPN'[k] = lidToPN[k]
        <4> SUFFICES ASSUME NEW k \in Lids \ {r[1]}, lidToPN[k] = r[2] \/ k = w \/ lidToPN[k] = v
                     PROVE  FALSE
          BY <1>1
        <4>1. lidToPN[k] # Nil
          BY <1>0, <1>a, LIDMapAssumption DEF MapsOK, LIDMaps, Sources
        <4>2. lidToPN[k] = r[2]
          BY <4>1, <3>2, <1>a
        <4>4. <<k, r[2]>> \in Rows
          BY <4>2, <3>1, <1>a, <1>r
        <4>5. db[k] = r[2]
          BY <4>4, <3>3, <1>r
        <4>3. r[2] # Nobody
          BY <1>r, LIDMapAssumption DEF Sources
        <4> QED BY <4>5, <4>3, <1>0, <1>r DEF Abstract!OneToOne
      <3>6. Rows \ todo' = (Rows \ todo) \cup {r}
        BY <1>r
      <3>7. ASSUME NEW x \in Rows \ todo'
            PROVE  pnToLID'[x[2]] = x[1]
        <4>1. CASE x = r
          BY <4>1, <1>1
        <4>2. CASE x # r
          <5>1. x \in Rows \ todo /\ x[2] \in Pns /\ pnToLID[x[2]] = x[1]
            BY <4>2, <3>1, <3>6 DEF Rows, Pairs
          <5>2. x[1] \in Lids /\ x = <<x[1], x[2]>> /\ db[x[1]] = x[2]
            BY <5>1 DEF Rows, Pairs
          <5>3. x[2] # r[2]
            <6>1. x[2] # Nobody
              BY <5>1, LIDMapAssumption DEF Sources
            <6> QED BY <6>1, <5>2, <4>2, <1>0, <1>r DEF Abstract!OneToOne
          <5> QED BY <5>1, <5>3, <3>4
        <4> QED BY <4>1, <4>2
      <3>8. \A p \in Pns : pnToLID'[p] # Absent => <<pnToLID'[p], p>> \in Rows \ todo'
        BY <3>1, <3>4, <3>6, <1>1, <1>r
      <3>9. \A l \in Lids : lidToPN'[l] # Absent => <<l, lidToPN'[l]>> \in Rows \ todo'
        BY <3>1, <3>5, <3>6, <1>1, <1>r
      <3> QED BY <3>7, <3>8, <3>9
    <2> QED BY <2>1, <2>2 DEF FillInv
  <1>8. Abstract!Next
    BY <1>2, <1>q, IsAnswer DEF gaps
  <1> QED BY <1>1, <1>2, <1>4, <1>5, <1>6, <1>7, <1>8 DEF IInv

LEMMA FillReturnsStep ==
    ASSUME IInv, NEW c \in Clients, FillReturns(c)
    PROVE  IInv' /\ Abstract!Next
  <1>q. /\ holder = c /\ pc[c] = "fill" /\ Return(c) /\ UNCHANGED <<db, maps, gaps>> /\ told' = {}
        /\ \/ todo = {} /\ filled' = (Cardinality(Rows) <= Max)
           \/ filled' = FALSE
    BY DEF FillReturns
  <1>0. TypeOK /\ db \in Tables /\ Abstract!OneToOne(db)
    BY TypeGives DEF IInv
  <1>1. /\ ~Putting' /\ ~Filling' /\ ScanInv' /\ FillInv' /\ PutInv' /\ Abstract!OneToOne(tx)'
        /\ tx' \in Tables /\ holder' \in Clients \cup {Nil}
        /\ pc' \in [Clients -> Scanning \cup {"idle", "fill", "put"}]
        /\ missing' \in [Clients -> SUBSET Sources]
        /\ todo' = {} /\ mine' = {} /\ victims' = {}
    BY <1>0, <1>q, Released
  <1>2. TypeOK'
    <2>1. filled' \in BOOLEAN
      <3>1. (Cardinality(Rows) <= Max) \in BOOLEAN
        OBVIOUS
      <3> QED BY <3>1, <1>q, Zenon
    <2> QED BY <1>0, <1>1, <1>q, <2>1 DEF TypeOK, maps, gaps, Tables
  <1>3. ~Putting /\ Filling
    BY <1>q DEF Putting, Filling
  <1>4. CacheExact'
    <2>1. \A s \in Sources : /\ Cached(s)' = Cached(s)
                             /\ Partner(View, s)' = Partner(db, s) /\ Partner(View, s) = Partner(db, s)
      BY <1>1, <1>3, <1>q DEF Cached, View, Partner, Abstract!Partner, maps
    <2>2. Unsure' = doubt /\ Unsure = doubt
      BY <1>1, <1>3, <1>q DEF Unsure, gaps
    <2>3. ASSUME filled', NEW s \in Sources, Cached(s) = Absent
          PROVE  Partner(db, s) = Nobody
      <3>1. todo = {} /\ Cardinality(Rows) <= Max
        BY <2>3, <1>q
      <3>2. \A x \in Rows : pnToLID[x[2]] = x[1]
        BY <3>1, <1>3 DEF IInv, FillInv
      <3>3. \A x \in Rows : x[1] \in Lids /\ x[2] \in Pns /\ lidToPN[x[1]] = x[2]
        BY <3>2 DEF IInv, MapsAgree, Rows, Pairs
      <3>4. \A x \in Rows : s \notin {x[1], x[2]}
        BY <3>2, <3>3, <2>3, LIDMapAssumption DEF Cached, Sources
      <3> QED BY <3>4, <1>0, RowOfSource
    <2> QED BY <2>1, <2>2, <2>3 DEF IInv, CacheExact
  <1>5. MapsAgree' /\ Abstract!OneToOne(db)'
    BY <1>q DEF IInv, MapsAgree, maps, Abstract!OneToOne
  <1>6. Abstract!Next
    BY <1>2, <1>q, IsAnswer DEF gaps
  <1> QED BY <1>1, <1>2, <1>4, <1>5, <1>6 DEF IInv

-----------------------------------------------------------------------------
(* PutLIDMapping and PutManyLIDMappings                                    *)

LEMMA PutBeginStep ==
    ASSUME IInv, NEW c \in Clients, NEW mappings \in SUBSET Pairs, PutBegin(c, mappings)
    PROVE  IInv' /\ Abstract!Next
  <1> DEFINE new == {m \in mappings : pnToLID[m[2]] # m[1]}
  <1>q. /\ pc[c] = "idle" /\ holder = Nil /\ new # {} /\ todo' = new
        /\ holder' = c /\ pc' = [pc EXCEPT ![c] = "put"] /\ tx' = db
        /\ UNCHANGED <<db, mine, victims, maps, filled, missing, gaps>> /\ told' = {}
    BY DEF PutBegin
  <1>a. Nil \notin Clients
    BY LIDMapAssumption
  <1>0. TypeOK
    BY DEF IInv
  <1>1. TypeOK'
    <2>1. todo' \subseteq Pairs
      BY <1>q
    <2> QED BY <1>0, <1>q, <2>1 DEF TypeOK, maps, gaps
  <1>2. ~Putting /\ ~Filling /\ Putting' /\ ~Filling'
    BY <1>0, <1>a, <1>q DEF Putting, Filling, TypeOK
  <1>3. mine = {} /\ victims = {} /\ Of(mine) = {}
    BY <1>2 DEF IInv, PutInv, Of, Abstract!Of
  <1>4. CacheExact'
    <2>1. View' = View /\ Unsure' = Unsure /\ Lost' = Lost
      BY <1>2, <1>3, <1>q DEF View, Unsure, Lost, gaps, Of, Abstract!Of
    <2> QED BY <2>1, <1>2, <1>q, ExactKept DEF IInv
  <1>5. MapsAgree' /\ Abstract!OneToOne(db)' /\ Abstract!OneToOne(tx)'
    BY <1>q DEF IInv, MapsAgree, maps, Abstract!OneToOne
  <1>6. ScanInv' /\ FillInv'
    BY <1>0, <1>2, <1>q DEF ScanInv, FillInv, TypeOK, Scanning
  <1>7. PutInv'
    BY <1>2, <1>q DEF PutInv
  <1>8. Abstract!Next
    BY <1>1, <1>q, IsAnswer DEF gaps
  <1> QED BY <1>1, <1>4, <1>5, <1>6, <1>7, <1>8 DEF IInv

LEMMA unlockedPutStep ==
    ASSUME IInv, NEW c \in Clients, unlockedPutLIDMapping(c)
    PROVE  IInv' /\ Abstract!Next
  <1> PICK m \in todo, v \in Pns \cup {Nil}, w \in Lids \cup {Nil} :
          /\ tx' = Stored(tx, m[1], m[2])
          /\ cacheMappingLocked(m[1], m[2], v, w)
          /\ victims' = (victims \ {m[1], m[2]}) \cup Pushed(v, w)
          /\ mine' = mine \cup {m}
          /\ todo' = todo \ {m}
    BY DEF unlockedPutLIDMapping
  <1>q. /\ holder = c /\ pc[c] = "put" /\ told' = {}
        /\ UNCHANGED <<db, filled, holder, pc, missing, gaps>>
    BY DEF unlockedPutLIDMapping
  <1>0. TypeOK /\ MapsOK /\ tx \in Tables /\ MapsAgree /\ Abstract!OneToOne(tx)
    BY TypeGives DEF IInv
  <1>m. m \in Pairs /\ m[1] \in Lids /\ m[2] \in Pns /\ m = <<m[1], m[2]>>
    BY <1>0 DEF TypeOK, Pairs
  <1>1. MapsOK' /\ MapsAgree'
    BY <1>0, <1>m, MappingStep
  <1>2. tx' \in Tables /\ Abstract!OneToOne(tx')
    BY <1>0, <1>m, StoredFacts
  <1>3. TypeOK'
    <2>1. todo' \subseteq Pairs /\ mine' \subseteq Pairs
      BY <1>0, <1>m DEF TypeOK
    <2>2. victims' \subseteq Sources
      BY <1>0 DEF TypeOK, Pushed
    <2> QED BY <1>0, <1>1, <1>2, <1>q, <2>1, <2>2 DEF TypeOK, MapsOK, PNMaps, LIDMaps, Tables, gaps
  <1>4. Putting /\ ~Filling /\ Putting' /\ ~Filling'
    BY <1>q DEF Putting, Filling
  <1>5. Of(mine') = Of(mine) \cup {m[1], m[2]}
    BY DEF Of, Abstract!Of
  <1>6. CacheExact'
    <2> DEFINE unsure == doubt \ Of(mine)
               lost == (forgotten \ Of(mine)) \cup victims
    <2>1. View = tx /\ Unsure = unsure /\ Lost = lost
      BY <1>4 DEF View, Unsure, Lost
    <2>2. View' = tx' /\ Unsure' = doubt \ Of(mine') /\ Lost' = (forgotten \ Of(mine')) \cup victims'
      BY <1>4, <1>q DEF View, Unsure, Lost, gaps, Of, Abstract!Of
    <2>3. Unsure' = unsure \ {m[1], m[2]} /\ Lost' = (lost \ {m[1], m[2]}) \cup Pushed(v, w)
      BY <2>2, <1>5
    <2> HIDE DEF unsure, lost
    <2>4. /\ Exact(pnToLID, lidToPN, tx, unsure)
          /\ filled => Complete(pnToLID, lidToPN, tx, unsure, lost)
      BY <2>1, <1>4 DEF IInv, CacheExact, Exact, Complete, Says, Cached
    <2>5. /\ Exact(pnToLID', lidToPN', tx', unsure \ {m[1], m[2]})
          /\ filled => Complete(pnToLID', lidToPN', tx', unsure \ {m[1], m[2]},
                                (lost \ {m[1], m[2]}) \cup Pushed(v, w))
      <3>1. Exact(pnToLID, lidToPN, tx, unsure)
        BY <2>4
      <3>2. /\ Exact(pnToLID', lidToPN', Stored(tx, m[1], m[2]), unsure \ {m[1], m[2]})
            /\ filled /\ Complete(pnToLID, lidToPN, tx, unsure, lost)
               => Complete(pnToLID', lidToPN', Stored(tx, m[1], m[2]), unsure \ {m[1], m[2]},
                           (lost \ {m[1], m[2]}) \cup Pushed(v, w))
        BY <3>1, <1>0, <1>m, MappingExact
      <3> QED BY <3>2, <2>4
    <2>6. \A s \in Sources : /\ Cached(s)' = Says(pnToLID', lidToPN', s)
                             /\ Partner(View, s)' = Partner(tx', s)
      BY <2>2 DEF Cached, Says, Partner, Abstract!Partner
    <2> QED BY <2>3, <2>5, <2>6, <1>q DEF CacheExact, Exact, Complete
  <1>7. Abstract!OneToOne(db)' /\ Abstract!OneToOne(tx)'
    BY <1>2, <1>q DEF IInv, Abstract!OneToOne
  <1>8. ScanInv' /\ FillInv'
    BY <1>4, <1>q DEF ScanInv, FillInv, Scanning
  <1>9. PutInv'
    <2>0. /\ \A l \in Lids : tx[l] \in {db[l], Nobody} \/ <<l, tx[l]>> \in mine
          /\ \A l \in Lids : l \notin Of(mine) /\ db[l] \notin Of(mine) => tx[l] = db[l]
      BY <1>4 DEF IInv, PutInv
    <2>1. \A l \in Lids : tx'[l] = IF l = m[1] THEN m[2] ELSE IF tx[l] = m[2] THEN Nobody ELSE tx[l]
      BY DEF Stored
    <2>2. \A l \in Lids : tx'[l] \in {db[l], Nobody} \/ <<l, tx'[l]>> \in mine'
      BY <2>0, <2>1, <1>m
    <2>3. \A l \in Lids : l \notin Of(mine') /\ db[l] \notin Of(mine') => tx'[l] = db[l]
      BY <2>0, <2>1, <1>5
    <2>4. \E x \in mine' : tx'[x[1]] = x[2]
      BY <2>1, <1>m
    <2>5. Of(mine)' = Of(mine')
      BY DEF Of, Abstract!Of
    <2> QED BY <2>2, <2>3, <2>4, <2>5, <1>4, <1>q DEF PutInv
  <1>10. Abstract!Next
    BY <1>3, <1>q, IsAnswer DEF gaps
  <1> QED BY <1>1, <1>3, <1>6, <1>7, <1>8, <1>9, <1>10 DEF IInv

LEMMA CommitStep ==
    ASSUME IInv, NEW c \in Clients, Commit(c)
    PROVE  IInv' /\ Abstract!Next
  <1>q. /\ holder = c /\ pc[c] = "put" /\ todo = {} /\ db' = tx
        /\ forgotten' = (forgotten \ Of(mine)) \cup victims /\ doubt' = doubt \ Of(mine)
        /\ Return(c) /\ UNCHANGED <<maps, filled>> /\ told' = {}
    BY DEF Commit
  <1>0. TypeOK /\ db \in Tables /\ tx \in Tables
    BY TypeGives DEF IInv
  <1>1. /\ ~Putting' /\ ~Filling' /\ ScanInv' /\ FillInv' /\ PutInv' /\ Abstract!OneToOne(tx)'
        /\ tx' \in Tables /\ holder' \in Clients \cup {Nil}
        /\ pc' \in [Clients -> Scanning \cup {"idle", "fill", "put"}]
        /\ missing' \in [Clients -> SUBSET Sources]
        /\ todo' = {} /\ mine' = {} /\ victims' = {}
    BY <1>0, <1>q, Released
  <1>2. TypeOK'
    <2>1. forgotten' \subseteq Sources /\ doubt' \subseteq Sources
      BY <1>0, <1>q DEF TypeOK
    <2> QED BY <1>0, <1>1, <1>q, <2>1 DEF TypeOK, maps, Tables
  <1>3. Putting /\ ~Filling
    BY <1>q DEF Putting, Filling
  <1>4. CacheExact'
    <2>1. View' = View /\ Unsure' = Unsure /\ Lost' = Lost
      BY <1>1, <1>3, <1>q DEF View, Unsure, Lost
    <2> QED BY <2>1, <1>3, <1>q, ExactKept DEF IInv
  <1>5. MapsAgree' /\ Abstract!OneToOne(db)'
    BY <1>q DEF IInv, MapsAgree, maps, Abstract!OneToOne
  <1>6. Abstract!Next
    <2>1. Abstract!OneToOne(db')
      BY <1>q DEF IInv
    <2>2. /\ \A l \in Lids : tx[l] \in {db[l], Nobody} \/ <<l, tx[l]>> \in mine
          /\ \A l \in Lids : l \notin Of(mine) /\ db[l] \notin Of(mine) => tx[l] = db[l]
          /\ \E m \in mine : tx[m[1]] = m[2]
      BY <1>3, <1>q DEF IInv, PutInv
    <2>3. db' \in [Lids -> Pns \cup {Nobody}] /\ doubt' \subseteq doubt /\ forgotten' \subseteq Abstract!Sources
      BY <1>0, <1>2, <1>q DEF Tables, TypeOK, Sources, Abstract!Sources
    <2>4. Abstract!Store(mine)
      BY <2>1, <2>2, <2>3, <1>q DEF Abstract!Store, Of
    <2>5. mine \in SUBSET Abstract!Pairs
      BY <1>0 DEF TypeOK, Pairs, Abstract!Pairs
    <2> QED BY <2>4, <2>5 DEF Abstract!Next
  <1> QED BY <1>1, <1>2, <1>4, <1>5, <1>6 DEF IInv

LEMMA RollbackStep ==
    ASSUME IInv, NEW c \in Clients, Rollback(c)
    PROVE  IInv' /\ Abstract!Next
  <1>q. /\ holder = c /\ pc[c] = "put"
        /\ forgotten' = forgotten \cup victims
        /\ doubt' = doubt \cup (Abstract!Touched(mine) \ {Nobody})
        /\ Return(c) /\ UNCHANGED <<db, maps, filled>> /\ told' = {}
    BY DEF Rollback
  <1>a. Lids \cap Pns = {} /\ Nobody \notin Pns \cup Lids
    BY LIDMapAssumption DEF Sources
  <1>0. TypeOK /\ db \in Tables /\ tx \in Tables /\ Abstract!OneToOne(db) /\ Abstract!OneToOne(tx)
    BY TypeGives DEF IInv
  <1>1. /\ ~Putting' /\ ~Filling' /\ ScanInv' /\ FillInv' /\ PutInv' /\ Abstract!OneToOne(tx)'
        /\ tx' \in Tables /\ holder' \in Clients \cup {Nil}
        /\ pc' \in [Clients -> Scanning \cup {"idle", "fill", "put"}]
        /\ missing' \in [Clients -> SUBSET Sources]
        /\ todo' = {} /\ mine' = {} /\ victims' = {}
    BY <1>0, <1>q, Released
  <1>s. Of(mine) \subseteq Sources
    BY <1>0 DEF TypeOK, Of, Abstract!Of, Pairs, Sources
  <1>t. /\ Of(mine) \subseteq Abstract!Touched(mine)
        /\ \A s \in Of(mine) : Partner(db, s) \in Abstract!Touched(mine)
    BY DEF Of, Partner, Abstract!Touched
  <1>2. TypeOK'
    <2>1. \A s \in Sources : Partner(db, s) \in Sources \cup {Nobody}
      BY <1>0, PartnerFacts DEF Sources, Tables
    <2>2. Abstract!Touched(mine) \subseteq Sources \cup {Nobody}
      BY <2>1, <1>s DEF Abstract!Touched, Of, Partner
    <2>3. forgotten' \subseteq Sources /\ doubt' \subseteq Sources
      BY <1>0, <1>q, <2>2 DEF TypeOK
    <2> QED BY <1>0, <1>1, <1>q, <2>3 DEF TypeOK, maps, Tables
  <1>3. Putting /\ ~Filling
    BY <1>q DEF Putting, Filling
  <1>4. ASSUME NEW s \in Sources, s \notin Abstract!Touched(mine)
        PROVE  Partner(tx, s) = Partner(db, s)
    <2>0. /\ \A l \in Lids : tx[l] \in {db[l], Nobody} \/ <<l, tx[l]>> \in mine
          /\ \A l \in Lids : l \notin Of(mine) /\ db[l] \notin Of(mine) => tx[l] = db[l]
      BY <1>3 DEF IInv, PutInv
    <2>1. CASE s \in Lids
      <3>1. Partner(db, s) = db[s] /\ Partner(tx, s) = tx[s]
        BY <2>1, <1>0, PartnerFacts
      <3>2. db[s] \notin Of(mine)
        <4> SUFFICES ASSUME db[s] \in Of(mine) PROVE FALSE
          OBVIOUS
        <4>1. db[s] \in Pns
          BY <2>1, <1>0, <1>s, <1>a DEF Tables, Sources
        <4>2. Partner(db, db[s]) = s
          BY <4>1, <2>1, <1>0, PartnerFacts
        <4> QED BY <4>2, <1>4, <1>t
      <3> QED BY <3>1, <3>2, <2>0, <2>1, <1>4, <1>t
    <2>2. CASE s \in Pns
      <3>1. s \notin Of(mine)
        BY <1>4, <1>t
      <3>2. CASE Partner(db, s) = Nobody
        <4>1. \A l \in Lids : db[l] # s
          BY <3>2, <2>2, <1>0, PartnerFacts
        <4>2. \A l \in Lids : <<l, s>> \notin mine
          <5> SUFFICES ASSUME NEW l \in Lids, <<l, s>> \in mine PROVE FALSE
            OBVIOUS
          <5>1. <<l, s>>[2] \in Of(mine)
            BY DEF Of, Abstract!Of
          <5> QED BY <5>1, <3>1
        <4>3. \A l \in Lids : tx[l] # s
          BY <4>1, <4>2, <2>0, <2>2, <1>a
        <4> QED BY <4>3, <3>2, <2>2, <1>0, PartnerFacts
      <3>3. CASE Partner(db, s) # Nobody
        <4>1. PICK l \in Lids : Partner(db, s) = l /\ db[l] = s
          BY <3>3, <2>2, <1>0, PartnerFacts
        <4>2. l \notin Of(mine)
          <5>1. Partner(db, l) = s
            BY <4>1, <1>0, PartnerFacts
          <5> QED BY <5>1, <1>4, <1>t
        <4>3. tx[l] = s
          BY <4>1, <4>2, <3>1, <2>0
        <4> QED BY <4>1, <4>3, <2>2, <1>0, PartnerFacts
      <3> QED BY <3>2, <3>3
    <2> QED BY <2>1, <2>2 DEF Sources
  <1>5. CacheExact'
    <2>1. \A s \in Sources : /\ Cached(s)' = Cached(s)
                             /\ Partner(View, s)' = Partner(db, s) /\ Partner(View, s) = Partner(tx, s)
      BY <1>1, <1>3, <1>q DEF Cached, View, Partner, Abstract!Partner, maps
    <2>2. /\ Unsure' = doubt' /\ Unsure \subseteq doubt
          /\ Lost' = forgotten' /\ Lost \subseteq forgotten \cup victims
      BY <1>1, <1>3 DEF Unsure, Lost
    <2>3. \A s \in Sources \ doubt' : s \notin Unsure /\ s \notin Abstract!Touched(mine)
      BY <2>2, <1>q, <1>a DEF Sources
    <2>4. \A s \in Sources \ doubt' : Partner(View, s)' = Partner(View, s)
      BY <2>1, <2>3, <1>4
    <2> QED BY <2>1, <2>2, <2>3, <2>4, <1>3, <1>q DEF IInv, CacheExact
  <1>6. MapsAgree' /\ Abstract!OneToOne(db)'
    BY <1>q DEF IInv, MapsAgree, maps, Abstract!OneToOne
  <1>7. Abstract!Next
    <2>1. forgotten' \subseteq Abstract!Sources
      BY <1>2 DEF TypeOK, Sources, Abstract!Sources
    <2>2. Abstract!Fail(mine)
      BY <2>1, <1>q DEF Abstract!Fail
    <2>3. mine \in SUBSET Abstract!Pairs
      BY <1>0 DEF TypeOK, Pairs, Abstract!Pairs
    <2> QED BY <2>2, <2>3 DEF Abstract!Next
  <1> QED BY <1>1, <1>2, <1>5, <1>6, <1>7 DEF IInv

LEMMA RestartStep ==
    ASSUME IInv, Restart
    PROVE  IInv' /\ Abstract!Next
  <1> USE DEF Restart
  <1>a. Nobody \notin Pns \cup Lids /\ Absent \notin Pns \cup Lids /\ Nil \notin Clients
    BY LIDMapAssumption DEF Sources
  <1>0. TypeOK
    BY DEF IInv
  <1>1. Present(pnToLID') = {} /\ Present(lidToPN') = {}
    BY DEF Present
  <1>2. Cardinality(Present(pnToLID')) <= Max /\ Cardinality(Present(lidToPN')) <= Max
    BY <1>1, FS_EmptySet, LIDMapAssumption
  <1>3. TypeOK'
    BY <1>0, <1>2 DEF TypeOK, Present
  <1>4. ~Putting' /\ ~Filling'
    BY <1>a DEF Putting, Filling
  <1>5. MapsAgree'
    BY <1>a DEF MapsAgree
  <1>6. CacheExact'
    <2>1. \A s \in Sources : Cached(s)' = Absent
      BY DEF Cached, Sources
    <2> QED BY <2>1 DEF CacheExact
  <1>7. Abstract!OneToOne(db)' /\ Abstract!OneToOne(tx)'
    BY DEF IInv, Abstract!OneToOne
  <1>8. ScanInv' /\ FillInv' /\ PutInv'
    BY <1>4, <1>a DEF ScanInv, FillInv, PutInv
  <1>9. Abstract!Next
    BY DEF Abstract!Next, Abstract!Refill
  <1> QED BY <1>3, <1>5, <1>6, <1>7, <1>8, <1>9 DEF IInv

-----------------------------------------------------------------------------
(* The theorems                                                            *)

\* Every step keeps the inductive invariant and is a step of the abstract store.
LEMMA NextStep ==
    ASSUME IInv, Next
    PROVE  IInv' /\ Abstract!Next
  <1>1. CASE \E c \in Clients, kind \in Scanning, asked \in SUBSET Sources \ {{}} : Lookup(c, kind, asked)
    BY <1>1, LookupStep
  <1>2. ASSUME NEW c \in Clients,
               \/ Query(c) \/ ScanRow(c) \/ CacheMiss(c) \/ LookupReturns(c) \/ LookupFails(c)
               \/ FillCache(c) \/ FillRow(c) \/ FillReturns(c)
               \/ unlockedPutLIDMapping(c) \/ Commit(c) \/ Rollback(c)
        PROVE  IInv' /\ Abstract!Next
    BY <1>2, QueryStep, ScanRowStep, CacheMissStep, LookupReturnsStep, FillCacheStep, FillRowStep,
       FillReturnsStep, unlockedPutStep, CommitStep, RollbackStep
  <1>3. CASE \E c \in Clients, mappings \in SUBSET Pairs : PutBegin(c, mappings)
    BY <1>3, PutBeginStep
  <1>4. CASE Restart
    BY <1>4, RestartStep
  <1> QED BY <1>1, <1>2, <1>3, <1>4 DEF Next

LEMMA StutterStep ==
    ASSUME IInv, UNCHANGED vars
    PROVE  IInv'
  <1> USE DEF vars, txn, maps, gaps
  <1>1. TypeOK' /\ MapsAgree'
    BY DEF IInv, TypeOK, MapsAgree
  <1>2. Putting' = Putting /\ Filling' = Filling /\ Rows' = Rows
    BY DEF Putting, Filling, Rows
  <1>3. CacheExact'
    BY <1>2, ExactKept DEF IInv, View, Unsure, Lost
  <1>4. Abstract!OneToOne(db)' /\ Abstract!OneToOne(tx)'
    BY DEF IInv, Abstract!OneToOne
  <1>5. ScanInv' /\ FillInv' /\ PutInv'
    BY <1>2 DEF IInv, ScanInv, FillInv, PutInv, Partner, Abstract!Partner, Of, Abstract!Of
  <1> QED BY <1>1, <1>3, <1>4, <1>5 DEF IInv

LEMMA Invariance == Spec => []IInv
  <1>1. IInv /\ [Next]_vars => IInv'
    BY NextStep, StutterStep
  <1> QED BY <1>1, InitInv, PTL DEF Spec

\* Types, and the bound of the two maps: however rows, misses and evictions follow
\* each other, neither map has more than maxLIDCacheEntries entries.
THEOREM TypeCorrect == Spec => []TypeOK
  <1>1. IInv => TypeOK
    BY DEF IInv
  <1> QED BY <1>1, Invariance, PTL

\* The caches in the two directions are always each other's inverse: the reverse
\* entries that cacheMappingLocked, cacheMissLocked and evictLIDCacheEntry delete
\* are the right ones.
THEOREM MapsAreInverse == Spec => []MapsAgree
  <1>1. IInv => MapsAgree
    BY DEF IInv
  <1> QED BY <1>1, Invariance, PTL

\* The maps tell what the table holds, and a filled cache has every row, except for
\* the sources that were evicted from it or that a failed transaction touched.
THEOREM CacheIsExact == Spec => []CacheExact
  <1>1. IInv => CacheExact
    BY DEF IInv
  <1> QED BY <1>1, Invariance, PTL

\* CachedLIDMap implements the promise of store.LIDStore.
THEOREM Refinement == Spec => ImplementsStore
  <1>1. Init => Abstract!Init
    BY DEF Init, Abstract!Init
  <1>2. IInv /\ [Next]_vars => [Abstract!Next]_(Abstract!vars)
    <2>1. UNCHANGED vars => UNCHANGED Abstract!vars
      BY DEF vars, gaps, Abstract!vars
    <2> QED BY <2>1, NextStep
  <1>3. Spec => Abstract!Spec
    BY <1>1, <1>2, Invariance, PTL DEF Spec, Abstract!Spec
  <1> QED BY <1>3 DEF ImplementsStore
=============================================================================
