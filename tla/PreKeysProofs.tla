--------------------------- MODULE PreKeysProofs ---------------------------
(***************************************************************************)
(* Theorems about PreKeys, for any number of triggers, keys and faults and *)
(* any counts.                                                             *)
(*                                                                         *)
(* Ids come back, material does not: KeyInv says that everything known is  *)
(* older than the next serial, so a new key is in nobody's hands.          *)
(* SingleInv keeps the keys of retry receipts apart from those of uploads: *)
(* no batch has one.  UploadInv says what the batch of the goroutine in    *)
(* uploadPreKeys is, and AckInv that a confirmed batch stays pending only  *)
(* while its acknowledgement is still to be made.                          *)
(***************************************************************************)
EXTENDS PreKeys, FiniteSetTheorems, WellFoundedInduction, NaturalsInduction, TLAPS

-----------------------------------------------------------------------------
(* The inductive invariant                                                 *)

HistoryType ==
    published \subseteq Keys /\ singles \subseteq Keys /\ confirmed \subseteq published /\ crashed \in BOOLEAN

\* Ids never outrun the serial numbers, and nothing known is newer than serial.
KeyInv ==
    /\ \A r \in rows : r.id <= serial /\ r.key <= serial
    /\ \A k \in published \cup singles : k.key <= serial

\* A key is handed out once, and what is on offer was uploaded or is of a receipt.
OfferInv ==
    /\ server \subseteq published /\ given \subseteq published \cup singles
    /\ server \cap given \subseteq repeated
    /\ OfferedKeysWork
    /\ MarkedWasUploaded

\* The keys of retry receipts: one not sent yet is unused, and no upload has them;
\* what an upload has is in the store or was uploaded before.
SingleInv ==
    /\ receipt \subseteq singles \cap KeysOf(rows) /\ receipt \cap given = {}
    /\ singles \cap published = {}
    /\ batch \cup pending \subseteq (KeysOf(rows) \cup published) \ singles
    /\ ~remote => \A r \in rows : KeyOf(r) \in singles => r.up

\* A trigger has a batch, or the first part of it.
Uploading(t) == pc[t] \in {"numbering", "sending", "waiting", "marking"}

\* The rows that MarkPreKeysAsUploaded will mark are in the batch or were uploaded.
BatchCovers ==
    \A r \in rows : \A k \in batch : ~r.up /\ r.id <= k.id => KeyOf(r) \in batch \cup published

UploadInv ==
    \A t \in Triggers : Uploading(t) =>
        /\ batch \subseteq KeysOf(rows) \cup published
        /\ pc[t] \in {"waiting", "marking"} => batch \subseteq published
        /\ pc[t] = "marking" => batch \subseteq confirmed
        /\ ~remote => BatchCovers
        /\ remote => ids = batch /\ batch # {} /\ ~awaitingACK
        /\ pc[t] = "numbering" =>
              ~remote /\ (Cardinality(batch) < Count(t) => KeysOf(Unuploaded) \subseteq batch)

\* A confirmed key is pending only as long as its acknowledgement is to be made or
\* to be repeated, so the next batch has none.
AckInv ==
    /\ awaitingACK => ids \subseteq confirmed
    /\ remote /\ ~crashed =>
          /\ \A t \in Triggers : pc[t] \in {"sending", "waiting"} => batch \cap confirmed = {}
          /\ \A k \in pending \cap confirmed :
                k \in ids /\ (awaitingACK \/ \E t \in Triggers : pc[t] = "marking")

IInv == TypeOK /\ HistoryType /\ KeyInv /\ OfferInv /\ SingleInv /\ UploadInv /\ AckInv

-----------------------------------------------------------------------------
(* The operators of the store                                              *)

\* A set of naturals that is not empty has a least element.
LEMMA LeastNat ==
    ASSUME NEW S \in SUBSET Nat, S # {}
    PROVE  \E m \in S : \A n \in S : m <= n
  <1>1. PICK m \in S : \A n \in S : ~(<<n, m>> \in OpToRel(<, Nat))
    BY NatLessThanWellFounded, WFMin
  <1>2. \A n \in S : ~(n < m)
    BY <1>1 DEF OpToRel
  <1> QED BY <1>2

\* getNextPreKeyID: the next id is above every id in the table, and no higher than
\* one above a bound on them.
LEMMA NextIDFacts ==
    ASSUME NEW b \in Nat, rows \subseteq Rows, \A r \in rows : r.id <= b
    PROVE  /\ NextID \in 1..(b + 1)
           /\ \A r \in rows : r.id < NextID
  <1> DEFINE S == {0} \cup {r.id : r \in rows}
             B == {n \in Nat : \A x \in S : x <= n}
  <1>1. S \subseteq Nat /\ 0 \in S /\ b \in B
    BY DEF Rows, Serials
  <1>2. PICK m \in B : \A n \in B : m <= n
    <2> HIDE DEF B
    <2> QED BY <1>1, LeastNat DEF B
  <1>3. m \in S
    <2> SUFFICES ASSUME m \notin S PROVE FALSE
      OBVIOUS
    <2> HIDE DEF S
    <2>1. m # 0 /\ \A x \in S : x <= m /\ x # m
      BY <1>1
    <2>2. m - 1 \in B
      BY <2>1, <1>1
    <2> QED BY <2>2, <1>2
  <1> HIDE DEF S
  <1>4. m \in S /\ \A y \in S : m >= y
    BY <1>1, <1>3
  <1>5. Max(S) \in S /\ \A y \in S : Max(S) >= y
    BY <1>4 DEF Max
  <1>6. Max(S) = m
    <2> DEFINE x == Max(S)
    <2>1. x \in S /\ \A y \in S : x >= y
      BY <1>5
    <2> HIDE DEF x
    <2>2. x \in Nat /\ m \in Nat /\ x >= m /\ m >= x
      BY <1>1, <1>4, <2>1
    <2>3. x = m
      BY <2>2
    <2> QED BY <2>3 DEF x
  <1>7. NextID = m + 1
    BY <1>6 DEF NextID, S
  <1>8. \A r \in rows : r.id \in S
    BY DEF S
  <1>9. \A r \in rows : r.id \in Nat
    BY DEF Rows, Serials
  <1> QED BY <1>1, <1>2, <1>4, <1>7, <1>8, <1>9

\* The keys in the store are finitely many, as no two have an id in common.
LEMMA RowsFinite ==
    ASSUME NEW rs \in SUBSET Rows, \A r, q \in rs : r.id = q.id => r = q
    PROVE  IsFiniteSet(rs)
  <1> DEFINE f == [r \in rs |-> r.id]
  <1>1. f \in Injection(rs, Serials)
    BY DEF Injection, IsInjective, Rows
  <1>2. IsFiniteSet(Serials)
    BY FS_Interval, PreKeysAssumption DEF Serials
  <1> QED BY <1>1, <1>2, FS_Injection

\* n new keys are n rows.
LEMMA FreshCount ==
    ASSUME NEW n \in Int, NEW up, serial \in Nat, NextID \in Nat
    PROVE  /\ IsFiniteSet(Fresh(n, up))
           /\ Cardinality(Fresh(n, up)) = IF n > 0 THEN n ELSE 0
  <1> DEFINE f == [k \in 0..(n - 1) |-> [id |-> NextID + k, key |-> serial + 1 + k, up |-> up]]
  <1>1. f \in Bijection(0..(n - 1), Fresh(n, up))
    <2>1. \A j, k \in 0..(n - 1) : f[j] = f[k] => j = k
      <3> TAKE j, k \in 0..(n - 1)
      <3>1. f[j].key = serial + 1 + j /\ f[k].key = serial + 1 + k
        OBVIOUS
      <3> QED BY <3>1
    <2> QED BY <2>1 DEF Fresh, Bijection, Injection, Surjection, IsInjective
  <1>2. IsFiniteSet(0..(n - 1)) /\ Cardinality(0..(n - 1)) = IF n > 0 THEN n ELSE 0
    BY FS_Interval
  <1> QED BY <1>1, <1>2, FS_Bijection DEF ExistsBijection

\* What a new key is: above all ids and serials there are.
LEMMA FreshFacts ==
    ASSUME NEW n \in Int, NEW up \in BOOLEAN, TypeOK, KeyInv,
           serial + Cardinality(Fresh(n, up)) <= MaxKeys
    PROVE  /\ Cardinality(Fresh(n, up)) \in Nat
           /\ Fresh(n, up) \subseteq Rows
           /\ \A q \in Fresh(n, up) :
                /\ q.up = up
                /\ q.key > serial /\ q.key <= serial + Cardinality(Fresh(n, up))
                /\ q.id <= serial + Cardinality(Fresh(n, up))
                /\ \A r \in rows : r.id < q.id
           /\ \A p, q \in Fresh(n, up) : p.id = q.id => p = q
           /\ n > 0 => Fresh(n, up) # {}
  <1>1. serial \in Nat /\ MaxKeys \in Nat /\ rows \subseteq Rows
    BY PreKeysAssumption DEF TypeOK
  <1>2. NextID \in 1..(serial + 1) /\ \A r \in rows : r.id < NextID
    BY <1>1, NextIDFacts DEF KeyInv
  <1> DEFINE c == Cardinality(Fresh(n, up))
  <1>3. c = IF n > 0 THEN n ELSE 0
    BY <1>1, <1>2, FreshCount
  <1> HIDE DEF c
  <1>4. \A r \in rows : r.id \in Nat
    BY <1>1 DEF Rows, Serials
  <1>5. ASSUME NEW k \in 0..(n - 1)
        PROVE  /\ NextID + k \in Serials /\ serial + 1 + k \in Serials
               /\ serial + 1 + k > serial /\ serial + 1 + k <= serial + c
               /\ NextID + k <= serial + c /\ \A r \in rows : r.id < NextID + k
    BY <1>1, <1>2, <1>3, <1>4, <1>5 DEF Serials, c
  <1>6. Fresh(n, up) \subseteq Rows
    BY <1>5 DEF Fresh, Rows
  <1>7. \A q \in Fresh(n, up) :
            /\ q.up = up
            /\ q.key > serial /\ q.key <= serial + c
            /\ q.id <= serial + c
            /\ \A r \in rows : r.id < q.id
    BY <1>5 DEF Fresh
  <1>8. \A p, q \in Fresh(n, up) : p.id = q.id => p = q
    <2> SUFFICES ASSUME NEW j \in 0..(n - 1), NEW k \in 0..(n - 1), NextID + j = NextID + k
                 PROVE  j = k
      BY DEF Fresh
    <2> QED BY <1>2
  <1>9. n > 0 => Fresh(n, up) # {}
    <2>1. n > 0 => 0 \in 0..(n - 1)
      OBVIOUS
    <2> QED BY <2>1 DEF Fresh
  <1>10. c \in Nat
    BY <1>3
  <1> QED BY <1>6, <1>7, <1>8, <1>9, <1>10 DEF c

\* The lowest keys that are not uploaded are closed downwards, and all of them if
\* they are fewer than asked for.
LEMMA LowestFacts ==
    ASSUME NEW n \in Nat, TypeOK
    PROVE  /\ Lowest(n) \subseteq Unuploaded /\ Cardinality(Lowest(n)) \in Nat
           /\ \A r \in Unuploaded : \A q \in Lowest(n) : r.id <= q.id => r \in Lowest(n)
           /\ Cardinality(Lowest(n)) < n => Lowest(n) = Unuploaded
  <1> DEFINE Below(r) == {q \in Unuploaded : q.id < r.id}
  <1>1. IsFiniteSet(Unuploaded) /\ \A r \in Unuploaded : r.id \in Nat
    <2>1. IsFiniteSet(rows)
      BY RowsFinite DEF TypeOK
    <2> QED BY <2>1, FS_Subset DEF Unuploaded, TypeOK, Rows, Serials
  <1>2. Lowest(n) \subseteq Unuploaded /\ \A r \in Unuploaded : r \in Lowest(n) <=> Cardinality(Below(r)) < n
    BY DEF Lowest
  <1>3. \A r : IsFiniteSet(Below(r)) /\ Cardinality(Below(r)) \in Nat
    BY <1>1, FS_Subset, FS_CardinalityType
  <1>4. IsFiniteSet(Lowest(n)) /\ Cardinality(Lowest(n)) \in Nat
    BY <1>1, <1>2, FS_Subset, FS_CardinalityType
  <1>5. ASSUME NEW r \in Unuploaded, NEW q \in Lowest(n), r.id <= q.id
        PROVE  r \in Lowest(n)
    <2>1. Below(r) \subseteq Below(q)
      BY <1>1, <1>2, <1>5
    <2> HIDE DEF Below
    <2>2. Cardinality(Below(r)) <= Cardinality(Below(q))
      BY <2>1, <1>3, FS_Subset
    <2> QED BY <1>2, <1>3, <1>5, <2>2
  <1>6. ASSUME Cardinality(Lowest(n)) < n, NEW x \in Unuploaded \ Lowest(n)
        PROVE  FALSE
    <2> DEFINE I == {r.id : r \in Unuploaded \ Lowest(n)}
    <2>1. I \in SUBSET Nat /\ I # {}
      BY <1>1, <1>6
    <2>2. PICK m \in I : \A i \in I : m <= i
      <3> HIDE DEF I
      <3> QED BY <2>1, LeastNat
    <2>3. PICK r \in Unuploaded \ Lowest(n) : r.id = m
      OBVIOUS
    <2>4. Below(r) \subseteq Lowest(n)
      <3> SUFFICES ASSUME NEW q \in Unuploaded, q.id < r.id, q \notin Lowest(n) PROVE FALSE
        BY DEF Below
      <3>1. q.id \in I
        OBVIOUS
      <3> QED BY <3>1, <2>2, <2>3, <1>1
    <2> HIDE DEF Below
    <2>5. Cardinality(Below(r)) <= Cardinality(Lowest(n))
      BY <2>4, <1>4, FS_Subset
    <2> QED BY <2>3, <2>5, <1>2, <1>3, <1>4, <1>6
  <1> QED BY <1>2, <1>4, <1>5, <1>6

\* Rows with the same keys and ids: marking one or more of them.
LEMMA MarkFacts ==
    ASSUME TypeOK, NEW ks, NEW rs, rs = Marked(rows, ks) \/ rs = Acknowledged(rows, ks)
    PROVE  /\ rs \subseteq Rows
           /\ KeysOf(rs) = KeysOf(rows)
           /\ \A q \in rs : \E r \in rows : q.id = r.id /\ q.key = r.key /\ (r.up => q.up)
           /\ \A r, q \in rs : r.id = q.id => r = q
  <1> DEFINE Mk(r) == [r EXCEPT !.up = @ \/ \E k \in ks : r.id <= k.id]
             Ak(r) == [r EXCEPT !.up = @ \/ KeyOf(r) \in ks]
  <1>1. \A r \in rows : r \in Rows /\ r.up \in BOOLEAN
    BY DEF TypeOK, Rows
  <1>2. \A r \in rows : /\ Mk(r) \in Rows /\ KeyOf(Mk(r)) = KeyOf(r) /\ Mk(r).id = r.id /\ Mk(r).key = r.key
                        /\ r.up => Mk(r).up
    BY <1>1 DEF Rows, KeyOf
  <1>3. \A r \in rows : /\ Ak(r) \in Rows /\ KeyOf(Ak(r)) = KeyOf(r) /\ Ak(r).id = r.id /\ Ak(r).key = r.key
                        /\ r.up => Ak(r).up
    BY <1>1 DEF Rows, KeyOf
  <1>4. Marked(rows, ks) = {Mk(r) : r \in rows} /\ Acknowledged(rows, ks) = {Ak(r) : r \in rows}
    BY DEF Marked, Acknowledged
  <1>5. \A r, q \in rows : r.id = q.id => r = q
    BY DEF TypeOK
  <1> HIDE DEF Mk, Ak
  <1>6. CASE rs = Marked(rows, ks)
    <2>1. rs = {Mk(r) : r \in rows}
      BY <1>4, <1>6
    <2> QED BY <2>1, <1>2, <1>5 DEF KeysOf
  <1>7. CASE rs = Acknowledged(rows, ks)
    <2>1. rs = {Ak(r) : r \in rows}
      BY <1>4, <1>7
    <2> QED BY <2>1, <1>3, <1>5 DEF KeysOf
  <1> QED BY <1>6, <1>7

\* Generating keys: their material is nobody's yet.
LEMMA RowsGrow ==
    ASSUME TypeOK, HistoryType, KeyInv, NEW n \in Int, NEW up \in BOOLEAN,
           serial + Cardinality(Fresh(n, up)) <= MaxKeys,
           rows' = rows \cup Fresh(n, up),
           serial' = serial + Cardinality(Fresh(n, up)),
           UNCHANGED published,
           singles' = singles \/ singles' = singles \cup KeysOf(Fresh(n, up))
    PROVE  /\ rows' \subseteq Rows /\ \A r, q \in rows' : r.id = q.id => r = q
           /\ serial' \in 0..MaxKeys
           /\ KeyInv'
           /\ KeysOf(rows') = KeysOf(rows) \cup KeysOf(Fresh(n, up))
           /\ KeysOf(Fresh(n, up)) \subseteq Keys
           /\ KeysOf(Fresh(n, up)) \cap (published \cup singles) = {}
           /\ KeysOf(Fresh(n, up)) \cap KeysOf(rows) = {}
           /\ \A r \in rows' : r \in rows \/ (r \in Fresh(n, up) /\ r.up = up)
  <1> DEFINE F == Fresh(n, up)
             c == Cardinality(F)
  <1>1. /\ c \in Nat /\ F \subseteq Rows
        /\ \A q \in F : /\ q.up = up /\ q.key > serial /\ q.key <= serial + c /\ q.id <= serial + c
                        /\ \A r \in rows : r.id < q.id
        /\ \A r, q \in F : r.id = q.id => r = q
    BY FreshFacts
  <1>2. /\ rows' = rows \cup F /\ serial' = serial + c /\ serial + c <= MaxKeys
        /\ published' = published /\ (singles' = singles \/ singles' = singles \cup KeysOf(F))
    OBVIOUS
  <1> HIDE DEF F, c
  <1>3. /\ rows \subseteq Rows /\ serial \in Nat /\ MaxKeys \in Nat /\ published \cup singles \subseteq Keys
        /\ \A r, q \in rows : r.id = q.id => r = q
    BY PreKeysAssumption DEF TypeOK, HistoryType
  <1>4. \A r \in rows \cup F : r.id \in Nat /\ r.key \in Nat
    BY <1>1, <1>3 DEF Rows, Serials
  <1>5. \A k \in published \cup singles : k.key \in Nat
    BY <1>3 DEF Keys, Serials
  <1>6. KeysOf(F) \subseteq Keys /\ \A k \in KeysOf(F) : k.key > serial /\ k.key <= serial + c
    BY <1>1 DEF KeysOf, KeyOf, Keys, Rows
  <1>7. KeysOf(F) \cap (published \cup singles) = {}
    BY <1>3, <1>5, <1>6 DEF KeyInv
  <1>14. KeysOf(F) \cap KeysOf(rows) = {}
    <2>1. \A k \in KeysOf(rows) : k.key \in Nat /\ k.key <= serial
      BY <1>4 DEF KeyInv, KeysOf, KeyOf
    <2> QED BY <1>3, <1>6, <2>1
  <1>8. \A r, q \in rows' : r.id = q.id => r = q
    BY <1>1, <1>2, <1>3, <1>4
  <1>9. KeysOf(rows') = KeysOf(rows) \cup KeysOf(F)
    BY <1>2 DEF KeysOf
  <1>10. \A r \in rows' : r.id <= serial' /\ r.key <= serial'
    BY <1>1, <1>2, <1>3, <1>4 DEF KeyInv
  <1>11. \A k \in published' \cup singles' : k.key <= serial'
    BY <1>1, <1>2, <1>3, <1>5, <1>6 DEF KeyInv
  <1>12. rows' \subseteq Rows /\ serial' \in 0..MaxKeys /\ KeyInv'
    BY <1>1, <1>2, <1>3, <1>10, <1>11 DEF KeyInv
  <1>13. \A r \in rows' : r \in rows \/ (r \in F /\ r.up = up)
    BY <1>1, <1>2
  <1> QED BY <1>6, <1>7, <1>8, <1>9, <1>12, <1>13, <1>14 DEF F

-----------------------------------------------------------------------------
(* Parts of the invariant that a step leaves alone                         *)

\* The parts of TypeOK.
StoreType ==
    /\ rows \subseteq Rows /\ \A r, q \in rows : r.id = q.id => r = q
    /\ serial \in 0..MaxKeys /\ pending \subseteq Keys
TriggerType ==
    /\ lock \in Triggers \cup {Nil} /\ recent \in BOOLEAN
    /\ pc \in [Triggers -> Steps]
    /\ \A t \in Triggers : pc[t] \in Holding <=> lock = t
    /\ dbCount \in [Triggers -> 0..MinPreKeyCount] /\ initial \in [Triggers -> BOOLEAN]
BatchType ==
    /\ remote \in BOOLEAN /\ server \subseteq Keys /\ given \subseteq Keys /\ receipt \subseteq Keys
    /\ batch \subseteq Keys /\ ids \subseteq Keys
    /\ awaitingACK \in BOOLEAN /\ (awaitingACK => ids # {})
FaultType == faults \in 0..MaxFaults

\* TypeOK is its parts.
LEMMA TypeParts == TypeOK <=> StoreType /\ TriggerType /\ BatchType /\ FaultType
  BY DEF TypeOK, StoreType, TriggerType, BatchType, FaultType

\* And after a step.
LEMMA TypePartsNext == TypeOK' <=> StoreType' /\ TriggerType' /\ BatchType' /\ FaultType'
  BY DEF TypeOK, StoreType, TriggerType, BatchType, FaultType

\* A fault is counted, or there was none.
LEMMA FaultStep ==
    ASSUME FaultType, Fault \/ UNCHANGED faults
    PROVE  FaultType'
  BY PreKeysAssumption DEF FaultType, Fault

\* The mutex follows the places of the triggers: one moves on without changing
\* sides, takes the mutex, or gives it back.
LEMMA TriggerStep ==
    ASSUME TriggerType, NEW t \in Triggers, NEW step \in Steps, Goto(t, step),
           \/ UNCHANGED lock /\ (step \in Holding <=> pc[t] \in Holding)
           \/ lock = Nil /\ lock' = t /\ step \in Holding
           \/ pc[t] \in Holding /\ lock' = Nil /\ step \notin Holding,
           recent' \in BOOLEAN,
           dbCount' \in [Triggers -> 0..MinPreKeyCount], initial' \in [Triggers -> BOOLEAN]
    PROVE  TriggerType'
  <1>1. /\ pc' \in [Triggers -> Steps] /\ pc'[t] = step
        /\ \A u \in Triggers \ {t} : pc'[u] = pc[u]
    BY DEF TriggerType, Goto
  <1>2. Nil \notin Triggers
    BY PreKeysAssumption
  <1>3. lock' \in Triggers \cup {Nil}
    BY DEF TriggerType
  <1>4. \A u \in Triggers : pc'[u] \in Holding <=> lock' = u
    <2> TAKE u \in Triggers
    <2>1. \A v \in Triggers : pc[v] \in Holding <=> lock = v
      BY DEF TriggerType
    <2>2. CASE UNCHANGED lock /\ (step \in Holding <=> pc[t] \in Holding)
      BY <1>1, <2>1, <2>2
    <2>3. CASE lock = Nil /\ lock' = t /\ step \in Holding
      BY <1>1, <1>2, <2>1, <2>3
    <2>4. CASE pc[t] \in Holding /\ lock' = Nil /\ step \notin Holding
      BY <1>1, <1>2, <2>1, <2>4
    <2> QED BY <2>2, <2>3, <2>4
  <1> QED BY <1>1, <1>3, <1>4 DEF TriggerType

\* uploadPreKeys returns.
LEMMA ReturnStep ==
    ASSUME TriggerType, NEW t \in Triggers, pc[t] \in Holding, Return(t),
           recent' \in BOOLEAN, UNCHANGED dbCount
    PROVE  TriggerType' /\ batch' = {} /\ \A u \in Triggers : ~Uploading(u)'
  <1>1. "idle" \in Steps /\ "idle" \notin Holding
    BY DEF Steps, Holding
  <1>2. initial' \in [Triggers -> BOOLEAN] /\ dbCount' \in [Triggers -> 0..MinPreKeyCount]
    BY DEF Return, TriggerType
  <1>3. Goto(t, "idle") /\ lock' = Nil /\ batch' = {}
    BY DEF Return
  <1>4. TriggerType'
    BY <1>1, <1>2, <1>3, TriggerStep
  <1>5. \A u \in Triggers : pc'[u] \notin Holding
    BY <1>3, <1>4, PreKeysAssumption DEF TriggerType
  <1> QED BY <1>3, <1>4, <1>5 DEF Uploading, Holding

\* Keys on offer keep working when nothing is removed and nothing is offered.
LEMMA OfferKept ==
    ASSUME OfferInv, UNCHANGED <<server, given, receipt>>,
           published \subseteq published', singles \subseteq singles', repeated \subseteq repeated',
           KeysOf(rows) \subseteq KeysOf(rows'),
           MarkedWasUploaded'
    PROVE  OfferInv'
  BY DEF OfferInv, OfferedKeysWork

\* The keys of receipts stay as they are: no upload gets one, and none is removed.
LEMMA SingleKept ==
    ASSUME SingleInv, UNCHANGED <<remote, given, receipt, singles>>,
           singles \cap published' = {},
           batch' \cup pending' \subseteq (KeysOf(rows') \cup published') \ singles,
           KeysOf(rows) \subseteq KeysOf(rows'),
           ~remote => \A r \in rows' : KeyOf(r) \in singles /\ ~r.up => r \in rows
    PROVE  SingleInv'
  BY DEF SingleInv

\* A step beside the upload: rows may come if they are marked or the store is remote,
\* and go if they were uploaded or are in no batch; no trigger gets a batch or
\* finishes one.
LEMMA UploadKept ==
    ASSUME UploadInv, UNCHANGED <<remote, ids, awaitingACK, confirmed>>,
           published \subseteq published',
           KeysOf(rows) \cap batch \subseteq KeysOf(rows') \cup published',
           \A r \in rows' : r \in rows \/ r.up \/ remote,
           \A t \in Triggers : Uploading(t)' => pc'[t] = pc[t] /\ batch' = batch /\ initial'[t] = initial[t]
    PROVE  UploadInv'
  <1> SUFFICES ASSUME NEW t \in Triggers, Uploading(t)'
               PROVE  /\ batch' \subseteq KeysOf(rows') \cup published'
                      /\ pc'[t] \in {"waiting", "marking"} => batch' \subseteq published'
                      /\ pc'[t] = "marking" => batch' \subseteq confirmed'
                      /\ ~remote' => BatchCovers'
                      /\ remote' => ids' = batch' /\ batch' # {} /\ ~awaitingACK'
                      /\ pc'[t] = "numbering" =>
                            ~remote' /\ (Cardinality(batch') < Count(t)' => KeysOf(Unuploaded') \subseteq batch')
    BY DEF UploadInv, KeysOf, Unuploaded, Count
  <1>1. Uploading(t) /\ pc'[t] = pc[t] /\ batch' = batch /\ Count(t)' = Count(t)
    BY DEF Uploading, Count
  <1>2. /\ batch \subseteq KeysOf(rows) \cup published
        /\ pc[t] \in {"waiting", "marking"} => batch \subseteq published
        /\ pc[t] = "marking" => batch \subseteq confirmed
        /\ ~remote => BatchCovers
        /\ remote => ids = batch /\ batch # {} /\ ~awaitingACK
        /\ pc[t] = "numbering" =>
              ~remote /\ (Cardinality(batch) < Count(t) => KeysOf(Unuploaded) \subseteq batch)
    BY <1>1 DEF UploadInv
  <1>3. ~remote => BatchCovers'
    BY <1>1, <1>2 DEF BatchCovers
  <1>4. ~remote => KeysOf(Unuploaded') \subseteq KeysOf(Unuploaded)
    BY DEF KeysOf, Unuploaded
  <1> QED BY <1>1, <1>2, <1>3, <1>4

\* No trigger is left with a batch.
LEMMA UploadOver ==
    ASSUME \A t \in Triggers : ~Uploading(t)'
    PROVE  UploadInv'
  BY DEF UploadInv

\* Nothing that AckInv is about changes.
LEMMA AckKept ==
    ASSUME AckInv, UNCHANGED <<remote, ids, awaitingACK, confirmed, crashed, pending>>,
           \A t \in Triggers : Uploading(t)' => pc'[t] = pc[t] /\ batch' = batch,
           \A t \in Triggers : pc[t] = "marking" => pc'[t] = "marking"
    PROVE  AckInv'
  <1>1. \A t \in Triggers : pc'[t] \in {"sending", "waiting"} => pc[t] \in {"sending", "waiting"} /\ batch' = batch
    BY DEF Uploading
  <1> QED BY <1>1 DEF AckInv

-----------------------------------------------------------------------------
(* The triggers on their way to an upload, and giving up                   *)

\* A step that leaves the store, the server and the history alone, gives no trigger
\* a batch and finishes none.
LEMMA Beside ==
    ASSUME IInv, TriggerType', FaultType', batch' = batch \/ batch' = {},
           UNCHANGED <<remote, store, server, given, receipt, ids, awaitingACK, history>>,
           \A t \in Triggers : Uploading(t)' => pc'[t] = pc[t] /\ batch' = batch /\ initial'[t] = initial[t],
           \A t \in Triggers : pc[t] = "marking" => pc'[t] = "marking"
    PROVE  IInv'
  <1>1. UNCHANGED <<remote, rows, serial, pending, server, given, receipt, ids, awaitingACK,
                    published, singles, confirmed, repeated, crashed>>
    BY DEF store, history
  <1>2. TypeOK'
    <2>1. StoreType' /\ BatchType'
      BY <1>1, TypeParts DEF IInv, StoreType, BatchType
    <2> QED BY <2>1, TypePartsNext
  <1>3. HistoryType' /\ KeyInv'
    BY <1>1 DEF IInv, HistoryType, KeyInv
  <1>4. OfferInv'
    BY <1>1 DEF IInv, OfferInv, OfferedKeysWork, MarkedWasUploaded
  <1>5. UploadInv'
    <2>1. KeysOf(rows) \cap batch \subseteq KeysOf(rows') \cup published' /\ published \subseteq published'
      BY <1>1
    <2>2. \A r \in rows' : r \in rows \/ r.up \/ remote
      BY <1>1
    <2> QED BY <1>1, <2>1, <2>2, UploadKept DEF IInv
  <1>6. AckInv'
    BY <1>1, AckKept DEF IInv
  <1>7. SingleInv'
    BY <1>1 DEF IInv, SingleInv
  <1> QED BY <1>2, <1>3, <1>4, <1>5, <1>6, <1>7 DEF IInv

\* A trigger walks between two places without a batch.
LEMMA Walk ==
    ASSUME IInv, NEW t \in Triggers, NEW step \in Steps, Goto(t, step),
           ~Uploading(t), step \notin {"numbering", "sending", "waiting", "marking"},
           \/ UNCHANGED lock /\ (step \in Holding <=> pc[t] \in Holding)
           \/ lock = Nil /\ lock' = t /\ step \in Holding
           \/ pc[t] \in Holding /\ lock' = Nil /\ step \notin Holding,
           dbCount' \in [Triggers -> 0..MinPreKeyCount], initial' \in [Triggers -> BOOLEAN],
           \A u \in Triggers \ {t} : initial'[u] = initial[u],
           Fault \/ UNCHANGED faults,
           batch' = batch \/ (batch' = {} /\ pc[t] \in Holding),
           UNCHANGED <<remote, store, server, given, receipt, recent, ids, awaitingACK, history>>
    PROVE  IInv'
  <1>1. TriggerType /\ FaultType
    BY TypeParts DEF IInv
  <1>2. TriggerType'
    BY <1>1, TriggerStep DEF TriggerType
  <1>3. FaultType'
    BY <1>1, FaultStep
  <1>4. pc'[t] = step /\ \A u \in Triggers \ {t} : pc'[u] = pc[u]
    BY <1>1 DEF TriggerType, Goto
  <1>5. ASSUME NEW u \in Triggers, Uploading(u)'
        PROVE  pc'[u] = pc[u] /\ batch' = batch /\ initial'[u] = initial[u]
    <2>1. u # t /\ pc'[u] = pc[u]
      BY <1>4, <1>5 DEF Uploading
    <2>2. pc[u] \in Holding
      BY <2>1, <1>5 DEF Uploading, Holding
    <2>3. pc[t] \notin Holding
      BY <2>1, <2>2, <1>1 DEF TriggerType
    <2> QED BY <2>1, <2>3
  <1>6. \A u \in Triggers : pc[u] = "marking" => pc'[u] = "marking"
    BY <1>4 DEF Uploading
  <1> QED BY <1>2, <1>3, <1>5, <1>6, Beside

\* The store's count, cut at MinPreKeyCount.
LEMMA CountType ==
    ASSUME TypeOK
    PROVE  Min({MinPreKeyCount, Cardinality({r \in rows : r.up})}) \in 0..MinPreKeyCount
  <1> DEFINE U == {r \in rows : r.up}
             c == Cardinality(U)
  <1>1. IsFiniteSet(rows)
    BY RowsFinite DEF TypeOK
  <1>2. c \in Nat /\ MinPreKeyCount \in Nat
    BY <1>1, FS_Subset, FS_CardinalityType, PreKeysAssumption
  <1> HIDE DEF c
  <1>3. \E x \in {MinPreKeyCount, c} : \A y \in {MinPreKeyCount, c} : x =< y
    BY <1>2
  <1> DEFINE m == Min({MinPreKeyCount, c})
  <1>4. m \in {MinPreKeyCount, c} /\ \A y \in {MinPreKeyCount, c} : m =< y
    BY <1>3 DEF Min
  <1> HIDE DEF m
  <1>5. m \in 0..MinPreKeyCount
    BY <1>2, <1>4
  <1> QED BY <1>5 DEF m, c

\* handleConnectSuccess counts the keys in the store.
LEMMA UploadedPreKeyCountStep ==
    ASSUME IInv, NEW t \in Triggers, UploadedPreKeyCount(t)
    PROVE  IInv'
  <1>1. TypeOK /\ TriggerType
    BY TypeParts DEF IInv
  <1>2. /\ dbCount' \in [Triggers -> 0..MinPreKeyCount] /\ initial' \in [Triggers -> BOOLEAN]
        /\ \A u \in Triggers \ {t} : initial'[u] = initial[u]
    BY <1>1, CountType DEF UploadedPreKeyCount, TriggerType
  <1>3. Goto(t, "counting") /\ pc[t] = "idle" /\ UNCHANGED <<lock, faults, batch, remote, store, server,
           given, receipt, recent, ids, awaitingACK, history>>
    BY DEF UploadedPreKeyCount
  <1>4. "counting" \in Steps /\ "counting" \notin Holding /\ "idle" \notin Holding /\ ~Uploading(t)
    BY <1>3 DEF Steps, Holding, Uploading
  <1> QED BY <1>2, <1>3, <1>4, Walk

\* The server's count decides on the upload.
LEMMA GetServerPreKeyCountStep ==
    ASSUME IInv, NEW t \in Triggers, GetServerPreKeyCount(t)
    PROVE  IInv'
  <1>1. TriggerType
    BY TypeParts DEF IInv
  <1>2. initial' \in [Triggers -> BOOLEAN] /\ \A u \in Triggers \ {t} : initial'[u] = initial[u]
    <2>1. UNCHANGED initial \/ initial' = [initial EXCEPT ![t] = dbCount[t] = 0 /\ server = {}]
      BY DEF GetServerPreKeyCount
    <2>2. (dbCount[t] = 0 /\ server = {}) \in BOOLEAN
      OBVIOUS
    <2> QED BY <1>1, <2>1, <2>2 DEF TriggerType
  <1>3. dbCount' \in [Triggers -> 0..MinPreKeyCount]
    BY <1>1, PreKeysAssumption DEF GetServerPreKeyCount, TriggerType
  <1>4. PICK step \in {"locking", "idle"} : Goto(t, step)
    BY DEF GetServerPreKeyCount
  <1>5. /\ pc[t] = "counting" /\ (Fault \/ UNCHANGED faults)
        /\ UNCHANGED <<lock, batch, remote, store, server, given, receipt, recent, ids, awaitingACK, history>>
    BY DEF GetServerPreKeyCount
  <1>6. step \in Steps /\ step \notin Holding /\ "counting" \notin Holding /\ ~Uploading(t)
    BY <1>5 DEF Steps, Holding, Uploading
  <1>7. step \notin {"numbering", "sending", "waiting", "marking"}
    OBVIOUS
  <1> QED BY <1>2, <1>3, <1>4, <1>5, <1>6, <1>7, Walk

\* handleEncryptNotification starts an upload.
LEMMA KeysRunLowStep ==
    ASSUME IInv, NEW t \in Triggers, KeysRunLow(t)
    PROVE  IInv'
  <1>1. /\ dbCount' \in [Triggers -> 0..MinPreKeyCount] /\ initial' \in [Triggers -> BOOLEAN]
        /\ \A u \in Triggers \ {t} : initial'[u] = initial[u]
    BY TypeParts DEF KeysRunLow, TriggerType, IInv
  <1>2. Goto(t, "locking") /\ pc[t] = "idle" /\ UNCHANGED <<lock, faults, batch, remote, store, server,
           given, receipt, recent, ids, awaitingACK, history>>
    BY DEF KeysRunLow
  <1>3. "locking" \in Steps /\ "locking" \notin Holding /\ "idle" \notin Holding /\ ~Uploading(t)
    BY <1>2 DEF Steps, Holding, Uploading
  <1> QED BY <1>1, <1>2, <1>3, Walk

\* A trigger takes uploadPreKeysLock.
LEMMA LockUploadStep ==
    ASSUME IInv, NEW t \in Triggers, LockUpload(t)
    PROVE  IInv'
  <1>1. /\ dbCount' \in [Triggers -> 0..MinPreKeyCount] /\ initial' \in [Triggers -> BOOLEAN]
        /\ \A u \in Triggers \ {t} : initial'[u] = initial[u]
    BY TypeParts DEF LockUpload, TriggerType, IInv
  <1>2. PICK step \in {"checking", "generating"} : Goto(t, step)
    BY DEF LockUpload
  <1>3. /\ pc[t] = "locking" /\ lock = Nil /\ lock' = t
        /\ UNCHANGED <<faults, batch, remote, store, server, given, receipt, recent, ids, awaitingACK, history>>
    BY DEF LockUpload
  <1>4. step \in Steps /\ step \in Holding /\ ~Uploading(t)
    BY <1>3 DEF Steps, Holding, Uploading
  <1>5. step \notin {"numbering", "sending", "waiting", "marking"}
    OBVIOUS
  <1> QED BY <1>1, <1>2, <1>3, <1>4, <1>5, Walk

\* After another upload the server is asked again.
LEMMA CheckCountStep ==
    ASSUME IInv, NEW t \in Triggers, CheckCount(t)
    PROVE  IInv'
  <1>1. TriggerType
    BY TypeParts DEF IInv
  <1>2. /\ pc[t] = "checking" /\ (Fault \/ UNCHANGED faults)
        /\ UNCHANGED <<remote, store, server, given, receipt, recent, dbCount, ids, awaitingACK, history>>
        /\ Return(t) \/ (Goto(t, "generating") /\ UNCHANGED <<lock, initial, batch>>)
    BY DEF CheckCount
  <1>3. /\ "checking" \in Holding /\ "generating" \in Holding /\ "idle" \notin Holding
        /\ "generating" \in Steps /\ "idle" \in Steps /\ ~Uploading(t)
    BY <1>2 DEF Steps, Holding, Uploading
  <1>4. dbCount' \in [Triggers -> 0..MinPreKeyCount]
    BY <1>1, <1>2 DEF TriggerType
  <1>5. CASE Return(t)
    <2>1. initial' \in [Triggers -> BOOLEAN] /\ (\A u \in Triggers \ {t} : initial'[u] = initial[u]) /\ lock' = Nil /\ batch' = {} /\ Goto(t, "idle")
      BY <1>1, <1>5 DEF TriggerType, Return
    <2> QED BY <1>2, <1>3, <1>4, <2>1, Walk
  <1>6. CASE Goto(t, "generating") /\ UNCHANGED <<lock, initial, batch>>
    <2>1. initial' \in [Triggers -> BOOLEAN] /\ \A u \in Triggers \ {t} : initial'[u] = initial[u]
      BY <1>1, <1>6 DEF TriggerType
    <2> QED BY <1>2, <1>3, <1>4, <1>6, <2>1, Walk
  <1> QED BY <1>2, <1>5, <1>6

\* The mutex has one holder, so no trigger but this one has a batch.
LEMMA OneUploads ==
    ASSUME TriggerType, NEW t \in Triggers, pc[t] \in Holding, NEW u \in Triggers, pc[u] \in Holding
    PROVE  u = t
  BY DEF TriggerType

\* The upload or its answer is lost.
LEMMA UploadFailsStep ==
    ASSUME IInv, NEW t \in Triggers, UploadFails(t)
    PROVE  IInv'
  <1>1. TriggerType /\ FaultType
    BY TypeParts DEF IInv
  <1>2. /\ pc[t] \in {"sending", "waiting"} /\ Fault /\ Return(t)
        /\ UNCHANGED <<remote, store, server, given, receipt, recent, dbCount, ids, awaitingACK, history>>
    BY DEF UploadFails
  <1>3. pc[t] \in Holding /\ recent' \in BOOLEAN
    BY <1>1, <1>2 DEF Holding, TriggerType
  <1>4. TriggerType' /\ batch' = {} /\ \A u \in Triggers : ~Uploading(u)'
    BY <1>1, <1>2, <1>3, ReturnStep
  <1>5. FaultType'
    BY <1>1, <1>2, FaultStep
  <1>6. \A u \in Triggers : pc[u] # "marking"
    BY <1>1, <1>2, <1>3, OneUploads DEF Holding
  <1> QED BY <1>2, <1>4, <1>5, <1>6, Beside

\* lastPreKeyUpload is ten minutes ago.
LEMMA TenMinutesStep ==
    ASSUME IInv, TenMinutes
    PROVE  IInv'
  <1>1. UNCHANGED <<remote, store, server, given, receipt, lock, pc, dbCount, initial, batch, ids, awaitingACK, faults, history>>
        /\ recent' = FALSE
    BY DEF TenMinutes
  <1>2. TriggerType' /\ FaultType'
    BY <1>1, TypeParts DEF IInv, TriggerType, FaultType
  <1>3. \A t \in Triggers : pc'[t] = pc[t]
    BY <1>1
  <1> QED BY <1>1, <1>2, <1>3, Beside

-----------------------------------------------------------------------------
(* Generating and uploading                                                *)

\* uploadPreKeys asks for at least one key.
LEMMA CountPositive ==
    ASSUME NEW t \in Triggers
    PROVE  Count(t) \in Nat \ {0}
  BY PreKeysAssumption DEF Count

\* New rows that are not marked leave the offers alone.
LEMMA OfferGrows ==
    ASSUME IInv, NEW n \in Int, serial + Cardinality(Fresh(n, FALSE)) <= MaxKeys,
           rows' = rows \cup Fresh(n, FALSE),
           serial' = serial + Cardinality(Fresh(n, FALSE)),
           UNCHANGED <<remote, server, given, receipt, history>>,
           batch' \cup pending' \subseteq (KeysOf(rows') \cup published) \ singles
    PROVE  HistoryType' /\ KeyInv' /\ OfferInv' /\ SingleInv'
  <1>1. UNCHANGED <<published, singles, confirmed, repeated, crashed>>
    BY DEF history
  <1>2. /\ KeyInv' /\ KeysOf(rows) \subseteq KeysOf(rows')
        /\ \A r \in rows' : r \in rows \/ (~r.up /\ KeyOf(r) \notin singles)
    <2> DEFINE new == Fresh(n, FALSE)
    <2>1. /\ KeyInv' /\ KeysOf(rows') = KeysOf(rows) \cup KeysOf(new)
          /\ KeysOf(new) \cap (published \cup singles) = {}
          /\ \A r \in rows' : r \in rows \/ (r \in new /\ r.up = FALSE)
      BY <1>1, RowsGrow DEF IInv
    <2> HIDE DEF new
    <2>2. \A r \in new : KeyOf(r) \in KeysOf(new)
      BY DEF KeysOf
    <2> QED BY <2>1, <2>2
  <1>3. MarkedWasUploaded'
    BY <1>1, <1>2 DEF IInv, OfferInv, MarkedWasUploaded
  <1>4. OfferInv'
    BY <1>1, <1>2, <1>3, OfferKept DEF IInv
  <1>5. singles \cap published = {}
    BY DEF IInv, SingleInv
  <1>6. SingleInv'
    BY <1>1, <1>2, <1>5, SingleKept DEF IInv
  <1> QED BY <1>1, <1>2, <1>4, <1>6 DEF IInv, HistoryType

\* A row and its key go together, one to one.
LEMMA KeysCount ==
    ASSUME NEW rs \in SUBSET rows, TypeOK
    PROVE  Cardinality(KeysOf(rs)) = Cardinality(rs)
  <1> DEFINE f == [r \in rs |-> KeyOf(r)]
  <1>1. \A r, q \in rs : KeyOf(r) = KeyOf(q) => r = q
    BY DEF TypeOK, KeyOf
  <1>2. f \in Bijection(rs, KeysOf(rs))
    BY <1>1 DEF KeysOf, Bijection, Injection, Surjection, IsInjective
  <1>3. IsFiniteSet(rs)
    BY RowsFinite, FS_Subset DEF TypeOK
  <1> QED BY <1>2, <1>3, FS_Bijection DEF ExistsBijection

\* GetOrGenPreKeys finds the keys that are not uploaded: all up to the last of them,
\* and all there are if they are too few.
LEMMA QueryUnuploadedStep ==
    ASSUME IInv, NEW t \in Triggers, QueryUnuploaded(t)
    PROVE  IInv'
  <1> DEFINE old == Lowest(Count(t))
  <1>1. /\ pc[t] = "generating" /\ ~remote
        /\ batch' = KeysOf(old) /\ Goto(t, "numbering")
        /\ UNCHANGED <<remote, rows, serial, pending, server, given, receipt, lock, recent, dbCount, initial, ids,
                        awaitingACK, faults, published, singles, confirmed, repeated, crashed>>
    BY DEF QueryUnuploaded, store, history
  <1>2. /\ old \subseteq Unuploaded
        /\ \A r \in Unuploaded : \A q \in old : r.id <= q.id => r \in old
        /\ Cardinality(old) < Count(t) => old = Unuploaded
    BY CountPositive, LowestFacts DEF IInv
  <1>3. Cardinality(KeysOf(old)) = Cardinality(old)
    BY <1>2, KeysCount DEF IInv, Unuploaded
  <1> HIDE DEF old
  <1>4. TriggerType /\ StoreType /\ BatchType /\ FaultType
    BY TypeParts DEF IInv
  <1>5. KeysOf(old) \subseteq KeysOf(rows) /\ KeysOf(rows) \subseteq Keys
    BY <1>2, <1>4 DEF KeysOf, KeyOf, Unuploaded, StoreType, Rows, Keys
  <1>6. pc'[t] = "numbering" /\ \A u \in Triggers \ {t} : pc'[u] = pc[u]
    BY <1>1, <1>4 DEF Goto, TriggerType
  <1>7. pc[t] \in Holding /\ "numbering" \in Holding /\ "numbering" \in Steps
    BY <1>1 DEF Holding, Steps
  <1>8. TypeOK'
    <2>1. TriggerType'
      BY <1>1, <1>4, <1>7, TriggerStep DEF TriggerType
    <2>2. StoreType' /\ FaultType'
      BY <1>1, <1>4 DEF StoreType, FaultType
    <2>3. BatchType'
      BY <1>1, <1>4, <1>5 DEF BatchType
    <2> QED BY <2>1, <2>2, <2>3, TypePartsNext
  <1>9. HistoryType' /\ KeyInv'
    BY <1>1 DEF IInv, HistoryType, KeyInv
  <1>10. OfferInv'
    BY <1>1 DEF IInv, OfferInv, OfferedKeysWork, MarkedWasUploaded
  <1>11. SingleInv'
    <2>1. KeysOf(old) \cap singles = {}
      BY <1>1, <1>2 DEF IInv, SingleInv, KeysOf, Unuploaded
    <2> QED BY <1>1, <1>5, <2>1 DEF IInv, SingleInv
  <1>12. \A u \in Triggers : Uploading(u)' => u = t
    <2> SUFFICES ASSUME NEW u \in Triggers \ {t}, pc[u] \in Holding PROVE FALSE
      BY <1>6 DEF Uploading, Holding
    <2> QED BY <1>4, <1>7, OneUploads
  <1>13. BatchCovers'
    <2> SUFFICES ASSUME NEW r \in rows, ~r.up, NEW q \in old, r.id <= q.id
                 PROVE  r \in old
      BY <1>1 DEF BatchCovers, KeysOf, KeyOf
    <2> QED BY <1>2 DEF Unuploaded
  <1>14. Cardinality(batch') < Count(t)' => KeysOf(Unuploaded') \subseteq batch'
    <2>1. Count(t)' = Count(t) /\ Unuploaded' = Unuploaded
      BY <1>1 DEF Count, Unuploaded
    <2> QED BY <1>1, <1>2, <1>3, <2>1
  <1>15. UploadInv'
    <2> SUFFICES ASSUME NEW u \in Triggers, Uploading(u)'
                 PROVE  /\ batch' \subseteq KeysOf(rows') /\ pc'[u] = "numbering" /\ ~remote' /\ BatchCovers'
                        /\ Cardinality(batch') < Count(u)' => KeysOf(Unuploaded') \subseteq batch'
      BY DEF UploadInv, KeysOf, Unuploaded, Count
    <2>1. u = t
      BY <1>12
    <2> QED BY <1>1, <1>5, <1>6, <1>13, <1>14, <2>1
  <1>16. AckInv'
    BY <1>1 DEF IInv, AckInv
  <1> QED BY <1>8, <1>9, <1>10, <1>11, <1>15, <1>16 DEF IInv

\* GetOrGenPreKeys adds new keys, above all that there are: the batch has every key
\* that is not uploaded, up to its last.
LEMMA GetOrGenPreKeysStep ==
    ASSUME IInv, NEW t \in Triggers, GetOrGenPreKeys(t)
    PROVE  IInv'
  <1> DEFINE n == Count(t) - Cardinality(batch)
             new == Fresh(n, FALSE)
  <1>1. /\ pc[t] = "numbering"
        /\ serial + Cardinality(new) <= MaxKeys
        /\ rows' = rows \cup new /\ serial' = serial + Cardinality(new)
        /\ batch' = batch \cup KeysOf(new)
        /\ Goto(t, "sending")
        /\ UNCHANGED <<remote, pending, server, given, receipt, lock, recent, dbCount, initial, ids, awaitingACK, faults, history>>
    BY DEF GetOrGenPreKeys
  <1>2. /\ ~remote /\ BatchCovers /\ batch \subseteq KeysOf(rows) \cup published
        /\ Cardinality(batch) < Count(t) => KeysOf(Unuploaded) \subseteq batch
    BY <1>1 DEF IInv, UploadInv, Uploading
  <1>3. n \in Int /\ (n > 0 => KeysOf(Unuploaded) \subseteq batch)
    <2>1. Cardinality(batch) \in Nat
      <3>1. IsFiniteSet(Keys)
        <4>1. IsFiniteSet(Serials)
          BY FS_Interval, PreKeysAssumption DEF Serials
        <4>2. IsFiniteSet(Serials \X Serials)
          BY <4>1, FS_Product
        <4> DEFINE f == [k \in Keys |-> <<k.id, k.key>>]
        <4>3. f \in Injection(Keys, Serials \X Serials)
          BY DEF Injection, IsInjective, Keys
        <4> QED BY <4>2, <4>3, FS_Injection
      <3>2. batch \subseteq Keys
        BY DEF IInv, TypeOK
      <3> QED BY <3>1, <3>2, FS_Subset, FS_CardinalityType
    <2> DEFINE c == Cardinality(batch)
    <2> HIDE DEF c
    <2>2. Count(t) - c \in Int /\ (Count(t) - c > 0 => c < Count(t))
      BY <2>1, CountPositive DEF c
    <2> QED BY <1>2, <2>2 DEF c
  <1>4. n <= 0 => new = {}
    <2> HIDE DEF n
    <2>1. n <= 0 => 0..(n - 1) = {}
      BY <1>3
    <2> QED BY <2>1 DEF Fresh
  <1> HIDE DEF n
  <1>5. UNCHANGED <<published, singles, confirmed, repeated, crashed>>
    BY <1>1 DEF history
  <1>6. /\ rows' \subseteq Rows /\ \A r, q \in rows' : r.id = q.id => r = q
        /\ serial' \in 0..MaxKeys
        /\ KeysOf(rows') = KeysOf(rows) \cup KeysOf(new)
        /\ KeysOf(new) \subseteq Keys /\ KeysOf(new) \cap (published \cup singles) = {}
    BY <1>1, <1>3, <1>5, RowsGrow DEF IInv
  <1> HIDE DEF new
  <1>7. HistoryType' /\ KeyInv' /\ OfferInv' /\ SingleInv'
    <2>1. batch' \cup pending' \subseteq (KeysOf(rows') \cup published) \ singles
      BY <1>1, <1>6 DEF IInv, SingleInv
    <2> QED BY <1>1, <1>3, <2>1, OfferGrows DEF new
  <1>8. batch' \subseteq KeysOf(rows') \cup published'
    BY <1>1, <1>2, <1>5, <1>6
  <1>10. TriggerType /\ StoreType /\ BatchType /\ FaultType
    BY TypeParts DEF IInv
  <1>11. pc'[t] = "sending" /\ \A u \in Triggers \ {t} : pc'[u] = pc[u]
    BY <1>1, <1>10 DEF Goto, TriggerType
  <1>12. pc[t] \in Holding /\ "sending" \in Holding /\ "sending" \in Steps
    BY <1>1 DEF Holding, Steps
  <1>13. TypeOK'
    <2>1. TriggerType'
      BY <1>1, <1>10, <1>12, TriggerStep DEF TriggerType
    <2>2. StoreType'
      BY <1>1, <1>6, <1>10 DEF StoreType
    <2>3. BatchType' /\ FaultType'
      BY <1>1, <1>6, <1>10 DEF BatchType, FaultType
    <2> QED BY <2>1, <2>2, <2>3, TypePartsNext
  <1>14. \A u \in Triggers : Uploading(u)' => u = t
    <2> SUFFICES ASSUME NEW u \in Triggers \ {t}, pc[u] \in Holding PROVE FALSE
      BY <1>11 DEF Uploading, Holding
    <2> QED BY <1>10, <1>12, OneUploads
  <1>15. BatchCovers'
    <2> SUFFICES ASSUME NEW r \in rows', ~r.up, NEW k \in batch', r.id <= k.id
                 PROVE  KeyOf(r) \in batch' \cup published
      BY <1>5 DEF BatchCovers
    <2>1. CASE r \in new
      BY <1>1, <2>1 DEF KeysOf
    <2>2. CASE r \in rows /\ k \in batch
      BY <1>1, <1>2, <2>2 DEF BatchCovers
    <2>3. CASE r \in rows /\ k \in KeysOf(new)
      <3>1. KeysOf(Unuploaded) \subseteq batch
        BY <1>3, <1>4, <2>3 DEF KeysOf
      <3> QED BY <1>1, <2>3, <3>1 DEF KeysOf, Unuploaded
    <2> QED BY <1>1, <2>1, <2>2, <2>3
  <1>16. UploadInv'
    <2> SUFFICES ASSUME NEW u \in Triggers, Uploading(u)'
                 PROVE  /\ batch' \subseteq KeysOf(rows') \cup published' /\ pc'[u] = "sending"
                        /\ ~remote' /\ BatchCovers'
      BY DEF UploadInv
    <2>1. u = t
      BY <1>14
    <2> QED BY <1>1, <1>2, <1>8, <1>11, <1>15, <2>1
  <1>17. AckInv'
    BY <1>1, <1>2, <1>5 DEF IInv, AckInv
  <1> QED BY <1>7, <1>13, <1>16, <1>17 DEF IInv

\* A query of GetOrGenPreKeys fails, or an insert; the keys before it stay.
LEMMA GenerateFailsStep ==
    ASSUME IInv, NEW t \in Triggers, GenerateFails(t)
    PROVE  IInv'
  <1>2. /\ pc[t] \in {"generating", "numbering"} /\ ~remote /\ Fault /\ Return(t)
        /\ UNCHANGED <<remote, pending, server, given, receipt, recent, dbCount, ids, awaitingACK, history>>
    BY DEF GenerateFails
  <1>4. UNCHANGED <<published, singles, confirmed, repeated, crashed>>
    BY <1>2 DEF history
  <1>7. TriggerType /\ StoreType /\ BatchType /\ FaultType
    BY TypeParts DEF IInv
  <1>8. pc[t] \in Holding /\ recent' \in BOOLEAN
    BY <1>2, <1>7 DEF Holding, TriggerType
  <1>9. TriggerType' /\ batch' = {} /\ \A u \in Triggers : ~Uploading(u)'
    BY <1>2, <1>7, <1>8, ReturnStep
  <1>1. CASE UNCHANGED <<rows, serial>>
    <2>1. FaultType'
      BY <1>2, <1>7, FaultStep
    <2>2. \A u \in Triggers : pc[u] # "marking"
      BY <1>2, <1>7, <1>8, OneUploads DEF Holding
    <2> QED BY <1>1, <1>2, <1>9, <2>1, <2>2, Beside DEF store
  <1>3. CASE \E n \in 0..(Count(t) - Cardinality(batch) - 1) :
                /\ serial + n <= MaxKeys
                /\ rows' = rows \cup Fresh(n, FALSE) /\ serial' = serial + n
    <2>1. PICK n \in 0..(Count(t) - Cardinality(batch) - 1) :
                /\ serial + n <= MaxKeys
                /\ rows' = rows \cup Fresh(n, FALSE) /\ serial' = serial + n
      BY <1>3
    <2>2. n \in Int /\ Cardinality(Fresh(n, FALSE)) = n
      <3>1. serial \in Nat /\ rows \subseteq Rows
        BY DEF IInv, TypeOK
      <3>2. NextID \in Nat
        BY <3>1, NextIDFacts DEF IInv, KeyInv
      <3>3. n \in Int /\ n >= 0
        OBVIOUS
      <3> DEFINE c == Cardinality(Fresh(n, FALSE))
      <3>4. c = IF n > 0 THEN n ELSE 0
        BY <3>1, <3>2, <3>3, FreshCount
      <3> HIDE DEF c
      <3>5. c = n
        BY <3>3, <3>4
      <3> QED BY <3>3, <3>5 DEF c
    <2>3. /\ rows' \subseteq Rows /\ \A r, q \in rows' : r.id = q.id => r = q
          /\ serial' \in 0..MaxKeys /\ KeysOf(rows) \subseteq KeysOf(rows')
      BY <1>4, <2>1, <2>2, RowsGrow DEF IInv
    <2>4. batch' \cup pending' \subseteq (KeysOf(rows') \cup published) \ singles
      BY <1>2, <1>9, <2>3 DEF IInv, SingleInv
    <2>5. HistoryType' /\ KeyInv' /\ OfferInv' /\ SingleInv'
      BY <1>2, <2>1, <2>2, <2>4, OfferGrows
    <2>6. TypeOK'
      <3>1. StoreType' /\ BatchType'
        BY <1>2, <1>7, <1>9, <2>3 DEF StoreType, BatchType
      <3>2. FaultType'
        BY <1>2, <1>7, FaultStep
      <3> QED BY <1>9, <3>1, <3>2, TypePartsNext
    <2>7. UploadInv'
      BY <1>9, UploadOver
    <2>8. AckInv'
      BY <1>2, <1>4 DEF IInv, AckInv
    <2> QED BY <2>5, <2>6, <2>7, <2>8 DEF IInv
  <1> QED BY <1>1, <1>3 DEF GenerateFails

\* While a trigger is about to generate and no acknowledgement is open, nothing
\* pending is confirmed.
LEMMA NothingToSettle ==
    ASSUME IInv, NEW t \in Triggers, pc[t] = "generating", remote, ~awaitingACK, ~crashed
    PROVE  pending \cap confirmed = {}
  <1>1. \A u \in Triggers : pc[u] # "marking"
    <2>1. TriggerType /\ pc[t] \in Holding
      BY TypeParts DEF IInv, Holding
    <2> QED BY <2>1, OneUploads DEF Holding
  <1> QED BY <1>1 DEF IInv, AckInv

\* PrepareUpload: the batch is what is pending, and none of it is confirmed.
LEMMA PrepareUploadStep ==
    ASSUME IInv, NEW t \in Triggers, PrepareUpload(t)
    PROVE  IInv'
  <1> DEFINE live == pending \cap KeysOf(rows)
             n == IF live = {} THEN Count(t) ELSE 0
             new == Fresh(n, FALSE)
  <1>1. n \in Int /\ (n > 0 <=> live = {})
    BY CountPositive
  <1>2. live # {} => new = {}
    BY DEF Fresh
  <1>3. new = IF live = {} THEN Fresh(Count(t), FALSE) ELSE {}
    BY <1>2
  <1> HIDE DEF n
  <1>4. /\ pc[t] = "generating" /\ remote /\ ~awaitingACK
        /\ serial + Cardinality(new) <= MaxKeys
        /\ rows' = rows \cup new /\ serial' = serial + Cardinality(new)
        /\ pending' = IF live = {} THEN KeysOf(new) ELSE live
        /\ batch' = pending' /\ ids' = pending'
        /\ Goto(t, "sending")
        /\ UNCHANGED <<remote, server, given, receipt, lock, recent, dbCount, initial, awaitingACK, faults, history>>
    BY <1>3 DEF PrepareUpload
  <1>5. UNCHANGED <<published, singles, confirmed, repeated, crashed>>
    BY <1>4 DEF history
  <1>6. /\ rows' \subseteq Rows /\ \A r, q \in rows' : r.id = q.id => r = q
        /\ serial' \in 0..MaxKeys
        /\ KeysOf(rows') = KeysOf(rows) \cup KeysOf(new)
        /\ KeysOf(new) \subseteq Keys /\ KeysOf(new) \cap (published \cup singles) = {}
    BY <1>1, <1>4, <1>5, RowsGrow DEF IInv
  <1>7. n > 0 => new # {}
    BY <1>1, <1>4, FreshFacts DEF IInv
  <1> HIDE DEF new
  <1>19. batch' \cup pending' \subseteq (KeysOf(rows') \cup published) \ singles
    BY <1>4, <1>6 DEF IInv, SingleInv
  <1>8. HistoryType' /\ KeyInv' /\ OfferInv' /\ SingleInv'
    BY <1>1, <1>4, <1>19, OfferGrows DEF new
  <1>9. live = {} => KeysOf(new) # {}
    BY <1>1, <1>7 DEF KeysOf
  <1>10. TriggerType /\ StoreType /\ BatchType /\ FaultType
    BY TypeParts DEF IInv
  <1>11. pending' \subseteq Keys /\ pending' # {} /\ pending' \subseteq KeysOf(rows')
    BY <1>4, <1>6, <1>9, <1>10 DEF StoreType
  <1>12. ~crashed => pending' \cap confirmed = {}
    BY <1>4, <1>6, NothingToSettle DEF IInv, HistoryType
  <1>13. pc'[t] = "sending" /\ \A u \in Triggers \ {t} : pc'[u] = pc[u]
    BY <1>4, <1>10 DEF Goto, TriggerType
  <1>14. pc[t] \in Holding /\ "sending" \in Holding /\ "sending" \in Steps
    BY <1>4 DEF Holding, Steps
  <1>15. TypeOK'
    <2>1. TriggerType'
      BY <1>4, <1>10, <1>14, TriggerStep DEF TriggerType
    <2>2. StoreType'
      BY <1>6, <1>11 DEF StoreType
    <2>3. BatchType' /\ FaultType'
      BY <1>4, <1>10, <1>11 DEF BatchType, FaultType
    <2> QED BY <2>1, <2>2, <2>3, TypePartsNext
  <1>16. \A u \in Triggers : Uploading(u)' => u = t
    <2> SUFFICES ASSUME NEW u \in Triggers \ {t}, pc[u] \in Holding PROVE FALSE
      BY <1>13 DEF Uploading, Holding
    <2> QED BY <1>10, <1>14, OneUploads
  <1>17. UploadInv'
    BY <1>4, <1>11, <1>13, <1>16 DEF UploadInv
  <1>18. AckInv'
    BY <1>4, <1>5, <1>12 DEF AckInv
  <1> QED BY <1>8, <1>15, <1>17, <1>18 DEF IInv

\* PrepareUpload fails, or its answer is lost and the batch stays pending.
LEMMA PrepareFailsStep ==
    ASSUME IInv, NEW t \in Triggers, PrepareFails(t)
    PROVE  IInv'
  <1> DEFINE new == Fresh(Count(t), FALSE)
  <1>1. /\ pc[t] = "generating" /\ remote /\ ~awaitingACK /\ Fault /\ Return(t)
        /\ UNCHANGED <<remote, server, given, receipt, recent, dbCount, ids, awaitingACK, history>>
        /\ \/ UNCHANGED <<rows, serial, pending>>
           \/ /\ serial + Cardinality(new) <= MaxKeys
              /\ rows' = rows \cup new /\ serial' = serial + Cardinality(new)
              /\ pending' = KeysOf(new)
    BY DEF PrepareFails, store
  <1>2. TriggerType /\ StoreType /\ BatchType /\ FaultType
    BY TypeParts DEF IInv
  <1>3. pc[t] \in Holding /\ recent' \in BOOLEAN
    BY <1>1, <1>2 DEF Holding, TriggerType
  <1>4. TriggerType' /\ batch' = {} /\ \A u \in Triggers : ~Uploading(u)'
    BY <1>1, <1>2, <1>3, ReturnStep
  <1>5. FaultType'
    BY <1>1, <1>2, FaultStep
  <1>6. UNCHANGED <<published, singles, confirmed, repeated, crashed>>
    BY <1>1 DEF history
  <1>7. CASE UNCHANGED <<rows, serial, pending>>
    <2>1. \A u \in Triggers : pc[u] # "marking"
      BY <1>1, <1>2, <1>3, OneUploads DEF Holding
    <2> QED BY <1>1, <1>4, <1>5, <1>7, <2>1, Beside DEF store
  <1>8. CASE /\ serial + Cardinality(new) <= MaxKeys
             /\ rows' = rows \cup new /\ serial' = serial + Cardinality(new)
             /\ pending' = KeysOf(new)
    <2>0. Count(t) \in Int
      BY CountPositive
    <2>1. /\ rows' \subseteq Rows /\ \A r, q \in rows' : r.id = q.id => r = q
          /\ serial' \in 0..MaxKeys
          /\ KeysOf(new) \subseteq Keys /\ KeysOf(new) \cap (published \cup singles) = {}
          /\ KeysOf(rows') = KeysOf(rows) \cup KeysOf(new)
      BY <1>6, <1>8, <2>0, RowsGrow DEF IInv
    <2>7. batch' \cup pending' \subseteq (KeysOf(rows') \cup published) \ singles
      BY <1>4, <1>8, <2>1
    <2>2. HistoryType' /\ KeyInv' /\ OfferInv' /\ SingleInv'
      BY <1>1, <1>8, <2>0, <2>7, OfferGrows
    <2> HIDE DEF new
    <2>3. StoreType' /\ BatchType'
      BY <1>1, <1>2, <1>4, <1>8, <2>1 DEF StoreType, BatchType
    <2>4. TypeOK'
      BY <1>4, <1>5, <2>3, TypePartsNext
    <2>5. UploadInv'
      BY <1>4, UploadOver
    <2>6. AckInv'
      BY <1>1, <1>4, <1>6, <1>8, <2>1 DEF IInv, HistoryType, AckInv
    <2> QED BY <2>2, <2>4, <2>5, <2>6 DEF IInv
  <1> QED BY <1>1, <1>7, <1>8

\* The upload reaches the server: what it offers is in the store, or is offered again.
LEMMA UploadArrivesStep ==
    ASSUME IInv, NEW t \in Triggers, UploadArrives(t)
    PROVE  IInv'
  <1>1. /\ pc[t] = "sending" /\ Goto(t, "waiting")
        /\ server' = {k \in server : \A b \in batch : b.id # k.id} \cup batch
        /\ repeated' = repeated \cup (batch \cap published)
        /\ published' = published \cup batch
        /\ UNCHANGED <<remote, rows, serial, pending, given, receipt, lock, recent, dbCount, initial, batch, ids,
                        awaitingACK, faults, singles, confirmed, crashed>>
    BY DEF UploadArrives, store
  <1>2. TriggerType /\ StoreType /\ BatchType /\ FaultType
    BY TypeParts DEF IInv
  <1>3. pc'[t] = "waiting" /\ \A u \in Triggers \ {t} : pc'[u] = pc[u]
    BY <1>1, <1>2 DEF Goto, TriggerType
  <1>4. pc[t] \in Holding /\ "waiting" \in Holding /\ "waiting" \in Steps /\ Uploading(t)
    BY <1>1 DEF Holding, Steps, Uploading
  <1>5. /\ batch \subseteq Keys /\ batch \subseteq KeysOf(rows) \cup published
        /\ batch \cap singles = {}
        /\ ~remote => BatchCovers
        /\ remote => ids = batch /\ batch # {} /\ ~awaitingACK
    BY <1>2, <1>4 DEF IInv, UploadInv, BatchType, SingleInv
  <1>6. server' \subseteq server \cup batch
    BY <1>1
  <1>7. TypeOK'
    <2>1. TriggerType'
      BY <1>1, <1>2, <1>4, TriggerStep DEF TriggerType
    <2>2. StoreType' /\ FaultType'
      BY <1>1, <1>2 DEF StoreType, FaultType
    <2>3. BatchType'
      BY <1>1, <1>2, <1>5, <1>6 DEF BatchType
    <2> QED BY <2>1, <2>2, <2>3, TypePartsNext
  <1>8. HistoryType'
    BY <1>1, <1>5 DEF IInv, HistoryType
  <1>9. KeyInv'
    <2>1. \A k \in batch : k.key <= serial
      BY <1>5 DEF IInv, KeyInv, KeysOf, KeyOf
    <2> QED BY <1>1, <2>1 DEF IInv, KeyInv
  <1>10. OfferInv'
    <2>1. server \subseteq published /\ given \subseteq published \cup singles /\ server \cap given \subseteq repeated
          /\ OfferedKeysWork /\ MarkedWasUploaded
      BY DEF IInv, OfferInv
    <2>2. server' \subseteq published' /\ given' \subseteq published' \cup singles'
      BY <1>1, <1>6, <2>1
    <2>3. server' \cap given' \subseteq repeated'
      BY <1>1, <1>5, <1>6, <2>1
    <2>4. OfferedKeysWork'
      BY <1>1, <1>5, <1>6, <2>1 DEF OfferedKeysWork
    <2>5. MarkedWasUploaded'
      BY <1>1, <2>1 DEF MarkedWasUploaded
    <2> QED BY <2>2, <2>3, <2>4, <2>5 DEF OfferInv
  <1>11. \A u \in Triggers : Uploading(u)' => u = t
    <2> SUFFICES ASSUME NEW u \in Triggers \ {t}, pc[u] \in Holding PROVE FALSE
      BY <1>3 DEF Uploading, Holding
    <2> QED BY <1>2, <1>4, OneUploads
  <1>12. UploadInv'
    <2>1. ~remote => BatchCovers'
      BY <1>1, <1>5 DEF BatchCovers
    <2> QED BY <1>1, <1>3, <1>5, <1>11, <2>1 DEF UploadInv
  <1>13. AckInv'
    BY <1>1, <1>3 DEF IInv, AckInv
  <1>14. SingleInv'
    BY <1>1, <1>5 DEF IInv, SingleInv
  <1> QED BY <1>7, <1>8, <1>9, <1>10, <1>12, <1>13, <1>14 DEF IInv

\* The server's answer confirms the batch; the next step acknowledges it.
LEMMA UploadAnsweredStep ==
    ASSUME IInv, NEW t \in Triggers, UploadAnswered(t)
    PROVE  IInv'
  <1>1. /\ pc[t] = "waiting" /\ Goto(t, "marking")
        /\ confirmed' = confirmed \cup batch
        /\ UNCHANGED <<remote, rows, serial, pending, server, given, receipt, lock, recent, dbCount, initial, batch, ids,
                        awaitingACK, faults, published, singles, repeated, crashed>>
    BY DEF UploadAnswered, store
  <1>2. TriggerType /\ StoreType /\ BatchType /\ FaultType
    BY TypeParts DEF IInv
  <1>3. pc'[t] = "marking" /\ \A u \in Triggers \ {t} : pc'[u] = pc[u]
    BY <1>1, <1>2 DEF Goto, TriggerType
  <1>4. pc[t] \in Holding /\ "marking" \in Holding /\ "marking" \in Steps /\ Uploading(t)
    BY <1>1 DEF Holding, Steps, Uploading
  <1>5. /\ batch \subseteq published
        /\ ~remote => BatchCovers
        /\ remote => ids = batch /\ batch # {} /\ ~awaitingACK
    BY <1>1, <1>4 DEF IInv, UploadInv
  <1>6. TypeOK'
    <2>1. TriggerType'
      BY <1>1, <1>2, <1>4, TriggerStep DEF TriggerType
    <2>2. StoreType' /\ FaultType' /\ BatchType'
      BY <1>1, <1>2 DEF StoreType, FaultType, BatchType
    <2> QED BY <2>1, <2>2, TypePartsNext
  <1>7. HistoryType' /\ KeyInv'
    BY <1>1, <1>5 DEF IInv, HistoryType, KeyInv
  <1>8. OfferInv' /\ SingleInv'
    BY <1>1 DEF IInv, OfferInv, OfferedKeysWork, MarkedWasUploaded, SingleInv
  <1>9. \A u \in Triggers : Uploading(u)' => u = t
    <2> SUFFICES ASSUME NEW u \in Triggers \ {t}, pc[u] \in Holding PROVE FALSE
      BY <1>3 DEF Uploading, Holding
    <2> QED BY <1>2, <1>4, OneUploads
  <1>10. UploadInv'
    <2>1. ~remote => BatchCovers'
      BY <1>1, <1>5 DEF BatchCovers
    <2> QED BY <1>1, <1>3, <1>5, <1>9, <2>1 DEF UploadInv
  <1>11. AckInv'
    <2>1. \A u \in Triggers : pc'[u] \notin {"sending", "waiting"}
      BY <1>3, <1>9 DEF Uploading
    <2>2. awaitingACK' => ids' \subseteq confirmed'
      BY <1>1 DEF IInv, AckInv
    <2>3. ASSUME remote, ~crashed, NEW k \in pending \cap confirmed'
          PROVE  k \in ids
      BY <1>1, <1>5, <2>3 DEF IInv, AckInv
    <2> QED BY <1>1, <1>3, <2>1, <2>2, <2>3 DEF AckInv
  <1> QED BY <1>6, <1>7, <1>8, <1>10, <1>11 DEF IInv

-----------------------------------------------------------------------------
(* Marking and acknowledging                                               *)

\* Marking rows leaves the keys of receipts as they are.
LEMMA SinglesMarked ==
    ASSUME SingleInv, UNCHANGED <<remote, given, receipt, singles, published>>,
           batch' \cup pending' \subseteq batch \cup pending, KeysOf(rows') = KeysOf(rows),
           \A q \in rows' : \E r \in rows : q.id = r.id /\ q.key = r.key /\ (r.up => q.up)
    PROVE  SingleInv'
  <1>1. ~remote => \A q \in rows' : KeyOf(q) \in singles => q.up
    BY DEF SingleInv, KeyOf
  <1> QED BY <1>1 DEF SingleInv

\* MarkPreKeysAsUploaded: every row up to the last of the batch was uploaded.
LEMMA MarkPreKeysAsUploadedStep ==
    ASSUME IInv, NEW t \in Triggers, MarkPreKeysAsUploaded(t)
    PROVE  IInv'
  <1>1. /\ pc[t] = "marking" /\ ~remote /\ Return(t) /\ (Fault \/ UNCHANGED faults)
        /\ \/ rows' = Marked(rows, batch) /\ recent' = TRUE
           \/ UNCHANGED <<rows, recent>>
        /\ UNCHANGED <<remote, serial, pending, server, given, receipt, dbCount, ids, awaitingACK, history>>
    BY DEF MarkPreKeysAsUploaded
  <1>2. TriggerType /\ StoreType /\ BatchType /\ FaultType
    BY TypeParts DEF IInv
  <1>3. pc[t] \in Holding /\ recent' \in BOOLEAN /\ Uploading(t)
    BY <1>1, <1>2 DEF Holding, TriggerType, Uploading
  <1>4. TriggerType' /\ batch' = {} /\ \A u \in Triggers : ~Uploading(u)'
    BY <1>1, <1>2, <1>3, ReturnStep
  <1>5. FaultType'
    BY <1>1, <1>2, FaultStep
  <1>6. UNCHANGED <<published, singles, confirmed, repeated, crashed>>
    BY <1>1 DEF history
  <1>7. batch \subseteq published /\ BatchCovers
    BY <1>1, <1>3 DEF IInv, UploadInv
  <1>8. /\ rows' \subseteq Rows /\ KeysOf(rows') = KeysOf(rows)
        /\ \A q \in rows' : \E r \in rows : q.id = r.id /\ q.key = r.key /\ (r.up => q.up)
        /\ \A r, q \in rows' : r.id = q.id => r = q
    <2>0. TypeOK
      BY DEF IInv
    <2>1. CASE rows' = Marked(rows, batch)
      BY <2>0, <2>1, MarkFacts
    <2>2. CASE UNCHANGED rows
      BY <1>2, <2>2 DEF StoreType
    <2> QED BY <1>1, <2>1, <2>2
  <1>9. MarkedWasUploaded'
    <2>1. CASE rows' = Marked(rows, batch)
      <3> SUFFICES ASSUME NEW r \in rows, r.up \/ \E k \in batch : r.id <= k.id
                   PROVE  KeyOf(r) \in published \cup singles
        <4>1. \A r \in rows : r.up \in BOOLEAN /\ r \in Rows
          BY <1>2 DEF StoreType, Rows
        <4>2. \A r \in rows : LET q == [r EXCEPT !.up = @ \/ \E k \in batch : r.id <= k.id] IN
                 KeyOf(q) = KeyOf(r) /\ (q.up => r.up \/ \E k \in batch : r.id <= k.id)
          BY <4>1 DEF KeyOf, Rows
        <4> QED BY <1>6, <2>1, <4>2 DEF MarkedWasUploaded, Marked
      <3>1. CASE r.up
        BY <3>1 DEF IInv, OfferInv, MarkedWasUploaded
      <3>2. CASE ~r.up
        BY <3>2, <1>7 DEF BatchCovers
      <3> QED BY <3>1, <3>2
    <2>2. CASE UNCHANGED rows
      BY <1>6, <2>2 DEF IInv, OfferInv, MarkedWasUploaded
    <2> QED BY <1>1, <2>1, <2>2
  <1>10. TypeOK'
    <2>1. StoreType' /\ BatchType'
      BY <1>1, <1>2, <1>4, <1>8 DEF StoreType, BatchType
    <2> QED BY <1>4, <1>5, <2>1, TypePartsNext
  <1>11. HistoryType' /\ KeyInv'
    BY <1>1, <1>6, <1>8 DEF IInv, HistoryType, KeyInv
  <1>12. OfferInv'
    BY <1>1, <1>6, <1>8, <1>9, OfferKept DEF IInv
  <1>13. UploadInv'
    BY <1>4, UploadOver
  <1>14. AckInv'
    BY <1>1, <1>6 DEF IInv, AckInv
  <1>15. SingleInv'
    BY <1>1, <1>4, <1>6, <1>8, SinglesMarked DEF IInv
  <1> QED BY <1>10, <1>11, <1>12, <1>13, <1>14, <1>15 DEF IInv

\* acknowledgeLocked for confirmed keys, once no trigger has a batch: either nothing
\* of them is pending any more, or the acknowledgement stays open.
LEMMA Acknowledge ==
    ASSUME IInv, remote, ids # {}, ids \subseteq confirmed, acknowledgeLocked(ids),
           ~crashed => pending \cap confirmed \subseteq ids,
           UNCHANGED <<remote, serial, server, given, receipt, history>>,
           batch' = batch \/ batch' = {}, \A u \in Triggers : ~Uploading(u)'
    PROVE  /\ StoreType' /\ BatchType' /\ FaultType'
           /\ HistoryType' /\ KeyInv' /\ OfferInv' /\ SingleInv' /\ UploadInv' /\ AckInv'
  <1>1. TriggerType /\ StoreType /\ BatchType /\ FaultType /\ TypeOK
    BY TypeParts DEF IInv
  <1>2. UNCHANGED <<published, singles, confirmed, repeated, crashed>>
    BY DEF history
  <1>3. /\ rows' = Acknowledged(rows, ids) \/ rows' = rows
        /\ pending' \subseteq pending
        /\ \/ ids' = {} /\ awaitingACK' = FALSE /\ pending' = pending \ ids
           \/ ids' = ids /\ awaitingACK' = TRUE
        /\ Fault \/ UNCHANGED faults
    BY DEF acknowledgeLocked
  <1>4. /\ rows' \subseteq Rows /\ KeysOf(rows') = KeysOf(rows)
        /\ \A q \in rows' : \E r \in rows : q.id = r.id /\ q.key = r.key /\ (r.up => q.up)
        /\ \A r, q \in rows' : r.id = q.id => r = q
    <2>1. CASE rows' = Acknowledged(rows, ids)
      BY <1>1, <2>1, MarkFacts
    <2>2. CASE rows' = rows
      BY <1>1, <2>2 DEF StoreType
    <2> QED BY <1>3, <2>1, <2>2
  <1>5. MarkedWasUploaded'
    <2>1. CASE rows' = Acknowledged(rows, ids)
      <3> SUFFICES ASSUME NEW r \in rows, r.up \/ KeyOf(r) \in ids
                   PROVE  KeyOf(r) \in published \cup singles
        <4>1. \A r \in rows : r.up \in BOOLEAN /\ r \in Rows
          BY <1>1 DEF StoreType, Rows
        <4>2. \A r \in rows : LET q == [r EXCEPT !.up = @ \/ KeyOf(r) \in ids] IN
                 KeyOf(q) = KeyOf(r) /\ (q.up => r.up \/ KeyOf(r) \in ids)
          BY <4>1 DEF KeyOf, Rows
        <4> QED BY <1>2, <2>1, <4>2 DEF MarkedWasUploaded, Acknowledged
      <3>1. CASE r.up
        BY <3>1 DEF IInv, OfferInv, MarkedWasUploaded
      <3>2. CASE KeyOf(r) \in ids
        BY <3>2 DEF IInv, HistoryType
      <3> QED BY <3>1, <3>2
    <2>2. CASE rows' = rows
      BY <1>2, <2>2 DEF IInv, OfferInv, MarkedWasUploaded
    <2> QED BY <1>3, <2>1, <2>2
  <1>6. StoreType'
    BY <1>1, <1>3, <1>4 DEF StoreType
  <1>7. BatchType'
    <2>1. /\ remote' \in BOOLEAN /\ server' \subseteq Keys /\ given' \subseteq Keys /\ receipt' \subseteq Keys
          /\ ids' \subseteq Keys /\ batch' \subseteq Keys
      BY <1>1, <1>3 DEF BatchType
    <2>2. awaitingACK' \in BOOLEAN /\ (awaitingACK' => ids' # {})
      BY <1>3
    <2> QED BY <2>1, <2>2 DEF BatchType
  <1>8. FaultType'
    BY <1>1, <1>3, FaultStep
  <1>9. HistoryType' /\ KeyInv'
    BY <1>2, <1>4 DEF IInv, HistoryType, KeyInv
  <1>10. OfferInv'
    BY <1>2, <1>4, <1>5, OfferKept DEF IInv
  <1>11. UploadInv'
    BY UploadOver
  <1>12. AckInv'
    <2>1. \A u \in Triggers : pc'[u] \notin {"sending", "waiting"}
      BY DEF Uploading
    <2>2. awaitingACK' => ids' \subseteq confirmed'
      BY <1>2, <1>3
    <2>3. ~crashed => \A k \in pending' \cap confirmed' : k \in ids' /\ awaitingACK'
      BY <1>2, <1>3
    <2> QED BY <1>2, <2>1, <2>2, <2>3 DEF AckInv
  <1>13. SingleInv'
    <2>1. SingleInv /\ batch' \cup pending' \subseteq batch \cup pending
      BY <1>3 DEF IInv
    <2> QED BY <1>2, <1>4, <2>1, SinglesMarked
  <1> QED BY <1>6, <1>7, <1>8, <1>9, <1>10, <1>11, <1>12, <1>13

\* MarkPreKeysAsUploaded of remotePreKeyStore.
LEMMA AcknowledgeUploadStep ==
    ASSUME IInv, NEW t \in Triggers, AcknowledgeUpload(t)
    PROVE  IInv'
  <1>1. /\ pc[t] = "marking" /\ remote /\ acknowledgeLocked(ids) /\ Return(t)
        /\ recent' = (recent \/ ~awaitingACK')
        /\ UNCHANGED <<remote, serial, server, given, receipt, dbCount, history>>
    BY DEF AcknowledgeUpload
  <1>2. TriggerType
    BY TypeParts DEF IInv
  <1>3. pc[t] \in Holding /\ Uploading(t)
    BY <1>1 DEF Holding, Uploading
  <1>4. recent' \in BOOLEAN
    BY <1>1
  <1>5. TriggerType' /\ batch' = {} /\ \A u \in Triggers : ~Uploading(u)'
    BY <1>1, <1>2, <1>3, <1>4, ReturnStep
  <1>6. ids = batch /\ ids # {} /\ ids \subseteq confirmed
    BY <1>1, <1>3 DEF IInv, UploadInv
  <1>7. ~crashed => pending \cap confirmed \subseteq ids
    BY <1>1 DEF IInv, AckInv
  <1>8. /\ StoreType' /\ BatchType' /\ FaultType'
        /\ HistoryType' /\ KeyInv' /\ OfferInv' /\ SingleInv' /\ UploadInv' /\ AckInv'
    BY <1>1, <1>5, <1>6, <1>7, Acknowledge
  <1> QED BY <1>5, <1>8, TypePartsNext DEF IInv

\* An open acknowledgement is settled before the next batch.
LEMMA SettleACKStep ==
    ASSUME IInv, NEW t \in Triggers, SettleACK(t)
    PROVE  IInv'
  <1>1. /\ pc[t] = "generating" /\ remote /\ awaitingACK /\ acknowledgeLocked(ids)
        /\ Return(t) \/ UNCHANGED <<lock, initial, batch, pc>>
        /\ UNCHANGED <<remote, serial, server, given, receipt, recent, dbCount, history>>
    BY DEF SettleACK
  <1>2. TriggerType /\ BatchType
    BY TypeParts DEF IInv
  <1>3. pc[t] \in Holding /\ recent' \in BOOLEAN
    BY <1>1, <1>2 DEF Holding, TriggerType
  <1>4. TriggerType' /\ (batch' = batch \/ batch' = {}) /\ \A u \in Triggers : ~Uploading(u)'
    <2>1. CASE Return(t)
      BY <1>1, <1>2, <1>3, <2>1, ReturnStep
    <2>2. CASE UNCHANGED <<lock, initial, batch, pc>>
      <3>1. \A u \in Triggers : ~Uploading(u)
        BY <1>1, <1>2, <1>3, OneUploads DEF Uploading, Holding
      <3> QED BY <1>1, <1>2, <2>2, <3>1 DEF TriggerType, BatchType, Uploading
    <2> QED BY <1>1, <2>1, <2>2
  <1>5. ids # {} /\ ids \subseteq confirmed
    BY <1>1, <1>2 DEF IInv, AckInv, BatchType
  <1>6. ~crashed => pending \cap confirmed \subseteq ids
    BY <1>1 DEF IInv, AckInv
  <1>7. /\ StoreType' /\ BatchType' /\ FaultType'
        /\ HistoryType' /\ KeyInv' /\ OfferInv' /\ SingleInv' /\ UploadInv' /\ AckInv'
    BY <1>1, <1>4, <1>5, <1>6, Acknowledge
  <1> QED BY <1>4, <1>7, TypePartsNext DEF IInv

-----------------------------------------------------------------------------
(* Keys for retry receipts, using up, and the end of the process           *)

\* The uploader is not at work here.
LEMMA UploaderKept ==
    ASSUME IInv, UNCHANGED <<remote, pending, uploader, published, confirmed, crashed>>,
           KeysOf(rows) \cap batch \subseteq KeysOf(rows') \cup published,
           \A r \in rows' : r \in rows \/ r.up \/ remote
    PROVE  TriggerType' /\ UploadInv' /\ AckInv'
  <1>1. UNCHANGED <<lock, recent, pc, dbCount, initial, batch, ids, awaitingACK>>
    BY DEF uploader
  <1>2. TriggerType'
    BY <1>1, TypeParts DEF IInv, TriggerType
  <1>3. \A t \in Triggers : pc'[t] = pc[t] /\ batch' = batch /\ initial'[t] = initial[t]
    BY <1>1
  <1>4. UploadInv'
    BY <1>1, <1>3, UploadKept DEF IInv
  <1>5. AckInv'
    BY <1>1, <1>3, AckKept DEF IInv
  <1> QED BY <1>2, <1>4, <1>5

\* A single new key.
LEMMA OneKey ==
    ASSUME IInv, NEW up
    PROVE  Cardinality(Fresh(1, up)) = 1
  <1>1. serial \in Nat /\ rows \subseteq Rows
    BY DEF IInv, TypeOK
  <1>2. NextID \in Nat
    BY <1>1, NextIDFacts DEF IInv, KeyInv
  <1>3. 1 \in Int /\ 1 > 0
    OBVIOUS
  <1>4. Cardinality(Fresh(1, up)) = IF 1 > 0 THEN 1 ELSE 0
    BY <1>1, <1>2, <1>3, FreshCount
  <1> QED BY <1>3, <1>4

\* GenOnePreKey: a new key for a receipt is on nobody's list, and is marked unless
\* the store is remote.
LEMMA NewSingle ==
    ASSUME IInv, NEW up \in BOOLEAN, up \/ remote, serial < MaxKeys,
           rows' = rows \cup Fresh(1, up), serial' = serial + 1,
           singles' = singles \cup KeysOf(Fresh(1, up)),
           receipt' = receipt \/ receipt' = receipt \cup KeysOf(Fresh(1, up)),
           Fault \/ UNCHANGED faults,
           UNCHANGED <<remote, pending, server, given, uploader, published, confirmed, repeated, crashed>>
    PROVE  IInv'
  <1> DEFINE new == Fresh(1, up)
  <1>1. StoreType /\ BatchType /\ FaultType
    BY TypeParts DEF IInv
  <1>2. serial \in Nat /\ MaxKeys \in Nat /\ rows \subseteq Rows
    BY <1>1, PreKeysAssumption DEF StoreType
  <1>3. 1 \in Int /\ serial + Cardinality(new) <= MaxKeys /\ serial' = serial + Cardinality(new)
    <2> DEFINE c == Cardinality(new)
    <2>1. c = 1
      BY OneKey
    <2> HIDE DEF c, new
    <2>2. 1 \in Int /\ serial + c <= MaxKeys /\ serial' = serial + c
      BY <1>2, <2>1
    <2> QED BY <2>2 DEF c
  <1>4. /\ rows' \subseteq Rows /\ \A r, q \in rows' : r.id = q.id => r = q
        /\ serial' \in 0..MaxKeys /\ KeyInv'
        /\ KeysOf(rows') = KeysOf(rows) \cup KeysOf(new)
        /\ KeysOf(new) \subseteq Keys /\ KeysOf(new) \cap (published \cup singles) = {}
        /\ KeysOf(new) \cap KeysOf(rows) = {}
        /\ \A r \in rows' : r \in rows \/ (r \in new /\ r.up = up)
    BY <1>3, RowsGrow DEF IInv
  <1>5. KeysOf(new) \cap (batch \cup pending) = {}
    BY <1>4 DEF IInv, SingleInv
  <1>6. /\ rows' = rows \cup new /\ singles' = singles \cup KeysOf(new)
        /\ receipt' = receipt \/ receipt' = receipt \cup KeysOf(new)
    OBVIOUS
  <1> HIDE DEF new
  <1>7. UNCHANGED <<batch, ids, awaitingACK>>
    BY DEF uploader
  <1>8. StoreType' /\ BatchType' /\ FaultType'
    <2>1. StoreType'
      BY <1>1, <1>4 DEF StoreType
    <2>2. BatchType'
      BY <1>1, <1>4, <1>6, <1>7 DEF BatchType
    <2>3. FaultType'
      BY <1>1, FaultStep
    <2> QED BY <2>1, <2>2, <2>3
  <1>9. HistoryType'
    BY <1>4, <1>6 DEF IInv, HistoryType
  <1>10. OfferInv'
    <2>1. MarkedWasUploaded'
      BY <1>4, <1>6 DEF IInv, OfferInv, MarkedWasUploaded, KeysOf
    <2>2. OfferedKeysWork'
      BY <1>4 DEF IInv, OfferInv, OfferedKeysWork
    <2> QED BY <1>6, <2>1, <2>2 DEF IInv, OfferInv
  <1>11. SingleInv'
    <2>1. /\ receipt \subseteq singles \cap KeysOf(rows) /\ receipt \cap given = {}
          /\ singles \cap published = {}
          /\ batch \cup pending \subseteq (KeysOf(rows) \cup published) \ singles
          /\ ~remote => \A r \in rows : KeyOf(r) \in singles => r.up
          /\ given \subseteq published \cup singles
      BY DEF IInv, SingleInv, OfferInv
    <2>2. receipt' \subseteq singles' \cap KeysOf(rows') /\ receipt' \cap given' = {}
      BY <1>4, <1>6, <2>1
    <2>3. /\ singles' \cap published' = {}
          /\ batch' \cup pending' \subseteq (KeysOf(rows') \cup published') \ singles'
      BY <1>4, <1>5, <1>6, <1>7, <2>1
    <2>4. ~remote => \A r \in rows' : KeyOf(r) \in singles' => r.up
      <3> SUFFICES ASSUME ~remote, NEW r \in rows, KeyOf(r) \in singles \cup KeysOf(new) PROVE r.up
        BY <1>4, <1>6
      <3>1. KeyOf(r) \in KeysOf(rows)
        BY DEF KeysOf
      <3> QED BY <1>4, <2>1, <3>1
    <2> QED BY <2>2, <2>3, <2>4 DEF SingleInv
  <1>12. TriggerType' /\ UploadInv' /\ AckInv'
    <2>1. \A r \in rows' : r \in rows \/ r.up \/ remote
      BY <1>4
    <2> QED BY <1>4, <2>1, UploaderKept
  <1> QED BY <1>4, <1>8, <1>9, <1>10, <1>11, <1>12, TypePartsNext DEF IInv

\* sendRetryReceipt makes a key of its own.
LEMMA GenOnePreKeyStep ==
    ASSUME IInv, GenOnePreKey
    PROVE  IInv'
  <1>1. /\ serial < MaxKeys /\ rows' = rows \cup Fresh(1, TRUE) /\ serial' = serial + 1
        /\ singles' = singles \cup KeysOf(Fresh(1, TRUE)) /\ receipt' = receipt \cup KeysOf(Fresh(1, TRUE))
        /\ UNCHANGED <<remote, pending, server, given, uploader, faults, published, confirmed, repeated, crashed>>
    BY DEF GenOnePreKey
  <1> QED BY <1>1, NewSingle

\* The remote store generates a key and marking it fails, or its answer is lost.
LEMMA GenOneUnmarkedStep ==
    ASSUME IInv, GenOneUnmarked
    PROVE  IInv'
  <1>1. PICK up \in BOOLEAN :
          rows' = rows \cup Fresh(1, up) /\ singles' = singles \cup KeysOf(Fresh(1, up))
    BY DEF GenOneUnmarked
  <1>2. /\ remote /\ serial < MaxKeys /\ Fault /\ serial' = serial + 1 /\ receipt' = receipt
        /\ UNCHANGED <<remote, pending, server, given, uploader, published, confirmed, repeated, crashed>>
    BY DEF GenOneUnmarked
  <1> QED BY <1>1, <1>2, NewSingle

\* The receipt is sent, or not: its key is in the store and in no other hands.
LEMMA SendRetryReceiptStep ==
    ASSUME IInv, NEW k \in Keys, SendRetryReceipt(k)
    PROVE  IInv'
  <1>1. /\ k \in receipt /\ receipt' = receipt \ {k} /\ given' \in {given, given \cup {k}}
        /\ UNCHANGED <<remote, rows, serial, pending, server, uploader, faults,
                        published, singles, confirmed, repeated, crashed>>
    BY DEF SendRetryReceipt, store, history
  <1>2. UNCHANGED batch
    BY <1>1 DEF uploader
  <1>3. k \in singles /\ k \in KeysOf(rows) /\ k \notin published
    BY <1>1 DEF IInv, SingleInv
  <1>4. StoreType' /\ FaultType' /\ BatchType'
    BY <1>1, TypeParts DEF IInv, StoreType, FaultType, BatchType, uploader
  <1>5. HistoryType' /\ KeyInv'
    BY <1>1 DEF IInv, HistoryType, KeyInv
  <1>6. OfferInv'
    BY <1>1, <1>3 DEF IInv, OfferInv, OfferedKeysWork, MarkedWasUploaded
  <1>7. SingleInv'
    BY <1>1, <1>2 DEF IInv, SingleInv
  <1>8. TriggerType' /\ UploadInv' /\ AckInv'
    BY <1>1, UploaderKept
  <1> QED BY <1>4, <1>5, <1>6, <1>7, <1>8, TypePartsNext DEF IInv

\* The server hands out a key.
LEMMA HandOutStep ==
    ASSUME IInv, NEW k \in Keys, HandOut(k)
    PROVE  IInv'
  <1>1. /\ k \in server /\ server' = server \ {k} /\ given' = given \cup {k}
        /\ UNCHANGED <<remote, rows, serial, pending, receipt, uploader, faults,
                        published, singles, confirmed, repeated, crashed>>
    BY DEF HandOut, store, history
  <1>2. StoreType' /\ FaultType' /\ BatchType'
    BY <1>1, TypeParts DEF IInv, StoreType, FaultType, BatchType, uploader
  <1>3. HistoryType' /\ KeyInv'
    BY <1>1 DEF IInv, HistoryType, KeyInv
  <1>4. OfferInv'
    BY <1>1 DEF IInv, OfferInv, OfferedKeysWork, MarkedWasUploaded
  <1>5. SingleInv'
    <2>1. UNCHANGED batch /\ k \in published
      BY <1>1 DEF uploader, IInv, OfferInv
    <2> QED BY <1>1, <2>1 DEF IInv, SingleInv
  <1>6. TriggerType' /\ UploadInv' /\ AckInv'
    BY <1>1, UploaderKept
  <1> QED BY <1>2, <1>3, <1>4, <1>5, <1>6, TypePartsNext DEF IInv

\* The first message of a peer: its key leaves the store and is in no other hands,
\* unless it was uploaded twice.
LEMMA UsePreKeyStep ==
    ASSUME IInv, NEW k \in Keys, UsePreKey(k)
    PROVE  IInv'
  <1>1. /\ k \in given /\ given' = given \ {k} /\ rows' = {r \in rows : KeyOf(r) # k}
        /\ UNCHANGED <<remote, serial, pending, server, receipt, uploader, faults,
                        published, singles, confirmed, repeated, crashed>>
    BY DEF UsePreKey, history
  <1>2. k \in published \/ k \notin batch
    BY <1>1 DEF IInv, OfferInv, SingleInv
  <1>3. rows' \subseteq rows /\ KeysOf(rows) \subseteq KeysOf(rows') \cup {k}
    BY <1>1 DEF KeysOf
  <1>4. StoreType' /\ FaultType' /\ BatchType'
    BY <1>1, <1>3, TypeParts DEF IInv, StoreType, FaultType, BatchType, uploader
  <1>5. HistoryType' /\ KeyInv'
    BY <1>1, <1>3 DEF IInv, HistoryType, KeyInv
  <1>6. OfferInv'
    <2>1. server \subseteq published /\ given \subseteq published \cup singles /\ server \cap given \subseteq repeated
          /\ OfferedKeysWork /\ MarkedWasUploaded
      BY DEF IInv, OfferInv
    <2>2. OfferedKeysWork'
      BY <1>1, <1>3, <2>1 DEF OfferedKeysWork
    <2> QED BY <1>1, <1>3, <2>1, <2>2 DEF OfferInv, MarkedWasUploaded
  <1>7. SingleInv'
    <2>1. UNCHANGED batch /\ k \notin receipt /\ (k \in published \/ k \in singles)
      BY <1>1 DEF uploader, IInv, SingleInv, OfferInv
    <2> QED BY <1>1, <1>3, <2>1 DEF IInv, SingleInv
  <1>8. TriggerType' /\ UploadInv' /\ AckInv'
    BY <1>1, <1>2, <1>3, UploaderKept
  <1> QED BY <1>4, <1>5, <1>6, <1>7, <1>8, TypePartsNext DEF IInv

\* The process ends: the store and the server stay, the batch is forgotten.
LEMMA CrashStep ==
    ASSUME IInv, Crash
    PROVE  IInv'
  <1>1. /\ Fault /\ lock' = Nil /\ recent' = FALSE /\ pc' = [t \in Triggers |-> "idle"]
        /\ dbCount' = [t \in Triggers |-> 0] /\ initial' = [t \in Triggers |-> FALSE]
        /\ batch' = {} /\ ids' = {} /\ awaitingACK' = FALSE /\ receipt' = {} /\ crashed' = TRUE
        /\ UNCHANGED <<remote, rows, serial, pending, server, given, published, singles, confirmed, repeated>>
    BY DEF Crash, store
  <1>2. TriggerType'
    <2>1. \A t \in Triggers : pc'[t] \notin Holding /\ lock' # t
      BY <1>1, PreKeysAssumption DEF Holding
    <2>2. pc' \in [Triggers -> Steps] /\ initial' \in [Triggers -> BOOLEAN] /\ recent' \in BOOLEAN
      BY <1>1 DEF Steps
    <2>3. dbCount' \in [Triggers -> 0..MinPreKeyCount]
      BY <1>1, PreKeysAssumption
    <2> QED BY <1>1, <2>1, <2>2, <2>3 DEF TriggerType
  <1>3. FaultType'
    BY <1>1, FaultStep, TypeParts DEF IInv
  <1>4. StoreType' /\ BatchType'
    BY <1>1, TypeParts DEF IInv, StoreType, BatchType
  <1>5. HistoryType' /\ KeyInv'
    BY <1>1 DEF IInv, HistoryType, KeyInv
  <1>6. OfferInv'
    BY <1>1 DEF IInv, OfferInv, OfferedKeysWork, MarkedWasUploaded
  <1>7. UploadInv' /\ AckInv' /\ SingleInv'
    BY <1>1 DEF IInv, UploadInv, AckInv, Uploading, SingleInv
  <1> QED BY <1>2, <1>3, <1>4, <1>5, <1>6, <1>7, TypePartsNext DEF IInv

-----------------------------------------------------------------------------
(* The theorems                                                            *)

\* Every step of uploadPreKeys keeps the invariant.
LEMMA UploadStep ==
    ASSUME IInv, NEW t \in Triggers, Upload(t)
    PROVE  IInv'
  BY UploadedPreKeyCountStep, GetServerPreKeyCountStep, KeysRunLowStep, LockUploadStep, CheckCountStep,
     QueryUnuploadedStep, GetOrGenPreKeysStep, GenerateFailsStep, PrepareUploadStep, PrepareFailsStep, UploadArrivesStep,
     UploadFailsStep, UploadAnsweredStep, MarkPreKeysAsUploadedStep, AcknowledgeUploadStep, SettleACKStep
     DEF Upload

\* A new store, no keys anywhere.
LEMMA InitIInv == Init => IInv
  <1> SUFFICES ASSUME Init PROVE IInv
    OBVIOUS
  <1>1. StoreType /\ BatchType /\ FaultType
    <2>1. BatchType
      BY DEF Init, BatchType
    <2>2. StoreType
      BY PreKeysAssumption DEF Init, StoreType
    <2>3. FaultType
      BY PreKeysAssumption DEF Init, FaultType
    <2> QED BY <2>1, <2>2, <2>3
  <1>2. TriggerType
    <2>1. \A t \in Triggers : pc[t] \notin Holding /\ lock # t
      BY PreKeysAssumption DEF Init, Holding
    <2>2. pc \in [Triggers -> Steps] /\ initial \in [Triggers -> BOOLEAN] /\ recent \in BOOLEAN
      BY DEF Init, Steps
    <2>3. dbCount \in [Triggers -> 0..MinPreKeyCount]
      BY PreKeysAssumption DEF Init
    <2>4. lock \in Triggers \cup {Nil}
      BY DEF Init
    <2> QED BY <2>1, <2>2, <2>3, <2>4 DEF TriggerType
  <1>3. HistoryType /\ KeyInv /\ OfferInv
    BY DEF Init, HistoryType, KeyInv, OfferInv, OfferedKeysWork, MarkedWasUploaded
  <1>4. UploadInv /\ AckInv /\ SingleInv
    BY DEF Init, UploadInv, AckInv, Uploading, SingleInv
  <1> QED BY <1>1, <1>2, <1>3, <1>4, TypeParts DEF IInv

\* The inductive invariant holds whatever is generated, uploaded, lost, used and
\* cut off by the end of the process.
THEOREM Invariance == Spec => []IInv
  <1>1. IInv /\ [Next]_vars => IInv'
    <2> SUFFICES ASSUME IInv, [Next]_vars PROVE IInv'
      OBVIOUS
    <2>1. CASE \E t \in Triggers : Upload(t)
      BY <2>1, UploadStep
    <2>2. CASE GenOnePreKey
      BY <2>2, GenOnePreKeyStep
    <2>3. CASE GenOneUnmarked
      BY <2>3, GenOneUnmarkedStep
    <2>4. CASE \E k \in Keys : SendRetryReceipt(k) \/ HandOut(k) \/ UsePreKey(k)
      BY <2>4, SendRetryReceiptStep, HandOutStep, UsePreKeyStep
    <2>5. CASE TenMinutes
      BY <2>5, TenMinutesStep
    <2>6. CASE Crash
      BY <2>6, CrashStep
    <2>7. CASE UNCHANGED vars
      <3>1. UNCHANGED <<remote, store, server, given, receipt, lock, recent, pc, dbCount, initial, batch, ids,
                        awaitingACK, faults, history>>
        BY <2>7 DEF vars, uploader
      <3>2. TriggerType' /\ FaultType'
        BY <3>1, TypeParts DEF IInv, TriggerType, FaultType
      <3>3. \A t \in Triggers : pc'[t] = pc[t]
        BY <3>1
      <3> QED BY <3>1, <3>2, <3>3, Beside
    <2> QED BY <2>1, <2>2, <2>3, <2>4, <2>5, <2>6, <2>7 DEF Next
  <1> QED BY InitIInv, <1>1, PTL DEF Spec

\* Type correctness: ids stay unique and below the bound although they are used
\* again, and uploadPreKeysLock is held exactly by the trigger at work.
THEOREM TypeCorrect == Spec => []TypeOK
  <1>1. IInv => TypeOK
    BY DEF IInv
  <1> QED BY <1>1, Invariance, PTL

\* A key that the server offers or a peer has can be used: it is in the store with
\* its material, or was uploaded a second time.
THEOREM OffersWork == Spec => []OfferedKeysWork
  <1>1. IInv => OfferedKeysWork
    BY DEF IInv, OfferInv
  <1> QED BY <1>1, Invariance, PTL

\* MarkPreKeysAsUploaded marks by id, up to the last of its batch: of the keys made
\* for an upload, none is marked that the server has not had.
THEOREM MarkedKeysWereUploaded == Spec => []MarkedWasUploaded
  <1>1. IInv => MarkedWasUploaded
    BY DEF IInv, OfferInv
  <1> QED BY <1>1, Invariance, PTL

\* Only an upload repeats keys.
LEMMA RepeatsAreUploads ==
    ASSUME IInv, [Next]_vars, repeated' # repeated
    PROVE  \E t \in Triggers : UploadArrives(t)
  BY DEF Next, Upload, UploadedPreKeyCount, GetServerPreKeyCount, KeysRunLow, LockUpload, CheckCount,
     QueryUnuploaded, GetOrGenPreKeys, GenerateFails, PrepareUpload, PrepareFails, UploadFails, UploadAnswered,
     MarkPreKeysAsUploaded, AcknowledgeUpload, SettleACK, GenOnePreKey, GenOneUnmarked, SendRetryReceipt, HandOut, UsePreKey,
     TenMinutes, Crash, vars, history

\* remotePreKeyStore never uploads a confirmed key again while the process lives,
\* however often its acknowledgement fails.
THEOREM ConfirmedOnce == Spec => ConfirmedStaysConfirmed
  <1>1. ASSUME IInv, [Next]_vars, remote, ~crashed
        PROVE  (repeated' \ repeated) \cap confirmed = {}
    <2>1. CASE repeated' = repeated
      BY <2>1
    <2>2. CASE repeated' # repeated
      <3>1. PICK t \in Triggers : UploadArrives(t)
        BY <1>1, <2>2, RepeatsAreUploads
      <3>2. pc[t] = "sending" /\ repeated' = repeated \cup (batch \cap published)
        BY <3>1 DEF UploadArrives
      <3>3. batch \cap confirmed = {}
        BY <1>1, <3>2 DEF IInv, AckInv
      <3> QED BY <3>2, <3>3
    <2> QED BY <2>1, <2>2
  <1>2. IInv /\ [Next]_vars => [remote /\ ~crashed => (repeated' \ repeated) \cap confirmed = {}]_vars
    BY <1>1
  <1> QED BY <1>2, Invariance, PTL DEF Spec, ConfirmedStaysConfirmed
=============================================================================
