--------------------------- MODULE SessionsProofs ---------------------------
(***************************************************************************)
(* Theorems about Sessions, for any number of senders, calls for an inline *)
(* bot, retries and decryptions: the types, that a migration which is marked as running has *)
(* one worker running it, and that only a write between a load and a store *)
(* makes two messages share a key.                                         *)
(***************************************************************************)
EXTENDS Sessions, FiniteSetTheorems, TLAPS

-----------------------------------------------------------------------------
(* The inductive invariant                                                 *)

\* A worker that is to encrypt has a key to encrypt with.
HasKey ==
    \A w \in Workers : pc[w] = "storing" /\ w \notin Decrypters => local[w].next < MaxKeys

\* MigratingHasOwner without counting.
OneMigrates ==
    /\ migration = "migrating" <=> \E w \in Workers : pc[w] = "moving"
    /\ \A v, w \in Workers : pc[v] = "moving" /\ pc[w] = "moving" => v = w

\* Chains are numbered as they are started.
ChainsStarted ==
    /\ used \subseteq Session
    /\ \A k \in used : k.chain <= chains
    /\ \A a \in Addresses : session[a] # Nil => session[a].chain <= chains
    /\ \A w \in Workers : local[w] # Nil => local[w].chain <= chains

\* The keys used in a chain come before the next one of a session.
After(s) == \A k \in used : k.chain = s.chain => k.next < s.next

\* What a worker has loaded is still the session of its address, or is in a chain
\* that nobody has seen.
Current(w) ==
    \/ local[w] = session[addr[w]]
    \/ /\ \A a \in Addresses : session[a] # Nil => session[a].chain # local[w].chain
       /\ \A k \in used : k.chain # local[w].chain

InOrder ==
    /\ ~reused
    /\ \A a \in Addresses : session[a] # Nil => After(session[a])
    /\ session["pn"] # Nil /\ session["lid"] # Nil => session["pn"].chain # session["lid"].chain
    /\ \A w \in Workers : pc[w] = "storing" => Current(w)

\* As long as no session was written between somebody's load and store.
Undisturbed == ~disturbed => InOrder

Histories == reused \in BOOLEAN /\ disturbed \in BOOLEAN

IInv ==
    /\ TypeOK /\ Histories /\ HasKey
    /\ OneMigrates
    /\ ChainsStarted /\ Undisturbed

-----------------------------------------------------------------------------
(* What the parts of the actions do                                        *)

\* What SessionsAssumption says of the kinds of workers and of the bounds.
LEMMA Constants ==
    /\ Senders \subseteq Workers /\ InlineCalls \subseteq Workers
    /\ Retriers \subseteq Workers /\ Decrypters \subseteq Workers
    /\ Nil \notin Workers /\ Nil \notin Session
    /\ MaxChains \in Nat \ {0} /\ MaxKeys \in Nat \ {0} /\ MaxFaults \in Nat
    /\ \A w \in Senders : w \notin InlineCalls /\ w \notin Retriers /\ w \notin Decrypters
    /\ \A w \in Retriers : w \notin Decrypters
  BY SessionsAssumption DEF Workers, Encrypters

\* Goto moves one worker.
LEMMA GotoFacts ==
    ASSUME TypeOK, NEW w \in Workers, NEW step \in Steps, Goto(w, step)
    PROVE  /\ pc' \in [Workers -> Steps] /\ pc'[w] = step
           /\ \A v \in Workers : v # w => pc'[v] = pc[v]
  BY DEF TypeOK, Goto

\* Finish makes a worker idle, without a session or a lock.
LEMMA FinishFacts ==
    ASSUME TypeOK, NEW w \in Workers, Finish(w)
    PROVE  /\ pc' \in [Workers -> Steps] /\ pc'[w] = "idle"
           /\ \A v \in Workers : v # w => pc'[v] = pc[v] /\ local'[v] = local[v] /\ addr'[v] = addr[v]
           /\ addr' \in [Workers -> Addresses] /\ bundle' \in [Workers -> BOOLEAN]
           /\ local' \in [Workers -> Session \cup {Nil}] /\ local'[w] = Nil
           /\ sendLock' \in Senders \cup {Nil}
           /\ \A v \in Senders : pc'[v] # "idle" <=> sendLock' = v
  <1>1. pc' \in [Workers -> Steps] /\ pc'[w] = "idle" /\ \A v \in Workers : v # w => pc'[v] = pc[v]
    BY GotoFacts DEF Finish, Steps
  <1>2. /\ addr' \in [Workers -> Addresses] /\ bundle' \in [Workers -> BOOLEAN]
        /\ local' \in [Workers -> Session \cup {Nil}] /\ local'[w] = Nil
        /\ \A v \in Workers : v # w => local'[v] = local[v] /\ addr'[v] = addr[v]
    BY DEF TypeOK, Finish, Addresses
  <1>3. sendLock' \in Senders \cup {Nil} /\ \A v \in Senders : pc'[v] # "idle" <=> sendLock' = v
    BY <1>1, Constants DEF TypeOK, Finish
  <1> QED BY <1>1, <1>2, <1>3

\* After a write that disturbs nobody, nobody else is between load and store.
LEMMA Quiet ==
    ASSUME TypeOK, Histories, NEW w, NEW rows, Write(w, rows), ~disturbed',
           w \in Senders => pc[w] # "idle"
    PROVE  ~disturbed /\ \A v \in Workers : v # w => pc[v] # "storing"
  <1>1. ~disturbed /\ ~ \E v \in Workers \ {w} : pc[v] = "storing" /\ ~({v, w} \subseteq Senders)
    BY DEF Write, Histories
  <1>2. ASSUME NEW v \in Workers, v # w, pc[v] = "storing"
        PROVE  FALSE
    <2>1. v \in Senders /\ w \in Senders
      BY <1>1, <1>2
    <2>2. sendLock = v /\ sendLock = w
      BY <1>2, <2>1 DEF TypeOK
    <2> QED BY <1>2, <2>2
  <1> QED BY <1>1, <1>2

\* A new chain is numbered above every chain seen so far.
LEMMA FreshFacts ==
    ASSUME IInv, NewChain
    PROVE  /\ chains' \in 0..MaxChains /\ chains' = chains + 1
           /\ Fresh \in Session /\ Fresh.chain = chains' /\ Fresh.next = 0 /\ Fresh # Nil
           /\ \A k \in used : k.chain < Fresh.chain
           /\ \A a \in Addresses : session[a] # Nil => session[a].chain < Fresh.chain
  <1>1. chains \in 0..MaxChains /\ chains < MaxChains /\ chains' = chains + 1 /\ MaxChains \in Nat /\ MaxKeys \in Nat
    BY Constants DEF IInv, TypeOK, NewChain
  <1>2. Fresh \in Session /\ Fresh.chain = chains' /\ Fresh.next = 0
    BY <1>1 DEF Fresh, Session
  <1>3. \A k \in used : k.chain < Fresh.chain
    <2> TAKE k \in used
    <2>1. k \in Session /\ k.chain <= chains
      BY DEF IInv, ChainsStarted
    <2> QED BY <1>1, <1>2, <2>1 DEF Session
  <1>4. \A a \in Addresses : session[a] # Nil => session[a].chain < Fresh.chain
    <2> SUFFICES ASSUME NEW a \in Addresses, session[a] # Nil
                 PROVE  session[a].chain < Fresh.chain
      OBVIOUS
    <2>1. session[a] \in Session /\ session[a].chain <= chains
      BY DEF IInv, TypeOK, ChainsStarted
    <2> QED BY <1>1, <1>2, <2>1 DEF Session
  <1> QED BY <1>1, <1>2, <1>3, <1>4, Constants

\* A step of one worker that leaves the migration alone.
LEMMA SameMigration ==
    ASSUME OneMigrates, NEW w \in Workers, UNCHANGED migration,
           pc[w] # "moving", pc'[w] # "moving",
           \A v \in Workers : v # w => pc'[v] = pc[v]
    PROVE  OneMigrates'
  BY DEF OneMigrates

\* The worker that migrates stops.
LEMMA MigrationEnds ==
    ASSUME OneMigrates, NEW w \in Workers, migration' # "migrating",
           pc[w] = "moving", pc'[w] # "moving",
           \A v \in Workers : v # w => pc'[v] = pc[v]
    PROVE  OneMigrates'
  BY DEF OneMigrates

\* StartMigration from a step outside of the transaction keeps one owner.
LEMMA StartFacts ==
    ASSUME TypeOK, OneMigrates, NEW w \in Workers, pc[w] # "moving", StartMigration(w)
    PROVE  /\ OneMigrates' /\ migration' \in Caches
           /\ pc' \in [Workers -> Steps] /\ pc'[w] \in {"moving", "building", "loading"}
           /\ \A v \in Workers : v # w => pc'[v] = pc[v]
  <1>1. CASE migration = "none"
    <2>1. migration' = "migrating" /\ Goto(w, "moving")
      BY <1>1 DEF StartMigration
    <2>2. pc' \in [Workers -> Steps] /\ pc'[w] = "moving" /\ \A v \in Workers : v # w => pc'[v] = pc[v]
      BY <2>1, GotoFacts DEF Steps
    <2>3. \A v \in Workers : pc[v] # "moving"
      BY <1>1 DEF OneMigrates
    <2> QED BY <2>1, <2>2, <2>3 DEF OneMigrates, Caches
  <1>2. CASE migration # "none"
    <2>1. UNCHANGED migration /\ Migrated(w)
      BY <1>2 DEF StartMigration
    <2>2. /\ pc' \in [Workers -> Steps] /\ pc'[w] \in {"building", "loading"}
          /\ \A v \in Workers : v # w => pc'[v] = pc[v]
      BY <2>1, GotoFacts DEF Migrated, Steps
    <2>3. OneMigrates'
      BY <2>1, <2>2, SameMigration
    <2> QED BY <2>1, <2>2, <2>3 DEF TypeOK
  <1> QED BY <1>1, <1>2

\* A step of one worker that writes no session and sends nothing.
LEMMA Unwritten ==
    ASSUME IInv, NEW w \in Workers, UNCHANGED <<session, history>>,
           chains' \in 0..MaxChains, chains <= chains',
           \A v \in Workers : v # w => pc'[v] = pc[v] /\ local'[v] = local[v] /\ addr'[v] = addr[v],
           local'[w] # Nil => local'[w].chain <= chains',
           pc'[w] = "storing" => Current(w)'
    PROVE  Histories' /\ ChainsStarted' /\ Undisturbed'
  <1>1. Histories'
    BY DEF IInv, Histories, history
  <1>2. ChainsStarted'
    <2>1. used' = used /\ session' = session /\ chains \in Nat /\ chains' \in Nat
      BY Constants DEF IInv, TypeOK, history
    <2>2. \A k \in Session : k.chain \in Nat /\ (k.chain <= chains => k.chain <= chains')
      BY <2>1, Constants DEF Session
    <2>3. \A a \in Addresses : session[a] # Nil => session[a] \in Session
      BY DEF IInv, TypeOK
    <2>4. \A v \in Workers : local[v] # Nil => local[v] \in Session
      BY DEF IInv, TypeOK
    <2> QED BY <2>1, <2>2, <2>3, <2>4 DEF IInv, ChainsStarted
  <1>3. Undisturbed'
    <2> SUFFICES ASSUME ~disturbed'
                 PROVE  InOrder'
      BY DEF Undisturbed
    <2>1. InOrder
      BY DEF IInv, Undisturbed, history
    <2>2. ASSUME NEW v \in Workers, pc'[v] = "storing"
          PROVE  Current(v)'
      <3>1. CASE v = w
        BY <2>2, <3>1
      <3>2. CASE v # w
        BY <2>1, <2>2, <3>2 DEF InOrder, Current, history
      <3> QED BY <3>1, <3>2
    <2> QED BY <2>1, <2>2 DEF InOrder, After, history
  <1> QED BY <1>1, <1>2, <1>3

\* A step of one worker, or of nobody, that writes sessions.
LEMMA Written ==
    ASSUME IInv, NEW w, NEW rows \in [Addresses -> Session \cup {Nil}], Write(w, rows),
           w \in Senders => pc[w] # "idle",
           UNCHANGED <<used, reused>>, chains' \in 0..MaxChains, chains <= chains',
           \A v \in Workers : v # w => pc'[v] = pc[v],
           w \in Workers => pc'[w] # "storing",
           \A v \in Workers : local'[v] \in {local[v], Nil},
           \A a \in Addresses : rows[a] # Nil => rows[a].chain <= chains',
           InOrder => /\ \A a \in Addresses : rows[a] # Nil => After(rows[a])
                      /\ rows["pn"] # Nil /\ rows["lid"] # Nil => rows["pn"].chain # rows["lid"].chain
    PROVE  Histories' /\ ChainsStarted' /\ Undisturbed'
  <1>0. session' = rows
    BY DEF Write
  <1>1. Histories'
    BY DEF IInv, Histories, Write
  <1>2. ChainsStarted'
    <2>1. chains \in Nat /\ chains' \in Nat
      BY Constants DEF IInv, TypeOK
    <2>2. \A k \in Session : k.chain \in Nat /\ (k.chain <= chains => k.chain <= chains')
      BY <2>1, Constants DEF Session
    <2>3. \A v \in Workers : local[v] # Nil => local[v] \in Session
      BY DEF IInv, TypeOK
    <2>4. \A v \in Workers : local'[v] # Nil => local'[v].chain <= chains'
      BY <2>2, <2>3 DEF IInv, ChainsStarted
    <2> QED BY <1>0, <2>1, <2>2, <2>4 DEF IInv, ChainsStarted
  <1>3. Undisturbed'
    <2> SUFFICES ASSUME ~disturbed'
                 PROVE  InOrder'
      BY DEF Undisturbed
    <2>1. ~disturbed /\ \A v \in Workers : v # w => pc[v] # "storing"
      BY Quiet DEF IInv
    <2>2. InOrder
      BY <2>1 DEF IInv, Undisturbed
    <2>3. \A v \in Workers : pc'[v] # "storing"
      BY <2>1
    <2> QED BY <1>0, <2>2, <2>3 DEF InOrder, After
  <1> QED BY <1>1, <1>2, <1>3

\* The part of TypeOK that no worker holds.
Shared ==
    /\ session \in [Addresses -> Session \cup {Nil}] /\ chains \in 0..MaxChains
    /\ known \in BOOLEAN /\ migration \in Caches
    /\ recreated \subseteq Addresses /\ faults \in 0..MaxFaults

\* One more fault is within the bound.
LEMMA FaultFacts ==
    ASSUME TypeOK, Fault
    PROVE  faults' \in 0..MaxFaults
  BY Constants DEF TypeOK, Fault

\* The types after a step of a worker that keeps or does not need the lock.
LEMMA TypeStep ==
    ASSUME TypeOK, NEW w \in Workers, Shared', UNCHANGED sendLock,
           pc' \in [Workers -> Steps], addr' \in [Workers -> Addresses],
           bundle' \in [Workers -> BOOLEAN], local' \in [Workers -> Session \cup {Nil}],
           \A v \in Workers : v # w => pc'[v] = pc[v] /\ local'[v] = local[v],
           w \in Senders => pc[w] # "idle" /\ pc'[w] # "idle",
           pc'[w] = "storing" <=> local'[w] # Nil
    PROVE  TypeOK'
  <1>1. \A v \in Senders : pc'[v] # "idle" <=> sendLock' = v
    BY Constants DEF TypeOK
  <1>2. \A v \in Workers : pc'[v] = "storing" <=> local'[v] # Nil
    BY DEF TypeOK
  <1> QED BY <1>1, <1>2 DEF TypeOK, Shared

\* The types after the last step of a worker.
LEMMA TypeFinish ==
    ASSUME TypeOK, NEW w \in Workers, Shared', Finish(w)
    PROVE  TypeOK'
  <1>1. \A v \in Workers : pc'[v] = "storing" <=> local'[v] # Nil
    BY FinishFacts DEF TypeOK
  <1> QED BY <1>1, FinishFacts DEF TypeOK, Shared

\* Nobody gets a key to encrypt with, or a worker gets a good one.
LEMMA KeyStep ==
    ASSUME HasKey, NEW w \in Workers,
           \A v \in Workers : v # w => pc'[v] = pc[v] /\ local'[v] = local[v],
           pc'[w] = "storing" /\ w \notin Decrypters => local'[w].next < MaxKeys
    PROVE  HasKey'
  BY DEF HasKey

-----------------------------------------------------------------------------
(* Every action keeps the invariant                                        *)

\* A worker takes a step and neither writes, loads nor finishes.
LEMMA Walk ==
    ASSUME IInv, NEW w \in Workers, UNCHANGED <<session, chains, sendLock, local, history>>, Shared',
           pc' \in [Workers -> Steps], addr' \in [Workers -> Addresses], bundle' \in [Workers -> BOOLEAN],
           \A v \in Workers : v # w => pc'[v] = pc[v] /\ addr'[v] = addr[v],
           w \in Senders => pc[w] # "idle" /\ pc'[w] # "idle",
           pc[w] # "storing", pc'[w] # "storing", OneMigrates'
    PROVE  IInv'
  <1>0. local[w] = Nil /\ local' \in [Workers -> Session \cup {Nil}] /\ chains \in Nat
    BY Constants DEF IInv, TypeOK
  <1>1. TypeOK'
    BY <1>0, TypeStep DEF IInv
  <1>2. HasKey'
    BY KeyStep DEF IInv
  <1>3. Histories' /\ ChainsStarted' /\ Undisturbed'
    BY <1>0, Unwritten DEF Shared
  <1> QED BY <1>1, <1>2, <1>3 DEF IInv

\* A worker stops without writing.
LEMMA GiveUp ==
    ASSUME IInv, NEW w \in Workers, UNCHANGED <<session, chains, history, migration>>, Shared',
           pc[w] # "moving", Finish(w)
    PROVE  IInv'
  <1>1. TypeOK'
    BY TypeFinish DEF IInv
  <1>2. HasKey' /\ OneMigrates'
    BY FinishFacts, KeyStep, SameMigration DEF IInv
  <1>3. Histories' /\ ChainsStarted' /\ Undisturbed'
    <2>1. chains \in Nat
      BY Constants DEF IInv, TypeOK
    <2>2. /\ pc'[w] = "idle" /\ local'[w] = Nil
          /\ \A v \in Workers : v # w => pc'[v] = pc[v] /\ local'[v] = local[v] /\ addr'[v] = addr[v]
      BY FinishFacts DEF IInv
    <2> QED BY <2>1, <2>2, Unwritten DEF Shared
  <1> QED BY <1>1, <1>2, <1>3 DEF IInv

\* SendMessage takes the lock when nobody has it.
LEMMA SendMessageStep ==
    ASSUME IInv, NEW w \in Workers, NEW a \in Addresses, SendMessage(w, a)
    PROVE  IInv'
  <1>0. /\ w \in Senders /\ pc[w] = "idle" /\ sendLock = Nil /\ sendLock' = w
        /\ addr' = [addr EXCEPT ![w] = a] /\ Goto(w, "resolving")
        /\ UNCHANGED <<session, chains, known, migration, recreated, bundle, local, faults, history>>
    BY DEF SendMessage
  <1>1. pc' \in [Workers -> Steps] /\ pc'[w] = "resolving" /\ \A v \in Workers : v # w => pc'[v] = pc[v]
    BY <1>0, GotoFacts DEF IInv, Steps
  <1>2. addr' \in [Workers -> Addresses] /\ \A v \in Workers : v # w => addr'[v] = addr[v]
    BY <1>0 DEF IInv, TypeOK
  <1>3. TypeOK'
    <2>1. \A v \in Senders : pc'[v] # "idle" <=> sendLock' = v
      BY <1>0, <1>1, Constants DEF IInv, TypeOK
    <2>2. \A v \in Workers : pc'[v] = "storing" <=> local'[v] # Nil
      BY <1>0, <1>1 DEF IInv, TypeOK
    <2> QED BY <1>0, <1>1, <1>2, <2>1, <2>2 DEF IInv, TypeOK
  <1>4. HasKey' /\ OneMigrates'
    BY <1>0, <1>1, KeyStep, SameMigration DEF IInv
  <1>5. Histories' /\ ChainsStarted' /\ Undisturbed'
    <2>1. local'[w] = Nil /\ chains \in 0..MaxChains /\ chains <= chains
      BY <1>0, Constants DEF IInv, TypeOK
    <2> QED BY <1>0, <1>1, <1>2, <2>1, Unwritten
  <1> QED BY <1>3, <1>4, <1>5 DEF IInv

\* A call for an inline bot starts without the lock.
LEMMA SendToInlineBotStep ==
    ASSUME IInv, NEW w \in Workers, NEW a \in Addresses, SendToInlineBot(w, a)
    PROVE  IInv'
  <1>1. /\ pc' \in [Workers -> Steps] /\ pc'[w] = "resolving"
        /\ \A v \in Workers : v # w => pc'[v] = pc[v]
    BY GotoFacts DEF IInv, Steps, SendToInlineBot
  <1>2. /\ addr' \in [Workers -> Addresses] /\ \A v \in Workers : v # w => addr'[v] = addr[v]
        /\ bundle' \in [Workers -> BOOLEAN]
    BY DEF IInv, TypeOK, SendToInlineBot
  <1>3. /\ UNCHANGED <<session, chains, sendLock, local, history, migration>>
        /\ w \notin Senders /\ pc[w] = "idle"
    BY Constants DEF SendToInlineBot
  <1>4. Shared'
    BY DEF IInv, TypeOK, Shared, SendToInlineBot
  <1>5. OneMigrates'
    BY <1>1, <1>3, SameMigration DEF IInv
  <1> QED BY <1>1, <1>2, <1>3, <1>4, <1>5, Walk

\* A retry receipt starts a worker that has no lock.
LEMMA handleRetryReceiptStep ==
    ASSUME IInv, NEW w \in Workers, NEW a \in Addresses, NEW hasKeys \in BOOLEAN,
           handleRetryReceipt(w, a, hasKeys)
    PROVE  IInv'
  <1>1. /\ pc' \in [Workers -> Steps] /\ pc'[w] \in {"resolving", "deciding"}
        /\ \A v \in Workers : v # w => pc'[v] = pc[v]
    BY GotoFacts DEF IInv, Steps, handleRetryReceipt
  <1>2. /\ addr' \in [Workers -> Addresses] /\ \A v \in Workers : v # w => addr'[v] = addr[v]
        /\ bundle' \in [Workers -> BOOLEAN]
    BY DEF IInv, TypeOK, handleRetryReceipt
  <1>3. /\ UNCHANGED <<session, chains, sendLock, local, history, migration>>
        /\ w \notin Senders /\ pc[w] = "idle"
    BY Constants DEF handleRetryReceipt
  <1>4. Shared'
    BY DEF IInv, TypeOK, Shared, handleRetryReceipt
  <1>5. OneMigrates'
    BY <1>1, <1>3, SameMigration DEF IInv
  <1> QED BY <1>1, <1>2, <1>3, <1>4, <1>5, Walk

\* The decision of a retry.
LEMMA shouldRecreateSessionStep ==
    ASSUME IInv, NEW w \in Workers, NEW many \in BOOLEAN, shouldRecreateSession(w, many)
    PROVE  IInv'
  <1>1. /\ pc' \in [Workers -> Steps] /\ pc'[w] \in {"resolving", "fetching"}
        /\ \A v \in Workers : v # w => pc'[v] = pc[v]
    BY GotoFacts DEF IInv, Steps, shouldRecreateSession
  <1>2. UNCHANGED <<session, chains, known, migration, sendLock, addr, bundle, local, history>> /\ pc[w] = "deciding"
    BY DEF shouldRecreateSession
  <1>3. addr \in [Workers -> Addresses] /\ bundle \in [Workers -> BOOLEAN]
    BY DEF IInv, TypeOK
  <1>4. Shared'
    <2>1. faults' \in 0..MaxFaults
      BY FaultFacts DEF IInv, TypeOK, shouldRecreateSession
    <2>2. recreated' \subseteq Addresses
      BY <1>3 DEF IInv, TypeOK, shouldRecreateSession
    <2> QED BY <1>2, <2>1, <2>2 DEF IInv, TypeOK, Shared
  <1>5. OneMigrates'
    BY <1>1, <1>2, SameMigration DEF IInv
  <1> QED BY <1>1, <1>2, <1>3, <1>4, <1>5, Walk

\* Migrated sends a worker on.
LEMMA MigratedFacts ==
    ASSUME TypeOK, NEW w \in Workers, Migrated(w)
    PROVE  /\ pc' \in [Workers -> Steps] /\ pc'[w] \in {"building", "loading"}
           /\ \A v \in Workers : v # w => pc'[v] = pc[v]
  BY GotoFacts DEF Migrated, Steps

\* The lookup of the LID starts a migration, goes on without one, or fails.
LEMMA ResolveLIDStep ==
    ASSUME IInv, NEW w \in Workers, ResolveLID(w)
    PROVE  IInv'
  <1>0. pc[w] = "resolving" /\ UNCHANGED <<session, chains, known, recreated, history>>
    BY DEF ResolveLID
  <1>1. CASE /\ addr[w] = "pn" /\ known
             /\ addr' = [addr EXCEPT ![w] = "lid"] /\ StartMigration(w)
             /\ UNCHANGED <<sendLock, bundle, local, faults>>
    <2>1. /\ OneMigrates' /\ migration' \in Caches
          /\ pc' \in [Workers -> Steps] /\ pc'[w] \in {"moving", "building", "loading"}
          /\ \A v \in Workers : v # w => pc'[v] = pc[v]
      BY <1>0, <1>1, StartFacts DEF IInv
    <2>2. /\ addr' \in [Workers -> Addresses] /\ \A v \in Workers : v # w => addr'[v] = addr[v]
          /\ bundle' \in [Workers -> BOOLEAN]
      BY <1>1 DEF IInv, TypeOK, Addresses
    <2>3. Shared'
      BY <1>0, <1>1, <2>1 DEF IInv, TypeOK, Shared
    <2> QED BY <1>0, <1>1, <2>1, <2>2, <2>3, Walk
  <1>2. ASSUME Migrated(w), UNCHANGED <<sendLock, addr, bundle, local, migration>>, faults' \in 0..MaxFaults
        PROVE  IInv'
    <2>1. /\ pc' \in [Workers -> Steps] /\ pc'[w] \in {"building", "loading"}
          /\ \A v \in Workers : v # w => pc'[v] = pc[v]
      BY <1>2, MigratedFacts DEF IInv
    <2>2. addr \in [Workers -> Addresses] /\ bundle \in [Workers -> BOOLEAN]
      BY DEF IInv, TypeOK
    <2>3. Shared'
      BY <1>0, <1>2 DEF IInv, TypeOK, Shared
    <2>4. OneMigrates'
      BY <1>0, <1>2, <2>1, SameMigration DEF IInv
    <2> QED BY <1>0, <1>2, <2>1, <2>2, <2>3, <2>4, Walk
  <1>3. CASE /\ addr[w] = "lid" \/ ~known
             /\ Migrated(w) /\ UNCHANGED <<sendLock, addr, bundle, local, migration, faults>>
    BY <1>2, <1>3 DEF IInv, TypeOK
  <1>4. CASE /\ addr[w] = "pn" /\ w \in Encrypters /\ Fault
             /\ Finish(w) /\ UNCHANGED migration
    <2>1. Shared'
      BY <1>0, <1>4, FaultFacts DEF IInv, TypeOK, Shared
    <2> QED BY <1>0, <1>4, <2>1, GiveUp
  <1>5. CASE /\ addr[w] = "pn" /\ w \in Retriers /\ Fault
             /\ Migrated(w) /\ UNCHANGED <<sendLock, addr, bundle, local, migration>>
    BY <1>2, <1>5, FaultFacts DEF IInv
  <1> QED BY <1>1, <1>3, <1>4, <1>5 DEF ResolveLID

\* A decryption starts a migration or goes on without one.
LEMMA decryptMessagesStep ==
    ASSUME IInv, NEW w \in Workers, NEW a \in Addresses, decryptMessages(w, a)
    PROVE  IInv'
  <1>0. /\ pc[w] = "idle" /\ w \notin Senders
        /\ UNCHANGED <<session, chains, recreated, sendLock, bundle, local, faults, history>>
    BY Constants DEF decryptMessages
  <1>1. /\ addr' \in [Workers -> Addresses] /\ \A v \in Workers : v # w => addr'[v] = addr[v]
        /\ bundle \in [Workers -> BOOLEAN]
    BY DEF IInv, TypeOK, Addresses, decryptMessages
  <1>2. /\ OneMigrates' /\ migration' \in Caches /\ known' \in BOOLEAN
        /\ pc' \in [Workers -> Steps] /\ pc'[w] \in {"moving", "building", "loading"}
        /\ \A v \in Workers : v # w => pc'[v] = pc[v]
    <2>1. CASE a = "pn" /\ known' = TRUE /\ StartMigration(w)
      BY <1>0, <2>1, StartFacts DEF IInv
    <2>2. CASE a = "lid" /\ Migrated(w) /\ UNCHANGED <<known, migration>>
      <3>1. /\ pc' \in [Workers -> Steps] /\ pc'[w] \in {"building", "loading"}
            /\ \A v \in Workers : v # w => pc'[v] = pc[v]
        BY <2>2, MigratedFacts DEF IInv
      <3>2. OneMigrates'
        BY <1>0, <2>2, <3>1, SameMigration DEF IInv
      <3> QED BY <2>2, <3>1, <3>2 DEF IInv, TypeOK
    <2> QED BY <2>1, <2>2 DEF decryptMessages
  <1>3. Shared'
    BY <1>0, <1>2 DEF IInv, TypeOK, Shared
  <1> QED BY <1>0, <1>1, <1>2, <1>3, Walk

\* A step of nobody's that leaves the sessions and the workers alone.
LEMMA Background ==
    ASSUME IInv, UNCHANGED <<session, chains, worker, history>>, Shared',
           migration' = "migrating" <=> migration = "migrating"
    PROVE  IInv'
  <1> USE DEF worker, history
  <1>1. TypeOK'
    BY DEF IInv, TypeOK, Shared
  <1>2. HasKey' /\ OneMigrates'
    BY DEF IInv, HasKey, OneMigrates
  <1>3. Histories' /\ ChainsStarted'
    BY DEF IInv, Histories, ChainsStarted
  <1>4. Undisturbed'
    BY DEF IInv, Undisturbed, InOrder, After, Current
  <1> QED BY <1>1, <1>2, <1>3, <1>4 DEF IInv

\* The mapping is learnt, a cache entry expires, the hour passes.
LEMMA BackgroundSteps ==
    ASSUME IInv, LearnLID \/ CacheExpires \/ HourPasses
    PROVE  IInv'
  <1>1. Shared'
    BY DEF IInv, TypeOK, Shared, Caches, LearnLID, CacheExpires, HourPasses
  <1> QED BY <1>1, Background DEF LearnLID, CacheExpires, HourPasses

\* A worker that was between two steps writes sessions and goes on.
LEMMA WriteAndGoOn ==
    ASSUME IInv, NEW w \in Workers, NEW rows \in [Addresses -> Session \cup {Nil}], Write(w, rows),
           pc[w] \notin {"idle", "storing"}, pc'[w] \notin {"idle", "storing"},
           UNCHANGED <<used, reused, known, recreated, sendLock, addr, local>>,
           chains' \in 0..MaxChains, chains <= chains', faults' \in 0..MaxFaults, migration' \in Caches,
           pc' \in [Workers -> Steps], bundle' \in [Workers -> BOOLEAN],
           \A v \in Workers : v # w => pc'[v] = pc[v],
           \A a \in Addresses : rows[a] # Nil => rows[a].chain <= chains',
           InOrder => /\ \A a \in Addresses : rows[a] # Nil => After(rows[a])
                      /\ rows["pn"] # Nil /\ rows["lid"] # Nil => rows["pn"].chain # rows["lid"].chain,
           OneMigrates'
    PROVE  IInv'
  <1>0. local' \in [Workers -> Session \cup {Nil}] /\ addr' \in [Workers -> Addresses] /\ local[w] = Nil
    BY DEF IInv, TypeOK
  <1>1. TypeOK'
    <2>1. Shared'
      BY DEF IInv, TypeOK, Shared, Write
    <2> QED BY <1>0, <2>1, TypeStep DEF IInv
  <1>2. HasKey'
    BY KeyStep DEF IInv
  <1>3. Histories' /\ ChainsStarted' /\ Undisturbed'
    BY Written
  <1> QED BY <1>1, <1>2, <1>3 DEF IInv

\* The chains of the rows are known.
LEMMA RowFacts ==
    ASSUME IInv
    PROVE  /\ session \in [Addresses -> Session \cup {Nil}]
           /\ \A a \in Addresses : session[a] # Nil => session[a] \in Session /\ session[a].chain <= chains
           /\ chains \in Nat /\ \A k \in Session : k.chain \in Nat /\ k.next \in Nat
  BY Constants DEF IInv, TypeOK, ChainsStarted, Session

\* The transaction moves the row of the phone number or is rolled back.
LEMMA MoveSessionsStep ==
    ASSUME IInv, NEW w \in Workers, MoveSessions(w)
    PROVE  IInv'
  <1> DEFINE rows == [a \in Addresses |-> IF a = "lid" THEN session["pn"] ELSE Nil]
  <1>0. /\ pc[w] = "moving" /\ Migrated(w)
        /\ UNCHANGED <<chains, known, recreated, sendLock, addr, bundle, local, used, reused>>
    BY DEF MoveSessions
  <1>1. /\ pc' \in [Workers -> Steps] /\ pc'[w] \in {"building", "loading"}
        /\ \A v \in Workers : v # w => pc'[v] = pc[v]
    BY <1>0, MigratedFacts DEF IInv
  <1>2. addr \in [Workers -> Addresses] /\ bundle \in [Workers -> BOOLEAN] /\ chains \in 0..MaxChains /\ chains <= chains
    BY Constants DEF IInv, TypeOK
  <1>3. ASSUME migration' \in {"none", "done"}
        PROVE  OneMigrates' /\ migration' \in Caches
    BY <1>0, <1>1, <1>3, MigrationEnds DEF IInv, Caches
  <1>4. CASE Write(w, rows) /\ migration' = "done" /\ UNCHANGED faults
    <2>1. rows \in [Addresses -> Session \cup {Nil}] /\ rows["pn"] = Nil /\ rows["lid"] = session["pn"]
      BY RowFacts DEF Addresses
    <2>2. \A a \in Addresses : rows[a] # Nil => rows[a].chain <= chains'
      BY <1>0, <2>1, RowFacts DEF Addresses
    <2>3. InOrder => \A a \in Addresses : rows[a] # Nil => After(rows[a])
      BY <2>1 DEF InOrder, Addresses
    <2>4. faults' \in 0..MaxFaults
      BY <1>4 DEF IInv, TypeOK
    <2> HIDE DEF rows
    <2> QED BY <1>0, <1>1, <1>2, <1>3, <1>4, <2>1, <2>2, <2>3, <2>4, WriteAndGoOn
  <1>5. CASE Fault /\ migration' = "none" /\ UNCHANGED <<session, disturbed>>
    <2>1. Shared'
      BY <1>0, <1>3, <1>5, FaultFacts DEF IInv, TypeOK, Shared
    <2> QED BY <1>0, <1>1, <1>2, <1>3, <1>5, <2>1, Walk DEF history
  <1> QED BY <1>4, <1>5 DEF MoveSessions

\* There is nothing to move.
LEMMA MoveNoSessionStep ==
    ASSUME IInv, NEW w \in Workers, MoveNoSession(w)
    PROVE  IInv'
  <1>0. /\ pc[w] = "moving" /\ Migrated(w) /\ migration' \in {"none", "done"}
        /\ UNCHANGED <<session, chains, known, recreated, sendLock, addr, bundle, local, history>>
    BY DEF MoveNoSession
  <1>1. /\ pc' \in [Workers -> Steps] /\ pc'[w] \in {"building", "loading"}
        /\ \A v \in Workers : v # w => pc'[v] = pc[v]
    BY <1>0, MigratedFacts DEF IInv
  <1>2. addr \in [Workers -> Addresses] /\ bundle \in [Workers -> BOOLEAN]
    BY DEF IInv, TypeOK
  <1>3. OneMigrates'
    BY <1>0, <1>1, MigrationEnds DEF IInv
  <1>4. Shared'
    <2>1. faults' \in 0..MaxFaults
      BY FaultFacts DEF IInv, TypeOK, MoveNoSession
    <2> QED BY <1>0, <2>1 DEF IInv, TypeOK, Shared, Caches
  <1> QED BY <1>0, <1>1, <1>2, <1>3, <1>4, Walk

\* The sessions of a peer with a new identity go.
LEMMA deleteIdentityChangeStateStep ==
    ASSUME IInv, NEW gone \in SUBSET Addresses, deleteIdentityChangeState(gone)
    PROVE  IInv'
  <1> DEFINE rows == [a \in Addresses |-> IF a \in gone THEN Nil ELSE session[a]]
  <1>0. /\ Write(Nil, rows) /\ Fault
        /\ UNCHANGED <<chains, known, migration, recreated, sendLock, pc, addr, bundle, local, used, reused>>
    BY DEF deleteIdentityChangeState, worker
  <1>1. rows \in [Addresses -> Session \cup {Nil}] /\ \A a \in Addresses : rows[a] # Nil => rows[a] = session[a]
    BY RowFacts
  <1> HIDE DEF rows
  <1>2. TypeOK'
    BY <1>0, <1>1, FaultFacts DEF IInv, TypeOK, Write
  <1>3. HasKey' /\ OneMigrates'
    BY <1>0 DEF IInv, HasKey, OneMigrates
  <1>4. Histories' /\ ChainsStarted' /\ Undisturbed'
    <2>1. chains' \in 0..MaxChains /\ chains <= chains' /\ Nil \notin Workers /\ Nil \notin Senders
      BY <1>0, Constants DEF IInv, TypeOK
    <2>2. \A a \in Addresses : rows[a] # Nil => rows[a].chain <= chains'
      BY <1>0, <1>1, RowFacts
    <2>3. InOrder => /\ \A a \in Addresses : rows[a] # Nil => After(rows[a])
                     /\ rows["pn"] # Nil /\ rows["lid"] # Nil => rows["pn"].chain # rows["lid"].chain
      BY <1>1 DEF InOrder, Addresses
    <2>4. \A v \in Workers : local'[v] \in {local[v], Nil} /\ pc'[v] = pc[v]
      BY <1>0
    <2> QED BY <1>0, <1>1, <2>1, <2>2, <2>3, <2>4, Written
  <1> QED BY <1>2, <1>3, <1>4 DEF IInv

\* A worker takes a session: the one of its address, or one in a new chain.
LEMMA TakeSession ==
    ASSUME IInv, NEW w \in Workers, NEW s \in Session,
           UNCHANGED <<session, known, migration, recreated, sendLock, addr, bundle, faults, history>>,
           pc[w] \in {"loading", "fetching"}, local' = [local EXCEPT ![w] = s], Goto(w, "storing"),
           w \in Decrypters \/ s.next < MaxKeys,
           \/ session[addr[w]] = s /\ UNCHANGED chains
           \/ s = Fresh /\ NewChain
    PROVE  IInv'
  <1>1. pc' \in [Workers -> Steps] /\ pc'[w] = "storing" /\ \A v \in Workers : v # w => pc'[v] = pc[v]
    BY GotoFacts DEF IInv, Steps
  <1>2. /\ local' \in [Workers -> Session \cup {Nil}] /\ local'[w] = s /\ s # Nil
        /\ \A v \in Workers : v # w => local'[v] = local[v]
        /\ addr \in [Workers -> Addresses] /\ addr[w] \in Addresses
        /\ addr' \in [Workers -> Addresses] /\ bundle' \in [Workers -> BOOLEAN]
    BY Constants DEF IInv, TypeOK
  <1>3. chains' \in 0..MaxChains /\ chains <= chains' /\ s.chain <= chains'
    <2>1. CASE session[addr[w]] = s /\ UNCHANGED chains
      BY <1>2, <2>1, RowFacts DEF IInv, TypeOK
    <2>2. CASE s = Fresh /\ NewChain
      BY <2>2, FreshFacts, RowFacts
    <2> QED BY <2>1, <2>2
  <1>4. TypeOK'
    <2>1. Shared'
      BY <1>3 DEF IInv, TypeOK, Shared
    <2> QED BY <1>1, <1>2, <2>1, TypeStep DEF IInv
  <1>5. HasKey' /\ OneMigrates'
    BY <1>1, <1>2, KeyStep, SameMigration DEF IInv
  <1>6. Current(w)'
    <2>1. CASE session[addr[w]] = s /\ UNCHANGED chains
      BY <1>2, <2>1 DEF Current
    <2>2. CASE s = Fresh /\ NewChain
      <3>1. \A k \in used : k.chain # s.chain
        <4> TAKE k \in used
        <4>1. k \in Session /\ k.chain < s.chain
          BY <2>2, FreshFacts DEF IInv, ChainsStarted
        <4> QED BY <4>1, RowFacts
      <3>2. \A a \in Addresses : session[a] # Nil => session[a].chain # s.chain
        <4> SUFFICES ASSUME NEW a \in Addresses, session[a] # Nil
                     PROVE  session[a].chain # s.chain
          OBVIOUS
        <4>1. session[a] \in Session /\ session[a].chain < s.chain
          BY <2>2, FreshFacts, RowFacts
        <4> QED BY <4>1, RowFacts
      <3> QED BY <1>2, <3>1, <3>2 DEF Current, history
    <2> QED BY <2>1, <2>2
  <1>7. Histories' /\ ChainsStarted' /\ Undisturbed'
    BY <1>1, <1>2, <1>3, <1>6, Unwritten
  <1> QED BY <1>4, <1>5, <1>7 DEF IInv

\* A load takes the row of the address, or fails.
LEMMA LoadSessionStep ==
    ASSUME IInv, NEW w \in Workers, LoadSession(w)
    PROVE  IInv'
  <1>0. pc[w] = "loading" /\ UNCHANGED <<session, chains, known, migration, recreated, history>>
    BY DEF LoadSession
  <1>1. CASE /\ session[addr[w]] # Nil
             /\ w \in Decrypters \/ session[addr[w]].next < MaxKeys
             /\ local' = [local EXCEPT ![w] = session[addr[w]]]
             /\ Goto(w, "storing") /\ UNCHANGED <<sendLock, addr, bundle, faults>>
    <2>1. addr[w] \in Addresses
      BY DEF IInv, TypeOK
    <2>2. session[addr[w]] \in Session
      BY <1>1, <2>1, RowFacts
    <2> QED BY <1>0, <1>1, <2>2, TakeSession
  <1>2. CASE Fault /\ Finish(w)
    <2>1. Shared'
      BY <1>0, <1>2, FaultFacts DEF IInv, TypeOK, Shared
    <2> QED BY <1>0, <1>2, <2>1, GiveUp
  <1> QED BY <1>1, <1>2 DEF LoadSession

\* Without a session a worker fetches a bundle, starts a chain, or fails.
LEMMA NoSessionStep ==
    ASSUME IInv, NEW w \in Workers, NoSession(w)
    PROVE  IInv'
  <1>0. pc[w] = "loading" /\ UNCHANGED <<session, known, migration, recreated, faults, history>>
    BY DEF NoSession
  <1>1. CASE /\ w \in Encrypters /\ Goto(w, "fetching")
             /\ UNCHANGED <<chains, sendLock, addr, bundle, local>>
    <2>1. pc' \in [Workers -> Steps] /\ pc'[w] = "fetching" /\ \A v \in Workers : v # w => pc'[v] = pc[v]
      BY <1>1, GotoFacts DEF IInv, Steps
    <2>2. addr \in [Workers -> Addresses] /\ bundle \in [Workers -> BOOLEAN]
      BY DEF IInv, TypeOK
    <2>3. Shared'
      BY <1>0, <1>1 DEF IInv, TypeOK, Shared
    <2>4. OneMigrates'
      BY <1>0, <2>1, SameMigration DEF IInv
    <2> QED BY <1>0, <1>1, <2>1, <2>2, <2>3, <2>4, Walk
  <1>2. CASE /\ w \in Decrypters /\ NewChain
             /\ local' = [local EXCEPT ![w] = Fresh] /\ Goto(w, "storing")
             /\ UNCHANGED <<sendLock, addr, bundle>>
    BY <1>0, <1>2, FreshFacts, TakeSession
  <1>3. CASE w \notin Encrypters /\ Finish(w) /\ UNCHANGED chains
    <2>1. Shared'
      BY <1>0, <1>3 DEF IInv, TypeOK, Shared
    <2> QED BY <1>0, <1>3, <2>1, GiveUp
  <1> QED BY <1>1, <1>2, <1>3 DEF NoSession

\* The bundle makes a session in the cache of a sender, or sends a retry back.
LEMMA fetchPreKeysStep ==
    ASSUME IInv, NEW w \in Workers, fetchPreKeys(w)
    PROVE  IInv'
  <1>0. pc[w] = "fetching" /\ UNCHANGED <<session, known, migration, recreated, faults, history>>
    BY DEF fetchPreKeys
  <1>1. CASE /\ w \in Encrypters /\ NewChain
             /\ local' = [local EXCEPT ![w] = Fresh] /\ Goto(w, "storing")
             /\ UNCHANGED <<sendLock, addr, bundle>>
    <2>1. Fresh \in Session /\ Fresh.next < MaxKeys
      BY <1>1, FreshFacts, Constants
    <2> QED BY <1>0, <1>1, <2>1, TakeSession
  <1>2. CASE /\ w \in Retriers
             /\ bundle' = [bundle EXCEPT ![w] = TRUE] /\ Goto(w, "resolving")
             /\ UNCHANGED <<chains, sendLock, addr, local>>
    <2>1. pc' \in [Workers -> Steps] /\ pc'[w] = "resolving" /\ \A v \in Workers : v # w => pc'[v] = pc[v]
      BY <1>2, GotoFacts DEF IInv, Steps
    <2>2. addr \in [Workers -> Addresses] /\ bundle' \in [Workers -> BOOLEAN]
      BY <1>2 DEF IInv, TypeOK
    <2>3. Shared'
      BY <1>0, <1>2 DEF IInv, TypeOK, Shared
    <2>4. OneMigrates'
      BY <1>0, <2>1, SameMigration DEF IInv
    <2> QED BY <1>0, <1>2, <2>1, <2>2, <2>3, <2>4, Walk
  <1>3. CASE Finish(w) /\ UNCHANGED chains
    <2>1. Shared'
      BY <1>0, <1>3 DEF IInv, TypeOK, Shared
    <2> QED BY <1>0, <1>3, <2>1, GiveUp
  <1> QED BY <1>1, <1>2, <1>3 DEF fetchPreKeys

\* A row replaced by one of a chain that starts now.
LEMMA FreshRow ==
    ASSUME IInv, NEW a \in Addresses, NewChain
    PROVE  LET rows == [session EXCEPT ![a] = Fresh] IN
           /\ rows \in [Addresses -> Session \cup {Nil}]
           /\ \A b \in Addresses : rows[b] # Nil => rows[b].chain <= chains'
           /\ InOrder => /\ \A b \in Addresses : rows[b] # Nil => After(rows[b])
                         /\ rows["pn"] # Nil /\ rows["lid"] # Nil => rows["pn"].chain # rows["lid"].chain
  <1> DEFINE rows == [session EXCEPT ![a] = Fresh]
  <1>1. rows \in [Addresses -> Session \cup {Nil}] /\ rows[a] = Fresh
        /\ \A b \in Addresses : b # a => rows[b] = session[b]
    BY RowFacts, FreshFacts
  <1>2. Fresh \in Session /\ Fresh.chain \in Nat /\ Fresh.chain = chains' /\ chains <= chains'
    BY FreshFacts, RowFacts
  <1>3. \A b \in Addresses : session[b] # Nil => session[b].chain \in Nat /\ session[b].chain < Fresh.chain
    BY FreshFacts, RowFacts
  <1>4. \A b \in Addresses : rows[b] # Nil => rows[b].chain <= chains'
    BY <1>1, <1>2, <1>3
  <1>5. \A k \in used : k.chain \in Nat /\ k.chain < Fresh.chain
    BY FreshFacts, RowFacts DEF IInv, ChainsStarted
  <1>6. After(Fresh)
    BY <1>2, <1>5 DEF After
  <1>7. InOrder => \A b \in Addresses : rows[b] # Nil => After(rows[b])
    BY <1>1, <1>6 DEF InOrder
  <1>8. rows["pn"] # Nil /\ rows["lid"] # Nil => rows["pn"].chain # rows["lid"].chain
    BY <1>1, <1>2, <1>3 DEF Addresses
  <1> QED BY <1>1, <1>4, <1>7, <1>8

\* A worker writes sessions and is done.
LEMMA WriteAndFinish ==
    ASSUME IInv, NEW w \in Workers, NEW rows \in [Addresses -> Session \cup {Nil}], Write(w, rows),
           pc[w] \notin {"idle", "moving"}, Finish(w),
           UNCHANGED <<used, reused, known, migration, recreated>>,
           chains' \in 0..MaxChains, chains <= chains', faults' \in 0..MaxFaults,
           \A a \in Addresses : rows[a] # Nil => rows[a].chain <= chains',
           InOrder => /\ \A a \in Addresses : rows[a] # Nil => After(rows[a])
                      /\ rows["pn"] # Nil /\ rows["lid"] # Nil => rows["pn"].chain # rows["lid"].chain
    PROVE  IInv'
  <1>0. /\ pc'[w] = "idle" /\ local'[w] = Nil
        /\ \A v \in Workers : v # w => pc'[v] = pc[v] /\ local'[v] = local[v]
    BY FinishFacts DEF IInv
  <1>1. TypeOK'
    <2>1. Shared'
      BY DEF IInv, TypeOK, Shared, Write
    <2> QED BY <2>1, TypeFinish DEF IInv
  <1>2. HasKey' /\ OneMigrates'
    BY <1>0, KeyStep, SameMigration DEF IInv
  <1>3. Histories' /\ ChainsStarted' /\ Undisturbed'
    <2>1. \A v \in Workers : local'[v] \in {local[v], Nil}
      BY <1>0
    <2> QED BY <1>0, <2>1, Written
  <1> QED BY <1>1, <1>2, <1>3 DEF IInv

\* A retry stores a new session, or fails with or without deleting the old one.
LEMMA ProcessBundleStep ==
    ASSUME IInv, NEW w \in Workers, ProcessBundle(w)
    PROVE  IInv'
  <1>0. pc[w] = "building" /\ UNCHANGED <<known, migration, recreated, used, reused>> /\ addr[w] \in Addresses
    BY DEF ProcessBundle, IInv, TypeOK
  <1>1. CASE /\ NewChain /\ Write(w, [session EXCEPT ![addr[w]] = Fresh])
             /\ bundle' = [bundle EXCEPT ![w] = FALSE] /\ Goto(w, "loading")
             /\ UNCHANGED <<sendLock, addr, local, faults>>
    <2>1. pc' \in [Workers -> Steps] /\ pc'[w] = "loading" /\ \A v \in Workers : v # w => pc'[v] = pc[v]
      BY <1>1, GotoFacts DEF IInv, Steps
    <2>2. bundle' \in [Workers -> BOOLEAN] /\ faults' \in 0..MaxFaults /\ migration' \in Caches
      BY <1>0, <1>1 DEF IInv, TypeOK
    <2>3. OneMigrates'
      BY <1>0, <2>1, SameMigration DEF IInv
    <2>4. chains' \in 0..MaxChains /\ chains <= chains'
      BY <1>1, FreshFacts, RowFacts
    <2> QED BY <1>0, <1>1, <2>1, <2>2, <2>3, <2>4, FreshRow, WriteAndGoOn
  <1>2. CASE Fault /\ Finish(w) /\ UNCHANGED chains /\ UNCHANGED <<session, disturbed>>
    <2>1. Shared'
      BY <1>0, <1>2, FaultFacts DEF IInv, TypeOK, Shared
    <2> QED BY <1>0, <1>2, <2>1, GiveUp DEF history
  <1>3. CASE Fault /\ Finish(w) /\ UNCHANGED chains /\ Write(w, [session EXCEPT ![addr[w]] = Nil])
    <2> DEFINE rows == [session EXCEPT ![addr[w]] = Nil]
    <2>1. rows \in [Addresses -> Session \cup {Nil}] /\ \A a \in Addresses : rows[a] # Nil => rows[a] = session[a]
      BY <1>0, RowFacts
    <2>2. Write(w, rows)
      BY <1>3
    <2> HIDE DEF rows
    <2>3. \A a \in Addresses : rows[a] # Nil => rows[a].chain <= chains'
      BY <1>3, <2>1, RowFacts
    <2>4. InOrder => /\ \A a \in Addresses : rows[a] # Nil => After(rows[a])
                     /\ rows["pn"] # Nil /\ rows["lid"] # Nil => rows["pn"].chain # rows["lid"].chain
      BY <2>1 DEF InOrder, Addresses
    <2>5. chains' \in 0..MaxChains /\ chains <= chains' /\ faults' \in 0..MaxFaults
      BY <1>3, FaultFacts, RowFacts DEF IInv, TypeOK
    <2> QED BY <1>0, <1>3, <2>1, <2>2, <2>3, <2>4, <2>5, WriteAndFinish
  <1> QED BY <1>1, <1>2, <1>3 DEF ProcessBundle

\* A message is sent under the loaded key and the session after it is stored.  If
\* nobody was disturbed the key is the next one of its chain, and was never used.
LEMMA EncryptAndStoreStep ==
    ASSUME IInv, NEW w \in Workers, EncryptAndStore(w)
    PROVE  IInv'
  <1> DEFINE key == local[w]
             next == [key EXCEPT !.next = @ + 1]
             rows == [session EXCEPT ![addr[w]] = next]
  <1>0. /\ pc[w] = "storing" /\ w \notin Decrypters /\ Finish(w)
        /\ UNCHANGED <<chains, known, migration, recreated>> /\ addr[w] \in Addresses
    BY DEF EncryptAndStore, IInv, TypeOK
  <1>1. CASE Fault /\ UNCHANGED <<session, history>>
    <2>1. Shared'
      BY <1>0, <1>1, FaultFacts DEF IInv, TypeOK, Shared
    <2> QED BY <1>0, <1>1, <2>1, GiveUp
  <1>2. CASE /\ Write(w, rows)
             /\ used' = used \cup {key} /\ reused' = (reused \/ key \in used) /\ UNCHANGED faults
    <2>1. key \in Session /\ key.next < MaxKeys /\ key.chain <= chains
      BY <1>0, Constants DEF IInv, TypeOK, HasKey, ChainsStarted
    <2>2. /\ next \in Session /\ next # Nil /\ next.chain = key.chain /\ next.next = key.next + 1
          /\ key.next \in Nat /\ key.chain \in Nat
      BY <2>1, Constants DEF Session
    <2>3. /\ rows \in [Addresses -> Session \cup {Nil}] /\ rows[addr[w]] = next
          /\ \A a \in Addresses : a # addr[w] => rows[a] = session[a]
      BY <1>0, <2>2, RowFacts
    <2>4. session' = rows /\ Write(w, rows)
      BY <1>2 DEF Write
    <2>5. /\ pc'[w] = "idle" /\ local'[w] = Nil
          /\ \A v \in Workers : v # w => pc'[v] = pc[v] /\ local'[v] = local[v]
      BY <1>0, FinishFacts DEF IInv
    <2> HIDE DEF key, next, rows
    <2>6. TypeOK'
      <3>1. Shared'
        BY <1>0, <1>2, <2>3, <2>4 DEF IInv, TypeOK, Shared
      <3> QED BY <1>0, <3>1, TypeFinish DEF IInv
    <2>7. HasKey' /\ OneMigrates'
      BY <1>0, <2>5, KeyStep, SameMigration DEF IInv
    <2>8. Histories'
      BY <1>2 DEF IInv, Histories, Write
    <2>9. ChainsStarted'
      <3>1. \A a \in Addresses : rows[a] # Nil => rows[a].chain <= chains
        BY <2>1, <2>2, <2>3, RowFacts
      <3> QED BY <1>0, <1>2, <2>1, <2>4, <2>5, <3>1 DEF IInv, ChainsStarted
    <2>10. Undisturbed'
      <3> SUFFICES ASSUME ~disturbed'
                   PROVE  InOrder'
        BY DEF Undisturbed
      <3>1. ~disturbed /\ \A v \in Workers : v # w => pc[v] # "storing"
        BY <1>0, <2>4, Quiet DEF IInv
      <3>2. InOrder /\ Current(w)
        BY <1>0, <3>1 DEF IInv, Undisturbed, InOrder
      <3>3. \A k \in used : k \in Session /\ k.chain \in Nat /\ k.next \in Nat
        BY RowFacts DEF IInv, ChainsStarted
      <3>4. After(key) /\ \A a \in Addresses : a # addr[w] /\ session[a] # Nil => session[a].chain # key.chain
        <4>1. CASE key = session[addr[w]]
          <5>1. key # Nil
            BY <2>1, Constants
          <5>2. After(key)
            BY <1>0, <3>2, <4>1, <5>1 DEF InOrder
          <5>3. \A a \in Addresses : a # addr[w] /\ session[a] # Nil => session[a].chain # key.chain
            BY <1>0, <3>2, <4>1, <5>1 DEF InOrder, Addresses
          <5> QED BY <5>2, <5>3
        <4>2. CASE key # session[addr[w]]
          BY <3>2, <4>2 DEF Current, After, key
        <4> QED BY <4>1, <4>2
      <3>5. key \notin used
        BY <2>2, <3>4 DEF After
      <3>6. \A k \in used' : k.chain = key.chain => k.next < key.next + 1
        BY <1>2, <2>2, <3>3, <3>4 DEF After
      <3>7. ~reused'
        BY <1>2, <3>2, <3>5 DEF InOrder
      <3>8. ASSUME NEW a \in Addresses, rows[a] # Nil, NEW k \in used', k.chain = rows[a].chain
            PROVE  k.next < rows[a].next
        <4>1. CASE a = addr[w]
          BY <2>2, <2>3, <3>6, <3>8, <4>1
        <4>2. CASE a # addr[w]
          <5>1. rows[a] = session[a] /\ session[a] # Nil /\ session[a].chain # key.chain
            BY <2>3, <3>4, <3>8, <4>2
          <5>2. k \in used
            BY <1>2, <3>8, <5>1
          <5> QED BY <3>2, <3>8, <5>1, <5>2 DEF InOrder, After
        <4> QED BY <4>1, <4>2
      <3>9. rows["pn"] # Nil /\ rows["lid"] # Nil => rows["pn"].chain # rows["lid"].chain
        BY <1>0, <2>2, <2>3, <3>4 DEF Addresses
      <3>10. \A v \in Workers : pc'[v] # "storing"
        BY <2>5, <3>1
      <3> QED BY <2>4, <3>7, <3>8, <3>9, <3>10 DEF InOrder, After
    <2> QED BY <2>6, <2>7, <2>8, <2>9, <2>10 DEF IInv
  <1> QED BY <1>1, <1>2 DEF EncryptAndStore

\* A decryption stores what it loaded or a new chain, or is rolled back.
LEMMA DecryptAndStoreStep ==
    ASSUME IInv, NEW w \in Workers, DecryptAndStore(w)
    PROVE  IInv'
  <1>0. /\ pc[w] = "storing" /\ Finish(w)
        /\ UNCHANGED <<known, migration, recreated, used, reused>> /\ addr[w] \in Addresses
    BY DEF DecryptAndStore, IInv, TypeOK
  <1>1. CASE Write(w, [session EXCEPT ![addr[w]] = local[w]]) /\ UNCHANGED <<chains, faults>>
    <2> DEFINE s == local[w]
               rows == [session EXCEPT ![addr[w]] = s]
    <2>1. s \in Session /\ s # Nil /\ s.chain <= chains
      BY <1>0, Constants DEF IInv, TypeOK, ChainsStarted
    <2>2. /\ rows \in [Addresses -> Session \cup {Nil}] /\ rows[addr[w]] = s
          /\ \A a \in Addresses : a # addr[w] => rows[a] = session[a]
      BY <1>0, <2>1, RowFacts
    <2>3. Write(w, rows) /\ chains' \in 0..MaxChains /\ chains <= chains' /\ faults' \in 0..MaxFaults
      BY <1>1, RowFacts DEF IInv, TypeOK
    <2>4. \A a \in Addresses : rows[a] # Nil => rows[a].chain <= chains'
      BY <1>1, <2>1, <2>2, RowFacts
    <2>5. InOrder => /\ \A a \in Addresses : rows[a] # Nil => After(rows[a])
                     /\ rows["pn"] # Nil /\ rows["lid"] # Nil => rows["pn"].chain # rows["lid"].chain
      <3> SUFFICES ASSUME InOrder
                   PROVE  /\ \A a \in Addresses : rows[a] # Nil => After(rows[a])
                          /\ rows["pn"] # Nil /\ rows["lid"] # Nil => rows["pn"].chain # rows["lid"].chain
        OBVIOUS
      <3>1. Current(w)
        BY <1>0 DEF InOrder
      <3>2. CASE s = session[addr[w]]
        <4>1. \A a \in Addresses : rows[a] = session[a]
          BY <2>2, <3>2
        <4> QED BY <4>1 DEF InOrder, Addresses
      <3>3. CASE s # session[addr[w]]
        <4>1. /\ \A a \in Addresses : session[a] # Nil => session[a].chain # s.chain
              /\ \A k \in used : k.chain # s.chain
          BY <3>1, <3>3 DEF Current
        <4>2. After(s)
          BY <4>1 DEF After
        <4> HIDE DEF s, rows
        <4>3. \A a \in Addresses : rows[a] # Nil => After(rows[a])
          BY <2>2, <4>2 DEF InOrder
        <4>4. rows["pn"] # Nil /\ rows["lid"] # Nil => rows["pn"].chain # rows["lid"].chain
          BY <1>0, <2>2, <4>1 DEF Addresses
        <4> QED BY <4>3, <4>4
      <3> QED BY <3>2, <3>3
    <2> HIDE DEF s, rows
    <2> QED BY <1>0, <2>2, <2>3, <2>4, <2>5, WriteAndFinish
  <1>2. CASE NewChain /\ Write(w, [session EXCEPT ![addr[w]] = Fresh]) /\ UNCHANGED faults
    <2>1. chains' \in 0..MaxChains /\ chains <= chains' /\ faults' \in 0..MaxFaults
      BY <1>2, FreshFacts, RowFacts DEF IInv, TypeOK
    <2> QED BY <1>0, <1>2, <2>1, FreshRow, WriteAndFinish
  <1>3. CASE Fault /\ UNCHANGED <<session, chains, disturbed>>
    <2>1. Shared'
      BY <1>0, <1>3, FaultFacts DEF IInv, TypeOK, Shared
    <2> QED BY <1>0, <1>3, <2>1, GiveUp DEF history
  <1> QED BY <1>1, <1>2, <1>3 DEF DecryptAndStore

\* After a crash nobody is at work and nothing that was written is lost.
LEMMA CrashStep ==
    ASSUME IInv, Crash
    PROVE  IInv'
  <1>0. /\ migration' = "none" /\ recreated' = {} /\ sendLock' = Nil
        /\ pc' = [w \in Workers |-> "idle"] /\ addr' = [w \in Workers |-> "pn"]
        /\ bundle' = [w \in Workers |-> FALSE] /\ local' = [w \in Workers |-> Nil]
        /\ UNCHANGED <<session, chains, known, used, reused, disturbed>> /\ faults' \in 0..MaxFaults
    BY FaultFacts DEF Crash, IInv, history
  <1>1. TypeOK'
    <2>1. /\ pc' \in [Workers -> Steps] /\ addr' \in [Workers -> Addresses]
          /\ bundle' \in [Workers -> BOOLEAN] /\ local' \in [Workers -> Session \cup {Nil}]
          /\ migration' \in Caches /\ recreated' \subseteq Addresses
      BY <1>0 DEF Steps, Addresses, Caches
    <2>2. \A v \in Senders : pc'[v] # "idle" <=> sendLock' = v
      BY <1>0, Constants
    <2>3. \A v \in Workers : pc'[v] = "storing" <=> local'[v] # Nil
      BY <1>0
    <2> QED BY <1>0, <2>1, <2>2, <2>3 DEF IInv, TypeOK
  <1>2. Histories' /\ HasKey' /\ OneMigrates' /\ ChainsStarted'
    BY <1>0 DEF IInv, Histories, HasKey, OneMigrates, ChainsStarted
  <1>3. Undisturbed'
    BY <1>0 DEF IInv, Undisturbed, InOrder, After
  <1> QED BY <1>1, <1>2, <1>3 DEF IInv

-----------------------------------------------------------------------------
(* The theorems                                                            *)

\* The invariant holds at the start.
LEMMA InitIInv ==
    ASSUME Init
    PROVE  IInv
  <1>1. /\ session \in [Addresses -> Session \cup {Nil}] /\ session["lid"] = Nil
        /\ session["pn"] # Nil => session["pn"].chain = 1
    <2>1. [chain |-> 1, next |-> 0] \in Session
      BY Constants DEF Session
    <2> QED BY <2>1 DEF Init, Addresses
  <1>2. TypeOK
    <2>1. /\ pc \in [Workers -> Steps] /\ addr \in [Workers -> Addresses]
          /\ bundle \in [Workers -> BOOLEAN] /\ local \in [Workers -> Session \cup {Nil}]
          /\ known \in BOOLEAN /\ migration \in Caches /\ recreated \subseteq Addresses
      BY DEF Init, Steps, Addresses, Caches
    <2>2. \A v \in Senders : pc[v] # "idle" <=> sendLock = v
      BY Constants DEF Init
    <2>3. \A v \in Workers : pc[v] = "storing" <=> local[v] # Nil
      BY DEF Init
    <2>4. chains \in 0..MaxChains /\ faults \in 0..MaxFaults /\ sendLock \in Senders \cup {Nil}
      BY Constants DEF Init
    <2> QED BY <1>1, <2>1, <2>2, <2>3, <2>4 DEF TypeOK
  <1>3. Histories /\ HasKey /\ OneMigrates
    BY DEF Init, Histories, HasKey, OneMigrates
  <1>4. ChainsStarted
    <2>1. used = {} /\ chains = 1 /\ \A w \in Workers : local[w] = Nil
      BY DEF Init
    <2> QED BY <1>1, <2>1 DEF ChainsStarted, Addresses
  <1>5. Undisturbed
    BY <1>1 DEF Init, Undisturbed, InOrder, After
  <1> QED BY <1>2, <1>3, <1>4, <1>5 DEF IInv

\* Every step keeps it.
LEMMA StepIInv ==
    ASSUME IInv, [Next]_vars
    PROVE  IInv'
  <1>1. CASE UNCHANGED vars
    <2>1. UNCHANGED <<session, chains, worker, history>> /\ Shared'
      BY <1>1 DEF vars, IInv, TypeOK, Shared
    <2> QED BY <1>1, <2>1, Background DEF vars
  <1>2. CASE \E w \in Workers :
                \/ \E a \in Addresses : SendMessage(w, a) \/ SendToInlineBot(w, a) \/ decryptMessages(w, a)
                \/ \E a \in Addresses, hasKeys \in BOOLEAN : handleRetryReceipt(w, a, hasKeys)
                \/ \E many \in BOOLEAN : shouldRecreateSession(w, many)
                \/ ResolveLID(w) \/ MoveSessions(w) \/ MoveNoSession(w)
                \/ LoadSession(w) \/ NoSession(w) \/ fetchPreKeys(w) \/ ProcessBundle(w)
                \/ EncryptAndStore(w) \/ DecryptAndStore(w)
    BY <1>2, SendMessageStep, SendToInlineBotStep, decryptMessagesStep, handleRetryReceiptStep,
       shouldRecreateSessionStep, ResolveLIDStep, MoveSessionsStep, MoveNoSessionStep, LoadSessionStep, NoSessionStep,
       fetchPreKeysStep, ProcessBundleStep, EncryptAndStoreStep, DecryptAndStoreStep
  <1>3. CASE \E gone \in SUBSET Addresses : deleteIdentityChangeState(gone)
    BY <1>3, deleteIdentityChangeStateStep
  <1>4. CASE LearnLID \/ CacheExpires \/ HourPasses
    BY <1>4, BackgroundSteps
  <1>5. CASE Crash
    BY <1>5, CrashStep
  <1> QED BY <1>1, <1>2, <1>3, <1>4, <1>5 DEF Next

\* The strengthened invariant holds in every state, for any number of workers.
THEOREM Invariance == Spec => []IInv
  BY InitIInv, StepIInv, PTL DEF Spec

\* Every variable keeps its type, messageSendLock is held exactly by the call of
\* SendMessage that is at work after taking it, and a worker holds a session exactly while it is to store it.
THEOREM TypeCorrect == Spec => []TypeOK
  <1>1. IInv => TypeOK
    BY DEF IInv
  <1> QED BY <1>1, Invariance, PTL

\* A phone number is marked as being migrated exactly while one worker of any number
\* of them runs MigratePNToLID for it, whatever fails.
THEOREM MigrationHasOwner == Spec => []MigratingHasOwner
  <1>1. ASSUME IInv
        PROVE  MigratingHasOwner
    <2> DEFINE movers == {w \in Workers : pc[w] = "moving"}
    <2>1. CASE migration = "migrating"
      <3>1. PICK w \in Workers : pc[w] = "moving"
        BY <1>1, <2>1 DEF IInv, OneMigrates
      <3>2. movers = {w}
        BY <1>1, <3>1 DEF IInv, OneMigrates
      <3>3. Cardinality(movers) = 1
        BY <3>2, FS_Singleton
      <3> QED BY <2>1, <3>3 DEF MigratingHasOwner
    <2>2. CASE migration # "migrating"
      <3>1. movers = {}
        BY <1>1, <2>2 DEF IInv, OneMigrates
      <3>2. Cardinality(movers) = 0
        BY <3>1, FS_EmptySet
      <3> QED BY <2>2, <3>2 DEF MigratingHasOwner
    <2> QED BY <2>1, <2>2
  <1> QED BY <1>1, Invariance, PTL

\* Two messages share a key only if a session was written between another worker's
\* load and its store by, or to the harm of, somebody without messageSendLock: a
\* retry, a decryption, a migration, a deletion or a call for an inline bot.
THEOREM OnlyDisturbanceReuses == Spec => []SendsUseFreshKeys
  <1>1. IInv => SendsUseFreshKeys
    BY DEF IInv, Histories, Undisturbed, InOrder, SendsUseFreshKeys
  <1> QED BY <1>1, Invariance, PTL
=============================================================================
