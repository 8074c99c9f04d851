----------------------- MODULE PendingGateStoreProofs -----------------------
(***************************************************************************)
(* Proofs about the pending gate store, for any gates, keys and tasks and  *)
(* any number of crashes.  The invariant carried through a step is         *)
(* StoreInv: the agreement of the two indices needs the file to hold one   *)
(* gate per key (a restart rebuilds the indices from it), and that needs   *)
(* the saves still owed to be of inserted gates.                           *)
(***************************************************************************)
EXTENDS PendingGateStore, TLAPS

\* Every operation that takes gates off the store keeps the two indices in
\* step and takes off exactly the gates under the removed keys.
LEMMA RemoveKeysFacts ==
  ASSUME TypeOK, IndexesAgree, GrantDiesWithProcess,
         NEW K \in SUBSET Keys, RemoveKeys(K)
  PROVE  /\ by_key' \in [Keys -> Gates \cup {None}]
         /\ by_request_id' \in [Gates -> Keys \cup {None}]
         /\ IndexesAgree'
         /\ Held' = Held \ {by_key[k] : k \in K}
         /\ granted' \subseteq fresh \cap Held'
  <1> USE StoreAssumption DEF TypeOK, IndexesAgree, RemoveKeys
  <1>1. /\ by_key' \in [Keys -> Gates \cup {None}]
        /\ by_request_id' \in [Gates -> Keys \cup {None}]
    OBVIOUS
  <1>2. IndexesAgree'
    <2>1. ASSUME NEW k \in Keys, by_key'[k] # None
          PROVE  KeyOf[by_key'[k]] = k /\ by_request_id'[by_key'[k]] = k
      BY <2>1
    <2>2. ASSUME NEW g \in Gates, by_request_id'[g] # None
          PROVE  by_key'[by_request_id'[g]] = g
      BY <2>2
    <2> QED
      BY <2>1, <2>2
  <1>3. Held' = Held \ {by_key[k] : k \in K}
    <2>1. ASSUME NEW k \in Keys \ K, by_key[k] # None
          PROVE  by_key[k] \notin {by_key[j] : j \in K}
      BY <2>1
    <2> QED
      BY <2>1 DEF Held
  <1>4. granted' \subseteq fresh \cap Held'
    BY <1>3 DEF GrantDiesWithProcess
  <1> QED
    BY <1>1, <1>2, <1>3, <1>4

LEMMA InitStoreInv == Init => StoreInv
  BY StoreAssumption
  DEF Init, StoreInv, TypeOK, IndexesAgree, OneRowPerKey, GrantDiesWithProcess,
      Bookkeeping, Held, Idle

\* A task that only takes gates off the store and owes the removals.
LEMMA RemovalKeepsInv ==
  ASSUME StoreInv, up, NEW K \in SUBSET Keys, RemoveKeys(K),
         owes' \in [Tasks -> [save : Gates \cup {None}, remove : SUBSET Keys]],
         \A t \in Tasks : owes'[t].save = owes[t].save,
         resolved' \subseteq Gates,
         UNCHANGED <<expired, rows, readable, up, crashes, inserted, fresh>>
  PROVE  StoreInv'
  <1>1. /\ by_key' \in [Keys -> Gates \cup {None}]
        /\ by_request_id' \in [Gates -> Keys \cup {None}]
        /\ IndexesAgree'
        /\ Held' = Held \ {by_key[k] : k \in K}
        /\ granted' \subseteq fresh \cap Held'
    BY RemoveKeysFacts DEF StoreInv
  <1>2. TypeOK'
    BY <1>1 DEF StoreInv, TypeOK
  <1>3. OneRowPerKey' /\ GrantDiesWithProcess'
    BY <1>1 DEF StoreInv, OneRowPerKey, GrantDiesWithProcess
  <1>4. Bookkeeping'
    BY <1>1 DEF StoreInv, Bookkeeping
  <1> QED
    BY <1>1, <1>2, <1>3, <1>4 DEF StoreInv

LEMMA InsertKeepsInv ==
  ASSUME StoreInv, NEW t \in Tasks, NEW g \in Gates, Insert(t, g)
  PROVE  StoreInv'
  <1> USE StoreAssumption DEF Insert, Ready, Owe
  <1>1. CASE by_key[KeyOf[g]] # None
    BY <1>1 DEF StoreInv, TypeOK, IndexesAgree, OneRowPerKey, GrantDiesWithProcess,
                Bookkeeping, Held, memory, file
  <1>2. CASE by_key[KeyOf[g]] = None
    <2> USE <1>2
    <2>0. KeyOf[g] \in Keys
      OBVIOUS
    <2>1. TypeOK'
      <3>1. owes' \in [Tasks -> [save : Gates \cup {None}, remove : SUBSET Keys]]
        BY DEF StoreInv, TypeOK
      <3>2. /\ by_key' \in [Keys -> Gates \cup {None}]
            /\ by_request_id' \in [Gates -> Keys \cup {None}]
        BY <2>0 DEF StoreInv, TypeOK
      <3>3. granted' \subseteq Gates /\ inserted' \subseteq Gates /\ fresh' \subseteq inserted'
        BY DEF StoreInv, TypeOK
      <3>4. UNCHANGED <<expired, rows, readable, up, crashes, resolved>>
        BY DEF file
      <3> HIDE DEF Insert, Owe
      <3> QED
        BY <3>1, <3>2, <3>3, <3>4 DEF StoreInv, TypeOK
    <2>2. Held' = Held \cup {g}
      BY <2>0 DEF StoreInv, TypeOK, Held
    <2>3. g \notin Held
      BY DEF StoreInv, Bookkeeping
    <2>4. IndexesAgree'
      <3>1. ASSUME NEW k \in Keys, by_key'[k] # None
            PROVE  KeyOf[by_key'[k]] = k /\ by_request_id'[by_key'[k]] = k
        BY <3>1, <2>0, <2>3 DEF StoreInv, TypeOK, IndexesAgree, Held
      <3>2. ASSUME NEW h \in Gates, by_request_id'[h] # None
            PROVE  by_key'[by_request_id'[h]] = h
        BY <3>2, <2>0 DEF StoreInv, TypeOK, IndexesAgree
      <3> QED
        BY <3>1, <3>2 DEF IndexesAgree
    <2>5. OneRowPerKey' /\ GrantDiesWithProcess'
      BY <2>2 DEF StoreInv, OneRowPerKey, GrantDiesWithProcess, file
    <2>6. Bookkeeping'
      BY <2>2 DEF StoreInv, TypeOK, Bookkeeping, file
    <2> QED
      BY <2>1, <2>4, <2>5, <2>6 DEF StoreInv
  <1> QED
    BY <1>1, <1>2

\* A change of the file alone, and of what the tasks owe it.
LEMMA FileStepKeepsInv ==
  ASSUME StoreInv, up,
         owes' \in [Tasks -> [save : Gates \cup {None}, remove : SUBSET Keys]],
         \A t \in Tasks : owes'[t].save \in {owes[t].save, None},
         rows' \subseteq inserted, readable' \in BOOLEAN, OneRowPerKey',
         UNCHANGED <<memory, expired, up, crashes, inserted, fresh, resolved>>
  PROVE  StoreInv'
  <1> USE DEF StoreInv, memory
  <1>1. TypeOK'
    BY DEF TypeOK
  <1>2. Held' = Held
    BY DEF Held
  <1>3. IndexesAgree' /\ GrantDiesWithProcess'
    BY <1>2 DEF IndexesAgree, GrantDiesWithProcess
  <1>4. Bookkeeping'
    BY <1>2 DEF Bookkeeping
  <1> QED
    BY <1>1, <1>3, <1>4

LEMMA FileKeepsInv ==
  ASSUME StoreInv, NEW t \in Tasks,
         FileSave(t) \/ FileError(t) \/ \E k \in Keys : FileRemove(t, k)
  PROVE  StoreInv'
  <1> USE StoreAssumption
  <1>1. CASE FileSave(t)
    <2> DEFINE g == owes[t].save
    <2>1. g \in Gates /\ g \in inserted
      BY <1>1 DEF FileSave, StoreInv, TypeOK, Bookkeeping
    <2>2. rows' \subseteq inserted /\ OneRowPerKey'
      BY <1>1, <2>1 DEF FileSave, StoreInv, TypeOK, Bookkeeping, OneRowPerKey, Without
    <2>3. owes' \in [Tasks -> [save : Gates \cup {None}, remove : SUBSET Keys]]
      BY <1>1 DEF FileSave, Owe, StoreInv, TypeOK
    <2>4. \A u \in Tasks : owes'[u].save \in {owes[u].save, None}
      BY <1>1 DEF FileSave, Owe, StoreInv, TypeOK
    <2> QED
      BY <1>1, <2>2, <2>3, <2>4, FileStepKeepsInv DEF FileSave, StoreInv, TypeOK, history
  <1>2. ASSUME NEW k \in Keys, FileRemove(t, k)
        PROVE  StoreInv'
    <2>1. rows' \subseteq inserted /\ OneRowPerKey'
      BY <1>2 DEF FileRemove, StoreInv, TypeOK, Bookkeeping, OneRowPerKey, Without
    <2>2. owes' \in [Tasks -> [save : Gates \cup {None}, remove : SUBSET Keys]]
      BY <1>2 DEF FileRemove, Owe, StoreInv, TypeOK
    <2>3. \A u \in Tasks : owes'[u].save \in {owes[u].save, None}
      BY <1>2 DEF FileRemove, Owe, StoreInv, TypeOK
    <2> QED
      BY <1>2, <2>1, <2>2, <2>3, FileStepKeepsInv DEF FileRemove, StoreInv, TypeOK, history
  <1>3. CASE FileError(t)
    <2>1. rows' \subseteq inserted /\ OneRowPerKey' /\ readable' \in BOOLEAN
      BY <1>3 DEF FileError, Interrupted, file, StoreInv, TypeOK, Bookkeeping, OneRowPerKey
    <2>3. /\ owes' \in [Tasks -> [save : Gates \cup {None}, remove : SUBSET Keys]]
          /\ \A u \in Tasks : owes'[u].save \in {owes[u].save, None}
      BY <1>3 DEF FileError, Owe, StoreInv, TypeOK
    <2> QED
      BY <1>3, <2>1, <2>3, FileStepKeepsInv DEF FileError, history
  <1> QED
    BY <1>1, <1>2, <1>3

LEMMA CrashKeepsInv == StoreInv /\ Crash => StoreInv'
  <1> SUFFICES ASSUME StoreInv, Crash
               PROVE  StoreInv'
    OBVIOUS
  <1> USE StoreAssumption DEF Crash
  <1>1. Held' = {}
    BY DEF Held
  <1>2. rows' \subseteq rows /\ readable' \in BOOLEAN
    BY DEF Interrupted, file, StoreInv, TypeOK
  <1>3. TypeOK'
    <2>1. owes' \in [Tasks -> [save : Gates \cup {None}, remove : SUBSET Keys]]
      BY DEF Idle
    <2>2. /\ by_key' \in [Keys -> Gates \cup {None}]
          /\ by_request_id' \in [Gates -> Keys \cup {None}]
          /\ granted' = {} /\ resolved' = {} /\ fresh' = {}
          /\ up' \in BOOLEAN
          /\ UNCHANGED <<expired, inserted>>
      OBVIOUS
    <2>3. crashes' \in Nat
      BY DEF StoreInv, TypeOK
    <2>4. /\ expired \subseteq Gates /\ inserted \subseteq Gates
          /\ rows' \subseteq Gates
      BY <1>2 DEF StoreInv, TypeOK
    <2> HIDE DEF Crash
    <2> QED
      BY <1>2, <2>1, <2>2, <2>3, <2>4 DEF TypeOK
  <1>4. IndexesAgree' /\ OneRowPerKey' /\ GrantDiesWithProcess'
    BY <1>1, <1>2 DEF StoreInv, IndexesAgree, OneRowPerKey, GrantDiesWithProcess
  <1>5. Bookkeeping'
    BY <1>1, <1>2 DEF StoreInv, Bookkeeping, Idle
  <1> QED
    BY <1>3, <1>4, <1>5 DEF StoreInv

\* What a restart puts on the board: the unexpired gates of a readable file.
RestoredGates == IF readable THEN rows \ expired ELSE {}

LEMMA RestoreFacts ==
  ASSUME StoreInv, Restore
  PROVE  /\ StoreInv'
         /\ Held' = RestoredGates
         /\ RestoredGates \subseteq inserted
         /\ \A g, h \in RestoredGates : KeyOf[g] = KeyOf[h] => g = h
  <1> USE StoreAssumption
  <1> DEFINE S == RestoredGates
  <1>1. S \subseteq rows /\ S \subseteq Gates /\ S \subseteq inserted
    BY DEF RestoredGates, StoreInv, TypeOK, Bookkeeping
  <1>2. \A g, h \in S : KeyOf[g] = KeyOf[h] => g = h
    BY <1>1 DEF StoreInv, OneRowPerKey
  <1>3. /\ by_key' = [k \in Keys |->
              IF \E g \in S : KeyOf[g] = k THEN CHOOSE g \in S : KeyOf[g] = k ELSE None]
        /\ by_request_id' = [g \in Gates |-> IF g \in S THEN KeyOf[g] ELSE None]
    BY DEF Restore, RestoredGates
  <1> HIDE DEF S
  <1>4. ASSUME NEW g \in S
        PROVE  by_key'[KeyOf[g]] = g
    BY <1>1, <1>2, <1>3, <1>4
  <1>5. ASSUME NEW k \in Keys, by_key'[k] # None
        PROVE  by_key'[k] \in S /\ KeyOf[by_key'[k]] = k
    BY <1>1, <1>3, <1>5
  <1>6. Held' = S
    BY <1>1, <1>4, <1>5 DEF Held
  <1>7. IndexesAgree'
    BY <1>1, <1>3, <1>4, <1>5 DEF IndexesAgree
  <1>8. /\ by_key' \in [Keys -> Gates \cup {None}]
        /\ by_request_id' \in [Gates -> Keys \cup {None}]
    BY <1>1, <1>3, <1>5
  <1>9. TypeOK'
    BY <1>8 DEF Restore, StoreInv, TypeOK, file, history
  <1>10. OneRowPerKey' /\ GrantDiesWithProcess' /\ Bookkeeping'
    BY <1>1, <1>6 DEF Restore, StoreInv, OneRowPerKey, GrantDiesWithProcess,
                      Bookkeeping, file, history
  <1> QED
    BY <1>1, <1>2, <1>6, <1>7, <1>9, <1>10 DEF StoreInv, S

\* The operations that take gates off the store, each with its keys.
LEMMA TakeOffKeepsInv ==
  ASSUME StoreInv, NEW t \in Tasks,
         \/ \E k \in Keys : \E g \in Gates : \E ch \in Channels :
              TakeVerified(t, k, g, ch) \/ TakeExpired(t, k, g, ch)
         \/ \E k \in Keys : Discard(t, k) \/ DiscardForThread(t, ThreadOf[k])
         \/ ExpireStale(t)
  PROVE  StoreInv'
  <1> USE StoreAssumption
  <1> DEFINE OweType == [Tasks -> [save : Gates \cup {None}, remove : SUBSET Keys]]
  <1>1. owes \in OweType /\ resolved \subseteq Gates
    BY DEF StoreInv, TypeOK
  <1>2. ASSUME NEW K \in SUBSET Keys,
               Owe(t, None, K), Ready(t)
        PROVE  owes' \in OweType /\ \A u \in Tasks : owes'[u].save = owes[u].save
    BY <1>1, <1>2 DEF Owe, Ready, Idle
  <1>3. ASSUME NEW k \in Keys, NEW g \in Gates, NEW ch \in Channels, TakeVerified(t, k, g, ch)
        PROVE  StoreInv'
    BY <1>1, <1>2, <1>3, RemovalKeepsInv DEF TakeVerified, Ready, file
  <1>4. ASSUME NEW k \in Keys, NEW g \in Gates, NEW ch \in Channels, TakeExpired(t, k, g, ch)
        PROVE  StoreInv'
    BY <1>1, <1>4, RemovalKeepsInv DEF TakeExpired, Ready, file, history
  <1>5. ASSUME NEW k \in Keys, Discard(t, k)
        PROVE  StoreInv'
    BY <1>1, <1>2, <1>5, RemovalKeepsInv DEF Discard, Ready, file, history
  <1>6. ASSUME NEW k \in Keys, DiscardForThread(t, ThreadOf[k])
        PROVE  StoreInv'
    <2> DEFINE K == {j \in Keys : ThreadOf[j] = ThreadOf[k] /\ by_key[j] # None}
    <2>1. RemoveKeys(K) /\ Owe(t, None, K) /\ Ready(t) /\ K \in SUBSET Keys
      BY <1>6 DEF DiscardForThread
    <2> HIDE DEF K
    <2> QED
      BY <1>1, <1>2, <1>6, <2>1, RemovalKeepsInv DEF DiscardForThread, Ready, file, history
  <1>7. CASE ExpireStale(t)
    <2> DEFINE K == {k \in Keys : by_key[k] \in expired}
    <2>1. RemoveKeys(K) /\ Owe(t, None, K) /\ Ready(t) /\ K \in SUBSET Keys
      BY <1>7 DEF ExpireStale
    <2> HIDE DEF K
    <2> QED
      BY <1>1, <1>2, <1>7, <2>1, RemovalKeepsInv DEF ExpireStale, Ready, file, history
  <1> QED
    BY <1>3, <1>4, <1>5, <1>6, <1>7

LEMMA StepStoreInv == StoreInv /\ [Next]_vars => StoreInv'
  <1> SUFFICES ASSUME StoreInv, [Next]_vars
               PROVE  StoreInv'
    OBVIOUS
  <1>1. ASSUME NEW g \in Gates, Expire(g)
        PROVE  StoreInv'
    BY <1>1 DEF Expire, StoreInv, TypeOK, IndexesAgree, OneRowPerKey, GrantDiesWithProcess,
                Bookkeeping, Held, memory, file, history
  <1>2. CASE UNCHANGED vars
    BY <1>2 DEF StoreInv, TypeOK, IndexesAgree, OneRowPerKey, GrantDiesWithProcess,
                Bookkeeping, Held, vars, memory, file, history
  <1> QED
    BY <1>1, <1>2, InsertKeepsInv, TakeOffKeepsInv, FileKeepsInv, CrashKeepsInv, RestoreFacts
    DEF Next

-----------------------------------------------------------------------------

\* Type correctness of the store, its file and its history variables.
THEOREM StoreTypeCorrect == Spec => []TypeOK
  <1>1. StoreInv => TypeOK
    BY DEF StoreInv
  <1> QED
    BY <1>1, InitStoreInv, StepStoreInv, PTL DEF Spec

\* by_key and by_request_id agree after every operation, crash and restart.
THEOREM StoreIndexesAgree == Spec => []IndexesAgree
  <1>1. StoreInv => IndexesAgree
    BY DEF StoreInv
  <1> QED
    BY <1>1, InitStoreInv, StepStoreInv, PTL DEF Spec

\* An approval granted before a restart is never honoured after it.
THEOREM StoreGrantDies == Spec => []GrantDiesWithProcess
  <1>1. StoreInv => GrantDiesWithProcess
    BY DEF StoreInv
  <1> QED
    BY <1>1, InitStoreInv, StepStoreInv, PTL DEF Spec

\* Saves and removals that reach the file in any order leave one row per key.
THEOREM StoreOneRowPerKey == Spec => []OneRowPerKey
  <1>1. StoreInv => OneRowPerKey
    BY DEF StoreInv
  <1> QED
    BY <1>1, InitStoreInv, StepStoreInv, PTL DEF Spec

-----------------------------------------------------------------------------
(* The store implements the board of GateBoard.tla.                        *)

LEMMA InitBoard == Init => Board!BoardInit
  BY DEF Init, Held, Board!BoardInit

\* Two gates held at once have different keys.
LEMMA HeldOnePerKey == StoreInv => Board!OnePerKey(Held)
  BY StoreAssumption DEF StoreInv, TypeOK, IndexesAgree, Held, Board!OnePerKey

LEMMA StepBoard == StoreInv /\ StoreInv' /\ [Next]_vars => [Board!BoardNext]_(Board!boardVars)
  <1> SUFFICES ASSUME StoreInv, StoreInv', [Next]_vars
               PROVE  [Board!BoardNext]_(Board!boardVars)
    OBVIOUS
  <1> USE StoreAssumption
  <1> DEFINE Off(K) == {by_key[k] : k \in K} \ {None}
  <1>1. Held \subseteq Gates /\ Held' \subseteq Gates
    BY DEF StoreInv, TypeOK, Held
  <1>2. ASSUME NEW K \in SUBSET Keys, RemoveKeys(K)
        PROVE  Held' = Held \ Off(K) /\ Off(K) \subseteq Held
    BY <1>2, RemoveKeysFacts DEF StoreInv, Held
  <1>3. ASSUME NEW K \in SUBSET Keys, RemoveKeys(K), UNCHANGED <<inserted, resolved>>
        PROVE  Board!BoardNext
    <2>1. Board!Drop(Off(K)) /\ Off(K) \in SUBSET Gates
      BY <1>1, <1>2, <1>3 DEF Board!Drop
    <2> QED
      BY <2>1 DEF Board!BoardNext
  <1>4. ASSUME NEW t \in Tasks, NEW g \in Gates, Insert(t, g)
        PROVE  Board!BoardNext
    <2>1. CASE by_key[KeyOf[g]] # None
      <3>1. Board!Refuse(g)
        BY <1>4, <2>1 DEF Insert, memory, Held, Board!Refuse
      <3> QED
        BY <3>1 DEF Board!BoardNext
    <2>2. CASE by_key[KeyOf[g]] = None
      <3>1. Held' = Held \cup {g}
        BY <1>4, <2>2 DEF Insert, StoreInv, TypeOK, Held
      <3>2. Board!OnePerKey(Held \cup {g})
        BY <3>1, HeldOnePerKey, <1>4, <2>2
        DEF Insert, StoreInv, TypeOK, IndexesAgree, Held, Board!OnePerKey
      <3>3. Board!Post(g)
        BY <1>4, <2>2, <3>1, <3>2 DEF Insert, Board!Post
      <3> QED
        BY <3>3 DEF Board!BoardNext
    <2> QED
      BY <2>1, <2>2
  <1>5. ASSUME NEW t \in Tasks, NEW k \in Keys, NEW g \in Gates, NEW ch \in Channels,
               TakeVerified(t, k, g, ch)
        PROVE  Board!BoardNext
    <2>1. Off({k}) = {g} /\ Held' = Held \ Off({k}) /\ Off({k}) \subseteq Held
      BY <1>2, <1>5 DEF TakeVerified
    <2>2. Board!Resolve(g)
      BY <1>5, <2>1 DEF TakeVerified, Board!Resolve
    <2> QED
      BY <2>2 DEF Board!BoardNext
  <1>6. ASSUME NEW t \in Tasks, NEW k \in Keys, NEW g \in Gates, NEW ch \in Channels,
               TakeExpired(t, k, g, ch)
        PROVE  Board!BoardNext
    BY <1>3, <1>6 DEF TakeExpired, history
  <1>7. ASSUME NEW t \in Tasks, NEW k \in Keys, Discard(t, k)
        PROVE  Board!BoardNext
    BY <1>3, <1>7 DEF Discard, history
  <1>8. ASSUME NEW t \in Tasks, NEW k \in Keys, DiscardForThread(t, ThreadOf[k])
        PROVE  Board!BoardNext
    BY <1>3, <1>8 DEF DiscardForThread, history
  <1>9. ASSUME NEW t \in Tasks, ExpireStale(t)
        PROVE  Board!BoardNext
    BY <1>3, <1>9 DEF ExpireStale, history
  <1>10. ASSUME UNCHANGED <<by_key, inserted, resolved>>
         PROVE  UNCHANGED Board!boardVars
    BY <1>10 DEF Held, Board!boardVars
  <1>11. ASSUME NEW t \in Tasks,
                FileSave(t) \/ FileError(t) \/ \E k \in Keys : FileRemove(t, k)
         PROVE  UNCHANGED Board!boardVars
    BY <1>10, <1>11 DEF FileSave, FileError, FileRemove, memory, history
  <1>12. ASSUME NEW g \in Gates, Expire(g)
         PROVE  UNCHANGED Board!boardVars
    BY <1>10, <1>12 DEF Expire, memory, history
  <1>13. CASE Crash
    <2>1. Board!Restart({})
      BY <1>13 DEF Crash, Held, Board!Restart, Board!OnePerKey
    <2> QED
      BY <2>1 DEF Board!BoardNext
  <1>14. CASE Restore
    <2>1. resolved = {} /\ resolved' = {} /\ inserted' = inserted
      BY <1>14 DEF Restore, StoreInv, Bookkeeping, history
    <2>2. Board!Restart(Held')
      BY <1>14, <2>1, RestoreFacts, HeldOnePerKey DEF Board!Restart, Board!OnePerKey
    <2> QED
      BY <1>1, <2>2 DEF Board!BoardNext
  <1>15. CASE UNCHANGED vars
    BY <1>10, <1>15 DEF vars, memory, history
  <1> QED
    BY <1>4, <1>5, <1>6, <1>7, <1>8, <1>9, <1>11, <1>12, <1>13, <1>14, <1>15 DEF Next

\* The pending gate store implements the board: in one life of the process a
\* gate leaves it once, resolved by one caller or dropped, and a gate that is
\* off the board is not resolved again.
THEOREM StoreImplementsBoard == Spec => ImplementsBoard
  <1>1. Spec => []StoreInv
    BY InitStoreInv, StepStoreInv, PTL DEF Spec
  <1> QED
    BY <1>1, InitBoard, StepBoard, PTL DEF Spec, ImplementsBoard, Board!BoardSpec
=============================================================================
