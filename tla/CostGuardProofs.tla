-------------------------- MODULE CostGuardProofs --------------------------
(***************************************************************************)
(* Proofs about CostGuard, for any finite set of concurrent callers, any   *)
(* users, limits and costs.                                                *)
(*                                                                         *)
(* The bounds are not inductive: between the check and the record a call   *)
(* is not yet in the total.  The invariants count the calls that were      *)
(* admitted and still have to be recorded as if they cost the most.        *)
(***************************************************************************)
EXTENDS CostGuard, FiniteSetTheorems, TLAPS

\* Calls past the budget check, and past the rate check, not yet recorded.
Admitted == {c \in Callers : pc[c] \in {"rate", "user", "inflight"}}
Acting == {c \in Callers : pc[c] \in {"user", "inflight", "window"}}

N == Cardinality(Callers)

BudgetInv == total + MaxCost * Cardinality(Admitted) <= Limit - 1 + MaxCost * N
RateInv == recent + Cardinality(Acting) <= MaxActions - 1 + N

USE CallersAssumption, LimitAssumption, RateAssumption, CostAssumption

-----------------------------------------------------------------------------
(* Cardinalities of sets of callers.                                       *)

LEMMA CardOf ==
    ASSUME NEW S, S \subseteq Callers
    PROVE  IsFiniteSet(S) /\ Cardinality(S) \in Nat /\ Cardinality(S) <= N /\ N \in Nat
BY FS_Subset, FS_CardinalityType DEF N

\* One more caller in S, one less, and what is left.
LEMMA CardJoin ==
    ASSUME NEW S, S \subseteq Callers, NEW c \in Callers, c \notin S
    PROVE  Cardinality(S \cup {c}) = Cardinality(S) + 1 /\ Cardinality(S) + 1 <= N
<1>1. IsFiniteSet(S) /\ S \cup {c} \subseteq Callers
  BY CardOf
<1>2. Cardinality(S \cup {c}) = Cardinality(S) + 1
  BY <1>1, FS_AddElement
<1>. QED BY <1>1, <1>2, CardOf

LEMMA CardLeave ==
    ASSUME NEW S, S \subseteq Callers, NEW c \in S
    PROVE  Cardinality(S \ {c}) = Cardinality(S) - 1
BY CardOf, FS_RemoveElement

-----------------------------------------------------------------------------
(* Types.                                                                  *)

LEMMA ChargedType ==
    ASSUME NEW e \in Entry \cup {None}, NEW d \in {0, 1}, NEW a \in 0..MaxCost
    PROVE  Charged(e, d, a) \in Entry
<1>1. CASE e # None /\ e.age = d
  <2>1. e \in Entry
    BY <1>1
  <2>2. e.total + a \in Nat
    BY <2>1 DEF Entry
  <2>. QED BY <1>1, <2>2 DEF Charged, Entry
<1>2. CASE ~(e # None /\ e.age = d)
  BY <1>2 DEF Charged, Entry
<1>. QED BY <1>1, <1>2

LEMMA OlderType ==
    ASSUME NEW e \in Entry \cup {None}
    PROVE  Older(e) \in Entry \cup {None}
BY DEF Older, Entry

LEMMA TypeStep == TypeOK /\ [Next]_vars => TypeOK'
<1>. SUFFICES ASSUME TypeOK, [Next]_vars PROVE TypeOK'
  OBVIOUS
<1>1. ASSUME NEW c \in Callers, NEW u \in Users, Begin(c, u) PROVE TypeOK'
  BY <1>1 DEF TypeOK, Begin, Goto, PC, guardVars
<1>2. ASSUME NEW c \in Callers, CheckFlag(c) PROVE TypeOK'
  BY <1>2 DEF TypeOK, CheckFlag, Goto, PC, guardVars
<1>3. ASSUME NEW c \in Callers, CheckDaily(c) PROVE TypeOK'
  BY <1>3 DEF TypeOK, CheckDaily, Goto, PC
<1>4. ASSUME NEW c \in Callers, CheckRate(c) PROVE TypeOK'
  BY <1>4 DEF TypeOK, CheckRate, Goto, PC, guardVars
<1>5. ASSUME NEW c \in Callers, CheckUser(c) PROVE TypeOK'
  BY <1>5 DEF TypeOK, CheckUser, Goto, PC, guardVars
<1>6. ASSUME NEW c \in Callers, GiveUp(c) PROVE TypeOK'
  BY <1>6 DEF TypeOK, GiveUp, Goto, PC, guardVars
<1>7. ASSUME NEW c \in Callers, NEW a \in 0..MaxCost, RecordDaily(c, a) PROVE TypeOK'
  <2>1. Pruned \in [Users -> Entry \cup {None}]
    BY DEF TypeOK, Pruned
  <2>2. total' \in Nat /\ spent' \in Nat
    BY <1>7 DEF TypeOK, RecordDaily
  <2>3. age' \in {0, 1} /\ exceeded' \in BOOLEAN
    BY <1>7 DEF TypeOK, RecordDaily
  <2>4. users' \in [Users -> Entry \cup {None}]
    BY <1>7, <2>1 DEF TypeOK, RecordDaily
  <2>5. pc' \in [Callers -> PC] /\ cost' \in [Callers -> 0..MaxCost]
    BY <1>7 DEF TypeOK, RecordDaily, Goto, PC
  <2>. QED BY <1>7, <2>2, <2>3, <2>4, <2>5 DEF TypeOK, RecordDaily
<1>8. ASSUME NEW c \in Callers, RecordWindow(c) PROVE TypeOK'
  BY <1>8 DEF TypeOK, RecordWindow, Goto, PC
<1>9. ASSUME NEW c \in Callers, RecordUser(c) PROVE TypeOK'
  <2>1. Charged(users[user[c]], today[c], cost[c]) \in Entry
    BY ChargedType DEF TypeOK
  <2>. QED BY <1>9, <2>1 DEF TypeOK, RecordUser, Goto, PC
<1>10. ASSUME DayPasses PROVE TypeOK'
  <2>1. users' \in [Users -> Entry \cup {None}]
    BY <1>10, OlderType DEF TypeOK, DayPasses
  <2>. QED BY <1>10, <2>1 DEF TypeOK, DayPasses
<1>11. ASSUME NEW n \in 0..(recent - 1), HourPasses(n) PROVE TypeOK'
  BY <1>11 DEF TypeOK, HourPasses
<1>12. CASE UNCHANGED vars
  BY <1>12 DEF TypeOK, vars, guardVars
<1>. QED
  BY <1>1, <1>2, <1>3, <1>4, <1>5, <1>6, <1>7, <1>8, <1>9, <1>10, <1>11, <1>12
  DEF Next, Caller

-----------------------------------------------------------------------------
(* The flag and the total.                                                 *)

LEMMA TotalStep ==
    ASSUME TypeOK, FlagMatchesTotal, CountsToday, [Next]_vars
    PROVE  FlagMatchesTotal' /\ CountsToday'
<1>. USE DEF FlagMatchesTotal, CountsToday
<1>1. ASSUME NEW c \in Callers, CheckDaily(c) PROVE FlagMatchesTotal' /\ CountsToday'
  BY <1>1 DEF TypeOK, CheckDaily
<1>2. ASSUME NEW c \in Callers, NEW a \in 0..MaxCost, RecordDaily(c, a)
      PROVE  FlagMatchesTotal' /\ CountsToday'
  <2>1. CASE age = 0
    <3>1. total' = total + a /\ spent' = spent + a /\ age' = 0
      BY <1>2, <2>1 DEF RecordDaily
    <3>2. exceeded' <=> (exceeded \/ total' >= Limit)
      BY <1>2, <2>1, Zenon DEF RecordDaily
    <3>3. total >= Limit => total' >= Limit
      BY <3>1 DEF TypeOK
    <3>4. FlagMatchesTotal'
      BY <3>2, <3>3, Zenon
    <3>5. CountsToday'
      BY <2>1, <3>1
    <3>. QED BY <3>4, <3>5
  <2>2. CASE age = 1
    <3>1. total' = a /\ spent' = spent + a /\ age' = 0
      BY <1>2, <2>2 DEF RecordDaily
    <3>2. age # 0
      BY <2>2
    <3>3. exceeded' <=> total' >= Limit
      BY <1>2, <3>2, Zenon DEF RecordDaily
    <3>4. CountsToday'
      BY <2>2, <3>1
    <3>. QED BY <3>3, <3>4
  <2>. QED BY <2>1, <2>2 DEF TypeOK
<1>3. CASE DayPasses
  BY <1>3 DEF DayPasses
<1>4. CASE UNCHANGED <<total, age, exceeded, spent>>
  BY <1>4
<1>5. ASSUME NEW c \in Callers, NEW u \in Users, Begin(c, u)
      PROVE  UNCHANGED <<total, age, exceeded, spent>>
  BY <1>5 DEF Begin, guardVars
<1>6. ASSUME NEW c \in Callers,
             \/ CheckFlag(c) \/ CheckRate(c) \/ CheckUser(c) \/ GiveUp(c)
             \/ RecordWindow(c) \/ RecordUser(c)
      PROVE  UNCHANGED <<total, age, exceeded, spent>>
  BY <1>6 DEF CheckFlag, CheckRate, CheckUser, GiveUp, RecordWindow, RecordUser, guardVars
<1>7. ASSUME NEW n \in 0..(recent - 1), HourPasses(n)
      PROVE  UNCHANGED <<total, age, exceeded, spent>>
  BY <1>7 DEF HourPasses
<1>8. UNCHANGED vars => UNCHANGED <<total, age, exceeded, spent>>
  BY DEF vars, guardVars
<1>. QED
  BY <1>1, <1>2, <1>3, <1>4, <1>5, <1>6, <1>7, <1>8 DEF Next, Caller

-----------------------------------------------------------------------------
(* The bounds.                                                             *)

LEMMA Subsets == Admitted \subseteq Callers /\ Acting \subseteq Callers
BY DEF Admitted, Acting

\* A caller that moves from one step to another changes the two sets by
\* itself at most.
LEMMA Moves ==
    ASSUME TypeOK, NEW c \in Callers, NEW p \in PC, Goto(c, p)
    PROVE  /\ Admitted' = IF p \in {"rate", "user", "inflight"}
                          THEN Admitted \cup {c} ELSE Admitted \ {c}
           /\ Acting' = IF p \in {"user", "inflight", "window"}
                        THEN Acting \cup {c} ELSE Acting \ {c}
<1>1. \A d \in Callers : pc'[d] = IF d = c THEN p ELSE pc[d]
  BY DEF TypeOK, Goto
<1>2. ASSUME p \in {"rate", "user", "inflight"}
      PROVE  Admitted' = Admitted \cup {c}
  BY <1>1, <1>2 DEF Admitted
<1>3. ASSUME p \notin {"rate", "user", "inflight"}
      PROVE  Admitted' = Admitted \ {c}
  BY <1>1, <1>3 DEF Admitted
<1>4. ASSUME p \in {"user", "inflight", "window"}
      PROVE  Acting' = Acting \cup {c}
  BY <1>1, <1>4 DEF Acting
<1>5. ASSUME p \notin {"user", "inflight", "window"}
      PROVE  Acting' = Acting \ {c}
  BY <1>1, <1>5 DEF Acting
<1>. QED BY <1>2, <1>3, <1>4, <1>5

\* A caller in neither set before and after, or in both.
LEMMA Stays ==
    ASSUME NEW S, NEW c
    PROVE  /\ c \notin S => S \ {c} = S
           /\ c \in S => S \cup {c} = S
OBVIOUS

\* A set of callers that a caller leaves, if it is in it, does not grow.
LEMMA Shrinks ==
    ASSUME NEW S, S \subseteq Callers, NEW c \in Callers
    PROVE  /\ Cardinality(S \ {c}) \in Nat /\ Cardinality(S) \in Nat
           /\ Cardinality(S \ {c}) <= Cardinality(S)
<1>1. S \ {c} \subseteq S /\ IsFiniteSet(S) /\ S \ {c} \subseteq Callers
  BY CardOf
<1>. QED BY <1>1, FS_Subset, CardOf

LEMMA Product ==
    ASSUME NEW a \in Nat, NEW b \in Nat, a <= b
    PROVE  MaxCost * a \in Nat /\ MaxCost * b \in Nat /\ MaxCost * a <= MaxCost * b
BY SMTT(30)

\* Fewer admitted calls and the same total, or fewer.
LEMMA BudgetKept ==
    ASSUME TypeOK, BudgetInv, Cardinality(Admitted') <= Cardinality(Admitted),
           Admitted' \subseteq Callers, total' = total
    PROVE  BudgetInv'
<1>1. Cardinality(Admitted') \in Nat /\ Cardinality(Admitted) \in Nat /\ N \in Nat
  BY CardOf, Subsets
<1>2. MaxCost * Cardinality(Admitted') <= MaxCost * Cardinality(Admitted)
  BY <1>1, Product
<1>3. /\ MaxCost * Cardinality(Admitted') \in Nat
      /\ MaxCost * Cardinality(Admitted) \in Nat /\ MaxCost * N \in Nat
  BY <1>1, Product
<1>. QED BY <1>2, <1>3 DEF BudgetInv, TypeOK, N

LEMMA RateKept ==
    ASSUME TypeOK, RateInv, Cardinality(Acting') <= Cardinality(Acting),
           Acting' \subseteq Callers, recent' <= recent, recent' \in Nat
    PROVE  RateInv'
<1>1. Cardinality(Acting') \in Nat /\ Cardinality(Acting) \in Nat /\ N \in Nat
  BY CardOf, Subsets
<1>. QED BY <1>1 DEF RateInv, TypeOK, N

\* A caller that moves without being admitted keeps the budget.
LEMMA BudgetMove ==
    ASSUME TypeOK, BudgetInv, NEW c \in Callers, NEW p \in PC, Goto(c, p),
           p \in {"rate", "user", "inflight"} => c \in Admitted, total' = total
    PROVE  BudgetInv'
<1>1. Admitted' \subseteq Callers
  BY DEF Admitted
<1>2. Admitted' = Admitted \/ Admitted' = Admitted \ {c}
  BY Moves, Stays
<1>3. /\ Cardinality(Admitted \ {c}) \in Nat /\ Cardinality(Admitted) \in Nat
      /\ Cardinality(Admitted \ {c}) <= Cardinality(Admitted)
  BY Subsets, Shrinks
<1>4. Cardinality(Admitted') <= Cardinality(Admitted)
  BY <1>2, <1>3
<1>. QED BY <1>1, <1>4, BudgetKept

\* A caller that moves without starting an action keeps the rate.
LEMMA RateMove ==
    ASSUME TypeOK, RateInv, NEW c \in Callers, NEW p \in PC, Goto(c, p),
           p \in {"user", "inflight", "window"} => c \in Acting, recent' = recent
    PROVE  RateInv'
<1>1. Acting' \subseteq Callers /\ recent' \in Nat /\ recent' <= recent
  BY DEF Acting, TypeOK
<1>2. Acting' = Acting \/ Acting' = Acting \ {c}
  BY Moves, Stays
<1>3. /\ Cardinality(Acting \ {c}) \in Nat /\ Cardinality(Acting) \in Nat
      /\ Cardinality(Acting \ {c}) <= Cardinality(Acting)
  BY Subsets, Shrinks
<1>4. Cardinality(Acting') <= Cardinality(Acting)
  BY <1>2, <1>3
<1>. QED BY <1>1, <1>4, RateKept

\* Steps of time move no caller.
LEMMA NoMove ==
    ASSUME TypeOK, UNCHANGED pc
    PROVE  /\ BudgetInv /\ total' = total => BudgetInv'
           /\ RateInv /\ recent' \in Nat /\ recent' <= recent => RateInv'
<1>1. Admitted' = Admitted /\ Acting' = Acting
  BY DEF Admitted, Acting
<1>2. Admitted' \subseteq Callers /\ Acting' \subseteq Callers
  BY <1>1, Subsets
<1>3. /\ Cardinality(Admitted') <= Cardinality(Admitted)
      /\ Cardinality(Acting') <= Cardinality(Acting)
  BY <1>1, CardOf, Subsets
<1>. QED BY <1>2, <1>3, BudgetKept, RateKept

\* The check admits a call while there is budget left.
LEMMA BudgetCheckDaily ==
    ASSUME TypeOK, BudgetInv, NEW c \in Callers, CheckDaily(c)
    PROVE  BudgetInv'
<1>1. total' = total
  BY DEF CheckDaily
<1>2. CASE total >= Limit
  <2>1. Goto(c, "refused")
    BY <1>2 DEF CheckDaily
  <2>. QED BY <1>1, <2>1, BudgetMove DEF PC
<1>3. CASE ~(total >= Limit)
  <2>1. Goto(c, "rate") /\ c \notin Admitted
    BY <1>3 DEF CheckDaily, Admitted
  <2>2. Admitted' = Admitted \cup {c}
    BY <2>1, Moves DEF PC
  <2>3. Cardinality(Admitted') = Cardinality(Admitted) + 1 /\ Cardinality(Admitted) + 1 <= N
    BY <2>1, <2>2, CardJoin, Subsets
  <2>4. Cardinality(Admitted') \in Nat /\ N \in Nat /\ Cardinality(Admitted') <= N
    BY <2>3, CardOf, Subsets
  <2>5. /\ MaxCost * Cardinality(Admitted') <= MaxCost * N
        /\ MaxCost * Cardinality(Admitted') \in Nat /\ MaxCost * N \in Nat
    BY <2>4, Product
  <2>6. total' <= Limit - 1 /\ total' \in Nat
    BY <1>1, <1>3 DEF TypeOK
  <2>. QED BY <2>5, <2>6 DEF BudgetInv, N
<1>. QED BY <1>2, <1>3

LEMMA Distribute ==
    ASSUME NEW k \in Nat
    PROVE  MaxCost * (k - 1) = MaxCost * k - MaxCost /\ MaxCost * k \in Nat
BY SMTT(30)

\* The record turns the most a call can cost into what it did cost.
LEMMA BudgetRecordDaily ==
    ASSUME TypeOK, BudgetInv, NEW c \in Callers, NEW a \in 0..MaxCost, RecordDaily(c, a)
    PROVE  BudgetInv'
<1>1. Goto(c, "window") /\ c \in Admitted
  BY DEF RecordDaily, Admitted
<1>2. Admitted' = Admitted \ {c}
  BY <1>1, Moves DEF PC
<1>3. Cardinality(Admitted') = Cardinality(Admitted) - 1 /\ Cardinality(Admitted) \in Nat /\ N \in Nat
  BY <1>1, <1>2, CardLeave, CardOf, Subsets
<1>4. /\ MaxCost * Cardinality(Admitted') = MaxCost * Cardinality(Admitted) - MaxCost
      /\ MaxCost * Cardinality(Admitted) \in Nat /\ MaxCost * N \in Nat
  BY <1>3, Distribute
<1>5. total' <= total + MaxCost /\ total' \in Nat
  BY DEF RecordDaily, TypeOK
<1>. QED BY <1>4, <1>5 DEF BudgetInv, TypeOK, N

\* The rate check admits an action while the window has room.
LEMMA RateCheckRate ==
    ASSUME TypeOK, RateInv, NEW c \in Callers, CheckRate(c)
    PROVE  RateInv'
<1>1. recent' = recent
  BY DEF CheckRate, guardVars
<1>2. CASE recent >= MaxActions
  <2>1. Goto(c, "refused")
    BY <1>2 DEF CheckRate
  <2>. QED BY <1>1, <2>1, RateMove DEF PC
<1>3. CASE ~(recent >= MaxActions)
  <2>1. Goto(c, "user") /\ c \notin Acting
    BY <1>3 DEF CheckRate, Acting
  <2>2. Acting' = Acting \cup {c}
    BY <2>1, Moves DEF PC
  <2>3. Cardinality(Acting') = Cardinality(Acting) + 1 /\ Cardinality(Acting) + 1 <= N
    BY <2>1, <2>2, CardJoin, Subsets
  <2>4. Cardinality(Acting) \in Nat /\ N \in Nat
    BY CardOf, Subsets
  <2>. QED BY <1>1, <1>3, <2>3, <2>4 DEF RateInv, TypeOK, N
<1>. QED BY <1>2, <1>3

\* The record turns an action under way into an entry of the window.
LEMMA RateRecordWindow ==
    ASSUME TypeOK, RateInv, NEW c \in Callers, RecordWindow(c)
    PROVE  RateInv'
<1>1. Goto(c, "attribute") /\ c \in Acting /\ recent' = recent + 1
  BY DEF RecordWindow, Acting
<1>2. Acting' = Acting \ {c}
  BY <1>1, Moves DEF PC
<1>3. Cardinality(Acting') = Cardinality(Acting) - 1 /\ Cardinality(Acting) \in Nat /\ N \in Nat
  BY <1>1, <1>2, CardLeave, CardOf, Subsets
<1>. QED BY <1>1, <1>3 DEF RateInv, TypeOK, N

\* The other steps of a call join neither set.
LEMMA OtherMoves ==
    ASSUME TypeOK, BudgetInv, RateInv, NEW c \in Callers
    PROVE  /\ CheckFlag(c) \/ GiveUp(c) \/ RecordUser(c) \/ CheckUser(c)
                => BudgetInv' /\ RateInv'
           /\ CheckRate(c) \/ RecordWindow(c) => BudgetInv'
           /\ CheckDaily(c) => RateInv'
           /\ \A u \in Users : Begin(c, u) => BudgetInv' /\ RateInv'
           /\ \A a \in 0..MaxCost : RecordDaily(c, a) => RateInv'
<1>. USE DEF PC
<1>1. ASSUME CheckFlag(c) PROVE BudgetInv' /\ RateInv'
  <2>1. total' = total /\ recent' = recent /\ (Goto(c, "refused") \/ Goto(c, "daily"))
    BY <1>1 DEF CheckFlag, guardVars
  <2>. QED BY <2>1, BudgetMove, RateMove
<1>2. ASSUME GiveUp(c) PROVE BudgetInv' /\ RateInv'
  <2>1. total' = total /\ recent' = recent /\ Goto(c, "idle")
    BY <1>2 DEF GiveUp, guardVars
  <2>. QED BY <2>1, BudgetMove, RateMove
<1>3. ASSUME RecordUser(c) PROVE BudgetInv' /\ RateInv'
  <2>1. total' = total /\ recent' = recent /\ Goto(c, "idle")
    BY <1>3 DEF RecordUser
  <2>. QED BY <2>1, BudgetMove, RateMove
<1>4. ASSUME CheckUser(c) PROVE BudgetInv' /\ RateInv'
  <2>1. total' = total /\ recent' = recent /\ (Goto(c, "refused") \/ Goto(c, "inflight"))
    BY <1>4 DEF CheckUser, guardVars
  <2>2. c \in Admitted /\ c \in Acting
    BY <1>4 DEF CheckUser, Admitted, Acting
  <2>. QED BY <2>1, <2>2, BudgetMove, RateMove
<1>5. ASSUME CheckRate(c) PROVE BudgetInv'
  <2>1. total' = total /\ (Goto(c, "refused") \/ Goto(c, "user")) /\ c \in Admitted
    BY <1>5 DEF CheckRate, guardVars, Admitted
  <2>. QED BY <2>1, BudgetMove
<1>6. ASSUME RecordWindow(c) PROVE BudgetInv'
  <2>1. total' = total /\ Goto(c, "attribute")
    BY <1>6 DEF RecordWindow
  <2>. QED BY <2>1, BudgetMove
<1>7. ASSUME CheckDaily(c) PROVE RateInv'
  <2>1. recent' = recent /\ (Goto(c, "refused") \/ Goto(c, "rate"))
    BY <1>7 DEF CheckDaily
  <2>. QED BY <2>1, RateMove
<1>8. ASSUME NEW u \in Users, Begin(c, u) PROVE BudgetInv' /\ RateInv'
  <2>1. total' = total /\ recent' = recent /\ Goto(c, "flag")
    BY <1>8 DEF Begin, guardVars
  <2>. QED BY <2>1, BudgetMove, RateMove
<1>9. ASSUME NEW a \in 0..MaxCost, RecordDaily(c, a) PROVE RateInv'
  <2>1. recent' = recent /\ Goto(c, "window") /\ c \in Acting
    BY <1>9 DEF RecordDaily, Acting
  <2>. QED BY <2>1, RateMove
<1>. QED BY <1>1, <1>2, <1>3, <1>4, <1>5, <1>6, <1>7, <1>8, <1>9

-----------------------------------------------------------------------------
(* The inductive invariant.                                                *)

Inv ==
    /\ TypeOK
    /\ FlagMatchesTotal
    /\ CountsToday
    /\ BudgetInv
    /\ RateInv

LEMMA InvInit == Init => Inv
<1>. SUFFICES ASSUME Init PROVE Inv
  OBVIOUS
<1>1. TypeOK
  <2>1. total \in Nat /\ age \in {0, 1} /\ recent \in Nat /\ spent \in Nat
    BY DEF Init
  <2>2. exceeded \in BOOLEAN /\ user \in [Callers -> Users]
    BY DEF Init
  <2>3. users \in [Users -> Entry \cup {None}]
    BY DEF Init
  <2>4. pc \in [Callers -> PC] /\ today \in [Callers -> {0, 1}]
    BY DEF Init, PC
  <2>5. cost \in [Callers -> 0..MaxCost]
    BY DEF Init
  <2>. QED BY <2>1, <2>2, <2>3, <2>4, <2>5 DEF TypeOK
<1>2. FlagMatchesTotal
  <2>1. ~(total >= Limit) /\ exceeded = FALSE
    BY DEF Init
  <2>. QED BY <2>1 DEF FlagMatchesTotal
<1>3. CountsToday
  BY DEF Init, CountsToday
<1>4. Admitted = {} /\ Acting = {}
  BY DEF Init, Admitted, Acting
<1>5. Cardinality({}) = 0 /\ N \in Nat
  BY FS_EmptySet, FS_CardinalityType DEF N
<1>6. MaxCost * N \in Nat /\ MaxCost * 0 = 0
  BY <1>5, Product
<1>7. BudgetInv
  BY <1>4, <1>5, <1>6 DEF BudgetInv, Init, N
<1>8. RateInv
  BY <1>4, <1>5 DEF RateInv, Init, N
<1>. QED BY <1>1, <1>2, <1>3, <1>7, <1>8 DEF Inv

LEMMA BoundsStep ==
    ASSUME TypeOK, BudgetInv, RateInv, [Next]_vars
    PROVE  BudgetInv' /\ RateInv'
<1>1. ASSUME NEW c \in Callers, Caller(c) PROVE BudgetInv' /\ RateInv'
  BY <1>1, OtherMoves, BudgetCheckDaily, BudgetRecordDaily, RateCheckRate, RateRecordWindow
  DEF Caller
<1>2. ASSUME NEW c \in Callers, NEW u \in Users, Begin(c, u) PROVE BudgetInv' /\ RateInv'
  BY <1>2, OtherMoves
<1>3. CASE DayPasses
  <2>1. UNCHANGED pc /\ total' = total /\ recent' = recent
    BY <1>3 DEF DayPasses
  <2>2. recent' \in Nat /\ recent' <= recent
    BY <2>1 DEF TypeOK
  <2>. QED BY <2>1, <2>2, NoMove
<1>4. ASSUME NEW n \in 0..(recent - 1), HourPasses(n) PROVE BudgetInv' /\ RateInv'
  <2>1. UNCHANGED pc /\ total' = total /\ recent' \in Nat /\ recent' <= recent
    BY <1>4 DEF HourPasses, TypeOK
  <2>. QED BY <2>1, NoMove
<1>5. CASE UNCHANGED vars
  <2>1. UNCHANGED pc /\ total' = total /\ recent' = recent
    BY <1>5 DEF vars, guardVars
  <2>2. recent' \in Nat /\ recent' <= recent
    BY <2>1 DEF TypeOK
  <2>. QED BY <2>1, <2>2, NoMove
<1>. QED BY <1>1, <1>2, <1>3, <1>4, <1>5 DEF Next

LEMMA InvStep == Inv /\ [Next]_vars => Inv'
BY TypeStep, TotalStep, BoundsStep DEF Inv

LEMMA InvHolds == Spec => []Inv
BY InvInit, InvStep, PTL DEF Spec

-----------------------------------------------------------------------------
(* The theorems.                                                           *)

\* The fields of the guard keep their types in every interleaving of checks,
\* records, midnights and hours.
THEOREM GuardTypeCorrect == Spec => []TypeOK
BY InvHolds, PTL DEF Inv

\* The flag of the fast path of check_allowed agrees with the total under the
\* lock, for any number of concurrent calls.
THEOREM FlagAgrees == Spec => []FlagMatchesTotal
BY InvHolds, PTL DEF Inv

\* No cost recorded today is lost or counted for another day.
THEOREM TodayIsCounted == Spec => []CountsToday
BY InvHolds, PTL DEF Inv

\* Calls that passed check_allowed at once overshoot the daily budget by at
\* most one call each.
THEOREM OvershootIsBounded == Spec => []OvershootBounded
<1>1. Inv => OvershootBounded
  <2>. SUFFICES ASSUME Inv PROVE OvershootBounded
    OBVIOUS
  <2>1. Cardinality(Admitted) \in Nat /\ N \in Nat
    BY CardOf, Subsets
  <2>2. MaxCost * Cardinality(Admitted) \in Nat /\ MaxCost * N \in Nat
    BY <2>1, Product
  <2>. QED BY <2>2 DEF Inv, BudgetInv, OvershootBounded, TypeOK, N
<1>. QED BY <1>1, InvHolds, PTL

\* The actions of the last hour exceed max_actions_per_hour by fewer than the
\* number of concurrent calls.
THEOREM RateIsBounded == Spec => []RateBounded
<1>1. Inv => RateBounded
  <2>. SUFFICES ASSUME Inv PROVE RateBounded
    OBVIOUS
  <2>1. Cardinality(Acting) \in Nat /\ N \in Nat
    BY CardOf, Subsets
  <2>. QED BY <2>1 DEF Inv, RateInv, RateBounded, TypeOK, N
<1>. QED BY <1>1, InvHolds, PTL
=============================================================================
