------------------------------ MODULE CostGuard ------------------------------
(***************************************************************************)
(* The cost guard (agent/cost_guard.rs): daily budget, hourly action rate  *)
(* and per-user daily budget for calls to the model.                       *)
(*                                                                         *)
(* A caller checks the limits, calls the model and records what the call   *)
(* cost.  Every lock is taken on its own, so the steps of several calls,   *)
(* midnight and the hour interleave between any two of them.  Amounts are  *)
(* whole cents: to_cents truncates, which does not change a comparison     *)
(* with a limit in cents.  Dates are ages in days, since the code only     *)
(* compares them for equality.                                             *)
(***************************************************************************)
EXTENDS Integers, FiniteSets

CONSTANTS
    Callers,        \* calls to the model that may be under way at once
    Users,
    Limit,          \* max_cost_per_day_cents
    UserLimit,      \* max_cost_per_user_per_day_cents
    MaxActions,     \* max_actions_per_hour
    MaxCost,        \* the most one call can cost
    None

ASSUME CallersAssumption == IsFiniteSet(Callers)
ASSUME LimitAssumption == Limit \in Nat \ {0} /\ UserLimit \in Nat \ {0}
ASSUME RateAssumption == MaxActions \in Nat \ {0}
ASSUME CostAssumption == MaxCost \in Nat

VARIABLES
    total,          \* daily_cost.total
    age,            \* 0: daily_cost.reset_date is today, 1: an earlier day
    exceeded,       \* budget_exceeded
    users,          \* per_user_daily_cost
    recent,         \* entries of action_window younger than an hour
    pc,             \* where each caller stands
    user,           \* on whose account it calls
    cost,           \* what its call has cost
    today,          \* age of the date it has read before it waits for the
                    \* lock of per_user_daily_cost
    spent           \* history: what was recorded today

guardVars == <<total, age, exceeded, users, recent>>
vars == <<guardVars, pc, user, cost, today, spent>>

PC == {"idle", "flag", "daily", "rate", "user", "inflight", "window",
       "attribute", "refused"}

\* No caller waits for a lock for a whole day, so a date that was read is of
\* today or of yesterday; 2 is the age of every older entry.
Entry == [total : Nat, age : 0..2]

TypeOK ==
    /\ total \in Nat
    /\ age \in {0, 1}
    /\ exceeded \in BOOLEAN
    /\ users \in [Users -> Entry \cup {None}]
    /\ recent \in Nat
    /\ pc \in [Callers -> PC]
    /\ user \in [Callers -> Users]
    /\ cost \in [Callers -> 0..MaxCost]
    /\ today \in [Callers -> {0, 1}]
    /\ spent \in Nat

Init ==
    /\ total = 0 /\ age = 0 /\ exceeded = FALSE
    /\ users = [u \in Users |-> None]
    /\ recent = 0
    /\ pc = [c \in Callers |-> "idle"]
    /\ user \in [Callers -> Users]
    /\ cost = [c \in Callers |-> 0]
    /\ today = [c \in Callers |-> 0]
    /\ spent = 0

Goto(c, step) == pc' = [pc EXCEPT ![c] = step]

-----------------------------------------------------------------------------
(* check_allowed_for_user.                                                 *)

Begin(c, u) ==
    /\ pc[c] = "idle"
    /\ Goto(c, "flag")
    /\ user' = [user EXCEPT ![c] = u]
    /\ UNCHANGED <<guardVars, cost, today, spent>>

\* The fast path: the flag is enough to refuse.
CheckFlag(c) ==
    /\ pc[c] = "flag"
    /\ Goto(c, IF exceeded THEN "refused" ELSE "daily")
    /\ UNCHANGED <<guardVars, user, cost, today, spent>>

CheckDaily(c) ==
    /\ pc[c] = "daily"
    /\ Goto(c, IF total >= Limit THEN "refused" ELSE "rate")
    /\ exceeded' = (exceeded \/ total >= Limit)
    /\ UNCHANGED <<total, age, users, recent, user, cost, today, spent>>

\* The window is drained of entries older than an hour and counted.
CheckRate(c) ==
    /\ pc[c] = "rate"
    /\ Goto(c, IF recent >= MaxActions THEN "refused" ELSE "user")
    /\ today' = [today EXCEPT ![c] = 0]
    /\ UNCHANGED <<guardVars, user, cost, spent>>

\* The date was read before the lock was taken.
CheckUser(c) ==
    LET entry == users[user[c]]
        blown == entry # None /\ entry.age = today[c] /\ entry.total >= UserLimit
    IN
    /\ pc[c] = "user"
    /\ Goto(c, IF blown THEN "refused" ELSE "inflight")
    /\ UNCHANGED <<guardVars, user, cost, today, spent>>

\* The caller reports the refusal, or its call to the model has failed and
\* nothing is recorded.
GiveUp(c) ==
    /\ pc[c] \in {"refused", "inflight"}
    /\ Goto(c, "idle")
    /\ UNCHANGED <<guardVars, user, cost, today, spent>>

-----------------------------------------------------------------------------
(* record_llm_call_for_user.                                               *)

\* The first record of a day resets the counter and the flag and prunes the
\* users' entries of earlier days.
Pruned ==
    [u \in Users |-> IF users[u] # None /\ users[u].age = 0 THEN users[u] ELSE None]

\* Mutant of RecordDaily: the reset leaves the flag alone.
MutantRecordDailyFlag(c, amount) ==
    LET sum == (IF age = 0 THEN total ELSE 0) + amount IN
    /\ pc[c] = "inflight"
    /\ total' = sum
    /\ age' = 0
    /\ exceeded' = (exceeded \/ sum >= Limit)
    /\ users' = IF age = 0 THEN users ELSE Pruned
    /\ spent' = spent + amount
    /\ cost' = [cost EXCEPT ![c] = amount]
    /\ Goto(c, "window")
    /\ UNCHANGED <<recent, user, today>>

\* Mutant of RecordDaily: the tokens written to the cache are charged twice.
MutantRecordDailyTwice(c, amount) ==
    LET sum == (IF age = 0 THEN total ELSE 0) + 2 * amount IN
    /\ pc[c] = "inflight"
    /\ total' = sum
    /\ age' = 0
    /\ exceeded' = ((age = 0 /\ exceeded) \/ sum >= Limit)
    /\ users' = IF age = 0 THEN users ELSE Pruned
    /\ spent' = spent + 2 * amount
    /\ cost' = [cost EXCEPT ![c] = amount]
    /\ Goto(c, "window")
    /\ UNCHANGED <<recent, user, today>>

\* Mutant of RecordDaily: the cost that triggers the reset is lost.
MutantRecordDailyLost(c, amount) ==
    LET sum == IF age = 0 THEN total + amount ELSE 0 IN
    /\ pc[c] = "inflight"
    /\ total' = sum
    /\ age' = 0
    /\ exceeded' = ((age = 0 /\ exceeded) \/ sum >= Limit)
    /\ users' = IF age = 0 THEN users ELSE Pruned
    /\ spent' = spent + amount
    /\ cost' = [cost EXCEPT ![c] = amount]
    /\ Goto(c, "window")
    /\ UNCHANGED <<recent, user, today>>

RecordDaily(c, amount) ==
    LET sum == (IF age = 0 THEN total ELSE 0) + amount IN
    /\ pc[c] = "inflight"
    /\ total' = sum
    /\ age' = 0
    /\ exceeded' = ((age = 0 /\ exceeded) \/ sum >= Limit)
    /\ users' = IF age = 0 THEN users ELSE Pruned
    /\ spent' = spent + amount
    /\ cost' = [cost EXCEPT ![c] = amount]
    /\ Goto(c, "window")
    /\ UNCHANGED <<recent, user, today>>

\* Mutant of RecordWindow: one action is entered twice.
MutantRecordWindow(c) ==
    /\ pc[c] = "window"
    /\ recent' = recent + 2
    /\ Goto(c, "attribute")
    /\ today' = [today EXCEPT ![c] = 0]
    /\ UNCHANGED <<total, age, exceeded, users, user, cost, spent>>

\* The action enters the window; the date is read for the next step.
RecordWindow(c) ==
    /\ pc[c] = "window"
    /\ recent' = recent + 1
    /\ Goto(c, "attribute")
    /\ today' = [today EXCEPT ![c] = 0]
    /\ UNCHANGED <<total, age, exceeded, users, user, cost, spent>>

\* Mutant of Charged: the cost is taken off the user's total.
MutantCharged(entry, date, amount) ==
    IF entry # None /\ entry.age = date
    THEN [total |-> entry.total - amount, age |-> date]
    ELSE [total |-> amount, age |-> date]

\* The user's entry, of another date than the one that was read or absent,
\* starts again.
Charged(entry, date, amount) ==
    IF entry # None /\ entry.age = date
    THEN [total |-> entry.total + amount, age |-> date]
    ELSE [total |-> amount, age |-> date]

RecordUser(c) ==
    /\ pc[c] = "attribute"
    /\ users' = [users EXCEPT ![user[c]] =
                   Charged(users[user[c]], today[c], cost[c])]
    /\ Goto(c, "idle")
    /\ cost' = [cost EXCEPT ![c] = 0]
    /\ UNCHANGED <<total, age, exceeded, recent, user, today, spent>>

-----------------------------------------------------------------------------
(* Time.                                                                   *)

HoldsDate(c) == pc[c] \in {"user", "attribute"}

Older(entry) ==
    IF entry = None THEN None
    ELSE [entry EXCEPT !.age = IF entry.age = 0 THEN 1 ELSE 2]

\* Midnight UTC.
DayPasses ==
    /\ \A c \in Callers : HoldsDate(c) => today[c] = 0
    /\ age' = 1
    /\ users' = [u \in Users |-> Older(users[u])]
    /\ today' = [c \in Callers |-> IF HoldsDate(c) THEN 1 ELSE 0]
    /\ spent' = 0
    /\ UNCHANGED <<total, exceeded, recent, pc, user, cost>>

\* Entries of the window become older than an hour.
HourPasses(n) ==
    /\ recent > 0
    /\ n < recent
    /\ recent' = n
    /\ UNCHANGED <<total, age, exceeded, users, pc, user, cost, today, spent>>

Caller(c) ==
    \/ CheckFlag(c) \/ CheckDaily(c) \/ CheckRate(c) \/ CheckUser(c)
    \/ GiveUp(c)
    \/ \E amount \in 0..MaxCost : RecordDaily(c, amount)
    \/ RecordWindow(c) \/ RecordUser(c)

Next ==
    \/ \E c \in Callers : Caller(c) \/ \E u \in Users : Begin(c, u)
    \/ DayPasses
    \/ \E n \in 0..(recent - 1) : HourPasses(n)

Spec == Init /\ [][Next]_vars

\* Days pass, and callers that are refused call again.
Fairness ==
    /\ WF_vars(DayPasses)
    /\ WF_vars(\E n \in 0..(recent - 1) : HourPasses(n))
    /\ \A c \in Callers :
          WF_vars(Caller(c)) /\ WF_vars(\E u \in Users : Begin(c, u))

FairSpec == Spec /\ Fairness

-----------------------------------------------------------------------------
(* Properties.                                                             *)

\* The flag that lets check_allowed skip the lock is set exactly while the
\* total has reached the limit, in every interleaving of checks, records and
\* resets: it never refuses a call that the total would admit, and the slow
\* path never has to set it.
FlagMatchesTotal == exceeded <=> total >= Limit

\* What was recorded today is the total, whatever calls were under way at
\* midnight; a total of an earlier day means that nothing was.
CountsToday == IF age = 0 THEN total = spent ELSE spent = 0

\* The check is not atomic with the record, so calls under way at once can
\* overshoot the budget, but by no more than one call each.
OvershootBounded == total <= Limit - 1 + MaxCost * Cardinality(Callers)

\* The same for the actions of the last hour.
RateBounded == recent <= MaxActions - 1 + Cardinality(Callers)

\* "Day boundary (midnight UTC) for resetting the counter": a budget that was
\* blown is renewed.
BudgetRenews == exceeded ~> ~exceeded
=============================================================================
