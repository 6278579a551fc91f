-------------------------- MODULE PaymentSchedules --------------------------
(***************************************************************************)
(* Payment schedules: the next-run calculator                              *)
(* (backend/src/schedule-calculator.js), the table, the routes, and the    *)
(* job that looks for due schedules (jobs/payment-schedule-job.js).        *)
(*                                                                         *)
(* Time is counted in ticks, DayLength to a day; the calendar has months   *)
(* of MonthLength days and starts on a Sunday, the first of a month.       *)
(***************************************************************************)
EXTENDS Integers, Sequences, FiniteSets, SequencesExt, TLC, Tables

CONSTANTS
    DayLength, MonthLength,
    Hours,        \* hourOfDay values
    Days,         \* dayOfMonth, dayOfWeek and anchorDate values
    Intervals,    \* intervalDays values
    Unset,        \* an anchorDate of null
    MaxTime,
    JobPass,      \* passes of the job that may overlap
    MaxIntents    \* bound on recorded transactions

ASSUME ScheduleAssumption ==
    /\ DayLength \in Nat \ {0} /\ MonthLength \in Nat \ {0}
    /\ Hours \subseteq 0..(DayLength - 1) /\ Days \subseteq Int /\ Intervals \subseteq Int
    /\ Unset \notin Int

SCHEDULE_TYPES == {"monthly", "biweekly", "weekly", "custom"}

VARIABLES
    now,
    plan,      \* the schedule's row, or NoPlan
    setAt,     \* when nextRunAt was computed last (observed)
    pass,      \* per pass: the rows it read as due, the first being simulated
    passNow,   \* the time a pass started
    intents    \* distribute transactions the job recorded, with the row it read

planVars == <<now, plan, setAt, pass, passNow, intents>>

NoPlan == [type |-> "none"]

PlansInit ==
    /\ now = 0
    /\ plan = NoPlan
    /\ setAt = 0
    /\ pass = [p \in JobPass |-> <<>>]
    /\ passNow = [p \in JobPass |-> 0]
    /\ intents = <<>>

-----------------------------------------------------------------------------
\* The calculator.

Day(t) == t \div DayLength
atHour(day, hour) == day * DayLength + hour

\* This month's day at the hour, or next month's if that is not ahead.
nextMonthly(t, dom, hour) ==
    LET first == (Day(t) \div MonthLength) * MonthLength
        candidate == atHour(first + dom - 1, hour)
    IN  IF candidate <= t THEN atHour(first + MonthLength + dom - 1, hour) ELSE candidate

\* Mutant: a candidate that is now counts as ahead.
nextWeeklyNow(t, dow, hour) ==
    LET candidate == atHour(Day(t) + ((dow - (Day(t) % 7) + 7) % 7), hour)
    IN  IF candidate < t THEN candidate + 7 * DayLength ELSE candidate

nextWeekly(t, dow, hour) ==
    LET candidate == atHour(Day(t) + ((dow - (Day(t) % 7) + 7) % 7), hour)
    IN  IF candidate <= t THEN candidate + 7 * DayLength ELSE candidate

\* Whole cycles since the anchor's midnight, plus one.
nextInterval(t, anchor, days, hour) ==
    LET cyclesPassed == ((t - anchor * DayLength) \div DayLength) \div days
        candidate == atHour(anchor + (cyclesPassed + 1) * days, hour)
    IN  IF candidate <= t THEN atHour(anchor + (cyclesPassed + 2) * days, hour) ELSE candidate

\* Without an anchor the cycles are counted from the day it is.
anchorOf(p, t) == IF p.day = Unset THEN Day(t) ELSE p.day

computeNextRun(p, t) ==
    CASE p.type = "monthly"  -> nextMonthly(t, p.day, p.hour)
      [] p.type = "weekly"   -> nextWeekly(t, p.day, p.hour)
      [] p.type = "biweekly" -> nextInterval(t, anchorOf(p, t), 14, p.hour)
      [] p.type = "custom"   -> nextInterval(t, anchorOf(p, t), p.every, p.hour)

-----------------------------------------------------------------------------
\* The routes.  The audit actions they emit are not in AUDIT_ACTIONS, so each
\* of them answers 500 once it has written its row.

\* No month is shorter than the days a schedule may name.  A patch may take the
\* anchor away; where it takes another field away the calculator puts a day (the
\* first, Sunday) or an interval (of one) in its place.
updateScheduleSchema(type, day, every) ==
    /\ type = "monthly" => day \in 1..MonthLength
    /\ type = "weekly" => day \in 0..6
    /\ every >= 1

createScheduleSchema(type, day, every) ==
    updateScheduleSchema(type, day, every) /\ day # Unset

createPaymentSchedule(p, nextRunAt) ==
    [type |-> p.type, day |-> p.day, every |-> p.every, hour |-> p.hour, enabled |-> TRUE,
     next |-> nextRunAt]

PostSchedule(type) ==
    /\ plan = NoPlan
    /\ \E day \in Days, every \in Intervals, hour \in Hours :
          LET p == [type |-> type, day |-> day, every |-> every, hour |-> hour]
          IN  /\ createScheduleSchema(type, day, every)
              /\ plan' = createPaymentSchedule(p, computeNextRun(p, now))
    /\ setAt' = now
    /\ UNCHANGED <<now, pass, passNow, intents>>

\* A patch that names a timing field, changed or not, recomputes the next run
\* unless the schedule is off; one that is switched off keeps the one it had.
PatchSchedule ==
    /\ plan # NoPlan
    /\ \E on \in BOOLEAN, day \in Days \cup {Unset}, every \in Intervals, hour \in Hours :
          LET merged == [plan EXCEPT !.enabled = on, !.day = day, !.every = every, !.hour = hour]
          IN  /\ updateScheduleSchema(plan.type, day, every)
              /\ plan' = [merged EXCEPT !.next = IF on THEN computeNextRun(merged, now) ELSE @]
              /\ setAt' = IF on THEN now ELSE setAt
    /\ UNCHANGED <<now, pass, passNow, intents>>

DeleteSchedule ==
    /\ plan # NoPlan
    /\ plan' = NoPlan
    /\ UNCHANGED <<now, setAt, pass, passNow, intents>>

-----------------------------------------------------------------------------
\* The job.

getSchedulesDue(t) == IF plan # NoPlan /\ plan.enabled /\ plan.next <= t THEN <<plan>> ELSE <<>>

\* setInterval starts a pass whether or not the last one has ended.
startPaymentScheduleJob(p) ==
    /\ pass[p] = <<>>
    /\ getSchedulesDue(now) # <<>>
    /\ pass' = [pass EXCEPT ![p] = getSchedulesDue(now)]
    /\ passNow' = [passNow EXCEPT ![p] = now]
    /\ UNCHANGED <<now, plan, setAt, intents>>

\* Only the row that is still there is advanced.
markScheduleRan(read, t) ==
    IF plan # NoPlan
      THEN /\ plan' = [plan EXCEPT !.next = computeNextRun(read, t)]
           /\ setAt' = t
      ELSE UNCHANGED <<plan, setAt>>

\* The simulation has ended, well or badly: the transaction is recorded.  The
\* schedule advances after a good simulation once the audit row is written; an
\* audit action that is refused skips the rest of the iteration.
runPaymentSchedules(p, simulated) ==
    /\ pass[p] # <<>>
    /\ Len(intents) < MaxIntents
    /\ intents' = Append(intents, [read |-> Head(pass[p]), at |-> passNow[p]])
    /\ IF simulated /\ Audited("scheduled_distribution_triggered")
         THEN markScheduleRan(Head(pass[p]), passNow[p])
         ELSE UNCHANGED <<plan, setAt>>
    /\ pass' = [pass EXCEPT ![p] = Tail(@)]
    /\ UNCHANGED <<now, passNow>>

Later ==
    /\ now < MaxTime
    /\ now' = now + 1
    /\ UNCHANGED <<plan, setAt, pass, passNow, intents>>

PlansNext ==
    \/ \E type \in SCHEDULE_TYPES : PostSchedule(type)
    \/ PatchSchedule \/ DeleteSchedule
    \/ \E p \in JobPass :
          \/ startPaymentScheduleJob(p)
          \/ \E simulated \in BOOLEAN : runPaymentSchedules(p, simulated)
    \/ Later

-----------------------------------------------------------------------------
\* Time t is on the day and hour of p, whose next run was computed at from.
Occurs(p, from, t) ==
    /\ t % DayLength = p.hour
    /\ CASE p.type = "monthly"  -> Day(t) % MonthLength = p.day - 1
         [] p.type = "weekly"   -> Day(t) % 7 = p.day
         [] p.type = "biweekly" -> (Day(t) - anchorOf(p, from)) % 14 = 0
         [] p.type = "custom"   -> (Day(t) - anchorOf(p, from)) % p.every = 0

\* The next run is ahead of the time it was computed at and falls on the day
\* and hour the schedule names, and a weekly or monthly schedule skips none.
NextRunIsNext ==
    plan # NoPlan /\ plan.enabled =>
        /\ plan.next > setAt
        /\ Occurs(plan, setAt, plan.next)
        /\ plan.type \in {"weekly", "monthly"} =>
              \A t \in (setAt + 1)..(plan.next - 1) : ~Occurs(plan, setAt, t)

\* The job records a distribution only for a schedule that was switched on and
\* due when its pass started, whatever is done to the schedule meanwhile.
RecordedWasDue ==
    \A i \in DOMAIN intents : intents[i].read.enabled /\ intents[i].read.next <= intents[i].at
=============================================================================
