--------------------------------- MODULE Cron ---------------------------------
(***************************************************************************)
(* When a scheduled task is due: the chain of ScheduledTaskBuilder calls   *)
(* that writes its cron expression, and the matcher that reads it against  *)
(* the clock (src/src/eloquent/Queue/Scheduler.ts).  A field of an         *)
(* expression is the sequence of its comma-separated items; an item is a   *)
(* number or a star, with the upper end and the step that may follow it.   *)
(***************************************************************************)
EXTENDS Integers, Sequences, FiniteSets

CONSTANTS
    Minutes, Hours, Days, Months,  \* the numbers calls are made with
    Written,                       \* expressions given to cron() as they are
    Windows,                       \* the pairs given to between(), in minutes of the day
    Moments                        \* the moments looked at, see Moment

Moment == [minute : 0 .. 59, hour : 0 .. 23, day : 1 .. 31, month : 1 .. 12,
           weekday : 0 .. 6, lastDay : BOOLEAN]

VARIABLES
    task,  \* ScheduledTask.expression, betweenStart and betweenEnd, and conditions
    asked  \* ghost: the calls the expression stands on

cronVars == <<task, asked>>

-----------------------------------------------------------------------------
(* Expressions. *)

Absent == -1
Star == -2
Item(from, to, step) == [from |-> from, to |-> to, step |-> step]
Plain(n) == Item(n, Absent, Absent)

Any == <<Item(Star, Absent, Absent)>>
Num(n) == <<Plain(n)>>
Each(n) == <<Item(Star, Absent, n)>>
Upto(a, b) == <<Item(a, b, Absent)>>
OneOf(ns) == [i \in DOMAIN ns |-> Plain(ns[i])]

Ranged(field) == \E i \in DOMAIN field : field[i].to # Absent

\* Mutant: a list is looked for before the range, as its first number.
MatchListFirst(field, value) ==
    \/ field = Any
    \/ field # Any /\ field[1] = Item(Star, Absent, field[1].step) /\ value % field[1].step = 0
    \/ field # Any /\ field[1].from # Star /\ field[1].from = value

\* matchCronPart(): the forms are told apart by what the text contains.  Of a text
\* with a dash, Number() of the two pieces around the first one is NaN unless the
\* text is one plain range; Number() of an item with a step is NaN as well; and
\* parseInt() reads the leading number of what is left.
MatchCronPart(field, value) ==
    LET head == field[1]
        stepped == head.from = Star /\ head.to = Absent /\ head.step # Absent
    IN  \/ field = Any
        \/ stepped /\ head.step # 0 /\ value % head.step = 0
        \/ /\ ~stepped /\ Ranged(field)
           /\ Len(field) = 1 /\ head.step = Absent
           /\ head.from <= value /\ value <= head.to
        \/ /\ ~stepped /\ ~Ranged(field)
           /\ IF Len(field) = 1
                THEN head.from = value
                ELSE \E i \in DOMAIN field : field[i] = Plain(value)

\* matchesCronExpression()
Matches(expression, now) ==
    /\ Len(expression) = 5
    /\ MatchCronPart(expression[1], now.minute)
    /\ MatchCronPart(expression[2], now.hour)
    /\ MatchCronPart(expression[3], now.day)
    /\ MatchCronPart(expression[4], now.month)
    /\ MatchCronPart(expression[5], now.weekday)

\* isDue(), and the condition lastDayOfMonth() leaves for runDueTasks().
Due(now) ==
    LET current == now.hour * 60 + now.minute
    IN  /\ Matches(task.expression, now)
        /\ task.window # <<>> => task.window[1] <= current /\ current <= task.window[2]
        /\ task.lastDayOnly => now.lastDay

-----------------------------------------------------------------------------
(* The builder. *)

\* A frequency call, by its name and arguments.
Call(name, args) == [name |-> name, args |-> args]

\* everyMinute() to everyFortyFiveMinutes() are everyNMinutes() of 1 to 45,
\* everyTwoHours() to everySixHours() are everyNHours() of 2 to 6, and a time given
\* as "H:M" is its two numbers.
Frequencies ==
    {Call("everyMinute", <<>>), Call("hourly", <<>>), Call("daily", <<>>), Call("weekly", <<>>),
     Call("monthly", <<>>), Call("quarterly", <<>>), Call("yearly", <<>>)}
    \union {Call("everyNMinutes", <<n>>) : n \in Minutes \ {0}}
    \union {Call("everyNHours", <<n>>) : n \in Hours \ {0}}
    \union {Call("hourlyAt", <<n>>) : n \in Minutes}
    \union {Call("dailyAt", <<h, n>>) : h \in Hours, n \in Minutes}
    \union {Call("twiceDailyAt", <<h, n, k>>) : h \in Hours, n \in Minutes, k \in Hours}
    \union {Call("weeklyOn", <<d, h, n>>) : d \in {0, 5}, h \in Hours, n \in Minutes}
    \union {Call("monthlyOn", <<d, h, n>>) : d \in Days, h \in Hours, n \in Minutes}
    \union {Call("lastDayOfMonth", <<h, n>>) : h \in Hours, n \in Minutes}
    \union {Call("yearlyOn", <<k, d, h, n>>) : k \in Months, d \in Days, h \in Hours, n \in Minutes}
    \union {Call("cron", e) : e \in Written}

Expression(c) ==
    LET a == c.args
    IN  CASE c.name = "everyMinute" -> <<Any, Any, Any, Any, Any>>
          [] c.name = "everyNMinutes" -> <<Each(a[1]), Any, Any, Any, Any>>
          [] c.name = "hourly" -> <<Num(0), Any, Any, Any, Any>>
          [] c.name = "hourlyAt" -> <<Num(a[1]), Any, Any, Any, Any>>
          [] c.name = "everyNHours" -> <<Num(0), Each(a[1]), Any, Any, Any>>
          [] c.name = "daily" -> <<Num(0), Num(0), Any, Any, Any>>
          [] c.name = "dailyAt" -> <<Num(a[2]), Num(a[1]), Any, Any, Any>>
          [] c.name = "twiceDailyAt" -> <<Num(a[2]), OneOf(<<a[1], a[3]>>), Any, Any, Any>>
          [] c.name = "weekly" -> <<Num(0), Num(0), Any, Any, Num(0)>>
          [] c.name = "weeklyOn" -> <<Num(a[3]), Num(a[2]), Any, Any, Num(a[1])>>
          [] c.name = "monthly" -> <<Num(0), Num(0), Num(1), Any, Any>>
          [] c.name = "monthlyOn" -> <<Num(a[3]), Num(a[2]), Num(a[1]), Any, Any>>
          [] c.name = "lastDayOfMonth" -> <<Num(a[2]), Num(a[1]), Upto(28, 31), Any, Any>>
          [] c.name = "quarterly" -> <<Num(0), Num(0), Num(1), OneOf(<<1, 4, 7, 10>>), Any>>
          [] c.name = "yearly" -> <<Num(0), Num(0), Num(1), Num(1), Any>>
          [] c.name = "yearlyOn" -> <<Num(a[4]), Num(a[3]), Num(a[2]), Num(a[1]), Any>>
          [] c.name = "cron" -> a

\* defaultTask(), as call(), command(), exec() and job() register it.
Init ==
    /\ task = [expression |-> <<Any, Any, Any, Any, Any>>, window |-> <<>>, lastDayOnly |-> FALSE]
    /\ asked = [frequency |-> Call("everyMinute", <<>>), days |-> 0 .. 6, window |-> <<>>,
                lastDayOnly |-> FALSE]

\* A field as crontab(5) reads it: any of its items covers the value.
Reads(field, value) ==
    \E i \in DOMAIN field :
        LET from == field[i].from
            to == field[i].to
            step == field[i].step
        IN  IF from = Star
              THEN IF step = Absent THEN TRUE ELSE value % step = 0
              ELSE from <= value /\ value <= (IF to = Absent THEN from ELSE to)

\* The weekdays a frequency call names.
DaysOf(c) ==
    CASE c.name = "weekly" -> {0}
      [] c.name = "weeklyOn" -> {c.args[1]}
      [] c.name = "cron" -> {d \in 0 .. 6 : Reads(c.args[5], d)}
      [] OTHER -> 0 .. 6

\* A frequency replaces the whole expression, a day call before it included; what
\* lastDayOfMonth() pushes to the conditions stays.
Frequency(c) ==
    LET last == c.name = "lastDayOfMonth"
    IN  /\ task' = [task EXCEPT !.expression = Expression(c), !.lastDayOnly = @ \/ last]
        /\ asked' = [asked EXCEPT !.frequency = c, !.days = DaysOf(c), !.lastDayOnly = @ \/ last]

DayCalls == {[days |-> 1 .. 5, field |-> Upto(1, 5)], [days |-> {0, 6}, field |-> OneOf(<<0, 6>>)]}
            \union {[days |-> {d}, field |-> Num(d)] : d \in 0 .. 6}

\* weekdays(), weekends(), sundays() ... saturdays(): parts[4] of the expression.
SetDow(call) ==
    /\ task' = [task EXCEPT !.expression[5] = call.field]
    /\ asked' = [asked EXCEPT !.days = call.days]

Between(w) ==
    /\ task' = [task EXCEPT !.window = w]
    /\ asked' = [asked EXCEPT !.window = w]

Next ==
    \/ \E c \in Frequencies : Frequency(c)
    \/ \E d \in DayCalls : SetDow(d)
    \/ \E w \in Windows : Between(w)

Spec == Init /\ [][Next]_cronVars

-----------------------------------------------------------------------------
(* What the calls' names promise. *)

\* The moments a frequency call names.
Names(c, now) ==
    LET a == c.args
        At(h, n) == now.hour = h /\ now.minute = n
    IN  CASE c.name = "everyMinute" -> TRUE
          [] c.name = "everyNMinutes" -> now.minute % a[1] = 0
          [] c.name = "hourly" -> now.minute = 0
          [] c.name = "hourlyAt" -> now.minute = a[1]
          [] c.name = "everyNHours" -> now.minute = 0 /\ now.hour % a[1] = 0
          [] c.name = "daily" -> At(0, 0)
          [] c.name = "dailyAt" -> At(a[1], a[2])
          [] c.name = "twiceDailyAt" -> At(a[1], a[2]) \/ At(a[3], a[2])
          [] c.name = "weekly" -> At(0, 0)
          [] c.name = "weeklyOn" -> At(a[2], a[3])
          [] c.name = "monthly" -> now.day = 1 /\ At(0, 0)
          [] c.name = "monthlyOn" -> now.day = a[1] /\ At(a[2], a[3])
          [] c.name = "lastDayOfMonth" -> now.lastDay /\ At(a[1], a[2])
          [] c.name = "quarterly" -> now.day = 1 /\ now.month % 3 = 1 /\ At(0, 0)
          [] c.name = "yearly" -> now.month = 1 /\ now.day = 1 /\ At(0, 0)
          [] c.name = "yearlyOn" -> now.month = a[1] /\ now.day = a[2] /\ At(a[3], a[4])
          [] c.name = "cron" -> /\ Len(a) = 5
                                /\ Reads(a[1], now.minute) /\ Reads(a[2], now.hour)
                                /\ Reads(a[3], now.day) /\ Reads(a[4], now.month)

\* matchCronPart() reads every expression the builder writes, and the plain forms
\* given to cron(), as their names and crontab(5) say: a task is due exactly at the
\* moments its last frequency call names, on the days of the last day call after
\* it, within its window.
DueAsAsked ==
    \A now \in Moments :
        Due(now) <=>
            /\ Names(asked.frequency, now)
            /\ now.weekday \in asked.days
            /\ asked.lastDayOnly => now.lastDay
            /\ asked.window # <<>> =>
                   now.hour * 60 + now.minute \in asked.window[1] .. asked.window[2]
=============================================================================
