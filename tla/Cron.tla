-------------------------------- MODULE Cron ---------------------------------
(***************************************************************************)
(* The schedule of a routine: cron.ts, the schedule editor of the web      *)
(* client, and the times at which the schedule lets the routine fire.      *)
(*                                                                         *)
(* Time is a minute of a week whose days and hours have lengths of their   *)
(* own, so that small ones show what the real ones do; weekday 1 is        *)
(* Monday.  A field of a cron is a record that says what it matches; a     *)
(* time of day is a record of a twelve-hour clock.                         *)
(***************************************************************************)
EXTENDS Integers

CONSTANTS
  MinutesPerHour,   \* 60
  HoursPerDay,      \* 24
  EditorTimes,      \* TIMES, the times the editor offers
  EditorNumbers,    \* NUMBERS, the intervals it offers
  Expressions,      \* crons that are typed in or come from the API
  Lag               \* bound: how many minutes late a wake-up is handled

Half == HoursPerDay \div 2
Day == HoursPerDay * MinutesPerHour
Week == 7 * Day

ASSUME CronConstants ==
  /\ MinutesPerHour \in Nat \ {0}
  /\ HoursPerDay \in Nat /\ HoursPerDay = 2 * Half /\ Half > 1
  /\ EditorNumbers \subseteq Nat \ {0}
  /\ EditorTimes \subseteq [h : 1..Half, m : 0..(MinutesPerHour - 1), pm : BOOLEAN]
  /\ Lag \in Nat

VARIABLES
  cron,      \* the routine's cron
  schedule,  \* the preset in the editor
  editing,   \* whether the editor is open
  clock,     \* the minute at which the next run was computed
  wait       \* how many minutes after it that run is

cronVars == <<cron, schedule, editing, clock, wait>>

-----------------------------------------------------------------------------
(* Fields and crons. *)

Always == [kind |-> "any"]
At(n) == [kind |-> "at", n |-> n]
Every(n) == [kind |-> "step", n |-> n]
FromTo(a, b) == [kind |-> "range", from |-> a, to |-> b]
Weekdays == FromTo(1, 5)

Fields(minute, hour, day, dow) ==
  [minute |-> minute, hour |-> hour, day |-> day, month |-> Always, dow |-> dow]
Blank == LET nothing == [kind |-> "blank"] IN Fields(nothing, nothing, nothing, nothing)

\* stepValue
IsStep(f) == f.kind = "step" /\ f.n > 0

MatchField(f, v) ==
  \/ f.kind = "any"
  \/ f.kind = "at" /\ v = f.n
  \/ IsStep(f) /\ v % f.n = 0
  \/ f.kind = "range" /\ v \in f.from..f.to

-----------------------------------------------------------------------------
(* Presets. *)

Timed == {"Every day", "Weekdays", "Every week", "Every month"}
Freqs == Timed \union {"Every hour", "Interval", "Advanced"}
Units == {"minutes", "hours", "days"}
Base == [freq |-> "Every day", n |-> 3, unit |-> "minutes",
         time |-> [h |-> Half - 1, m |-> 0, pm |-> FALSE], cron |-> Blank]
FallbackCron == Fields(Every(3), Always, Always, Always)

\* Mutant: twelve in the morning is noon.
ParseClockMidnight(t) ==
  [minute |-> t.m, hour |-> IF t.pm /\ t.h < Half THEN t.h + Half ELSE t.h]

ParseClock(t) ==
  [minute |-> t.m,
   hour |-> IF t.pm /\ t.h < Half THEN t.h + Half
            ELSE IF ~t.pm /\ t.h = Half THEN 0 ELSE t.h]

FormatClock(hour, minute) ==
  [h |-> IF hour % Half = 0 THEN Half ELSE hour % Half, m |-> minute, pm |-> hour >= Half]

CronFromPreset(p) ==
  LET t == ParseClock(p.time)
      Daily(day, dow) == Fields(At(t.minute), At(t.hour), day, dow) IN
  CASE p.freq = "Advanced" -> IF p.cron = Blank THEN FallbackCron ELSE p.cron
    [] p.freq = "Every hour" -> Fields(At(0), Always, Always, Always)
    [] p.freq = "Interval" /\ p.unit = "days" -> Fields(At(0), At(0), Every(p.n), Always)
    [] p.freq = "Interval" /\ p.unit = "hours" -> Fields(At(0), Every(p.n), Always, Always)
    [] p.freq = "Interval" /\ p.unit = "minutes" -> Fields(Every(p.n), Always, Always, Always)
    [] p.freq = "Weekdays" -> Daily(Always, Weekdays)
    [] p.freq = "Every week" -> Daily(Always, At(1))
    [] p.freq = "Every month" -> Daily(At(1), Always)
    [] p.freq = "Every day" -> Daily(Always, Always)

Hourly == [Base EXCEPT !.freq = "Every hour"]
Interval(n, unit) == [Base EXCEPT !.freq = "Interval", !.n = n, !.unit = unit]
Timely(freq, time) == [Base EXCEPT !.freq = freq, !.time = time]

\* The first shape that the cron has.
PresetFromCron(c) ==
  LET advanced == [Base EXCEPT !.freq = "Advanced", !.cron = c]
      At0(f) == f = At(0)
      Rest(day, dow) == c.day = day /\ c.dow = dow
      Daily(freq) == Timely(freq, FormatClock(c.hour.n, c.minute.n)) IN
  IF c.month # Always THEN advanced
  ELSE IF At0(c.minute) /\ c.hour = Always /\ Rest(Always, Always) THEN Hourly
  ELSE IF IsStep(c.minute) /\ c.hour = Always /\ Rest(Always, Always) THEN Interval(c.minute.n, "minutes")
  ELSE IF At0(c.minute) /\ IsStep(c.hour) /\ Rest(Always, Always) THEN Interval(c.hour.n, "hours")
  ELSE IF At0(c.minute) /\ At0(c.hour) /\ IsStep(c.day) /\ c.dow = Always THEN Interval(c.day.n, "days")
  ELSE IF c.minute.kind # "at" \/ c.hour.kind # "at" THEN advanced
  ELSE IF Rest(Always, Weekdays) THEN Daily("Weekdays")
  ELSE IF Rest(Always, At(1)) THEN Daily("Every week")
  ELSE IF Rest(At(1), Always) THEN Daily("Every month")
  ELSE IF Rest(Always, Always) THEN Daily("Every day")
  ELSE advanced

\* describeCronPreset: what the user is shown.
Describe(p) ==
  CASE p.freq = "Interval"   -> <<p.n, p.unit>>
    [] p.freq = "Every hour" -> <<"Every hour">>
    [] p.freq = "Advanced"   -> <<"Cron", CronFromPreset(p)>>
    [] OTHER                 -> <<p.freq, p.time>>

-----------------------------------------------------------------------------
(* Times. *)

MinuteOf(t) == t % MinutesPerHour
HourOf(t) == (t % Day) \div MinutesPerHour
WeekdayOf(t) == (t % Week) \div Day

Matches(c, t) == MatchField(c.minute, MinuteOf(t)) /\ MatchField(c.hour, HourOf(t))

\* Mutant: the search starts a minute late.
MinutesToNextLate(c, from) ==
  LET search[i \in 1..(Day + 3)] ==
        IF i > Day + 2 THEN 1
        ELSE IF Matches(c, from + i) THEN i ELSE search[i + 1]
  IN search[2]

\* Mutant: the search starts at the minute it is called in.
MinutesToNextNow(c, from) ==
  LET search[i \in 0..(Day + 3)] ==
        IF i > Day + 2 THEN 1
        ELSE IF Matches(c, from + i) THEN i ELSE search[i + 1]
  IN search[0]

\* The loop of nextCronDate, candidate after candidate, for a day and two
\* minutes; then the next minute.  Days, months and the timezone are not looked at.
SearchBound == Day + 2
MinutesToNext(c, from) ==
  LET search[i \in 1..(SearchBound + 1)] ==
        IF i > SearchBound THEN 1
        ELSE IF Matches(c, from + i) THEN i ELSE search[i + 1]
  IN search[1]

(***************************************************************************)
(* Every variable has its type.                                            *)
(***************************************************************************)
CronTypeOK ==
  /\ DOMAIN cron = {"minute", "hour", "day", "month", "dow"}
  /\ schedule.freq \in Freqs /\ schedule.unit \in Units
  /\ editing \in BOOLEAN
  /\ clock \in 0..(Week - 1)
  /\ wait \in 1..SearchBound

CronInit ==
  /\ cron \in Expressions \union {CronFromPreset(Base)}
  /\ schedule = Base
  /\ editing = FALSE
  /\ clock = 0
  /\ wait = MinutesToNext(cron, clock)

\* The routine, or "New routine", is opened in the editor.
OpenEditor ==
  /\ ~editing
  /\ editing' = TRUE
  /\ schedule' \in {PresetFromCron(cron), Base}
  /\ UNCHANGED <<cron, clock, wait>>

\* What the selects and the field of the editor can be set to.  "Advanced"
\* starts from the cron of the frequency before it, or is typed.
Pickable ==
  {Hourly}
    \union {Interval(n, unit) : n \in EditorNumbers, unit \in Units}
    \union {Timely(freq, t) : freq \in Timed, t \in EditorTimes}
Typed ==
  {[Base EXCEPT !.freq = "Advanced", !.cron = c] :
     c \in Expressions \union {Blank, CronFromPreset(schedule)}}

Edit ==
  /\ editing
  /\ schedule' \in Pickable \union Typed
  /\ UNCHANGED <<cron, editing, clock, wait>>

\* Save, and the routine's next run if the cron changed.
Save ==
  /\ editing
  /\ cron' = CronFromPreset(schedule)
  /\ wait' = IF cron' = cron THEN wait ELSE MinutesToNext(cron', clock)
  /\ editing' = FALSE
  /\ schedule' = Base
  /\ UNCHANGED clock

\* The run is due, and handled at once or somewhat late.
Fire ==
  \E late \in 0..Lag :
    /\ ~editing
    /\ clock' = (clock + wait + late) % Week
    /\ wait' = MinutesToNext(cron, clock')
    /\ UNCHANGED <<cron, schedule, editing>>

CronNext == OpenEditor \/ Edit \/ Save \/ Fire

CronSpec == CronInit /\ [][CronNext]_cronVars

-----------------------------------------------------------------------------
(***************************************************************************)
(* A schedule survives its editor: opening and saving a routine does not   *)
(* change when it fires, and what the editor says is what it says of the   *)
(* saved cron, noon and midnight, leading forms and intervals included.    *)
(***************************************************************************)
ScheduleSurvivesSave ==
  /\ CronFromPreset(PresetFromCron(cron)) = cron
  /\ (editing /\ schedule.freq # "Advanced")
       => Describe(PresetFromCron(CronFromPreset(schedule))) = Describe(schedule)

(***************************************************************************)
(* A routine fires at the first minute after the last one that its minute  *)
(* and its hour allow, across midnight and the end of the week, and one    *)
(* that never matches is put off by a minute only.                         *)
(***************************************************************************)
FiresAtFirstMatch ==
  /\ \A i \in 1..(wait - 1) : ~Matches(cron, clock + i)
  /\ \/ Matches(cron, clock + wait)
     \/ wait = 1 /\ \A t \in 0..(Day - 1) : ~Matches(cron, t)

(***************************************************************************)
(* What the schedule is shown as: a routine of "Every Monday" fires on     *)
(* Mondays and one of "Weekdays" from Monday to Friday.                    *)
(***************************************************************************)
FiresOnShownDay ==
  /\ PresetFromCron(cron).freq = "Every week" => WeekdayOf(clock + wait) = 1
  /\ PresetFromCron(cron).freq = "Weekdays" => WeekdayOf(clock + wait) \in 1..5
=============================================================================
