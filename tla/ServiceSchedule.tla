--------------------------- MODULE ServiceSchedule ---------------------------
(***************************************************************************)
(* Services that run in windows of the week: isScheduleWindowActive and    *)
(* desiredScheduledState of service-schedule.ts, evaluated again and again *)
(* while the clock goes on, interactive sessions come and go, and the user *)
(* changes the policy.                                                     *)
(***************************************************************************)
EXTENDS Integers

CONSTANTS
  DayMinutes,    \* 1440
  WeekDays,      \* 7
  Policies,      \* policies a user may set
  MaxSessions    \* bound: interactive sessions at once

Windows == [days : SUBSET (0..(WeekDays - 1)), start : 0..DayMinutes, end : 0..DayMinutes,
            enabled : BOOLEAN]

ASSUME ServiceConstants ==
  /\ DayMinutes \in Nat \ {0}
  /\ WeekDays \in Nat \ {0}
  /\ MaxSessions \in Nat
  /\ Policies \subseteq [enabled : BOOLEAN, windows : SUBSET Windows,
                         close : {"drain", "leave-active", "terminate-active"}]

VARIABLES
  policy,     \* the service's policy
  weekTime,   \* the local clock, in minutes of the week
  sessions,   \* activeInteractiveSessions
  service     \* what the schedule last asked for

serviceVars == <<policy, weekTime, sessions, service>>

\* normalizeMinute with allowEndOfDay
Bound(minute) == IF minute = DayMinutes THEN 0 ELSE minute

WeekdayAt(t) == t \div DayMinutes
MinuteAt(t) == t % DayMinutes

\* isScheduleWindowActive: a window over midnight belongs to the day it starts.
WindowActive(w, t) ==
  LET start == Bound(w.start)
      end == Bound(w.end)
      today == WeekdayAt(t) \in w.days
      yesterday == (WeekdayAt(t) + WeekDays - 1) % WeekDays \in w.days IN
  /\ w.enabled
  /\ \/ start = end /\ today
     \/ start < end /\ today /\ MinuteAt(t) \in start..(end - 1)
     \/ start > end /\ today /\ MinuteAt(t) >= start
     \/ start > end /\ yesterday /\ MinuteAt(t) < end

\* Mutant: a window that has closed stops the service, sessions or not.
DesiredAtOnce(p, t, active) ==
  IF p.enabled /\ (p.windows = {} \/ \E w \in p.windows : WindowActive(w, t))
  THEN "running" ELSE "stopped"

\* desiredScheduledState
Desired(p, t, active) ==
  IF ~p.enabled THEN "stopped"
  ELSE IF p.windows = {} \/ \E w \in p.windows : WindowActive(w, t) THEN "running"
  ELSE IF active = 0 \/ p.close = "terminate-active" THEN "stopped"
  ELSE IF p.close = "leave-active" THEN "running"
  ELSE "draining"

(***************************************************************************)
(* Every variable has its type.                                            *)
(***************************************************************************)
ServiceTypeOK ==
  /\ policy \in Policies
  /\ weekTime \in 0..(WeekDays * DayMinutes - 1)
  /\ sessions \in 0..MaxSessions
  /\ service \in {"running", "draining", "stopped"}

ServiceInit ==
  /\ policy \in Policies
  /\ weekTime = 0
  /\ sessions = 0
  /\ service = Desired(policy, weekTime, sessions)

Evaluate == service' = Desired(policy', weekTime', sessions')

NextMinute ==
  /\ weekTime' = (weekTime + 1) % (WeekDays * DayMinutes)
  /\ UNCHANGED <<policy, sessions>>
  /\ Evaluate

SetPolicy ==
  /\ policy' \in Policies
  /\ UNCHANGED <<weekTime, sessions>>
  /\ Evaluate

\* A session starts only on a service that runs, and may end at any time.
ChangeSessions ==
  /\ sessions' \in {n \in 0..MaxSessions : n < sessions \/ service = "running"}
  /\ UNCHANGED <<policy, weekTime>>
  /\ Evaluate

ServiceNext == NextMinute \/ SetPolicy \/ ChangeSessions

ServiceSpec == ServiceInit /\ [][ServiceNext]_serviceVars

-----------------------------------------------------------------------------
(* The minutes of the week that a window covers, from each of its days on. *)
Covered(w) ==
  LET start == Bound(w.start)
      length == (Bound(w.end) - start) % DayMinutes IN
  {(d * DayMinutes + k) % (WeekDays * DayMinutes) : d \in w.days,
     k \in IF length = 0 THEN 0..(DayMinutes - 1) ELSE start..(start + length - 1)}

(***************************************************************************)
(* A closing window kills no interactive session unless the policy says    *)
(* terminate-active; and a service without sessions runs in the minutes    *)
(* its windows cover, over midnight and over the end of the week, and in   *)
(* no other.                                                               *)
(***************************************************************************)
SessionsSurviveWindow ==
  /\ (service = "stopped" /\ policy.enabled /\ sessions > 0)
       => policy.close = "terminate-active"
  /\ (policy.enabled /\ policy.windows # {})
       => LET open == \E w \in policy.windows : w.enabled /\ weekTime \in Covered(w) IN
          /\ open => service = "running"
          /\ (~open /\ sessions = 0) => service = "stopped"
=============================================================================
