----------------------------- MODULE Scheduling -----------------------------
(***************************************************************************)
(* Schedule arithmetic (domain/scheduling.py): which instant a due         *)
(* schedule is due for, and when it is due next.                           *)
(*                                                                         *)
(* Instants are integers of UTC; a wall reading is an instant plus the     *)
(* zone's offset.  The zone has ONE transition, a spring forward when      *)
(* OffsetAfter > OffsetBefore and a fall back when it is smaller, which is *)
(* what the evaluation around one transition can see of a real zone.       *)
(*                                                                         *)
(* A schedule is [kind, arg]: the instant of a one_time schedule, the      *)
(* period of an interval, the phase of a cron expression, which matches    *)
(* the wall readings congruent to it modulo CronPeriod.                    *)
(***************************************************************************)
EXTENDS Integers

CONSTANTS
  Transition, OffsetBefore, OffsetAfter,    \* the zone
  CronPeriod,                               \* distance of two cron matches
  Horizon                                   \* MAX_SCHEDULE_HORIZON

ASSUME SchedulingAssumption ==
  /\ {Transition, OffsetBefore, OffsetAfter, Horizon} \subseteq Int
  /\ CronPeriod \in Nat \ {0}

NULL == 0
ScheduleKind == {"one_time", "interval", "cron"}

-----------------------------------------------------------------------------
(* The zone.                                                               *)

UtcOffset(u) == IF u < Transition THEN OffsetBefore ELSE OffsetAfter

\* now.astimezone(zone).replace(tzinfo=None)
WallOf(u) == u + UtcOffset(u)

\* wall.replace(tzinfo=zone, fold=fold).astimezone(UTC): a reading that occurs
\* twice means its first instant under fold 0, a skipped one is read with the
\* offset before the transition.
InstantOf(wall, fold) ==
  LET edge == Transition + IF (fold = 0) = (OffsetBefore >= OffsetAfter)
                           THEN OffsetBefore ELSE OffsetAfter
  IN  wall - IF wall < edge THEN OffsetBefore ELSE OffsetAfter

\* Mutation: a skipped reading means what fold 0 says.
GapByFold(wall) == InstantOf(wall, 0)

\* Bisection for the first instant after the transition.
GapEnd(wall) ==
  LET low == InstantOf(wall, 1)
      high == InstantOf(wall, 0)
      search[p \in (low..high) \X (low..high)] ==
        LET middle == p[1] + (p[2] - p[1]) \div 2
        IN  IF p[2] - p[1] =< 1 THEN p[2]
            ELSE IF UtcOffset(middle) = UtcOffset(low) THEN search[<<middle, p[2]>>]
            ELSE search[<<p[1], middle>>]
  IN  search[<<low, high>>]

ResolveLocal(wall) ==
  LET candidate == InstantOf(wall, 0)
  IN  IF WallOf(candidate) = wall THEN candidate ELSE GapEnd(wall)

\* cronsim in naive wall-clock space: the last match at or before a reading,
\* the first match strictly after it.
AtOrBefore(phase, wall) == wall - ((wall - phase) % CronPeriod)
NextAfter(phase, wall) == AtOrBefore(phase, wall) + CronPeriod

-----------------------------------------------------------------------------
(* ScheduleDecision, with the category of a ScheduleCalculationError.  A   *)
(* NULL next fire time completes the schedule.                             *)

Decided(nominal, next) == [failure |-> "none", nominal |-> nominal, next |-> next]
Undecided(failure) == [failure |-> failure, nominal |-> NULL, next |-> NULL]

CalculateOneTime(nextFire) == Decided(nextFire, NULL)

CalculateInterval(nextFire, every, now) ==
  LET elapsed == ((now - nextFire) \div every) * every
  IN  IF elapsed + every > Horizon - nextFire
      THEN Undecided("invalid")
      ELSE Decided(nextFire + elapsed, nextFire + elapsed + every)

CalculateCron(nextFire, phase, now) ==
  LET nominal == ResolveLocal(AtOrBefore(phase, WallOf(now)))
      next == ResolveLocal(NextAfter(phase, WallOf(now)))
  IN  IF (nominal > nextFire /\ nominal > now) \/ next =< now
      THEN Undecided("invalid")
      ELSE Decided(nominal, next)

\* A cron row is rebuilt and its zone looked up at every evaluation.
DecideDue(schedule, nextFire, now, zoneKnown) ==
  CASE schedule.kind = "one_time" -> CalculateOneTime(nextFire)
    [] schedule.kind = "interval" -> CalculateInterval(nextFire, schedule.arg, now)
    [] schedule.kind = "cron" /\ zoneKnown -> CalculateCron(nextFire, schedule.arg, now)
    [] OTHER -> Undecided("timezone")

\* The first fire time of a created, edited or enabled schedule; NULL when the
\* calculation fails and the request is refused.
InitialNextFire(schedule, now, zoneKnown) ==
  CASE schedule.kind = "one_time" -> schedule.arg
    [] schedule.kind = "interval" ->
         IF now + schedule.arg > Horizon THEN NULL ELSE now + schedule.arg
    [] schedule.kind = "cron" /\ zoneKnown ->
         ResolveLocal(NextAfter(schedule.arg, WallOf(now)))
    [] OTHER -> NULL

-----------------------------------------------------------------------------
(* The reference the calculation is checked against: a match is reached at *)
(* the first instant at which the local clock reads at least that much.    *)
(* That is the instant itself, the first of two, or the end of a gap.      *)

IsFiring(phase, u) ==
  \E wall \in (WallOf(u - 1) + 1)..WallOf(u) :
    wall % CronPeriod = phase /\ (u < Transition \/ wall >= Transition + OffsetBefore)

\* nominal is the last firing at or before now, next the first after it.
IsCoalesced(phase, now, nominal, next) ==
  /\ nominal =< now /\ now < next
  /\ IsFiring(phase, nominal) /\ IsFiring(phase, next)
  /\ \A u \in (nominal + 1)..(next - 1) : ~IsFiring(phase, u)
=============================================================================
