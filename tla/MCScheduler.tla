----------------------------- MODULE MCScheduler -----------------------------
(* A small instance of Scheduler for TLC.                                  *)
EXTENDS Scheduler, TLC

Base == [kind |-> "interval", interval |-> 2, offset |-> 0, missing |-> {},
         policy |-> "all_slots", cap |-> 1, horizon |-> 0, ready |-> TRUE]

Windowed   == [Base EXCEPT !.policy = "windowed", !.interval = 1]
LatestOnly == [Base EXCEPT !.policy = "latest_only", !.interval = 1]
Manual     == [Base EXCEPT !.policy = "manual"]
Horizon    == [Base EXCEPT !.interval = 1, !.horizon = 2]
Unbound    == [Base EXCEPT !.ready = FALSE]
Daily      == [Base EXCEPT !.kind = "calendar", !.offset = 1, !.missing = {1}]
Never      == [Base EXCEPT !.kind = "calendar", !.missing = 0..20]
Malformed  == [Manual EXCEPT !.kind = "malformed"]
NeverDue   == [Manual EXCEPT !.kind = "calendar", !.missing = 0..20]

Schedules == <<Windowed, LatestOnly, Daily, Horizon, Manual, Never, Unbound,
               Malformed, NeverDue, Windowed>>

(* A registry of backlogs; calendars and a horizon; and every schedule that*)
(* the sweep cannot use, the last of which keeps it from what follows.     *)
Registries == {{1, 2}, {3, 4}, {3, 5, 6, 7, 8, 9, 10}}
==============================================================================
