---------------------------- MODULE MCScheduler -----------------------------
(* Instances of Scheduler for TLC: a periodic task below a task h that     *)
(* sleeps and waits for notifications, and the idle task.                  *)
EXTENDS Scheduler, TLC

CONSTANTS idle, periodic, h

MCPriority == idle :> 0 @@ periodic :> 1 @@ h :> 2

C(op, on, arg) == [op |-> op, on |-> on, arg |-> arg]

Sleeper == {C("delay", h, 1), C("delay", h, 3), C("take", h, 3), C("wait", h, 2),
            C("suspend", h, 0)}

OfH == Sleeper \cup {C("delete", periodic, 0), C("create", periodic, 0),
                      C("suspend", periodic, 0), C("catchUp", h, 1)}

OfPeriodic == {C("delayUntil", periodic, 2), C("abort", h, 0), C("notify", h, 1), C("resume", h, 0),
               C("prioritySet", h, 0), C("prioritySet", h, 2),
               C("suspend", h, 0), C("delete", periodic, 0)}

Everything == idle :> {} @@ periodic :> OfPeriodic @@ h :> OfH

Handlers == {C("notify", h, 1), C("resume", periodic, 0)}

NoHandlers == {}

(* The periodic task is the one whose sleep is ended.                      *)
PeriodOfH == idle :> {} @@ periodic :> {C("abort", h, 0)} @@ h :> {C("delayUntil", h, 2)}

(* Ticks are caught up with.                                               *)
CatchingUp ==
  idle :> {} @@ h :> {C("delay", h, 1)} @@
  periodic :> {C("delay", periodic, 1), C("catchUp", periodic, 1)}

(* Waits without limit for a notification, which periodic resumes.         *)
ForEver ==
  idle :> {} @@ h :> {C("wait", h, 3)} @@
  periodic :> {C("resume", h, 0), C("delay", periodic, 1)}

(* The same, resumed and notified by handlers while periodic catches up.   *)
ForEverHeldBack ==
  idle :> {} @@ h :> {C("take", h, 3)} @@
  periodic :> {C("catchUp", periodic, 1), C("delay", periodic, 1)}

ResumeAndNotify == {C("resume", h, 0), C("notify", h, 1)}
=============================================================================
