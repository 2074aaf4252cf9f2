------------------------------- MODULE AchCop -------------------------------
(***************************************************************************)
(* The supervisor achcop: the worker that runs run(), the child it starts, *)
(* the signals between them, and the grandparent that ach_detach() leaves  *)
(* behind to report how the start went.                                    *)
(*                                                                         *)
(* A behaviour begins when the worker has blocked its signals.  Blocked    *)
(* signals stay pending until sigwait() takes one; a signal that is        *)
(* already pending is not queued a second time, so they form a set.        *)
(*                                                                         *)
(* Names such as Handle_SIGHUP_starts are mistakes that could be made in   *)
(* the code: they serve to see that the properties notice them.            *)
(***************************************************************************)
CONSTANTS
  UserSignals,   \* the signals that users send to the worker
  ChildMayStop,  \* whether the child can be stopped and continued
  StartMayFail   \* the calls of start_child() that can fail

achcop_signals ==
  {"SIGINT", "SIGTERM", "SIGCHLD", "ACH_SIG_OK", "ACH_SIG_FAIL", "SIGALRM", "SIGHUP"}

ASSUME UserSignalsAssumption == UserSignals \subseteq {"SIGINT", "SIGTERM", "SIGHUP"}
ASSUME ChildMayStopAssumption == ChildMayStop \in BOOLEAN
ASSUME StartMayFailAssumption == StartMayFail \subseteq {"fork", "write_pid"}

VARIABLES
  pc,            \* the worker: where it is in the loop of run()
  sig,           \* the worker: the signal it handles
  flags,         \* the worker: struct flags
  exit_status,   \* the worker: its local exit_status
  pending,       \* the signals pending for the worker
  alarm,         \* whether the worker's alarm is set
  child,         \* the state of the child process
  end,           \* how the child ended, if it did
  told,          \* whether a SIGTERM is on its way to the child
  ach_pid_notify,  \* whether somebody waits for the worker's report
  gp_parent,     \* whether the second fork() failed: the worker's parent is the grandparent
  gp,            \* the grandparent: waiting, or the status it exited with
  gp_pending     \* the signals pending for the grandparent

worker == <<pc, sig, flags, exit_status>>
process == <<child, end, told>>
report == <<ach_pid_notify, gp_parent, gp_pending>>
vars == <<worker, pending, alarm, process, report, gp>>

\* The options -r and -d decide what is restarted and who is notified.
Init ==
  /\ pc = "top"
  /\ sig = "none"
  /\ \E restart \in BOOLEAN :
       flags = [first_run |-> TRUE, restart |-> restart, force_restart |-> FALSE,
                start |-> TRUE, done |-> FALSE]
  /\ exit_status = "failure"
  /\ pending = {}
  /\ alarm = FALSE
  /\ child = "none"
  /\ end = "none"
  /\ told = FALSE
  /\ ach_pid_notify \in BOOLEAN
  /\ gp_parent \in IF ach_pid_notify THEN BOOLEAN ELSE {FALSE}
  /\ gp = IF ach_pid_notify THEN "waiting" ELSE "none"
  /\ gp_pending = {}

ach_notify(s) ==
  /\ gp_pending' = IF ach_pid_notify /\ gp = "waiting" THEN gp_pending \cup {s} ELSE gp_pending
  /\ ach_pid_notify' = FALSE
  /\ UNCHANGED gp_parent

\* The worker exits, and its alarm and pending signals with it.
Exit(status) ==
  /\ pc' = "gone"
  /\ sig' = "none"
  /\ exit_status' = status
  /\ pending' = {}
  /\ alarm' = FALSE

\* getppid() = ach_pid_notify: the worker has another parent once the grandparent
\* is gone.
ParentWaits == ach_pid_notify /\ gp_parent /\ gp = "waiting"

\* ACH_DIE: the grandparent is told, "if not our parent".
ach_die ==
  /\ IF ParentWaits THEN UNCHANGED report ELSE ach_notify("ACH_SIG_FAIL")
  /\ Exit("failure")

\* A signal is sent to the worker.
Send(s) == pending' = IF pc = "gone" THEN pending ELSE pending \cup {s}

-----------------------------------------------------------------------------
(* The worker. *)

\* start_child(), and the part of the loop that calls it.
start_child ==
  /\ pc = "top"
  /\ flags.start
  /\ pc' = "wait"
  /\ child' = "running"
  /\ end' = "none"
  /\ told' = FALSE
  /\ alarm' = (alarm \/ flags.first_run)
  /\ flags' = [flags EXCEPT !.start = FALSE, !.force_restart = FALSE]
  /\ UNCHANGED <<sig, exit_status, pending, report, gp>>

\* fork() fails, or it succeeds and the pid of the child cannot be written.
StartFails(call) ==
  /\ pc = "top"
  /\ flags.start
  /\ ach_die
  /\ child' = IF call = "fork" THEN child ELSE "running"
  /\ UNCHANGED <<flags, end, told, gp>>

\* The report at the end of run() is missing.
Finish_silent ==
  /\ pc = "top"
  /\ flags.done
  /\ Exit(exit_status)
  /\ UNCHANGED <<flags, process, report, gp>>

\* The end of run().
Finish ==
  /\ pc = "top"
  /\ flags.done
  /\ Exit(exit_status)
  /\ ach_notify(IF exit_status = "success" THEN "ACH_SIG_OK" ELSE "ACH_SIG_FAIL")
  /\ UNCHANGED <<flags, process, gp>>

\* sigwait() takes any of the pending signals.
ach_sig_wait(s) ==
  /\ pc = "wait"
  /\ s \in pending
  /\ pending' = pending \ {s}
  /\ sig' = s
  /\ pc' = "handle"
  /\ UNCHANGED <<flags, exit_status, alarm, process, report, gp>>

\* The loop waits again when it neither starts the child nor is done.
Loop(f) ==
  /\ flags' = f
  /\ pc' = IF f.start \/ f.done THEN "top" ELSE "wait"
  /\ sig' = "none"

\* A child that is gone is not affected.
terminate_child ==
  /\ told' = (told \/ child \in {"running", "stopped"})
  /\ UNCHANGED <<child, end>>

\* The child is not told to end.
Handle_SIGTERM_waits ==
  /\ pc = "handle"
  /\ sig \in {"SIGTERM", "SIGINT"}
  /\ Loop([flags EXCEPT !.restart = FALSE])
  /\ UNCHANGED <<exit_status, pending, alarm, process, report, gp>>

Handle_SIGTERM ==
  /\ pc = "handle"
  /\ sig \in {"SIGTERM", "SIGINT"}
  /\ Loop([flags EXCEPT !.restart = FALSE])
  /\ terminate_child
  /\ UNCHANGED <<exit_status, pending, alarm, report, gp>>

\* The child is started again before it has ended.
Handle_SIGHUP_starts ==
  /\ pc = "handle"
  /\ sig = "SIGHUP"
  /\ Loop([flags EXCEPT !.force_restart = TRUE, !.start = TRUE])
  /\ terminate_child
  /\ UNCHANGED <<exit_status, pending, alarm, report, gp>>

Handle_SIGHUP ==
  /\ pc = "handle"
  /\ sig = "SIGHUP"
  /\ Loop([flags EXCEPT !.force_restart = TRUE])
  /\ terminate_child
  /\ UNCHANGED <<exit_status, pending, alarm, report, gp>>

\* The status is kept from an earlier child when a signal ended this one.
waitloop_stale == IF end = "signaled" THEN exit_status ELSE end

\* The status waitloop() gives for a child that ended.
waitloop == IF end = "success" THEN "success" ELSE "failure"

\* A restart that was asked for needs -r.
AfterChild_asked(status) ==
  IF status = "success" \/ flags.first_run \/ ~ flags.restart
  THEN [flags EXCEPT !.done = TRUE]
  ELSE [flags EXCEPT !.start = TRUE]

\* "Decide whether to restart the child"
AfterChild(status) ==
  IF flags.force_restart THEN [flags EXCEPT !.start = TRUE]
  ELSE IF status = "success" \/ flags.first_run \/ ~ flags.restart
  THEN [flags EXCEPT !.done = TRUE]
  ELSE [flags EXCEPT !.start = TRUE]

Handle_SIGCHLD ==
  /\ pc = "handle"
  /\ sig = "SIGCHLD"
  /\ child = "zombie"
  /\ exit_status' = waitloop
  /\ Loop(AfterChild(waitloop))
  /\ child' = "none"
  /\ UNCHANGED <<pending, alarm, end, told, report, gp>>

\* waitpid() has no child to report: the one there is has not ended.
Handle_SIGCHLD_early ==
  /\ pc = "handle"
  /\ sig = "SIGCHLD"
  /\ child # "zombie"
  /\ ach_die
  /\ UNCHANGED <<flags, process, gp>>

Handle_OK ==
  /\ pc = "handle"
  /\ sig \in {"SIGALRM", "ACH_SIG_OK"}
  /\ Loop([flags EXCEPT !.first_run = FALSE])
  /\ ach_notify("ACH_SIG_OK")
  /\ UNCHANGED <<exit_status, pending, alarm, process, gp>>

\* "Spurious signal received"
Handle_default ==
  /\ pc = "handle"
  /\ sig = "ACH_SIG_FAIL"
  /\ Loop(flags)
  /\ UNCHANGED <<exit_status, pending, alarm, process, report, gp>>

Handle ==
  \/ Handle_SIGTERM \/ Handle_SIGHUP \/ Handle_SIGCHLD \/ Handle_SIGCHLD_early
  \/ Handle_OK \/ Handle_default

-----------------------------------------------------------------------------
(* What happens to the worker from outside. *)

Kill(s) ==
  /\ pc # "gone"
  /\ Send(s)
  /\ UNCHANGED <<worker, alarm, process, report, gp>>

AlarmFires ==
  /\ alarm
  /\ alarm' = FALSE
  /\ Send("SIGALRM")
  /\ UNCHANGED <<worker, process, report, gp>>

\* The child reports success or failure (ach_notify() in the child).
ChildReports(s) ==
  /\ child = "running"
  /\ Send(s)
  /\ UNCHANGED <<worker, alarm, process, report, gp>>

\* It exits, or a signal ends it.
ChildEnds(how) ==
  /\ child = "running" \/ (child = "stopped" /\ how = "signaled")
  /\ child' = "zombie"
  /\ end' = how
  /\ Send("SIGCHLD")
  /\ UNCHANGED <<worker, alarm, told, report, gp>>

\* It is stopped, or continues.  The worker gets SIGCHLD for that too.
ChildStops ==
  /\ ChildMayStop
  /\ child \in {"running", "stopped"}
  /\ child' = IF child = "running" THEN "stopped" ELSE "running"
  /\ Send("SIGCHLD")
  /\ UNCHANGED <<worker, alarm, end, told, report, gp>>

\* The grandparent takes a signal, or its own alarm, and exits.
Grandparent ==
  /\ gp = "waiting"
  /\ \/ "ACH_SIG_OK" \in gp_pending /\ gp' = "success"
     \/ "ACH_SIG_FAIL" \in gp_pending /\ gp' = "failure"
     \/ gp' = "failure"
  /\ UNCHANGED <<worker, pending, alarm, process, report>>

Child ==
  \/ \E s \in {"ACH_SIG_OK", "ACH_SIG_FAIL"} : ChildReports(s)
  \/ \E how \in {"success", "failure", "signaled"} : ChildEnds(how)
  \/ ChildStops

Next ==
  \/ start_child \/ Finish \/ Handle
  \/ \E call \in StartMayFail : StartFails(call)
  \/ \E s \in achcop_signals : ach_sig_wait(s)
  \/ \E s \in UserSignals : Kill(s)
  \/ AlarmFires \/ Child \/ Grandparent

Spec == Init /\ [][Next]_vars

(***************************************************************************)
(* The worker goes on.  Users and the child do not send signals so fast    *)
(* that SIGCHLD or SIGTERM, which Linux takes last, stay pending for ever. *)
(* A child that was sent SIGTERM ends.                                     *)
(***************************************************************************)
Fairness ==
  /\ WF_vars(start_child \/ Finish \/ Handle)
  /\ WF_vars(\E s \in achcop_signals : ach_sig_wait(s))
  /\ \A s \in {"SIGCHLD", "SIGTERM"} : SF_vars(ach_sig_wait(s))
  /\ WF_vars(told /\ \E how \in {"success", "failure", "signaled"} : ChildEnds(how))

FairSpec == Spec /\ Fairness

-----------------------------------------------------------------------------
(* The properties. *)

\* The variables keep their types.
TypeOK ==
  /\ pc \in {"top", "wait", "handle", "gone"}
  /\ sig \in achcop_signals \cup {"none"}
  /\ flags \in [first_run : BOOLEAN, restart : BOOLEAN, force_restart : BOOLEAN,
                start : BOOLEAN, done : BOOLEAN]
  /\ exit_status \in {"success", "failure"}
  /\ pending \subseteq achcop_signals
  /\ alarm \in BOOLEAN
  /\ child \in {"none", "running", "stopped", "zombie"}
  /\ end \in {"none", "success", "failure", "signaled"}
  /\ told \in BOOLEAN
  /\ ach_pid_notify \in BOOLEAN
  /\ gp_parent \in BOOLEAN
  /\ gp \in {"none", "waiting", "success", "failure"}
  /\ gp_pending \subseteq {"ACH_SIG_OK", "ACH_SIG_FAIL"}

\* A child is started only when the one before it has ended and was waited
\* for, whatever signals came in which order.
StartsAlone == pc = "top" /\ flags.start => child = "none"

\* achcop returns "child's exit status": that of the last child it had, and
\* failure if that was ended by a signal.
ReturnsLastStatus ==
  pc = "gone" /\ flags.done => (exit_status = "success" <=> end = "success")

\* The grandparent is told before the worker is gone, and success only if a
\* child ended with success or was taken to have started.  A worker that dies as
\* the grandparent's own child does not tell it: that one waits for its alarm.
GrandparentTold ==
  /\ pc = "gone" => ~ ach_pid_notify \/ (gp_parent /\ ~ flags.done)
  /\ "ACH_SIG_OK" \in gp_pending => ~ flags.first_run \/ exit_status = "success"
  /\ gp = "success" => "ACH_SIG_OK" \in gp_pending

(***************************************************************************)
(* What makes the three above inductive: the loop goes back to its top     *)
(* only to start a child or to end, never both, and only when the child    *)
(* was waited for; once done, the status is that of the last child; and    *)
(* success is reported early only if the first run is over.                *)
(***************************************************************************)
LoopInv ==
  /\ ~ (flags.start /\ flags.done)
  /\ pc \in {"wait", "handle"} => ~ flags.start /\ ~ flags.done /\ child # "none"
  /\ pc = "top" => child = "none" /\ (flags.start \/ flags.done)
  /\ flags.done => child = "none" /\ (exit_status = "success" <=> end = "success")
  /\ pc = "gone" => ~ ach_pid_notify \/ (gp_parent /\ ~ flags.done)
  /\ "ACH_SIG_OK" \in gp_pending =>
       ~ flags.first_run \/ (pc = "gone" /\ exit_status = "success")
  /\ gp = "success" => "ACH_SIG_OK" \in gp_pending

\* On SIGHUP achcop "sends SIGTERM to the child, waits for child to exit, and
\* restarts the child", whatever the child returns, unless achcop dies.
HupRestarts ==
  (pc = "handle" /\ sig = "SIGHUP") ~>
    (pc = "top" /\ flags.start) \/ (pc = "gone" /\ ~ flags.done)

\* On SIGTERM achcop ends, unless a restart was asked for and not yet made.
TermEndsWithoutHup ==
  (pc = "handle" /\ sig = "SIGTERM") ~> (pc = "gone" \/ flags.force_restart)

=============================================================================
