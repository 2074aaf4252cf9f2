---------------------------- MODULE AchCopProofs ----------------------------
(***************************************************************************)
(* Proofs about the supervisor: whatever signals come in which order, a    *)
(* child is started only after the one before it was waited for, the       *)
(* status returned is that of the last child, and the grandparent is told  *)
(* the truth.                                                              *)
(***************************************************************************)
EXTENDS AchCop, TLAPS

\* The invariant that the steps preserve.
CopInv == TypeOK /\ LoopInv

\* run() begins with no child, the first one to be started.
LEMMA InitInv == Init => CopInv
<1> SUFFICES ASSUME Init
             PROVE  CopInv
  OBVIOUS
<1>1. PICK restart \in BOOLEAN :
        flags = [first_run |-> TRUE, restart |-> restart, force_restart |-> FALSE,
                 start |-> TRUE, done |-> FALSE]
  BY Zenon DEF Init
<1>2. gp \in {"none", "waiting"}
  BY DEF Init
<1>3. TypeOK
  BY <1>1, <1>2, Zenon DEF Init, TypeOK
<1>4. LoopInv
  BY <1>1, <1>2 DEF Init, LoopInv
<1> QED
  BY <1>3, <1>4 DEF CopInv

\* What ach_die() leaves behind: only a parent that waits has not been told.
LEMMA DieReports ==
  ASSUME CopInv, ach_die
  PROVE  /\ gp_parent' = gp_parent /\ ach_pid_notify' \in BOOLEAN
         /\ gp_pending' \subseteq {"ACH_SIG_OK", "ACH_SIG_FAIL"}
         /\ "ACH_SIG_OK" \in gp_pending' <=> "ACH_SIG_OK" \in gp_pending
         /\ ~ ach_pid_notify' \/ gp_parent
         /\ pc' = "gone" /\ sig' = "none" /\ exit_status' = "failure"
         /\ pending' = {} /\ alarm' = FALSE
<1>1. CASE ParentWaits
  BY <1>1, ZenonT(30) DEF CopInv, TypeOK, ach_die, ParentWaits, report, Exit
<1>2. CASE ~ ParentWaits
  <2>1. gp_pending' \in {gp_pending, gp_pending \cup {"ACH_SIG_FAIL"}}
    BY <1>2, Zenon DEF ach_die, ach_notify
  <2>2. /\ gp_pending' \subseteq {"ACH_SIG_OK", "ACH_SIG_FAIL"}
        /\ "ACH_SIG_OK" \in gp_pending' <=> "ACH_SIG_OK" \in gp_pending
    BY <2>1, SMTT(30) DEF CopInv, TypeOK
  <2> QED
    BY <1>2, <2>2, ZenonT(30) DEF ach_die, ach_notify, Exit
<1> QED
  BY <1>1, <1>2, Zenon

\* What start_child() and its failures preserve.
LEMMA StartInv ==
  ASSUME CopInv, start_child \/ \E call \in StartMayFail : StartFails(call)
  PROVE  CopInv'
<1>1. CASE start_child
  BY <1>1, Zenon DEF CopInv, TypeOK, LoopInv, start_child, report
<1>2. ASSUME NEW call \in StartMayFail, StartFails(call)
      PROVE  CopInv'
  <2>1. ~ flags.done
    BY <1>2 DEF CopInv, LoopInv, StartFails
  <2> QED
    BY <1>2, <2>1, DieReports, ZenonT(60) DEF CopInv, TypeOK, LoopInv, StartFails
<1> QED
  BY <1>1, <1>2

\* What the end of run() preserves.
LEMMA FinishInv ==
  ASSUME CopInv, Finish
  PROVE  CopInv'
  BY ZenonT(60) DEF CopInv, TypeOK, LoopInv, Finish, ach_notify, Exit, process

\* What taking a signal preserves.
LEMMA WaitInv ==
  ASSUME CopInv, NEW s \in achcop_signals, ach_sig_wait(s)
  PROVE  CopInv'
  BY DEF CopInv, TypeOK, LoopInv, ach_sig_wait, process, report

\* What handling a signal preserves.
LEMMA HandleInv ==
  ASSUME CopInv, Handle
  PROVE  CopInv'
<1>1. CASE Handle_SIGTERM
  <2>1. TypeOK'
    BY <1>1, ZenonT(60) DEF CopInv, TypeOK, Handle_SIGTERM, Loop, terminate_child, report
  <2>2. LoopInv'
    BY <1>1 DEF CopInv, TypeOK, LoopInv, Handle_SIGTERM, Loop, terminate_child, report
  <2> QED
    BY <2>1, <2>2 DEF CopInv
<1>2. CASE Handle_SIGHUP
  BY <1>2, ZenonT(60) DEF CopInv, TypeOK, LoopInv, Handle_SIGHUP, Loop, terminate_child, report
<1>3. CASE Handle_SIGCHLD
  BY <1>3, ZenonT(60) DEF CopInv, TypeOK, LoopInv, Handle_SIGCHLD, Loop, AfterChild, waitloop, report
<1>4. CASE Handle_SIGCHLD_early
  BY <1>4, DieReports, ZenonT(60) DEF CopInv, TypeOK, LoopInv, Handle_SIGCHLD_early, process
<1>5. CASE Handle_OK
  <2>1. TypeOK'
    BY <1>5, ZenonT(60) DEF CopInv, TypeOK, Handle_OK, Loop, ach_notify, process
  <2>2. LoopInv'
    BY <1>5 DEF CopInv, TypeOK, LoopInv, Handle_OK, Loop, ach_notify, process
  <2> QED
    BY <2>1, <2>2 DEF CopInv
<1>6. CASE Handle_default
  BY <1>6 DEF CopInv, TypeOK, LoopInv, Handle_default, Loop, process, report
<1> QED
  BY <1>1, <1>2, <1>3, <1>4, <1>5, <1>6 DEF Handle

\* What the child, the users, the alarm and the grandparent preserve.
LEMMA OutsideInv ==
  ASSUME CopInv,
         (\E s \in UserSignals : Kill(s)) \/ AlarmFires \/ Child \/ Grandparent
  PROVE  CopInv'
<1>1. ASSUME NEW s \in UserSignals, Kill(s)
      PROVE  CopInv'
  <2>1. s \in achcop_signals
    BY <1>1, UserSignalsAssumption DEF achcop_signals
  <2> QED
    BY <1>1, <2>1 DEF CopInv, TypeOK, LoopInv, Kill, Send, worker, process, report
<1>2. CASE AlarmFires
  <2>1. "SIGALRM" \in achcop_signals
    BY DEF achcop_signals
  <2>2. TypeOK'
    <3>1. pending' \subseteq achcop_signals
      BY <1>2, <2>1 DEF CopInv, TypeOK, AlarmFires, Send
    <3>2. alarm' \in BOOLEAN
      BY <1>2, Zenon DEF AlarmFires
    <3> QED
      BY <1>2, <3>1, <3>2 DEF CopInv, TypeOK, AlarmFires, worker, process, report
  <2>3. LoopInv'
    BY <1>2 DEF CopInv, LoopInv, AlarmFires, worker, process, report
  <2> QED
    BY <2>2, <2>3 DEF CopInv
<1>3. ASSUME NEW s \in {"ACH_SIG_OK", "ACH_SIG_FAIL"}, ChildReports(s)
      PROVE  CopInv'
  BY <1>3 DEF CopInv, TypeOK, LoopInv, ChildReports, Send, achcop_signals, worker, process, report
<1>4. ASSUME NEW how \in {"success", "failure", "signaled"}, ChildEnds(how)
      PROVE  CopInv'
  BY <1>4 DEF CopInv, TypeOK, LoopInv, ChildEnds, Send, achcop_signals, worker, report
<1>5. CASE ChildStops
  BY <1>5 DEF CopInv, TypeOK, LoopInv, ChildStops, Send, achcop_signals, worker, report
<1>6. CASE Grandparent
  BY <1>6 DEF CopInv, TypeOK, LoopInv, Grandparent, worker, process, report
<1> QED
  BY <1>1, <1>2, <1>3, <1>4, <1>5, <1>6 DEF Child

\* The invariant holds throughout, for any of the requests users may send and
\* any of the failures.
THEOREM CopCorrect == Spec => [](TypeOK /\ LoopInv)
<1>1. CopInv /\ [Next]_vars => CopInv'
  <2> SUFFICES ASSUME CopInv, [Next]_vars
               PROVE  CopInv'
    OBVIOUS
  <2>1. CASE Next
    BY <2>1, StartInv, FinishInv, WaitInv, HandleInv, OutsideInv DEF Next
  <2>2. CASE UNCHANGED vars
    BY <2>2 DEF CopInv, TypeOK, LoopInv, vars, worker, process, report
  <2> QED
    BY <2>1, <2>2
<1> QED
  BY InitInv, <1>1, PTL DEF Spec, CopInv

\* run() starts a child only when the one before it was waited for, however
\* SIGHUP, SIGTERM and SIGCHLD interleave.
THEOREM CopStartsAlone == Spec => []StartsAlone
<1>1. CopInv => StartsAlone
  BY DEF CopInv, LoopInv, StartsAlone
<1> QED
  BY <1>1, CopCorrect, PTL DEF CopInv

\* run() returns the status of the last child it waited for.
THEOREM CopReturnsLastStatus == Spec => []ReturnsLastStatus
<1>1. CopInv => ReturnsLastStatus
  BY DEF CopInv, LoopInv, ReturnsLastStatus
<1> QED
  BY <1>1, CopCorrect, PTL DEF CopInv

\* The grandparent is told before the worker is gone, and success only if a
\* child ended with success or was taken to have started.
THEOREM CopTellsGrandparent == Spec => []GrandparentTold
<1>1. CopInv => GrandparentTold
  BY DEF CopInv, LoopInv, GrandparentTold
<1> QED
  BY <1>1, CopCorrect, PTL DEF CopInv

=============================================================================
