----------------------------- MODULE AchChannel -----------------------------
(***************************************************************************)
(* One ach channel used by several processes at once.  Every process runs  *)
(* its call in steps, interleaved with the others: taking the robust mutex *)
(* of the channel, checking and setting the dirty bit, the blocks of       *)
(* ach_put() (as in AchRing), waiting on the condition variable, timing    *)
(* out, being cancelled.  A process in Mortal can be killed at any step;   *)
(* pc still says where it was.                                             *)
(*                                                                         *)
(* Each reader has its own handle.  A canceller is a thread that calls     *)
(* ach_cancel() with async_unsafe, or the child that ach_cancel() forks    *)
(* when it is called from a signal handler.                                *)
(***************************************************************************)
EXTENDS AchShm, FiniteSets

CONSTANTS
  Writers, Readers, Cancellers,   \* the processes
  Mortal,       \* the processes that can be killed
  Lengths,      \* lengths that callers pass to ach_put()
  GetOptions,   \* the options, timeouts and sizes readers pass to ach_get()
  ForkMayFail,  \* whether fork() in ach_cancel() can fail
  MaxSeq,       \* bound on the number of frames published
  NoOne         \* the owner of a free mutex

Procs == Writers \cup Readers \cup Cancellers

ASSUME EntriesAssumption == IndexCnt > 1
ASSUME MortalAssumption == Mortal \subseteq Procs
ASSUME NoOneAssumption == NoOne \notin Procs
ASSUME RolesAssumption ==
  /\ Writers \cap Readers = {} /\ Writers \cap Cancellers = {} /\ Readers \cap Cancellers = {}
  /\ IsFiniteSet(Writers)
ASSUME GetOptionsAssumption ==
  GetOptions \subseteq [wait : BOOLEAN, timed : BOOLEAN, last : BOOLEAN, copy : BOOLEAN, size : Nat]
ASSUME LengthsAssumption == Lengths \subseteq Nat
ASSUME MaxSeqAssumption == MaxSeq \in Nat

VARIABLES
  owner,      \* sync.mutex: who holds it
  mutex,      \* sync.mutex: whether a holder died and nobody recovered it yet
  dirty,      \* sync.dirty
  alive,      \* the processes that have not been killed
  pc,         \* per process: the step of its call to run next
  arg,        \* per process: its call and the arguments
  rc,         \* per process: its local result, of locking, waiting or reading
  idx, slot,  \* per writer: the locals idx and i of ach_put()
  ret,        \* the status a call returned, in the step in which it returned
  seq_num,    \* per reader: field of its handle
  next_index, \* per reader: field of its handle
  cancel,     \* per reader: field of its handle
  reply,      \* history: the last thing that happened to the ring, as in AchRing
  start       \* history: where each frame starts in the stream of all bytes

sync == <<owner, mutex, dirty>>
locals == <<pc, arg, rc, idx, slot>>
handles == <<seq_num, next_index, cancel>>
history == <<reply, start>>
vars == <<shm, sync, alive, locals, ret, handles, history>>

-----------------------------------------------------------------------------
(* The calls. *)

NoCall == [call |-> "none"]
NoReturn == [proc |-> NoOne, status |-> "none"]
PutCalls == [call : {"put"}, len : Lengths]
GetCalls == {[call |-> "get", opts |-> o] : o \in GetOptions}
FlushCall == [call |-> "flush"]
CancelCalls == [call : {"cancel"}, target : Readers, async_unsafe : BOOLEAN]

waits(p) == arg[p].call = "get" /\ arg[p].opts.wait

Init ==
  /\ ShmInit
  /\ owner = NoOne
  /\ mutex = "consistent"
  /\ dirty = FALSE
  /\ alive = Procs
  /\ pc = [p \in Procs |-> "idle"]
  /\ arg = [p \in Procs |-> NoCall]
  /\ rc = [p \in Procs |-> "0"]
  /\ idx = [w \in Writers |-> 0]
  /\ slot = [w \in Writers |-> 0]
  /\ ret = NoReturn
  /\ seq_num = [r \in Readers |-> 0]
  /\ next_index = [r \in Readers |-> 1]
  /\ cancel = [r \in Readers |-> FALSE]
  /\ reply = [call |-> "none"]
  /\ start = <<0>>

At(p, label) == p \in alive /\ pc[p] = label

Goto(p, label) ==
  /\ pc' = [pc EXCEPT ![p] = label]
  /\ ret' = NoReturn
  /\ UNCHANGED <<arg, rc, idx, slot>>

Return(p, s) ==
  /\ pc' = [pc EXCEPT ![p] = "idle"]
  /\ arg' = [arg EXCEPT ![p] = NoCall]
  /\ rc' = [rc EXCEPT ![p] = "0"]
  /\ idx' = [w \in Writers |-> IF w = p THEN 0 ELSE idx[w]]
  /\ slot' = [w \in Writers |-> IF w = p THEN 0 ELSE slot[w]]
  /\ ret' = [proc |-> p, status |-> s]

Call(p, a) ==
  /\ At(p, "idle")
  /\ pc' = [pc EXCEPT ![p] = "lock"]
  /\ arg' = [arg EXCEPT ![p] = a]
  /\ ret' = NoReturn
  /\ UNCHANGED <<rc, idx, slot>>

-----------------------------------------------------------------------------
(***************************************************************************)
(* The robust, process-shared mutex.  A process that dies with it leaves   *)
(* it "ownerdead"; it stays so until a holder calls                        *)
(* pthread_mutex_consistent(), and a holder that unlocks it before that    *)
(* makes it "notrecoverable".                                              *)
(***************************************************************************)

\* pthread_mutex_lock(), and the locking again at the end of a wait, which
\* returns its own result (a timeout) unless locking returned an error.
Lock(p) ==
  /\ \/ At(p, "lock") /\ pc' = [pc EXCEPT ![p] = "check"]
     \/ At(p, "relock") /\ pc' = [pc EXCEPT ![p] = "recheck"]
  /\ owner = NoOne
  /\ owner' = IF mutex = "notrecoverable" THEN NoOne ELSE p
  /\ rc' = [rc EXCEPT ![p] = CASE mutex = "ownerdead" -> "EOWNERDEAD"
                               [] mutex = "notrecoverable" -> "ENOTRECOVERABLE"
                               [] mutex = "consistent" -> @]
  /\ ret' = NoReturn
  /\ UNCHANGED <<shm, mutex, dirty, alive, arg, idx, slot, handles, history>>

\* pthread_mutex_unlock() by its holder.
Unlock ==
  /\ owner' = NoOne
  /\ mutex' = IF mutex = "ownerdead" THEN "notrecoverable" ELSE mutex

\* A process is killed.
Die(p) ==
  /\ p \in Mortal \cap alive
  /\ alive' = alive \ {p}
  /\ IF owner = p
     THEN owner' = NoOne /\ mutex' = "ownerdead"
     ELSE UNCHANGED <<owner, mutex>>
  /\ ret' = NoReturn
  /\ UNCHANGED <<shm, dirty, locals, handles, history>>

-----------------------------------------------------------------------------
(***************************************************************************)
(* check_lock(), and what its callers do with its result.  Names such as   *)
(* check_lock_keeps are mistakes that could be made in the code: they      *)
(* serve to see that the properties notice them.                           *)
(***************************************************************************)

\* Callers return the error, except that ach_put() ignores it and goes on.
LockFailed(p, s) ==
  IF arg[p].call = "put"
  THEN /\ pc' = [pc EXCEPT ![p] = "head"]
       /\ rc' = [rc EXCEPT ![p] = "0"]
       /\ ret' = NoReturn
       /\ UNCHANGED <<arg, idx, slot>>
  ELSE Return(p, s)

\* The result of waiting is taken for a new frame.
Locked_once(p) ==
  /\ pc' = [pc EXCEPT ![p] =
              CASE arg[p].call = "put" -> "mark"
                [] arg[p].call \in {"get", "flush"} ->
                     IF pc[p] = "recheck" THEN "read" ELSE "test"
                [] arg[p].call = "cancel" ->
                     IF arg[p].async_unsafe THEN "set" ELSE "unlock"]
  /\ rc' = [rc EXCEPT ![p] = "0"]
  /\ ret' = NoReturn
  /\ UNCHANGED <<arg, idx, slot>>

Locked(p) ==
  /\ pc' = [pc EXCEPT ![p] =
              CASE arg[p].call = "put" -> "mark"
                [] arg[p].call \in {"get", "flush"} -> "test"
                [] arg[p].call = "cancel" ->
                     IF arg[p].async_unsafe THEN "set" ELSE "unlock"]
  /\ rc' = [rc EXCEPT ![p] = "0"]
  /\ ret' = NoReturn
  /\ UNCHANGED <<arg, idx, slot>>

\* The mutex is kept when the wait timed out.
check_lock_keeps(p) ==
  /\ At(p, "check") \/ At(p, "recheck")
  /\ IF rc[p] = "ETIMEDOUT" THEN UNCHANGED <<owner, mutex>> /\ Return(p, "ACH_TIMEOUT")
     ELSE /\ mutex' = "consistent"
          /\ IF dirty
             THEN owner' = NoOne /\ LockFailed(p, "ACH_CORRUPT")
             ELSE UNCHANGED owner /\ Locked(p)
  /\ UNCHANGED <<shm, dirty, alive, handles, history>>

\* The mutex is not marked as consistent.
check_lock_unmarked(p) ==
  /\ At(p, "check") \/ At(p, "recheck")
  /\ IF rc[p] = "ETIMEDOUT" THEN Unlock /\ Return(p, "ACH_TIMEOUT")
     ELSE IF dirty \/ rc[p] = "ENOTRECOVERABLE" THEN Unlock /\ LockFailed(p, "ACH_CORRUPT")
     ELSE UNCHANGED <<owner, mutex>> /\ Locked(p)
  /\ UNCHANGED <<shm, dirty, alive, handles, history>>

\* The dirty bit is not looked at after a holder died.
check_lock_trusting(p) ==
  /\ At(p, "check") \/ At(p, "recheck")
  /\ IF rc[p] = "ETIMEDOUT" THEN Unlock /\ Return(p, "ACH_TIMEOUT")
     ELSE mutex' = "consistent" /\ UNCHANGED owner /\ Locked(p)
  /\ UNCHANGED <<shm, dirty, alive, handles, history>>

check_lock(p) ==
  /\ At(p, "check") \/ At(p, "recheck")
  /\ CASE rc[p] = "ETIMEDOUT" ->
            Unlock /\ Return(p, "ACH_TIMEOUT")
       [] rc[p] = "ENOTRECOVERABLE" ->
            UNCHANGED <<owner, mutex>> /\ LockFailed(p, "ACH_CORRUPT")
       [] rc[p] \in {"0", "EOWNERDEAD"} ->
            /\ mutex' = "consistent"
            /\ IF dirty
               THEN owner' = NoOne /\ LockFailed(p, "ACH_CORRUPT")
               ELSE UNCHANGED owner /\ Locked(p)
  /\ UNCHANGED <<shm, dirty, alive, handles, history>>

\* The unlocking at the end of a call.  It fails for a process that does not
\* hold the mutex.
UnlockOr(p, ok) ==
  IF owner = p
  THEN Unlock /\ ok
  ELSE UNCHANGED <<owner, mutex>> /\ Return(p, "ACH_FAILED_SYSCALL")

\* pthread_cond_signal() wakes one process only.
Broadcast_one(p) ==
  /\ At(p, "broadcast")
  /\ LET waiting == {q \in alive : pc[q] = "wait"}
     IN  IF waiting = {} THEN pc' = [pc EXCEPT ![p] = "idle"]
         ELSE \E q \in waiting : pc' = [pc EXCEPT ![p] = "idle", ![q] = "relock"]
  /\ arg' = [arg EXCEPT ![p] = NoCall]
  /\ ret' = [proc |-> p, status |-> "ACH_OK"]
  /\ UNCHANGED <<shm, sync, alive, rc, idx, slot, handles, history>>

\* pthread_cond_broadcast() wakes everyone who waits.
Broadcast(p) ==
  /\ At(p, "broadcast")
  /\ pc' = [q \in Procs |-> IF q = p THEN "idle"
                            ELSE IF pc[q] = "wait" /\ q \in alive THEN "relock"
                            ELSE pc[q]]
  /\ arg' = [arg EXCEPT ![p] = NoCall]
  /\ idx' = [w \in Writers |-> IF w = p THEN 0 ELSE idx[w]]
  /\ slot' = [w \in Writers |-> IF w = p THEN 0 ELSE slot[w]]
  /\ ret' = [proc |-> p, status |-> "ACH_OK"]
  /\ UNCHANGED <<shm, sync, alive, rc, handles, history>>

-----------------------------------------------------------------------------
(* ach_put(), past the checks of its arguments (AchRing has them). *)

\* Puts under way, each of which will publish one frame.
Putting == {w \in Writers : pc[w] # "idle"}

PutCall(w) ==
  /\ \E a \in PutCalls :
       /\ a.len \in 1 .. DataSize
       /\ Call(w, a)
  /\ last_seq + Cardinality(Putting) < MaxSeq
  /\ UNCHANGED <<shm, sync, alive, handles, history>>

\* The end of wrlock().
PutMark(w) ==
  /\ At(w, "mark")
  /\ dirty' = TRUE
  /\ Goto(w, "head")
  /\ reply' = [call |-> "none"]
  /\ UNCHANGED <<shm, owner, mutex, alive, handles, start>>

PutHead(w) ==
  /\ At(w, "head")
  /\ ClearHead
  /\ pc' = [pc EXCEPT ![w] = "free"]
  /\ idx' = [idx EXCEPT ![w] = index_head]
  /\ slot' = [slot EXCEPT ![w] = (index_head + index_free') % IndexCnt]
  /\ ret' = NoReturn
  /\ UNCHANGED <<sync, alive, arg, rc, handles, history>>

PutFree(w) ==
  /\ At(w, "free")
  /\ data_free < arg[w].len
  /\ free_index(slot[w])
  /\ slot' = [slot EXCEPT ![w] = (@ + 1) % IndexCnt]
  /\ ret' = NoReturn
  /\ UNCHANGED <<sync, alive, pc, arg, rc, idx, handles, history>>

PutCopy(w) ==
  /\ At(w, "free")
  /\ data_free >= arg[w].len
  /\ CopyIn(Buffer(last_seq + 1, arg[w].len), arg[w].len)
  /\ Goto(w, "index")
  /\ UNCHANGED <<sync, alive, handles, history>>

PutIndex(w) ==
  /\ At(w, "index")
  /\ WriteIndex(idx[w], arg[w].len)
  /\ Goto(w, "advance")
  /\ UNCHANGED <<sync, alive, handles, history>>

PutAdvance(w) ==
  /\ At(w, "advance")
  /\ AdvanceHeads(arg[w].len)
  /\ Goto(w, "clean")
  /\ reply' = [call |-> "put", status |-> "ACH_OK"]
  /\ start' = Append(start, start[Len(start)] + arg[w].len)
  /\ UNCHANGED <<sync, alive, handles>>

\* The dirty bit is left set.
PutClean_left(w) ==
  /\ At(w, "clean")
  /\ Goto(w, "unlock")
  /\ reply' = [call |-> "none"]
  /\ UNCHANGED <<shm, sync, alive, handles, start>>

\* The two halves of unwrlock() before the broadcast.
PutClean(w) ==
  /\ At(w, "clean")
  /\ dirty' = FALSE
  /\ Goto(w, "unlock")
  /\ reply' = [call |-> "none"]
  /\ UNCHANGED <<shm, owner, mutex, alive, handles, start>>

\* Nobody is told of the frame.
PutUnlock_silent(w) ==
  /\ At(w, "unlock")
  /\ UnlockOr(w, Return(w, "ACH_OK"))
  /\ UNCHANGED <<shm, dirty, alive, handles, history>>

PutUnlock(w) ==
  /\ At(w, "unlock")
  /\ UnlockOr(w, Goto(w, "broadcast"))
  /\ UNCHANGED <<shm, dirty, alive, handles, history>>

-----------------------------------------------------------------------------
(* ach_get() and ach_flush() *)

GetCall(r) ==
  /\ \E a \in GetCalls \cup {FlushCall} : Call(r, a)
  /\ UNCHANGED <<shm, sync, alive, handles, history>>

\* The frame is read after the mutex was released.
RdTest_early(r) ==
  /\ At(r, "test")
  /\ IF cancel[r]
     THEN Unlock /\ Return(r, "ACH_CANCELED")
     ELSE IF ~ waits(r) \/ seq_num[r] # last_seq
     THEN Goto(r, "read") /\ Unlock
     ELSE Goto(r, "sleep") /\ UNCHANGED <<owner, mutex>>
  /\ UNCHANGED <<shm, dirty, alive, handles, history>>

\* The body of the loop of rdlock(), up to the call that waits.  The flag can
\* be set between the two.
RdTest(r) ==
  /\ At(r, "test")
  /\ IF cancel[r]
     THEN Unlock /\ Return(r, "ACH_CANCELED")
     ELSE /\ Goto(r, IF ~ waits(r) \/ seq_num[r] # last_seq THEN "read" ELSE "sleep")
          /\ UNCHANGED <<owner, mutex>>
  /\ UNCHANGED <<shm, dirty, alive, handles, history>>

\* pthread_cond_wait() releases the mutex and waits, in one.
RdSleep(r) ==
  /\ At(r, "sleep")
  /\ Unlock
  /\ Goto(r, "wait")
  /\ UNCHANGED <<shm, dirty, alive, handles, history>>

\* The wait ends without a broadcast: by itself, or when the time is up.
WakeUp(r) ==
  /\ At(r, "wait")
  /\ pc' = [pc EXCEPT ![r] = "relock"]
  /\ \/ UNCHANGED rc
     \/ arg[r].opts.timed /\ rc' = [rc EXCEPT ![r] = "ETIMEDOUT"]
  /\ ret' = NoReturn
  /\ UNCHANGED <<shm, sync, alive, arg, idx, slot, handles, history>>

GetRead(r) ==
  /\ At(r, "read")
  /\ arg[r].call = "get"
  /\ LET o == arg[r].opts
         res == GetLocked(seq_num[r], next_index[r], o.size, o.last, o.copy, FALSE)
     IN  /\ seq_num' = [seq_num EXCEPT ![r] = res.seq_num]
         /\ next_index' = [next_index EXCEPT ![r] = res.next_index]
         /\ rc' = [rc EXCEPT ![r] = res.status]
         /\ reply' =
              [call |-> "get", handle |-> r, from |-> seq_num[r],
               opts |-> [last |-> o.last, copy |-> o.copy], status |-> res.status,
               seq |-> res.seq_num, buf |-> res.buf,
               index |-> read_index(seq_num[r], next_index[r], o.last, FALSE)]
  /\ pc' = [pc EXCEPT ![r] = "unlock"]
  /\ ret' = NoReturn
  /\ UNCHANGED <<shm, sync, alive, arg, idx, slot, cancel, start>>

FlushRead(r) ==
  /\ At(r, "read")
  /\ arg[r].call = "flush"
  /\ seq_num' = [seq_num EXCEPT ![r] = FlushLocked.seq_num]
  /\ next_index' = [next_index EXCEPT ![r] = FlushLocked.next_index]
  /\ rc' = [rc EXCEPT ![r] = FlushLocked.status]
  /\ reply' = [call |-> "none"]
  /\ pc' = [pc EXCEPT ![r] = "unlock"]
  /\ ret' = NoReturn
  /\ UNCHANGED <<shm, sync, alive, arg, idx, slot, cancel, start>>

\* unrdlock()
GetUnlock(r) ==
  /\ At(r, "unlock")
  /\ UnlockOr(r, Return(r, rc[r]))
  /\ reply' = [call |-> "none"]
  /\ UNCHANGED <<shm, dirty, alive, handles, start>>

-----------------------------------------------------------------------------
(***************************************************************************)
(* ach_cancel().  Called with async_unsafe, it locks the mutex before it   *)
(* sets the flag.  Called from a signal handler, it sets the flag at once  *)
(* and leaves the rest to the child it forks, which is the canceller.      *)
(***************************************************************************)
\* The child wakes the waiters without having had the mutex.
CancelCall_bare(c) ==
  /\ At(c, "idle")
  /\ \E a \in CancelCalls :
       /\ pc' = [pc EXCEPT ![c] = IF a.async_unsafe THEN "lock" ELSE "broadcast"]
       /\ arg' = [arg EXCEPT ![c] = a]
       /\ cancel' = [cancel EXCEPT ![a.target] = @ \/ ~ a.async_unsafe]
  /\ ret' = NoReturn
  /\ UNCHANGED <<shm, sync, alive, rc, idx, slot, seq_num, next_index, history>>

CancelCall(c) ==
  /\ \E a \in CancelCalls :
       /\ Call(c, a)
       /\ cancel' = [cancel EXCEPT ![a.target] = @ \/ ~ a.async_unsafe]
  /\ UNCHANGED <<shm, sync, alive, seq_num, next_index, history>>

\* fork() fails: the flag is set, and nobody is told.
CancelFork(c) ==
  /\ ForkMayFail
  /\ At(c, "idle")
  /\ \E r \in Readers : cancel' = [cancel EXCEPT ![r] = TRUE]
  /\ ret' = [proc |-> c, status |-> "ACH_FAILED_SYSCALL"]
  /\ UNCHANGED <<shm, sync, alive, locals, seq_num, next_index, history>>

CancelSet(c) ==
  /\ At(c, "set")
  /\ cancel' = [cancel EXCEPT ![arg[c].target] = TRUE]
  /\ Goto(c, "unlock")
  /\ UNCHANGED <<shm, sync, alive, seq_num, next_index, history>>

CancelUnlock(c) ==
  /\ At(c, "unlock")
  /\ UnlockOr(c, Goto(c, "broadcast"))
  /\ UNCHANGED <<shm, dirty, alive, handles, history>>

-----------------------------------------------------------------------------

\* The steps by which a put, a get or flush, and a cancel go on.
PutStep(w) ==
  \/ check_lock(w) \/ PutMark(w) \/ PutHead(w) \/ PutFree(w) \/ PutCopy(w)
  \/ PutIndex(w) \/ PutAdvance(w) \/ PutClean(w) \/ PutUnlock(w) \/ Broadcast(w)

GetStep(r) ==
  \/ check_lock(r) \/ RdTest(r) \/ RdSleep(r) \/ GetRead(r) \/ FlushRead(r) \/ GetUnlock(r)

CancelStep(c) ==
  \/ check_lock(c) \/ CancelSet(c) \/ CancelUnlock(c) \/ Broadcast(c)

Next ==
  \/ \E p \in Procs : Lock(p) \/ Die(p)
  \/ \E w \in Writers : PutCall(w) \/ PutStep(w)
  \/ \E r \in Readers : GetCall(r) \/ WakeUp(r) \/ GetStep(r)
  \/ \E c \in Cancellers : CancelCall(c) \/ CancelFork(c) \/ CancelStep(c)

Spec == Init /\ [][Next]_vars

(***************************************************************************)
(* A call that was begun goes on, unless its process is killed.  A process *)
(* that asks for the mutex gets it in the end although others keep asking: *)
(* the mutex has priority inheritance and is handed to a waiter when it is *)
(* released.  Nobody need begin a call, time out or wake up by itself.     *)
(***************************************************************************)
Fairness ==
  /\ \A p \in Procs : SF_vars(Lock(p))
  /\ \A w \in Writers : WF_vars(PutStep(w))
  /\ \A r \in Readers : WF_vars(GetStep(r))
  /\ \A c \in Cancellers : WF_vars(CancelStep(c))

FairSpec == Spec /\ Fairness

-----------------------------------------------------------------------------
(* The properties. *)

\* The types of the variables that AchRing does not have.
TypeOK ==
  /\ owner \in Procs \cup {NoOne}
  /\ mutex \in {"consistent", "ownerdead", "notrecoverable"}
  /\ dirty \in BOOLEAN
  /\ alive \subseteq Procs
  /\ pc \in [Procs -> {"idle", "lock", "check", "mark", "head", "free", "index", "advance",
                       "clean", "unlock", "broadcast", "test", "sleep", "wait", "relock",
                       "recheck", "read", "set"}]
  /\ arg \in [Procs -> PutCalls \cup GetCalls \cup CancelCalls \cup {FlushCall, NoCall}]
  /\ rc \in [Procs -> {"0", "EOWNERDEAD", "ETIMEDOUT", "ENOTRECOVERABLE", "ACH_OK", "ACH_BUG",
                       "ACH_OVERFLOW", "ACH_STALE_FRAMES", "ACH_MISSED_FRAME"}]
  /\ DOMAIN idx = Writers /\ DOMAIN slot = Writers
  /\ cancel \in [Readers -> BOOLEAN]

\* Where a process takes it that it holds the mutex.
Section == {"check", "recheck", "mark", "head", "free", "index", "advance", "clean",
            "unlock", "test", "sleep", "read", "set"}

\* Where a writer is changing the ring.
Changing == {"head", "free", "index", "advance", "clean"}

\* Whoever is between taking and releasing the mutex holds it, also when
\* holders die: no reader looks at the ring and no writer changes it without.
HoldsMutex == \A p \in alive : pc[p] \in Section <=> owner = p

\* "Shouldn't actually get this because we always mark the mutex as
\* consistent": no call finds the mutex ENOTRECOVERABLE.
Recoverable == mutex # "notrecoverable"

\* The dirty bit is set exactly while a writer changes the ring or was killed
\* doing so.
DirtyMarksPut == dirty <=> \E w \in Writers : pc[w] \in Changing

\* The assertions of unrdlock(), wrlock(), unwrlock() and ach_get(): what a
\* call finds once it has the lock.
AssertionsHold ==
  \A p \in alive :
    /\ pc[p] = "clean" => dirty
    /\ pc[p] \in {"mark", "read"} => ~ dirty
    /\ pc[p] = "read" => /\ seq_num[p] <= last_seq
                         /\ waits(p) => seq_num[p] # last_seq
    /\ pc[p] = "unlock" /\ p \in Readers => ~ dirty

\* A writer was killed while it was changing the ring.
Interrupted == \E w \in Writers \ alive : pc[w] \in Changing

\* "Others will detect corruption based on the dirty bit": once a put was cut
\* short, the dirty bit says so for ever.
CorruptionDetectable == Interrupted => dirty

\* No call reports ACH_CORRUPT unless a put was cut short; a reader that dies
\* with the mutex does no harm.
NoFalseAlarm == ret.status = "ACH_CORRUPT" => Interrupted

\* Once a put was cut short nobody changes the ring and nobody reads from it.
InterruptedFreezes == [][Interrupted => UNCHANGED <<shm, seq_num, next_index>>]_vars

\* The writers that have numbered their frame and not yet told those who wait.
Owing == {w \in Writers : pc[w] \in {"advance", "clean", "unlock", "broadcast"}}

\* No wakeup is lost.  A reader that waits, or is about to, has not seen at most as
\* many frames as there are writers that have yet to broadcast or were killed
\* before they did; and when a canceller broadcasts, the reader has seen the flag or
\* waits already, and is not between the two.  Until a put is cut short.
WakeupOwed ==
  ~ Interrupted =>
    /\ \A r \in Readers \cap alive : pc[r] \in {"sleep", "wait"} =>
         last_seq - seq_num[r] <= Cardinality(Owing)
    /\ \A c \in Cancellers : pc[c] = "broadcast" =>
         LET r == arg[c].target
         IN cancel[r] /\ (r \in alive => pc[r] # "sleep")

\* A reader that waits while there is a frame it has not seen stops waiting:
\* the broadcast after a put reaches it, wherever the reader was.  Unless the
\* writer was killed before its broadcast, in the put or behind it.
FrameWakes ==
  \A r \in Readers :
    (pc[r] = "wait" /\ seq_num[r] # last_seq) ~>
      (pc[r] # "wait" \/ ~ ({r} \cup Owing \subseteq alive))

\* Those who are in ach_cancel() of a handle.
Cancelling(r) == {c \in Cancellers : pc[c] # "idle" /\ arg[c].target = r}

\* While an ach_cancel() of a handle is under way, a get of it returns: the flag
\* is seen before the reader waits or the broadcast comes after it has begun to
\* wait.  The exceptions are those of the code: the canceller, or the child it
\* forked, is killed, or a put was cut short and the channel is corrupt.
CancelEnds ==
  \A r \in Readers :
    (cancel[r] /\ pc[r] # "idle" /\ Cancelling(r) # {}) ~>
      (pc[r] = "idle" \/ Interrupted \/ ~ ({r} \cup Cancelling(r) \subseteq alive))

\* Every put returns, whoever dies holding the mutex.
PutReturns ==
  \A w \in Writers : (pc[w] # "idle") ~> (pc[w] = "idle" \/ w \notin alive)

=============================================================================
