# Ach in TLA+

Ach is an inter-process communication library for Linux: a *channel* is a block
of shared memory to which processes publish frames and from which others read
them.  A reader that is slow loses old frames and is told so; a writer never
waits for a reader.  This directory holds TLA+ models of Ach, model-checked with
TLC, and proofs about them checked with TLAPS.

Paths below are relative to the directory that holds `src/`, the repository.

## The parts of the system

| Part | Code | State | Operations |
|---|---|---|---|
| ring of a channel | `src/src/ach.c`, `src/include/ach.h` | `ach_header_t` (counts and heads), index array, data array; per handle `seq_num`, `next_index` | `ach_put`, `ach_get`, `ach_flush` |
| synchronisation of a channel | same | robust mutex, condition variable, `dirty`; per handle `cancel` | `chan_lock`, `rdlock`, `wrlock`, `unrdlock`, `unwrlock`, `check_lock`, `ach_cancel` |
| life cycle of a channel | same, `src/src/achtool.c` | the shared memory file, mappings, `magic` and the guard words | `ach_create`, `ach_open`, `ach_close`, `ach_unlink`, `ach_chmod`, `ach_dump`, and the `ach` commands |
| achcop supervisor | `src/src/achcop.c` | flags of `run()`, the child, pending signals, pid files and their locks | `run`, `start_child`, `waitloop`, `terminate_child`, `lock_pid`, `write_pid`, signals |
| detaching, notification | `src/src/achutil.c` | who is to be notified | `ach_detach`, `ach_notify`, `ach_die`, `ach_sig_wait` |
| achd client and server | `src/src/achd/client.c`, `achd.c` | connection, headers, the local channel, descriptors | connect, handshake, reconnect, serve |
| achd transports | `src/src/achd/transport.c`, `io.c` | frame buffer, sockets | push and pull over TCP and UDP |
| pipe frames | `src/src/pipe.c` | a frame buffer | encode and decode a size, allocate |
| achpipe, achlog, achcat | `src/src/achpipe-bin.c`, `achlog.c`, `achcat.c` | frame buffer, files, threads | publish, subscribe, answer commands, log, stop |
| bindings, benchmark, streams | `java/`, `python/`, `cpp/`, `lisp/`, `ach-bench.c`, `ach_stream.c` | none of their own | single library calls |

A writer takes the channel's mutex, sets the dirty bit, changes the ring, clears
the bit, releases the mutex and wakes all waiters.  A reader takes the same
mutex, waits on the condition variable if there is nothing new, copies one frame
out and moves its own handle on.  When a process dies with the mutex, the next
one to lock it marks it consistent and looks at the dirty bit to tell whether
the ring can still be used.  The programs are users of that library: `achd`
copies frames between channels of two hosts, `achlog` and `achpipe` between a
channel and a file or pipe, and `achcop` keeps such a program running.

## Modules

| Module | What it models |
|---|---|
| `AchShm` | The shared memory and the straight-line code on it: `free_index`, the copying in and out, the counts, the choice of the entry to read. |
| `AchRing` | Sequential use of one channel. `ach_put` runs in steps, one per block of its code; a get, a flush and a reopening are one step each. |
| `AchPubSub` | What a channel promises: a stream of frames of which the newest are retained, and cursors into it. No ring. |
| `AchChannel` | Concurrent use: every process goes through locking, the dirty bit, the blocks of `ach_put`, waiting, timing out, cancelling; any process in `Mortal` may be killed at any step. |
| `AchChannelRing` | How the state of `AchChannel` is seen as a state of `AchRing`. |
| `AchCop` | The supervisor: the loop of `run()`, its child, the signals pending for it, and the grandparent that `ach_detach` leaves waiting for a report. |
| `AchCopPid` | Several achcop commands on the same pid files, from `main()` to the children: detaching, locking, writing the files, starting, ending and being killed. |
| `AchLife` | The file behind one channel name: creating, opening, using, dumping, changing the mode, closing and removing it, one step per system call or visible group of stores. |
| `Achd` | One achd client and the servers of its connections: handshake, the four transport loops at both ends, reconnecting, and a network that breaks connections and loses datagrams. |
| `AchTools` | achlog, achpipe and achcat between channels and files or pipes, with the encoding of pipe frames. |
| `MCAchRing`, `MCAchChannel`, `MCAchCop`, `MCAchCopPid`, `MCAchLife`, `MCAchd`, `MCAchTools` | Instances for TLC. |
| `AchRingProofs` | The invariant of `AchRing`, the theorems about it, and that it implements `AchPubSub`. |
| `AchCopProofs`, `AchCopPidProofs` | The theorems about `AchCop` and `AchCopPid`. |
| `AchChannelProofs` | The invariant of `AchChannel`, that its steps keep it, and what follows. |
| `AchChannelRingProofs` | That `AchChannel` implements `AchRing`, and with the theorems about the ring also `AchPubSub`. |
| `AchLifeProofs`, `AchdProofs`, `AchToolsProofs` | The invariants of `AchLife`, `Achd` and `AchTools`, and the theorems about them. |

`AchRing` and `AchChannel` both extend `AchShm`, so that the code on the shared
memory is written once.  `AchRing` implements `AchPubSub` (`ImplementsPubSub`)
and `AchChannel` implements `AchRing` (`ImplementsRing`), where the put of the
ring is the put of the one writer that is between the setting and the clearing
of the dirty bit (`AchChannelRing` has that mapping).  Together: concurrent calls,
some of whose callers are killed, have the effect of sequential calls on an
abstract channel.

`Achd` and `AchTools` use channels only through that promise: a channel there is
the sequence of its frames, the newest `Depth` of which can be read, and a get
returns the next, the last or the oldest one left; that this is what `AchPubSub` promises
is proved (`SourceIsTheChannel`, `ToolsUseTheChannel`).  `AchLife` is about the file
before and around all this: who gets a handle, and to what.  `AchCopPid` and
`AchCop` share the program achcop: the first has several of them and their files,
the second the signals of one.

### How the models correspond to the code

* A variable has the name of the C field or local it stands for.  `pc`, `arg`,
  `rc` and `ret` of `AchChannel` are the program counter, the arguments, a local
  result and the returned status of a process's call.
* Bytes are pairs of a frame number and a place in the frame, so every mixing of
  frames shows.
* `start` is a history variable: `start[s]` is where frame `s` begins in the
  stream of all bytes ever published.  It lets the properties say which bytes
  and entries should be where.  `reply` is the result of the last call.
* The mutex is `owner` and `mutex` (`consistent`, `ownerdead`,
  `notrecoverable`) with the POSIX rules for robust mutexes.  Unlocking a mutex
  one does not hold fails, as it does for robust mutexes.
* `pthread_cond_wait` releases the mutex and begins to wait in one step
  (`RdSleep`); the test before it is a step of its own (`RdTest`), because
  `ach_cancel` from a signal handler sets the flag without the mutex.  A wait
  ends by a broadcast, by itself, or by a timeout; then the mutex is locked
  again.
* `ach_cancel` from a signal handler sets the flag and forks; the canceller of
  the model is then the child, and the parent's return is part of the call.
* In a channel with one index entry a new handle reads entry 1, which lies past
  the array (`next_index` starts at 1).  What is found there is a
  nondeterministic choice (`stray`).  `AchChannel` assumes `IndexCnt > 1`, which
  excludes this.
* The assertions of the code are not guards: a build with `NDEBUG` does not have
  them.  `AssertionsHold` and `ReadIndexInRange` state them as properties; the
  second one fails, see `ring_one_entry`.
* A get with `ACH_O_COPY` that passes over frames may return `ACH_OK` or
  `ACH_MISSED_FRAME` in `AchPubSub` (`DeliverStatus`): `ach.h:260` promises the
  first, the code and `AchRing` return the second.
* In `AchCop` `gp_parent` says that the second `fork` of `ach_detach` failed, so that
  the worker is a child of the grandparent; `ach_die` does not notify its parent.
* The guard words are not modelled, since no call writes them after
  `ach_create`; nor are failures of pthread calls that a valid mutex does not
  give (the `default` case of `check_lock`).
* In `AchLife` a file is an inode with a length, a magic number, the counts of its
  header, the counts its guard words were placed for, and whether its mutex was
  initialised.  The lengths are those of the code, so that reading past a mapping
  or past the file is a matter of arithmetic: `Beyond` gives what it may lead to.
  A process killed from outside is one that takes no further step.
* In `Achd` a frame is its number.  Over TCP it travels as a header and a piece of
  data, which a broken connection can separate; over UDP as one datagram.  Both
  ends run the same handlers, so `Handle(e)` is written once for the client and for
  each server.  The descriptors of the client are numbers the kernel gives out, as
  the code keeps polling old ones.  `deaf` is the signal that comes between the
  test of the flag and the blocking call, or whose `ach_cancel` fails while the client
  waits in `ach_get`.  `sent` and `dest` are histories.
* In `AchTools` a stream is a sequence of units (header, data, junk, commands) and
  a size is the sequence of its bytes.  The shift of a byte by 32 bits and more in
  `ach_pipe_get_size` is undefined: such a byte may be lost, or add bits to the one
  four below, as machines have it that shift by the rest of dividing by 32
  (`LowByte`).  `achpipe` waits in `fread` at `read` and `data`; `deaf` is the signal
  that came too early to interrupt it.
* In `AchCopPid` a lock belongs to a process, is not passed on by `fork` and goes
  when the process ends, as `lockf` has it.  `orphaned` records the files whose
  supervisor ended before its child.
* Definitions whose name ends in a mistake (`free_index_leaks`,
  `Broadcast_one`) are faults that could be made in the code.  They are used
  nowhere; putting one in the place of the definition after it makes a property
  fail, which shows that the property says something about that code.

## Runs

All run with `tlc -config <cfg> <module>`.

| Run | Configuration | Instance | Checks | Result |
|---|---|---|---|---|
| ring | `MCAchRing.cfg` | 3 entries, 6 bytes, 1 handle, 5 frames | `IndexConsistent`, `FramesIntact`, `KeepsAllThatFits`, `ImplementsPubSub` | holds |
| ring_one_entry | `MCRingOneEntry.cfg` | 1 entry, 1 handle, 2 frames | `ReadIndexInRange` | violated |
| channel_reader_dies | `MCChannelReaderDies.cfg` | 2 writers, 2 readers, one mortal, 2 frames | `HoldsMutex`, `Recoverable`, `WakeupOwed`, `ImplementsRing` | holds |
| channel_death | `MCChannelDeath.cfg` | 1 mortal writer, 1 reader, 1 mortal canceller, 2 frames | `AssertionsHold`, `NoFalseAlarm`, `WakeupOwed`, `InterruptedFreezes`, `CancelEnds`, `FrameWakes`, `PutReturns` | holds |
| channel_put_after_death | `MCChannelPutAfterDeath.cfg` | 2 writers, one mortal | `CorruptionDetectable` | violated |
| cop | `MCCop.cfg` | SIGTERM and SIGHUP, child may be stopped, starting may fail | `StartsAlone`, `ReturnsLastStatus`, `GrandparentTold`, `HupRestarts`, `TermEndsWithoutHup` | holds |
| cop_pid | `MCCopPid.cfg` | 3 commands, 2 files, 5 processes | `OneSupervisor`, `FilesName`, `OneChild` | holds |
| life | `MCLife.cfg` | 3 processes, 2 inodes, 4 programs run | `OpenedComplete`, `CorruptOnlyIfClobbered`, `MadeServes`, `FaultExplained` | holds |
| life_page | `MCLifePage.cfg` | a channel that fills a page | `CorruptIsDamaged` | violated |
| achd | `MCAchd.cfg` | push and pull, TCP and UDP, with and without `-r`; 2 connections, up to 3 frames | `WholeFrames`, `DeliveredOnce`, `PullInOrder`, `PollsOwnSocket`, `TermEnds`, `WrittenArrives`, `PullLeavesLost` | holds |
| achd_udp_stuck | `MCAchdUdpStuck.cfg` | `achd -r -t udp pull`, 2 connections | `PullLeavesLostUDP` | violated |
| tools | `MCTools.cfg` | all seven command lines, 2 channels, up to 3 frames | `OutputFaithful`, `OutputInOrder`, `OneReplyPerCommand`, `PublishesInput`, `SignalEnds`, `Logged` | holds |

`channel_death` has no second writer, so `InterruptedFreezes` speaks of
readers and cancellers there; what a second writer does to a corrupt channel is
the subject of `channel_put_after_death`.  `WakeupOwed` is what safety can say
of `FrameWakes` and `CancelEnds`, and says it also of writers that die between
`unwrlock`'s unlock and its broadcast, of which the code promises nothing: their
frames, and no others, may be slept over until the next put, and `FrameWakes` leaves
them out.  That a broadcast has to reach all readers, not one, shows in
`channel_reader_dies`, which has two.

What processes that open a name may meet is split in two in `life`.  Without `-t`
everything is in order: nobody gets a handle before the file is complete
(`OpenedComplete`), nobody is told that it is corrupt
(`CorruptOnlyIfClobbered`), and once made it serves whoever holds it, even after
its name was removed (`MadeServes`).  The exceptions of the properties are what
the code leaves open: `-t` re-makes the same file under open handles although
`ach.h:322` speaks of removing it, and an `ach_open` that comes between
`shm_open` and `ftruncate` dies of its first read (`FaultExplained`).

In `achd` the exceptions are stated in the properties too: a blocking call that
missed the signal, an `ach_cancel` that failed (`achd.c:738`), and the empty loop of
`achd_write` (`TermEnds`), a datagram cut
to the buffer (`WholeFrames`), a UDP socket left open when the headers could not
be sent (`PollsOwnSocket`).  Over TCP a frame that is sent again was not delivered
before (`DeliveredOnce`), which the comment at `client.c:132` leaves open.  A client
that is signalled in its reconnect sleep connects once more before it looks at the flag
again.

In `tools` they are: `achpipe` waits in `ach_get` and its handler wakes nobody, or waits in
`fread` for input after a signal it missed (`achpipe-bin.c:347`, `408`), or achlog's
`ach_cancel` failed (`SignalEnds`); a frame whose size takes a fifth byte, which is written
with the right header but cut, and published in part with nothing after it
(`OutputFaithful`, `PublishesInput`); the empty frame that the first get of `achpipe` lets
through; and the line `achcat` has read when its put fails.  In `cop` it is the worker
whose second `fork` failed: when it dies the grandparent is not told and waits for its
alarm (`GrandparentTold`).

### Bounds

`MaxSeq` bounds the number of frames and is a guard of the put.  In `ring` five
frames of up to six bytes go around a ring of three entries almost twice, the
index fills before the data and the data before the index, and frames start and
end at every place of the data array.  What more frames would do is the subject
of the proofs, which have no bound on them.  The data size is a multiple of
the number of entries, as `ach_create` makes it.  In the channel runs the ring
has two entries and two bytes: the ring itself is covered by `ring`, and what
matters there is that a put can drop frames, fill the ring and wrap.  Two writers
and two readers are enough for a process to be passed over, to be woken for nothing,
and to find a mutex whose holder died while another one waits for it.

The supervisor needs no bound: its signals form a set, and one child looks like
the next, so its state is finite as it is.  SIGINT is left to the
proofs; the code handles it with SIGTERM, in one `case`.

Three commands are enough for two to meet at a lock that a third one is giving up;
five processes let a detached and a plain command run and one child be replaced.
Three processes and four programs let a file be made, removed and made again while
a client holds the first; the two sizes of channels are one page and two pages.
Two connections show one reconnection with the old server still there; the frames
of each command line cover the sizes that the code tells apart.  `WireCap` bounds
what is in flight: a full connection makes a writer wait, and datagrams beyond it
are lost.  In `tools` a frame fits the first buffer or does not, a channel keeps two
frames so that a third is missed, and the inputs end or go wrong at each place.
A byte has two values, so that a size of 5 takes three bytes and one of 16 the fifth;
`Others` says which frames other programs put for each tool.

`CHECK_DEADLOCK FALSE` appears where the system may stop: the puts are bounded
by `MaxSeq`, a killed process does nothing, and a supervisor, a client or a tool
may end.

### Fairness

`FairSpec` is used for the liveness properties.  A call that was begun goes on
(weak fairness of its steps) unless its process is killed, which is what the
scheduler gives a runnable process.  A process that asks for the mutex gets it
in the end although others keep asking (strong fairness of `Lock`): the mutex is
created with priority inheritance and the kernel hands it to a waiter when it is
released.  Nobody need begin a call, time out or wake up by itself, so a wait
that ends does so because of a broadcast.

In `AchCop` the worker goes on and takes some pending signal (weak fairness).
SIGCHLD and SIGTERM, which Linux takes after the others, are not passed over for
ever (strong fairness): users and the child are not assumed to send signals faster
than they are handled.  A child that was sent SIGTERM ends.  It is the
child's part of the manual's promise, and nothing in achcop enforces it.

In `Achd` and `AchTools` every process or thread that can go on does so (weak
fairness of each); nothing is assumed of publishers, the network, signals or other
programs.  In `Achd` no fairness is assumed of `GetFrame`: for a status that it does not
know, `get_frame` logs and calls `ach_get` again, so that it may never get a frame.  In
`AchTools` none is assumed of what reads standard input (`Reading`): nothing may ever
arrive there.  `AchLife` and `AchCopPid` have safety properties only.

### What the violated runs show

* **ring_one_entry** - `ach_open` sets `next_index` to 1 (`ach.c:682`).  In a channel with
  one entry the first get of a new handle takes it for the entry to read, and
  `assert( index_offset < shm->index_cnt )` (`ach.c:701`) fails.
* **channel_put_after_death** - `ach_put` ignores the result of `wrlock`.  On a
  channel whose writer died in the middle of a put it works on the ring without
  the mutex, and clears the dirty bit by which "others will detect corruption".
* **life_page** - `ach_create` makes room for three guard words, `ach_open` maps the
  file without them, and only the rounding to pages makes them readable.  With 16
  frames of 212 bytes header, index and data end with a page: `ach_open` dies or
  returns `ACH_CORRUPT` for a channel that is in order.
* **achd_udp_stuck** - a client that finds a datagram and the end of the connection
  in one poll reconnects and then goes to `recvfrom` on the new socket, because the
  old `revents` still says so.  It blocks there and does not see that the new
  connection is lost, although `-r` was given.

### Deviations without a run of their own

These came out of the models too.  The properties state them as exceptions, or the
instances leave them out.

* A successful get with `ACH_O_COPY` returns `ACH_MISSED_FRAME` when frames were
  passed over, while `ach.h:260` says `ACH_OK`; `AchPubSub` allows both.
* On a channel whose writer died in the middle of a put, `ach_cancel` fails to lock
  and does not wake a reader (`CancelEnds`), so achlog hangs in its join
  (`SignalEnds`).
* When SIGHUP and SIGTERM are both taken before the child has ended, `run()` starts
  it again and forgets the SIGTERM (`TermEndsWithoutHup` excludes SIGHUP).
* A stopped child raises SIGCHLD, `waitloop` takes it for an error, and the
  supervisor dies with its child alive (`OneChild` excludes orphans).
* `achd -l` falls through to the case of `-f` (`achd.c:151`), where `optarg` is null, and
  ends in `strdup`; `last` in `Achd` comes from `-u`, or from the other end.
* `get_frame` does not "abort on other errors" (`transport.c:121`): it repeats the get.

## Proofs

`tlapm <module>` checks them; nothing is left without a proof.

### The ring (`AchRingProofs`)

`RingCorrect` shows that `RingInv` always holds, for every number of index
entries and every data size above zero (`IndexCntAssumption`,
`DataSizeAssumption`), all sets of lengths and of buffer sizes that are sets of
natural numbers (`LengthsAssumption`, `SizesAssumption`), any set of handles, and
any bound on the number of frames (`MaxSeqAssumption`).  From it follow:

| Theorem | Says |
|---|---|
| `TypeCorrect` | counts, offsets and locals stay in the range of their arrays; no unsigned count wraps |
| `IndexAlwaysConsistent` | at every step of a put, header and index array describe exactly the retained frames |
| `FramesStayIntact` | no put overwrites a byte of a frame still in the index |
| `DropsOnlyForRoom` | between puts, the most frames that fit are retained |

None of these is inductive alone.  `RingInv` adds what connects them:

* `StartIncreasing` - frames follow one another in the stream without a gap, so
  that two frames share a byte of the data array only if they are `DataSize`
  apart;
* `PutLocals` - what each step of a put has established for the next: the entry
  at the head is empty, there is room for the frame, its bytes are in place, its
  entry is written.  Without it the step that advances the heads would publish
  anything;
* `DroppedForRoom` - during a put, the last frame dropped had to be dropped,
  which becomes `KeepsAllThatFits` when the put ends;
* `HandlesInStep` - the cached index of a handle agrees with its sequence number.

There is one lemma per action (`PutCallStep` ... `PutAdvanceStep`, `GetStep`,
`HandleStep`), combined in `NextInv`.  Those about copying rest on `CopyInAt`,
which says what each byte of the data array is after the two `memcpy` of a frame
that wraps, and all rest on lemmas about `%`, which the provers do not know
(`ModShift`, `ModDistinct` and others): sums and distinctness modulo the size of
an array.  `ReadIndexFinds` shows that the search of `ach_get` finds the entry of
the frame it should.

Two say what gets do, again for every number of entries, and one needs more than one
entry (with one, a new handle reads past the index array):

| Theorem | Says | If |
|---|---|---|
| `GapsAreReported` | a get never moves a handle back, and one that passes over frames returns `ACH_MISSED_FRAME` | |
| `ReadsAstrayOnlyWhenNew` | `ach_get` looks past the index array only in a channel with one entry, for the next frame of a handle that has read nothing, and then returns no frame and leaves the handle as it was | |
| `RefinesPubSub` | the ring implements `AchPubSub` | `IndexCnt > 1` |

A put is a publication at its last step, and nothing before (`PutRefines`).  A get is
what the abstract channel allows (`GetRefines`): the frame it finds is the one wanted
(`WantsFound`, which needs `KeepsAllThatFits` to know that no older frame is
retained), and its bytes, copied out in one piece or two, are those that were put
(`CopyOutFrame`, from `FramesIntact`).

### The channel (`AchChannelProofs`)

For any finite set of writers and any sets of readers and cancellers, all sets of
lengths and options, and any set of processes that may be killed:

| Theorem | Says |
|---|---|
| `RecoverableHolds` | the mutex is never left unrecoverable, however many holders die |
| `NoFalseAlarmHolds` | `ACH_CORRUPT` is returned only after a writer was killed in a put |
| `ExclusiveHolds` | until a put is cut short, whoever is in a critical section holds the mutex, and the dirty bit is set exactly during puts |
| `HoldsMutexHolds`, `DirtyMarksPutHolds` | both hold throughout if no writer can be killed |
| `AssertedUntilCut` | until a put is cut short, the assertions in the code hold |
| `AssertionsAlwaysHold` | they hold throughout, if a put that is cut short is the last |
| `CutPutFreezes` | then nobody changes the ring or reads from it after such a put |
| `CorruptionIsDetectable` | and the dirty bit stays set |
| `NoWakeupLost` | no wakeup of a reader is lost (`WakeupOwed`) |

Exclusion cannot be claimed without the condition: `ach_put` ignores the result of
`wrlock`, so after a put was cut short the next one works without the mutex
(`channel_put_after_death`).  Nor is it inductive.  `IInv` adds:

* `Roles` - each process is in a call of its kind, and in a step of that call;
* `Results` - what locking and waiting returned is still there when `check_lock`
  looks at it;
* `Mutex` - the owner is alive and in a critical section; a mutex found ownerdead
  is recovered by its holder before anything else, so that nobody unlocks it in
  that state, which would make it unrecoverable;
* `Cleared` - the locals of a put before their first use;
* `Exclusive` - exclusion and the dirty bit, until a put is cut short.

A step that touches only the locals of its process keeps what is said of the
others (`LocalIInv`); on it rest the lemmas for a holder of the mutex
(`HolderIInv`) and for a process outside (`StayIInv`).  `LockIInv`, `CheckIInv`,
`PutMarkIInv`, `PutCleanIInv`, `PutUnlockIInv`, `BroadcastIInv` and `DieIInv` have
the steps that change who holds the mutex, the dirty bit or several processes.

What follows a put that was cut short is only as good as the next put.  `ach_put` goes
on when `wrlock` reports the corruption, so the last three theorems assume `LastPut`:
there is one writer, or none is killed.  `channel_put_after_death` shows that two
writers, one of them killed, break `CorruptionDetectable`.  The theorems rest on three
more invariants:

* `Numbers` - sequence numbers in the index and in the handles are none that was not
  given out yet;
* `New` - a reader that was to wait comes to read only when there is a frame it has not
  seen, which is what `ach_get` asserts; it holds until a put is cut short;
* `Frozen` - after a put was cut short the dirty bit is set and nobody alive is past
  `check_lock`.

`EveryStep` sorts the steps into those of a put on the ring, those of a get or flush,
and those that leave ring and handles alone (`StepOf`); each invariant is then shown for
the three sorts rather than for each action.

`NoWakeupLost` needs no condition; it speaks of the time until a put is cut short.
Its invariants are

* `Flagged` - a canceller that will not come back to the flag of its target has set it;
* `Waking` - a reader that is about to wait has seen all frames; one that waits has not
  seen at most as many as there are writers in `Owing`; and when a canceller broadcasts,
  its target is not between the test and the wait.

A put adds one to `last_seq` and its writer to `Owing` in the same step; writers leave
`Owing` only by the broadcast, after which nobody waits; and a canceller locks the mutex
between setting the flag and the broadcast, which no reader between test and wait lets
it do.  Each way to change who waits has a lemma (`LockWakes`, `BroadcastWakes`,
`PutWakes`, `ReaderWakes`, `CancelWakes`).  A killed writer stays in `Owing`, as its
frame is announced by nobody.

Assumed of the channel are that the kinds of processes are disjoint (`RolesAssumption`,
`NoOneAssumption`, `MortalAssumption`) and the types of the options, the lengths and
`MaxSeq`.

### The channel implements the ring (`AchChannelRingProofs`)

`RefinesRing` shows `ImplementsRing` if no writer can be killed (`WritersSurvive`);
readers and cancellers may die anywhere.  By exclusion there is at most one writer
between the setting and the clearing of the dirty bit, so that the put of the ring
is well defined (`RingBusy`, `RingIdle`); the setting is `PutCall` of the ring
(`MarkStep`), the blocks of the put are its blocks (`BlockStep`), a get or a flush
reads while no put is under way (`ReadStep`), and all other steps leave the ring
alone or make it forget its last reply (`QuietStep`).  `MaxSeq` bounds the puts of the
channel when they are called and those of the ring when they begin, hence `Bound`:
the frames published and those of the puts under way together are within it.

What the refinement rests on is that no put was cut short, not that no writer dies.
So `RingStep` shows each step before that point to be one of the ring, with writers
that die anywhere else, and the invariant of the ring is carried along it
(`RingUntilCut`):

| Theorem | Says | If |
|---|---|---|
| `FramesKeptUntilCut` | header and index describe exactly the retained frames, their bytes are those that were put, and between puts no frame that fits was dropped, until a put is cut short | |
| `SeenInOrderUntilCut` | no get moves a handle back, and one that passes over frames says so, until a put is cut short | |
| `ReadersSeeInOrder` | the same for ever | `LastPut` |
| `ChannelKeepsFrames` | the first for ever | `WritersSurvive` |
| `ChannelRefinesPubSub` | the interleaved, waiting, timed out and cancelled calls of any number of processes are calls of the abstract channel | `WritersSurvive` |

They cite the theorems of the ring through an instance of `AchRingProofs`, whose
assumptions are shown to hold.

### The supervisor (`AchCopProofs`)

`CopCorrect` shows `TypeOK` and `LoopInv` for every set of requests that users
send and all failures in the model, a stopped child included.  `CopStartsAlone`,
`CopReturnsLastStatus` and `CopTellsGrandparent` follow, the last with the worker whose
second `fork` failed as its exception (`DieReports` says what `ach_die` does).  `LoopInv` says that the
loop returns to its top only to start a child or to end, not both, and only after
the child was waited for; `StartsAlone` is not inductive, as it says nothing of
the flags while the loop waits.  The only assumption used is that users send
requests and no reports (`UserSignalsAssumption`).

### The pid files (`AchCopPidProofs`)

For every set of commands, files and command lines, and any number of processes:

| Theorem | Says |
|---|---|
| `OneSupervisorHolds` | no two supervisors work on the same file |
| `FilesNameHolds` | the files of a supervisor that waits name it and its child, or are empty |
| `OneChildHolds` | two children of one file live together only if a supervisor ended before its child |
| `HolderWritesHolds` | a file changes only by the holder of its lock |

The inductive invariant `IInv` says that process ids are not shared (`Pids`),
that whoever is past `lock_pid` has the lock (`Held`), and what its files hold from
its first write on (`Written`).  `Held` with `Pids` gives `OneSupervisor`: two
supervisors of a file would be the same process.  `Written` needs `OneSupervisor`,
as otherwise another supervisor could write the file in between.  `OneChild` rests
on a second invariant, `Owned`: a living child belongs to a supervisor that runs or
its file is `orphaned`.  The assumptions used are `FileAssumption`,
`CommandAssumption` and `MaxPidAssumption`.

### The life of a channel's file (`AchLifeProofs`)

For any number of processes, files and programs, all counts, and any sizes of a page, a
header and an index entry:

| Theorem | Says |
|---|---|
| `OpenedIsComplete` | a handle from `ach_open` is to a file that `ach_create` has finished, unless `-t` re-makes it |
| `CorruptIsClobbered` | `ACH_CORRUPT` is returned only for a file opened with `-t` |
| `MadeFileServes` | a file that was made is not refused, nor does touching it kill, afterwards, unless `-t` re-makes it |
| `FaultIsExplained` | touching a file kills only after `-t`, or before the file has a length |

The last three assume `GuardsMapped`: for the counts that channels are made with, the
pages that `ach_open` maps reach the end of the guard words.  The code does not see to
that; it holds for the channels of `life` and fails for the one of `life_page`, which is
what that run shows.  `OpenedIsComplete` needs no such assumption.

The inductive invariant `IInv` says, of files that were not opened with `-t`, that one
process at most makes each (`OneMaker`), how far it is (`Stages`: length, mutex, counts,
guard words, in the order of `ach_create`), that the magic number comes last
(`MagicLast`), and what one who has read the magic number has mapped (`Openers`).
`OneMaker` is why `O_EXCL` matters.  `StepResults` says which results a step can give,
from which the action properties follow.

### achd (`AchdProofs`)

For all command lines, sequences of frames, depths of channels and any number of
connections, whatever is lost, broken or stopped, and without further assumptions:

| Theorem | Says |
|---|---|
| `FramesStayWhole` | a frame at the destination is one whole frame of the source, or a cut datagram |
| `DeliversOnce` | over TCP no frame is delivered twice |
| `PullsInOrder` | over TCP a pulling client keeps the order of the source |
| `PollsTheSocket` | over UDP a client polls the socket it receives on, unless one was left open |

The inductive invariant `IInv` follows a frame from the source to the destination:

* `Places` - where client and servers can be, with a socket or without, and where a
  client goes on after it has connected again;
* `Buffers` - who has a frame to write has the frame of its cursor, also while it dials
  again; who puts a frame has header and data of the same one;
* `Stream` - on a connection headers and data take turns, the data is that of the header
  before it, the receiver is at the right one of the two, and what the sender writes next
  fits what it wrote last.  A frame written in part is followed by nothing: the sender has
  left that connection or it is lost;
* `PushOnce` - pushing, a frame is in one place only: still to be written, on its way on
  one connection, or at the destination;
* `PullOrder` - pulling, what was put, what the client holds, what is on its way and what
  the server writes follow one another.  Servers of earlier connections may still send,
  but the client reads only from the last.

A step that adds nothing to a connection and takes nothing from it keeps all of this
(`QuietStep`), with one lemma per part; left are the steps that write a unit
(`WrittenStep`), read one (`ReadStep`), put a frame (`PutFrameStep`) and connect
(`ConnectStep`).  `PollsTheSocket` has an invariant of its own, `Descriptors`: the
first connection takes numbers 1 and 2 and the channel 3, so that closing both sockets
makes the kernel give 1 and 2 again.

`SourceIsTheChannel` closes the gap between this model and the channel: whether there is a
frame to send, and which, is what `AchPubSub` promises (`Nothing`, `Wanted`) of a channel
that keeps `Depth` frames, for the options that `get_frame` passes.

### achlog, achpipe and achcat (`AchToolsProofs`)

For any channels, frames of any size, inputs, sizes of buffers and depths:

| Theorem | Says |
|---|---|
| `OutputIsInOrder` | what is written of a channel is in its order, again only by `achpipe -c` |
| `EveryCommandAnswered` | one reply was written for each command that was read |
| `OutputIsFaithful` | header, data and length written are those of the frame published, unless the size takes a fifth byte: then the header is right and the data are cut |
| `InputIsPublished` | what is put is what was read, once, in order and whole, and fits the buffer; of a frame whose size takes a fifth byte a part is put, and nothing after it |

`SizeRoundTrip` shows that a size of up to four bytes is read back as it was written, in
any base, `SizeTypes` that nothing larger is ever read.  Assumed of the input is
only that data in a stream are those that the header in front announces
(`StreamAssumption`); it may end, break off or go wrong anywhere.

`IInv` says where the threads of each tool can be (`Places`), that handles and output are
not ahead of the channel (`Seen`), what a thread that is about to write holds (`Holding`:
a frame of the channel newer than all written, or the same one on command, or the empty
frame that `t0` lets through), how many replies were written at each place of the loop
(`Replies`), and how much of the input was put there (`Putting`, with `Part` for a frame
that was cut, after which what is found next is no header).  `Room` adds that a buffer
is as large as what is in it and what a header announced.  `ToolsUseTheChannel` does for
the channels of the tools what `SourceIsTheChannel` does for achd, with the options of each
command of `achpipe -c`.

### Only model-checked

* The liveness properties `CancelEnds`, `FrameWakes`, `PutReturns`, `HupRestarts`,
  `TermEndsWithoutHup`, `TermEnds`, `WrittenArrives`, `PullLeavesLost`, `SignalEnds`
  and `Logged`: fairness and `ENABLED` are out of the prover's reach.  `NoWakeupLost`
  is the part of `FrameWakes` and `CancelEnds` that is safety.
* What the violated runs show, each on its instance.

All invariants and action properties of the passing runs are proved, under the conditions
named above; the inductive invariants were model-checked on these instances before.

## Not modelled

* Channels on the heap (`map_anon`), the check of channel names, and the order in
  which a machine makes the stores of `ach_create` visible: `AchLife` takes them in
  program order, as x86 does.
* The text of headers and command lines, redirected output, logging, the gzip pipe
  of achlog.
* The `_loud` variants of the library calls, copies with tracing output.
* `ach_stream.c`, which nothing in the repository uses; `achchand.c`, unfinished and
  not built.
* The language bindings, the benchmark and the example, which have no state of their
  own.
