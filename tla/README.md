# TLA+ verification of macemu

macemu is the source tree of two Macintosh emulators, **Basilisk II** (68k) and
**SheepShaver** (PowerPC), and of the monitor **cxmon**.  This directory holds
TLA+ models of the parts in which they are hard to get right: places where the
emulated Mac, which believes that it is alone on one processor, meets the
threads, signals and page faults of a Unix host.  All paths below are relative
to `src/` of the repository; `BII` stands for `src/BasiliskII/src`.

The models are of the Unix port with SDL 2 and POSIX timers
(`PRECISE_TIMING_POSIX`), with the 68k CPU of `uae_cpu` (the one that builds for
x86 use) built without the JIT (`--disable-jit-compiler`), and with video on SEGV signals
(`--enable-vosf`, an option of the build).  SheepShaver shares
`timer.cpp`, `timer_unix.cpp`, `serial_unix.cpp`, `video_vosf.h` and
`video_sdl2.cpp` with Basilisk II.

Contents:
1. [Inventory](#1-inventory)
2. [Plan](#2-plan)
3. [The modules and the code](#3-the-modules-and-the-code)
4. [What the runs show](#4-what-the-runs-show)
5. [Fairness](#5-fairness)
6. [What is proved](#6-what-is-proved)
7. [Disagreements between the code and what it says](#7-disagreements-between-the-code-and-what-it-says)
8. [What is not modelled](#8-what-is-not-modelled)

Run the tools in this directory: `tlc -config Serial.cfg Serial` checks an
instance, `tlapm SerialProofs.tla` the proofs.  `PROJECT.json` lists the runs,
the theorems, the lines that every definition stands for, and for each property
a faulty variant of the code (a definition marked `Fault:`) which violates it.

## 1. Inventory

### How the parts interact

One thread, the *emulator thread*, interprets 68k (or PowerPC) code.  The ROM is
patched with `EMUL_OP` opcodes, which call C++ code: drivers, the Time Manager,
ADB.  Everything that the Mac does, its interrupt handlers included, happens on
this thread; C++ code may call back into the Mac (`Execute68k`,
`Execute68kTrap`), which may be interrupted and call C++ code again.

Around it are host threads: the 60 Hz thread, the timer thread, two I/O threads
for each serial port, the Ethernet reception thread, the audio stream, the
redraw thread.  They never run Mac code.  They store a result, set a bit of
`InterruptFlags`, and call `TriggerInterrupt`; the CPU notices a special flag
between two instructions, enters the Mac's level 1 handler, and its `EMUL_OP`
calls the device's handler on the emulator thread.

What is hard is at these borders:

- host threads change state between any two steps of the emulator thread;
- the emulator thread takes interrupts inside every call of Mac code, also in
  the middle of a driver's operation;
- the timer thread is stopped with signals at any instruction;
- every store to the frame buffer may be a page fault;
- arithmetic mixes 16-bit, 32-bit and host representations.

Nothing is persisted apart from disk images, so a crash loses the machine's
state and there is no recovery to model.  The Mac's own *reset* is the only
restart.

### Components

The ones in **bold** are modelled (section 3).  Abbreviated correctness
properties are in the last column; the hazards, with their lines, are in
`PROJECT.json`.

| component | state | operations | interacts with | correct if |
|---|---|---|---|---|
| **Time Manager**, `timer.cpp` | `tmDescList`, `wakeup_time` and its lock, the `TMTask` fields in Mac memory | `InsTime`, `RmvTime`, `PrimeTime`, `TimerInterrupt`, `TimerReset`, `TimerExit`; `timer_func` | interrupt dispatch; Mac code (TimeTasks call the traps again) | a task is called once per arming, not early, and eventually; no wakeup is lost; no deadlock between the lock and suspension |
| **Timer thread control**, `timer.cpp` | two signals, the handler's masks, `suspend_ack_sem` | `timer_thread_suspend`, `timer_thread_resume`, the handlers | Time Manager | the thread is stopped exactly from suspend to resume; neither gets stuck |
| **Host time**, `timer_unix.cpp` | none (pure), `struct timespec` and Mac times | `timer_add_time`, `timer_sub_time`, `timer_cmp_time`, conversions | Time Manager | deadlines are exact and comparable; saved remaining times do not grow |
| **Interrupt dispatch**, `main_unix.cpp`, `basilisk_glue.cpp`, `newcpu.cpp`, `emul_op.cpp` | `InterruptFlags`, `regs.spcflags`, `regs.intmask`, the idle semaphore | `SetInterruptFlag`, `TriggerInterrupt`, `m68k_do_specialties`, `MakeFromSR`, `M68K_EMUL_OP_IRQ`, `idle_wait` | every device | what a device posts is handled; masked interrupts come back when the mask opens |
| **Serial driver**, `serial.cpp`, `serial_unix.cpp` | per port `is_open`, deferred tasks; per channel `pending`, `done`, a semaphore and a thread | Open, Prime, KillIO, Close, the threads, `SerialInterrupt`, deferred tasks | interrupt dispatch, Device Manager | driver and Device Manager agree on requests; each completes once; nothing is freed while in use |
| **Screen refresh**, `video_vosf.h`, `video_sdl2.cpp` | page flags and protection, the guest surface, the update rectangle, the palette, three locks | fault handler, `vosf_set_dirty_area`, `set_palette`, refresh, presentation | 68k stores, 60 Hz interrupt, SDL | everything stored reaches the window; locks do not deadlock |
| **Audio**, `audio.cpp`, `audio_sdl.cpp` | open count, data block, mixer, `num_sources`, the streaming thread | component dispatch, add and remove source, change of parameters, `AudioInterrupt`, reset | interrupt dispatch, Apple Mixer, host stream | handshake survives close, reset and change of parameters |
| **ADB**, `adb.cpp` | key and button rings, mouse position and mode, register file | host event calls, `ADBInterrupt`; `ADBOp` (not modelled) | SDL events, Mac's ADB Manager | events come in order and none is lost below the rings' capacity; motion is told once; no input waits without an interrupt |
| **Ethernet**, `ether.cpp`, `ether_unix.cpp` | attached protocols, packet buffer, reception thread, the pipes of slirp | driver control, attach and detach, `EtherInterrupt`, writing | interrupt dispatch, slirp, host device | every packet is read; the single buffer is not used twice; writing returns |
| Full-screen and plain refresh, `video_blit.cpp`, `video_x.cpp`, `video_sdl*.cpp` | `the_buffer_copy`, static and dynamic refresh | mode switch, refresh | as screen refresh | the copy agrees with what is shown |
| Video driver, `video.cpp`, `slot_rom.cpp` | current mode and gamma tables | control and status calls | screen refresh | mode tables consistent |
| Floppy, disk, CD-ROM drivers, `sony.cpp`, `disk.cpp`, `cdrom.cpp`, `bincue.cpp` | list of drives, `to_be_mounted`, status bytes in Mac memory | open, prime, control, status, insertion and ejection, the accRun interrupt | Mac's event queue, host files | an inserted disk is mounted once; position and size arithmetic within the drive |
| SCSI Manager, `scsi.cpp` | phase, command buffer, scatter/gather table | `SCSIGet` to `SCSIComplete` | host's SCSI | phases in order; transfer lengths add up |
| ExtFS, `extfs.cpp` | file-id tree, FCBs | the File System hook | host file system | ids unique and stable |
| Host disk images, `sys_unix.cpp`, `disk_sparsebundle.cpp`, `vhd_unix.cpp` | handles, current band | read, write at an offset | disk drivers | bands cover the image once |
| **Semaphore replacement**, `posix_sem.cpp` | value, count of waiting threads, mutex | `sem_wait`, `sem_post` | hosts without semaphores | a semaphore |
| RPC, `rpc_unix.cpp` | connection | method calls, dispatch | preferences editor | requests and replies match |
| 68k CPU, `uae_cpu`, `uae_cpu_2021` | registers | instructions | all | instruction semantics |
| 68k JIT, `compiler/compemu_support.cpp` | block cache with checksums | compile, invalidate, check | 68k CPU | no stale translation runs |
| PowerPC CPU, `kpx_cpu` | registers, block cache | instructions | SheepShaver | as above |
| SheepShaver interrupts, `SheepShaver/src/Unix/main_unix.cpp` | run mode, nesting count, `InterruptFlags` | signal handler, `HandleInterrupt`, `DisableInterrupt` | all devices of SheepShaver | an interrupt in any mode is delivered or stays pending |
| SheepShaver Ethernet, `SheepShaver/src/ether.cpp` | STREAMS queues | the DLPI states | Open Transport | states in order |
| SheepShaver services, ROM patches, start, preferences, XPRAM, memory, clipboard, slirp, cxmon, other hosts | see the notes in `PROJECT.json` | | | |

## 2. Plan

Order: first the mechanism that everything depends on, then its clients, from
the most concurrent to the most sequential.

| step | module | about | abstract specification | theorems |
|---|---|---|---|---|
| done | `TimeManager` | traps, interrupt and timer thread | `TimerService` | safety, refinement |
| done | `ThreadSuspend` | stopping a thread with signals | `StoppableThread`, the interface between it and `TimeManager` | safety, refinement, on both sides |
| done | `HostTime` | time arithmetic | reference definitions in exact nanoseconds | safety, lemmas on the conversions |
| done | `Interrupts` | from a device thread to its handler | | safety |
| done | `Serial` | I/O threads, deferred tasks, KillIO | `SerialService`: requests and KillIO as the Device Manager sees them | safety, refinement |
| done | `Vosf` | faults, refresh, presentation in window mode | | safety |
| done | `IrqHandshake`, `Audio` | the sound component, its data block and mixer, the stream's handshake with `AudioInterrupt`, close and reset | `IrqHandshake`: thread and handler take turns | safety, refinement |
| done | `Ether` | reception thread, packet buffer, protocol handlers, slirp's pipes | `IrqHandshake` | safety, refinement |
| done | `Adb` | rings without a lock, motion and positions, `ADBInterrupt` | `EventsKept`: a ring is a queue | safety |
| done | `PosixSem` | the semaphores for hosts without them | `WaitsForPost` | none, it fails |
| later | `VosfDga` (EXTENDS `Vosf`) | full screen: `the_buffer_copy`, lines shared by runs of pages, mode switches and the handshake that pauses the redraw thread | what is shown equals the copy | the copy never hides a change |
| later | `Drives` | insertion, mounting, ejection and drive status of the disk, floppy and CD-ROM drivers | an inserted disk is mounted once | safety |
| later | `Scsi`, `SparseBundle`, `BlockCache` | phases and the transfer table; band arithmetic; checksummed translations | | arithmetic lemmas |
| dropped | `RunModes` | SheepShaver's run modes: see section 8 | | |

Proofs to come: those of the modules above that are still to be written, each with
its module.

Composition.  `TimeManager` uses one atomic action each for stopping and resuming
the timer thread; `ThreadSuspend` shows that the signals implement that interface
(`StoppableThread`), and `StoppableSpec` of `TimeManager` that its timer thread asks
for nothing else.  `TimeManager` and `Serial` treat "flag set" as "handler will
run"; `Interrupts` shows that for any device, and `Audio` and `Ether` take it as their
fairness.  Composing them by interface and
not by a product of modules keeps each within reach of TLC, and lets each be
proved on its own.

## 3. The modules and the code

Each action is the code between two points at which another thread may be seen:
a lock, a signal, a read or write of shared memory, a call of Mac code.  Control
points are named for the code that is next (`epc` is that of the emulator
thread, `tpc`, `dpc`, `rpc` of the host thread).  Mac addresses, data and errors
that no property tells apart are left out.

### TimeManager, TimerService, TimeManagerMC (`BII/timer.cpp`)

The emulator thread calls the traps at main level and from TimeTasks, which are
Mac code.  `InsTime` links a descriptor and clears the task's active bit.
`PrimeTime` computes a wakeup time; then it and `RmvTime` take
`wakeup_time_lock`, stop the timer thread, change the task and recompute
`wakeup_time`, release the lock, and resume the thread: actions
`LockWakeupTime`, `SuspendTimer`, `Update`, `UnlockWakeupTime`, `ResumeTimer`,
where `op` says for whom.  `TimerInterrupt` is a walk over the list:
`TakeInterrupt`, `ScanDesc` for each descriptor, `TimeTaskReturns` when Mac code
comes back, `ScanDone`.  `M68K_EMUL_OP_IRQ` (`emul_op.cpp:498` to 503) has no test that
would keep a second `TimerInterrupt` out of a TimeTask which opens the interrupt
mask, and so `TakeInterrupt` is possible there too: `outer` is the stack of the local
variables of the `TimerInterrupt`s that wait, `running` that of their TimeTasks.  The
walk keeps a pointer to the next descriptor over
the call of Mac code; `scan_stale` says that it has been freed, and
`ScanFreedDesc` is then a crash, or the end of the loop.

The timer thread is `timer_func`: sleep until `wakeup_time`, wake (on time, or
because a signal interrupts the sleep), sample the clock, compare, lock, expire,
set `INTFLAG_TIMER`.  Its unlocked comparison reads two words; `TimerSample` and
`TimerCompare` are the two loads, so that a thread stopped between them compares
a mixture of the old and the new value.

`TimerService` says what a program sees: tasks are armed, disarmed, called at or
after their time, once for each arming; one that interrupts another returns first.
The refinement maps a task's armed time to `wakeup` while bit 15 of `qType` is set,
and "running" to the stack of the TimeTasks that are under way.

### ThreadSuspend, StoppableThread (`BII/timer.cpp`)

`pthread_kill`, `sem_wait` and the two signal handlers with their masks, one step
per system call.  Pending signals and the semaphore are counters; `TypeOK` says, and
`ThreadTypeCorrect` proves, that none exceeds one, so that the kernel's merging of
equal signals does not matter.
`StoppableThread` is the interface: a thread that steps, is stopped, continues;
a sleep is interrupted by a stop.  What a step changes is a parameter (`Control`):
a count of steps here, the control point and local variables of `timer_func`
in `TimeManager`.

### HostTime, HostTimeMC (`BII/Unix/timer_unix.cpp`)

The arithmetic as pure operators with C's truncating division and 32-bit
wrap-around (`Int32`), driven by a small state machine that primes a task, lets
time pass and removes it.  Units are constants so that a 6-bit `int` and four
milliseconds to the second reach every boundary of the code.

### Interrupts (`main_unix.cpp`, `basilisk_glue.cpp`, `newcpu.cpp`, `spcflags.h`, `emul_op.cpp`, `timer_unix.cpp`)

Device threads post data, set their flag, wake `idle_wait`, and set
`SPCFLAG_INT`.  The emulator thread executes instructions, changes the mask,
stops, idles, and passes through `m68k_do_specialties`: `STOP` loop, `DOINT`,
`INT`.  An instruction that traps, as every call of the Mac's system does, runs
`Exception` (`Trap`, `TrapDone`), which ends with an update of `spcflags` that leaves
`INT` as it is, and every EMUL_OP ends with `MakeFromSR`, which sets it.  `InterruptFlags` is updated atomically in both variants.  `spcflags` is
not, unless `ENABLE_EXCLUSIVE_SPCFLAGS` is defined, which nothing does: then an
update is a load (`LoadSpcflags`) and a store of the whole word, by any thread.
`erased` records that such a store of `Exception` has taken `INT` back and that
nothing has set it since.
The variable `exclusive`, which never changes, says which build a behaviour is of.  `IdleCheck` and `IdleWait` are the test of the event queue
and the sleep, with a gap between them.

### Serial, SerialService (`BII/serial.cpp`, `BII/Unix/serial_unix.cpp`)

One record of state per port and per channel.  `Prime` posts a command to the
channel's thread; the thread (`Wake`, `TestQuitting`, `Perform`, `TestKilled`,
`Abort`/`ClearPending`, `SetDone`/`SetFlag`) performs it, and may stay in `Perform`
for ever, because `read` waits for data (`VMIN` is 1 and `VTIME` 0); `SerialInterrupt` turns
results into deferred tasks, and `DeferredTask` calls `IODone`.  `KillIO` and
`Close` poll, join the threads and free memory step by step, with interrupts
taken wherever the driver calls a Mac trap.  The Device Manager, which is not in
this repository, is modelled by what the driver relies on: one request per
channel at a time, no Close of a driver that has one.

`SerialService` is what the Device Manager sees: a request is issued, performed, and
then either completed or, inside KillIO, aborted, once.  KillIO does not return
while a request on its port has still to be performed; one that has been performed
before its thread tested `io_killed` may be left, with its `IODone` in the queue of
deferred tasks.  The refinement maps a channel's
status to the request and to whether the host has performed it, and the channels of
the port to the time that the emulator thread is in KillIO.

### Vosf (`BII/CrossPlatform/video_vosf.h`, `BII/SDL/video_sdl2.cpp`)

Pixels are abstracted to *which bytes are out of date*: `stale` are bytes that
the guest surface does not show, `unpresented` lines that the window does not
show.  A store to a protected page faults (`Fault`), the handler marks and
unprotects it (`HandleFault`), and the instruction is retried.  The redraw thread
takes runs of pages that are SET (`FindRun`), copies their lines one by one
(`BlitLine`), extends the rectangle (`UpdateRect`) until none is left
(`ScanDone`).  `Present`, `Convert`, `ResetRect` are `present_sdl_video` on the
emulator thread.  The three locks are held from action to action; the holder is
whoever's control point says so.  Pages share lines, as `PageTop` and `PageBottom`
compute from sizes that need not divide each other.

### IrqHandshake, Audio (`BII/audio.cpp`, `BII/SDL/audio_sdl.cpp`)

`IrqHandshake` is what a thread relies on that raises an interrupt and waits for
it: it asks, the handler serves, acknowledges, and the thread proceeds.

In `Audio` the emulator thread is in `AudioDispatch` (`epc`), which calls Mac
traps: `OpenAlloc` and `OpenAllocated` are before and after the allocation of the
data block, `CloseMixer`, `MixerClosed`, `DisposeBlock`, `CloseDone` the steps of
the last close.  At each of these calls `AudioInterrupt` (`ipc`) may come in; it
calls the mixer through the block (`GetSourceData`) or, without a mixer, writes to
the block (`ClearStreamInfo`), and then acknowledges (`SignalStream`).  The streaming thread is
`stream_func` (`spc`): it tests `num_sources` (`StreamFunc`), sets the flag, waits,
plays.  `ReopenAudio` is a change of a sampling parameter: `SDL_CloseAudio` waits
for the callback to return.  `AudioReset` forgets the block and nothing else;
`sessions` and `sources` are what the Mac itself has open, which a reset sets to
zero; `OwnSession` says that no reset has hit an open connection.

### Ether (`BII/ether.cpp`, `BII/Unix/ether_unix.cpp`)

`ReceptionThread` is `receive_func`: poll, set the flag, wait for `int_ack`.
`EtherInterrupt` allocates the buffer, and reads and dispatches (`ReadLength`,
`ReadPacket`, `Dispatch`) until nothing is left, then acknowledges.  A protocol
handler is 68k code, which takes interrupts, writes packets, attaches and detaches.
`device` is a network device, whose packets do not run into each other, or slirp
behind two pipes: `rx` holds the bytes of packets (`"head"` and `"tail"`), `tx`
lengths and packets.  Both pipes block their writer when they are full.
`SlirpThread` is `slirp_receive_func`.

### Adb (`BII/adb.cpp`, `BII/SDL/video_sdl2.cpp`)

The thread that handles the host's events (`ipc`) stores an event in a slot
(`Store`) and moves the ring's pointer (`Advance`), or adds to the motion of the
mouse under `mouse_lock` in two steps, or changes the mode (`Ungrab`, `ZeroMouse`);
then it sets the flag.  `ADBInterrupt` (`epc`) is the code of that name: lock,
sample, clear and unlock, test the mode *again*, and tell the Mac of motion and
buttons together, or of a position and then the buttons, then of the keys.  In its
loops over the rings the test (`TestRing`, `TestButton`), the read of the slot
(`ReadEvent`), the move of the pointer (`TakeEvent`) and the call of the Mac (`Tell`)
are separate accesses; `step` is the one that comes next and `got` the event read.
`MacStarts` and `MacRestarts` change `started`, without which `ADBInterrupt` returns.
`overrun`, `untold`, `host_button` and `owed` record what the host has done and the
Mac has not been told, for the properties.  A behaviour has the kinds of input in `inputs`.

### PosixSem (`BII/Unix/posix_sem.cpp`)

`sem_wait` and `sem_post` statement by statement, for one thread that waits and
one that posts, as their callers use them.

## 4. What the runs show

Passing runs (every action fires in one of them):

| run | instance | properties |
|---|---|---|
| `timer_two` | 2 tasks (symmetric), InsTime, a delay of 1, clock to 2, TimeTasks that may remove the next task and be interrupted by one more `TimerInterrupt` | `TypeOK`; `NoLostWakeup`: the timer thread wakes no later than any active task, or an interrupt or a recomputation is under way; `NoSuspendedOwner`: it is never stopped while it owns the lock; `ServiceSpec`: it implements `TimerService`; `StoppableSpec`: its timer thread stops and runs as `StoppableThread` says |
| `timer_live` | 1 task, both traps, delays 0 and 1, with `tmWakeUp` and uninitialized descriptors, one nested `TimerInterrupt` | `ActiveIsScheduled`: no uninitialized wakeup time is compared; `DueTaskRuns`; `ExitReturns` |
| `suspend` | 6 steps of the timer thread | `StoppedInHandler`, `ResumeMatches`, `StoppableSpec`, `SuspendReturns`, `ResumeWorks` |
| `hosttime` | every delay of a 6-bit int but the most negative one, 48 clocks, 216 advances | `DueWhenElapsed`, `RestIsSaved`: both against exact nanoseconds |
| `irq` | 2 devices, 2 nested handlers, STOP, builds with atomic and with racing `spcflags` | `NoLostData`: what was posted has a flag or the thread ahead of it; `NoStrandedFlag`: a flag has an interrupt ahead of it, but where `spcflags` race and a trap has erased `INT` (section 7); `DataIsHandled` (atomic `spcflags`) |
| `serial` | 1 port, both channels | `RequestsMatch`, `QueuedIsValid`, `DoneIsFlagged`: driver, thread, flag and deferred task agree; `ServiceSpec`: a request is completed or aborted once, and KillIO leaves none behind that is not performed; `RequestCompletes`, `KillAborts`, unless a thread stays in `read` or `write` |
| `vosf` | 3 pages of 3 bytes, 2 lines of 2 bytes | `TypeOK`; `NoStaleByte`: a byte that the surface does not show is on a page that will be copied; `NoLostUpdate`: a line the window does not show is in the rectangle; `StoreReturns`, `PixelsReachWindow` |
| `audio` | 3 connections, 3 sources, resets, changes of parameters | `RunsOwnCode`: unless a reset has hit an open connection, the interrupt calls the mixer, and with a connection open writes, only in a block that exists; `HandshakeSpec`; `CloseReturns`, `StreamIsServed`: neither thread waits for ever, but in the cases of section 7 |
| `ether` | network device and slirp, 1 protocol, pipes of 3 | `OneBuffer`; `HandshakeSpec`; `PacketIsRead`; `WriteReturns` |
| `adb` | rings of 3 slots, 2 keys, 1 button, motion to 2, packets modulo 4, two positions, five mixes of input | `MotionConserved`; `EventsKept`: until it is overrun a ring is a queue, and the event told is the one taken out; `NoInputStranded`: with both threads at rest the Mac has been told everything, but for a ring that was overrun, input whose interrupt came before the Mac had started, and motion and position where the mode is switched |

Runs that end in a counterexample are in section 7.

### Bounds, and why they are enough

- `timer_two`: two tasks give an earlier and a later one, a head and a middle of
  the list, and a TimeTask that removes its neighbour.  The clock runs to 2, so
  that a delay of 1 primed at time 0 or 1 can pass, and `MaxWakeup` of 3 leaves room
  for one primed at 2; delays of 0 are in the other two instances.  `MaxNested` of 1
  is an interrupted `TimerInterrupt` that goes on after its task was removed or
  primed again; more of them repeat that.  The safety properties are proved without bounds.
- `timer_live`: liveness needs one task to be forgotten; contention comes from
  the traps, which 68k code may call for ever.
- `suspend`: `MaxSteps` bounds the timer thread only, to a few times what lies
  between two suspensions; signals and the emulator thread are unbounded.  The
  cfg switches deadlock off because with its steps spent the thread rests, and
  nothing obliges the emulator thread to stop it again; `SuspendReturns` and
  `ResumeWorks` are what would fail if the two really waited for each other.
- `hosttime`: a delay of `MaxInt` is larger than several seconds in both units,
  and remaining times pass the limit where microseconds no longer fit; that is
  where the real constants have their boundaries too.
- `irq`: two devices suffice for one thread to lose another's update, for a flag
  before and one after the position of `M68K_EMUL_OP_IRQ`.  `MaxDepth` bounds
  nested 68k handlers: the innermost keeps interrupts masked.
- `serial`: the two channels of a port share its flags; ports share only
  `INTFLAG_SERIAL` and the emulator thread: interrupts for one port while the
  driver opens or closes the other are covered by the theorems, which hold for
  any number of ports.
- `vosf`: pages of three bytes and lines of two, so that lines cross pages, pages
  cross lines, and the last page lies below the screen and starts beyond it.
- `audio`: an open connection more than the first, so that a close need not be the
  last, and counts that a reset has made differ from the Mac's.  The cfg switches
  deadlock off because a change of parameters may wait for ever (section 7); what
  may not wait is the subject of the two liveness properties.
- `ether`: a pipe of three bytes holds a packet of one and one of two bytes and
  makes the next one wait; a read takes up to two bytes, so that it can return part of
  what is there.  Deadlock is off because both pipes may be full (`CircularWait`,
  which the properties name as the only exception).
- `adb`: rings of three slots hold two events, so that the pointers wrap and overrun;
  motion to 2 and packets modulo 4 overflow in both directions.  The kinds of input
  are combined in pairs that share state; the theorems cover all of them at once.

## 5. Fairness

Nothing ever obliges 68k code to call a driver, to draw or to arm a task.

- *TimeManager*: both threads are scheduled.  The timer thread's steps are
  strongly fair because it is stopped again and again while 68k code primes
  tasks, and the lock is contended; the kernel does not let it starve for ever.
  `TakeInterrupt` is strongly fair: the CPU loop tests for interrupts after
  every instruction.  A TimeTask returns.
- *ThreadSuspend*: the kernel delivers signals, and code that has stopped the
  thread goes on to resume it (straight-line code between the two calls).
- *Interrupts*: the threads are scheduled; the 60 Hz thread keeps ticking.  68k
  handlers return, and 68k code opens its mask again and again and executes an
  ordinary instruction under an open mask: without this the Mac would be
  deaf by its own will.  That includes STOP: programs stop with an open mask.
- *Serial*: nothing makes `read` or `write` return: `Perform` has no fairness, since the
  line is set up with `VMIN` 1 and `VTIME` 0 (`serial_unix.cpp:236`).  The other steps of
  the I/O threads are fair.  `DeferredTask` and interrupts are taken before the next call of the driver; host code and traps that may be
  interrupted repeatedly do finish, hence strong fairness.
- *Vosf*: both threads are scheduled and neither is always too late for a lock;
  the emulator thread is interrupted at 60 Hz, and presents.  The redraw thread
  sleeps for the rest of a frame before each refresh, which is time for the
  emulator thread to handle a fault and to retry the store.
- *Audio, Ether*: the threads are scheduled; a handler and a call of the driver that
  have begun go on.  The interrupt is strongly fair because the 68k code opens its
  mask again and again, which is what `DataIsHandled` of `Interrupts` says.
  The mixer's 68k code returns while it is that of the Mac's own session
  (`OwnSession`); after a reset with an open connection nothing makes it return.
  Protocol handlers return, and slirp comes to the end of its sockets, however
  often they write.  No packet, call or source has to come.
- *Adb* has safety properties only: `NoInputStranded` says that an interrupt is
  ahead of all input, and `Interrupts` that it comes.

## 6. What is proved

TLAPS checks these for every value of the constants that satisfies the named
assumptions.  They need no bound: number of tasks, devices, ports, pages and
lines, delays, clock.

| module | theorem | says |
|---|---|---|
| `TimeManagerProofs` | `TypeCorrect`, `NoWakeupIsLost`, `OwnerIsNotSuspended`, `ActiveTasksAreScheduled` | the safety properties of `timer_two` and `timer_live` |
| | `Refinement`, `TimerThreadStops` | `Spec => ServiceSpec`, `Spec => StoppableSpec` |
| | `ScanIsSafe` | `ScanSeesInstalled`, if no TimeTask removes the task to which a `TimerInterrupt`, interrupted ones included, goes next |
| `TimerHostProofs` | `HostTypeCorrect`, `DueExactly`, `RestSaved` | the types, and the properties of `hosttime`, for all units, clocks and delays |
| | `ThreadTypeCorrect`, `SuspendStops`, `SignalsMatch`, `Stops` | the safety properties of `suspend`: stopped exactly between suspend and resume; no signal is pending, and `suspend_ack_sem` posted, more than once; implements `StoppableThread` |
| `InterruptsProofs` | `TypeCorrect`, `FlagsAreSeen`, `DataIsKept` | the types, `NoStrandedFlag` and `NoLostData`, with atomic and with racing `spcflags`: the end of `Exception` is the only update that strands a flag |
| | `StopEnds` | with atomic `spcflags`, `STOP` is set only in the STOP instruction and its loop |
| `SerialProofs` | `TypeCorrect`, `RequestsAgree`, `QueuedTasksAreValid`, `NoResultIsForgotten` | the types, and the safety properties of `serial` |
| | `Refinement` | `Spec => ServiceSpec` |
| `VosfProofs` | `TypeCorrect`, `StaleBytesAreCopied`, `UpdatesArePresented` | the safety properties of `vosf`, for every size of page, line, screen and buffer |
| | `IdleWindowIsCurrent` | when `mainBuffer.dirty` is clear and nothing is left to present, the window shows the frame buffer |
| `AudioProofs` | `TypeCorrect`, `InterruptRunsOwnCode` | the types, and `RunsOwnCode`, which does not speak of the write after the last Close (section 7) |
| | `Refinement` | `Spec => HandshakeSpec` |
| `EtherProofs` | `TypeCorrect`, `BufferIsNotShared` | the types, and `OneBuffer`, for every size of the pipes |
| | `Refinement` | `Spec => HandshakeSpec` |
| `AdbProofs` | `TypeCorrect`, `MotionIsConserved`, `EventsAreKept`, `NoInputIsStranded` | the types, with it that no slot is told which was never written, and the properties of `adb` with their exceptions, for rings, motion and packets of any size and all kinds of input |

The arguments:

- *TimeManager*.  `NoLostWakeup` is not inductive.  `IInv` adds `LockInv` (who
  holds the lock and who is stopped, by control points), `OpInv` (the task that an
  operation is about is installed), `ScanInv` (the walk's pointer is installed
  unless stale), `OuterInv` (so are the pointers of the interrupted walks) and `WakeInv`, whose core is that `wakeup_time` covers all
  active tasks once `Update` has run, until the thread expires it; and that the
  thread then is at `setflag`, or the flag set, or the scan runs, which
  recomputes it.  The torn read only decides *whether* the thread expires, and an
  early expiry is harmless: that is why the property holds in spite of it.
  `TimerThreadStops` needs of `LockInv` that the thread is suspended exactly while the
  emulator thread is between `SuspendTimer` and `ResumeTimer`.
- *HostTime*.  The lemmas say what each function of `timer_unix.cpp` computes:
  `AddTime` and `SubTime` that sums and differences are exact and normalised,
  `CompareTime` that the int of `timer_cmp_time` has the sign of the difference,
  `MacToHost` that this conversion is exact, and `HostToMac` that it rounds down to
  the unit of its form.  `HostInv` puts them in order: the deadline of a primed task
  is the clock at `PrimeTime` plus its delay (`Deadline`), the clock has advanced
  since (`Later`), and the time saved is what `RestAsMacTime` says (`Saved`).
  Two hypotheses are the limits of the code's arithmetic.  `MinInt \notin MacTimes`:
  `timer_mac2host_time` negates the delay, and -2^31 has no negation in an int, so
  that what C makes of it is undefined.  `t.tv_sec <= MaxInt`, for `DueExactly`:
  `timer_cmp_time` cuts the difference of two `time_t` to an int, and a clock
  that advances by more than 2^31 seconds while a task waits turns its sign.
- *ThreadSuspend*.  `Handshake` lists the combinations of control points,
  pending signals and handler that occur: running, waiting, in the handler,
  resuming.  That no signal is pending twice is part of it (`ThreadTypeCorrect`).
- *Interrupts*.  `Inv` adds `HandlerState` (what the mask is while a handler has
  still to look at the flags), `IntAfterSR` (no other thread takes `INT` away between
  `MakeFromSR` and the end of the instruction) and `DointIsLoaded` (`DOINT` appears
  behind the back of `Exception` only together with `INT`).
  A racing update may lose `INT`, but only to a thread that writes `INT` or `DOINT`
  itself, or that looks at the flags next, or to the end of `Exception`, which does
  neither: `erased` is set there and nowhere else.  What such an update may also do is bring back `STOP` (section 7),
  which is no concern of these safety properties.  With atomic updates it cannot:
  `StopEnds` is by itself inductive, because each update then does to the flags what
  it was meant to (`AtomicUpdate`), and `STOP` is set by the instruction alone.
- *Serial*.  `Inv` relates, for each channel, the command to the thread's control
  point (`CommandInv`), the request to both (`RequestInv`), and what KillIO and
  Close exclude (`KillInv`, `StoppedInv`, `PortInv`, `EmulInv`).  The refinement
  needs two of these at the end of KillIO: a request that is not pending is queued
  for `IODone` or done with, and a queued one has been performed; and that only
  a request that has been performed is aborted (`RequestInv`).
- *Vosf*.  `Inv` adds `ClearIsProtected` (a page that is CLEAR is
  write-protected: what makes a store to it seen), `LineInv` and `DirtyInv` (SET
  pages are ahead of the scan, and make the buffer dirty).  The lemmas on
  division show that the lines of a run of pages, from `PageTop` of the first to
  `PageBottom` of the last, contain the line of every byte in the run on the
  screen, also where lines cross pages.

- *Audio*.  `TurnInv`: while `stream_func` waits, exactly one of the flag, the
  running interrupt and the semaphore stands for its request, and otherwise none.
  `BlockInv` says what `audio_data` and the mixer are worth at each point of
  `AudioDispatch` at which the interrupt may come in, as long as no reset has hit
  an open connection (`OwnSession`).
- *Ether*.  `Token` is the same for the reception thread; `Serving` includes the
  writing of a packet by a protocol handler.  `OneBuffer` follows: an interrupt needs
  the flag, which is not set while the token is with the interrupt.
- *Adb*.  What `ADBInterrupt` has sampled is what it clears, because of the lock
  (`SampleInv`); lemmas on remainders carry the sum through packets of any width.  A
  ring is a window between its pointers (`PendingIsWindow`), and each step of either
  thread leaves both windows, adds to one at its end, takes from one at its front,
  or overruns it (`StepKinds`, `EveryStep`).  Between its test and its advance the
  loop's ring is not empty and `got` is its oldest event (`ReadInv`), because only an
  overrun writes to that slot.  Under an overrun `GotOK` still says that `got` is an
  event of that ring.  `UntoldInv` counts the events of a ring that was never
  overrun that wait in it or are under way; `ButtonInv` says that the buttons known to the Mac,
  after the events on their way (`Ends`), are the buttons that are down.  With
  `WakeInv`, that input has an interrupt ahead of it, they give `NoInputStranded`.

Assumptions are those stated by name in the modules; `ScanIsSafe` has one more
on programs, `~RemovesNext`, and the theorems on `HostTime` the two above on delays
and the clock.

Only model-checked: the liveness properties (fairness and ENABLED are beyond the
prover), that is `DueTaskRuns`, `ExitReturns`, `SuspendReturns`, `ResumeWorks`,
`DataIsHandled`, `RequestCompletes`, `KillAborts`, `StoreReturns`,
`PixelsReachWindow`, `CloseReturns`, `StreamIsServed`, `PacketIsRead` and
`WriteReturns`.  Every other property of a passing run is a theorem.  `PosixSem` has
only a counterexample.

## 7. Disagreements between the code and what it says

Two runs end in a counterexample of one property.

- `timer_freed`, `ScanSeesInstalled` (`BII/timer.cpp:616`).  `TimerInterrupt` reads
  `desc->next` before it calls the TimeTask.  A TimeTask that removes the *next*
  task frees that descriptor, and the loop goes on in freed memory, although it
  is to walk "each installed TMTask".
- `sem`, `WaitsForPost` (`BII/Unix/posix_sem.cpp:104`).  A `sem_wait` that had to wait
  leaves the value that `sem_post` has incremented; the next `sem_wait` returns at
  once, with the mutex locked.  The file says "Seems to be working correctly now."

Others are properties that hold only under a condition which the runs' properties
name.  To see each counterexample, check the formula given with the change given:

- `TimeManager!ContinuesDelay`, in the instance of `timer_live`
  (`BII/timer.cpp:459`).  `RmvTime` saves the remaining time as 32 bits;
  `PrimeTime(0)`, which is to "continue previous delay", reads 16 of them and adds
  them to a wakeup time that a new descriptor has not.
- `Interrupts!DataIsHandled` without its conjunct `exclusive`
  (`BII/uae_cpu/spcflags.h:71`).  With racing `spcflags` a device thread that has
  read `STOP` writes it back after the CPU has left STOP: the CPU stops with interrupts
  masked and the handler never runs.
- `Interrupts!NoStrandedFlag` without its last line, `erased /\ ~exclusive`
  (`BII/uae_cpu/newcpu.cpp:807`).  `Exception` clears the trace flags with a load and a
  store of the whole word.  A device that sets `INT` in between loses it, with the
  mask open, and nothing looks at its flag until the next update that sets `INT`: the
  next instruction that writes the status register, EMUL_OP or device, such as the
  next tick of the 60 Hz thread, unless that is erased in the same way.  No other update does this, and none loses data: that is
  what `NoStrandedFlag` as it stands and `NoLostData` say of the racing build.
- `Serial!KillReturns`, in the instance of `serial` (`BII/Unix/serial_unix.cpp:325`).
  KillIO polls until no command is pending; a thread that has already decided to
  report its result leaves that to `SerialInterrupt`, which only the polling thread
  could run.  A thread that waits in `read` is not woken either: KillIO flushes the line
  (lines 321 to 326), which makes no `read` return that waits for a first byte (lines
  236 and 237), so that KillIO waits for the next byte from the line.  To see it, drop
  `tpc[c] = "io"` from `KillAborts`, or from `RequestCompletes`.  `KillAborts` says when
  KillIO does return.
- `Audio!CloseReturns` without `~WaitsForInterrupt` (`BII/SDL/audio_sdl.cpp:311`).
  A change of a sampling parameter closes the device, which waits for a callback
  that waits for `AudioInterrupt`.  `AudioSetInfo` refuses the change while there are
  sources, so that it takes a source that is removed after the callback has seen it.
- `Audio!StreamIsServed` without `ipc = "fetch" /\ ~OwnSession`
  (`BII/SDL/audio_sdl.cpp:292`).  `AudioReset` forgets the data block but not the mixer
  (`BII/audio.cpp:66`); the next `AudioInterrupt` executes what is near address 0, and
  nothing says that this returns.
- `Audio!RunsOwnCode` without `open_count > 0` (`BII/SDL/audio_sdl.cpp:295`).  The last
  Close frees the block and then forgets it (`BII/audio.cpp:418` and 419).  An
  `AudioInterrupt` that had been asked for before clears a word of the freed block, or,
  a moment later, one near address 0.
- `Adb!NoInputStranded` without `\ overrun` or `"button" \notin overrun`
  (`BII/adb.cpp:260`).  Nothing keeps a pointer of a ring from passing the other: with a
  ring full of events the next one empties it.
- `Ether!DispatchesPackets`, as an invariant of `ether` (`BII/Unix/ether_unix.cpp:1123`).
  Packets from slirp come through a pipe without their lengths: two that are read
  at once are dispatched as one, and one that does not fit is dispatched in parts.
- `Ether!PacketIsRead` and `WriteReturns` without `CircularWait`
  (`BII/Unix/ether_unix.cpp:884`).  With both pipes full the emulator thread waits for
  slirp and slirp for the emulator thread.

Outside of the models: `InsertNewDriverUnit` (`BII/cdrom.cpp:484`) copies the unit
table to a larger block and then writes the new entry beyond the end of the *old*
one; line 482 says "Write in our new entry", line 488 makes the new table active.

## 8. What is not modelled

- *Other hosts and other CPUs*: Windows, BeOS, AmigaOS, Mach timers, the JIT's own
  special flags.  They replace the modelled code with variants of it.
- *The JIT's part in interrupts*: a build with the JIT also clears
  `SPCFLAG_JIT_END_COMPILE` on every pass through `m68k_do_specialties`, without a
  look at `InterruptFlags` after it: one more racing update, which `Interrupts`
  does not have and its theorems do not speak of.
- *SheepShaver's run modes*.  With the emulated PowerPC the only thread that runs
  Mac code tests for interrupts between blocks of instructions
  (`SheepShaver/src/kpx_cpu/src/cpu/ppc/ppc-cpu.cpp:509` to 532), never inside an
  EMUL_OP routine, so that the `MODE_EMUL_OP` branch of `HandleInterrupt`
  (`sheepshaver_glue.cpp:1007`) is not reached; the other branches write into the
  nanokernel's data, and what becomes of that is code of Apple's ROM.  A model
  would say nothing that `Interrupts` does not.
- *Instruction semantics, translators, patches, parsers, blitters*: conversions of
  data of a kind that TLC does not reach in a useful way.
- *Host I/O*: line settings of a serial port, host file systems, clipboard,
  windows.
- *Vendored code*: slirp, SDL headers, tinyxml2.
- In the modelled components:
  - Time Manager: Microseconds and the date and time (no state), the Mac's queue
    heads, a clock set back (`CLOCK_REALTIME`), the end of `wakeup_time_max` in 2038,
    a reset or the end of the program inside a TimeTask;
  - interrupts: tracing, and 68k code that EMUL_OPs call with its `SPCFLAG_BRK`;
  - serial: a Close of the output driver during a read of the input driver, which
    waits for that read;
  - video: modes and full screen, and the early returns of `present_sdl_video` when
    SDL fails (`video_sdl2.cpp:957`, 972 and 992), the last of which loses an update;
  - audio: samples and volumes, `AudioExit`, SDL 3, OSS and ESD (whose
    `stream_thread_cancel` is never reset), sound input; that `stream_func` reads
    through `audio_data` after its wait without a look at whether it still exists;
  - ADB: `ADBOp` with its registers, the matrix of keys, the layout of packets; an
    `ADBInterrupt` or a reset of the Mac inside a handler that `ADBInterrupt` calls;
  - Ethernet: a reset of the Mac inside a protocol handler, UDP tunnels, multicast addresses, VDE, the start and the end of the
    threads (`poll` that is interrupted ends the reception thread);
  - semaphores: increments and decrements that are lost because they are not atomic.
- *The modules that section 2 calls later*: they are sequential (`Drives`, `Scsi`,
  `SparseBundle`) or variants of a modelled mechanism (`VosfDga`).

Hazards that no property covers have a note in `PROJECT.json` which says why.
