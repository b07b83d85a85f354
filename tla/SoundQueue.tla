----------------------------- MODULE SoundQueue -----------------------------
(***************************************************************************)
(* The sound thread of src/mednafen/ss/sound.cpp: the emulation thread     *)
(* ("main") queues RUN slices and register commands, the sound thread      *)
(* executes them, and main drains the queue wherever it touches the 68K    *)
(* and the SCSP itself.                                                    *)
(*                                                                         *)
(* One variable per variable of the code; mpc/todo/then/sync and spc/c are *)
(* the program counters and locals of the two threads; mlast, owed and the *)
(* "at" of a register command are history variables.  Every access to      *)
(* shared memory is a step of its own, interleaved sequentially            *)
(* consistently (SoundWake.tla adds the store buffers).  Operators named   *)
(* Bad... are plausible bugs; no specification uses them, and each breaks  *)
(* a property when it takes the place of the definition that follows it.   *)
(***************************************************************************)
EXTENDS Integers, Sequences

CONSTANTS
    SQ_SIZE,        \* slots of the ring (2^14)
    Wrap,           \* the counters are uint32: they count modulo Wrap (2^32)
    RunBatch,       \* every RunBatch-th RUN slice is pushed (8)
    FrameSlices,    \* bound: 128-cycle slices in one frame
    IBUF,           \* sample pairs the output buffer holds (1024)
    SemCap,         \* bound: tokens of SSem beyond this one change nothing
    RegCmds,        \* SCMD_WRITE8 ... SCMD_CLOCKRATIO with their arguments
    SThreadWanted,  \* the "ss.sound.threaded" setting
    RaxCarts        \* may the cart be a RAX cart? a subset of BOOLEAN

ASSUME RingAssumption  == /\ SQ_SIZE \in Nat \ {0}
                          /\ Wrap \in Nat /\ Wrap > SQ_SIZE /\ Wrap % SQ_SIZE = 0
ASSUME BatchAssumption == RunBatch \in Nat \ {0}
ASSUME FrameAssumption == /\ FrameSlices \in Nat \ {0}
                          /\ IBUF \in Nat /\ FrameSlices < IBUF
ASSUME SemAssumption   == SemCap \in Nat \ {0}
ASSUME CartAssumption  == SThreadWanted \in BOOLEAN /\ RaxCarts \subseteq BOOLEAN
ASSUME RegAssumption   == {"RUN", "EXIT", "NONE"} \cap RegCmds = {}

VARIABLES
    \* main: what it does next, the commands its call still has to push, where it
    \* goes then, and what it drains the queue for
    mpc, todo, then, sync,
    SQ_DoneCached,                          \* main's last view of SQ_Done
    SPendingRun, SPendingRunTS, SRunBatch,  \* the batched RUN slice
    phase,          \* where the frame loop is: "frame", "tail", "between", "closed"
    SThreaded,      \* SThreaded, and SThread # nullptr
    rax_active,
    SQ, SQ_Enq, SQ_Done,        \* the ring, commands pushed, commands completed
    SThreadSleeping, SSem,      \* announced sleep, tokens of the semaphore
    spc, c,         \* sound thread: what it does next, its copy of the command
    lastts,         \* SH-2 timestamp the 68K and the SCSP have run to
    dev,            \* the last register command they took
    IBufferCount,   \* samples in the output buffer
    mlast, owed     \* lastts and IBufferCount, had every call run inline

callVars   == <<mpc, todo, then>>
batchVars  == <<SPendingRun, SPendingRunTS, SRunBatch>>
lifeVars   == <<phase, SThreaded, rax_active>>
ringVars   == <<SQ, SQ_Enq, SQ_Done>>
sleepVars  == <<SThreadSleeping, SSem>>
threadVars == <<spc, c>>
deviceVars == <<lastts, dev, IBufferCount>>
inlineVars == <<mlast, owed>>
mainVars   == <<callVars, sync, SQ_DoneCached, batchVars, lifeVars, inlineVars>>
vars       == <<mainVars, ringVars, sleepVars, threadVars, deviceVars>>

Timestamps == 0 .. FrameSlices
Counters   == 0 .. Wrap - 1

\* struct SoundCmd.  arg32 of a RUN is "at"; of a register command "at" is
\* history: how far the inline path would have run the hardware at the call.
Command == [cmd : {"RUN", "EXIT"} \union RegCmds, at : Timestamps]
NoCmd   == [cmd |-> "NONE", at |-> 0]

----------------------------------------------------------------------------
(* Unsigned counter arithmetic.                                            *)

\* e + 1
Succ(e) == IF e = Wrap - 1 THEN 0 ELSE e + 1
\* e - d
Dist(e, d) == IF e >= d THEN e - d ELSE e - d + Wrap
\* e & (SQ_SIZE - 1)
Slot(e) == e % SQ_SIZE

BadFull(done) == Dist(SQ_Enq, done) > SQ_SIZE
\* The queue has no room, if "done" commands are completed.
Full(done) == Dist(SQ_Enq, done) >= SQ_SIZE

BadDrained == Dist(SQ_Enq, SQ_Done) <= 1
\* SoundThread_Drain stops spinning.
Drained == SQ_Done = SQ_Enq

----------------------------------------------------------------------------
(* The hardware.                                                           *)

\* DoRun: runs to ts, one sample for each slice.
DoRun(ts) ==
    /\ lastts' = ts
    /\ IBufferCount' = (IBufferCount + (ts - lastts)) % IBUF
    /\ UNCHANGED dev

\* A register write or a reset.
DoRegister(r) ==
    /\ dev' = r
    /\ UNCHANGED <<lastts, IBufferCount>>

----------------------------------------------------------------------------
Init ==
    /\ mpc = "ready" /\ todo = <<>> /\ then = "ready" /\ sync = "none"
    /\ SQ_DoneCached = 0
    /\ SPendingRun = FALSE /\ SPendingRunTS = 0 /\ SRunBatch = 0
    /\ phase = "frame" /\ SThreaded = FALSE /\ rax_active \in RaxCarts
    /\ SQ = [s \in 0 .. SQ_SIZE - 1 |-> NoCmd] /\ SQ_Enq = 0 /\ SQ_Done = 0
    /\ SThreadSleeping = FALSE /\ SSem = 0
    /\ spc = "none" /\ c = NoCmd
    /\ lastts = 0 /\ dev = "NONE" /\ IBufferCount = 0
    /\ mlast = 0 /\ owed = 0

----------------------------------------------------------------------------
(* The calls main makes.  A call pushes "todo" and continues at "then".    *)

Push(cmds, k) ==
    /\ todo' = cmds
    /\ IF cmds = <<>> THEN mpc' = k /\ then' = "ready"
                      ELSE mpc' = "push" /\ then' = k

BadFlushedRun == <<>>
\* SoundThread_FlushRun: the batched slice, if there is one.
FlushedRun == IF SPendingRun THEN <<[cmd |-> "RUN", at |-> SPendingRunTS]>> ELSE <<>>

\* The threaded half of SOUND_Update, from a batch count of b.
Batch(ts, b) ==
    /\ SPendingRunTS' = ts
    /\ IF b + 1 >= RunBatch
       THEN /\ SRunBatch' = 0 /\ SPendingRun' = FALSE
            /\ Push(<<[cmd |-> "RUN", at |-> ts]>>, "ready")
       ELSE /\ SRunBatch' = b + 1 /\ SPendingRun' = TRUE
            /\ UNCHANGED callVars

UpdateThreaded(ts) ==
    /\ SThreaded
    /\ Batch(ts, SRunBatch)
    /\ UNCHANGED <<sync, SQ_DoneCached, lifeVars, ringVars, sleepVars, threadVars, deviceVars>>

\* The first call with a thread wanted: SoundThread_Start, then as above.
UpdateStarts(ts) ==
    /\ ~SThreaded /\ SThreadWanted /\ ~rax_active
    /\ SThreaded' = TRUE /\ spc' = "poll"
    /\ SQ_Enq' = 0 /\ SQ_Done' = 0 /\ SQ_DoneCached' = 0
    /\ SThreadSleeping' = FALSE /\ SSem' = 0
    /\ Batch(ts, 0)
    /\ UNCHANGED <<sync, phase, rax_active, SQ, c, deviceVars>>

UpdateInline(ts) ==
    /\ ~SThreaded /\ (~SThreadWanted \/ rax_active)
    /\ DoRun(ts)
    /\ UNCHANGED <<callVars, sync, SQ_DoneCached, batchVars, lifeVars, ringVars, sleepVars,
                   threadVars>>

\* The SOUND event: 128 cycles on, or the update forced at the frame's end.
SOUND_Update ==
    /\ mpc = "ready" /\ phase = "frame"
    /\ \E ts \in mlast .. FrameSlices :
          /\ UpdateThreaded(ts) \/ UpdateStarts(ts) \/ UpdateInline(ts)
          /\ mlast' = ts
          /\ owed' = (owed + (ts - mlast)) % IBUF

BadQueue(r) == <<[cmd |-> r, at |-> mlast]>> \o FlushedRun
\* The pending slice first, then the command.
Queue(r) == FlushedRun \o <<[cmd |-> r, at |-> mlast]>>

\* SOUND_Write8/16 to a register, SOUND_Reset, SOUND_Reset68K, SOUND_ResetSCSP,
\* SOUND_Set68KActive, SOUND_SetClockRatio: queued, or executed at once when
\* there is no thread.  The frontend resets the machine between two frames.
SOUND_Write(r) ==
    /\ mpc = "ready" /\ phase \in {"frame", "between"}
    /\ IF SThreaded
       THEN /\ SPendingRun' = FALSE
            /\ Push(Queue(r), "ready")
            /\ UNCHANGED deviceVars
       ELSE DoRegister(r) /\ UNCHANGED <<SPendingRun, callVars>>
    /\ UNCHANGED <<sync, SQ_DoneCached, SPendingRunTS, SRunBatch, lifeVars, inlineVars,
                   ringVars, sleepVars, threadVars>>

\* SoundThread_Drain on behalf of s: flush, then spin; nothing without a thread.
SoundThread_Drain(s) ==
    /\ mpc = "ready"
    /\ sync' = s
    /\ IF SThreaded
       THEN SPendingRun' = FALSE /\ Push(FlushedRun, "drain")
       ELSE mpc' = "access" /\ UNCHANGED <<todo, then, SPendingRun>>
    /\ UNCHANGED <<SQ_DoneCached, SPendingRunTS, SRunBatch, SThreaded, rax_active,
                   inlineVars, ringVars, sleepVars, threadVars, deviceVars>>

\* The read of the MIDI input register, which pops a FIFO.
SOUND_Read16 == phase = "frame" /\ SoundThread_Drain("midi") /\ UNCHANGED phase

\* MidSync hands over the samples so far; the end of Emulate the rest, after
\* rebasing the timestamps.
SOUND_FlushOutput ==
    /\ SoundThread_Drain("flush")
    /\ \/ phase = "frame" /\ UNCHANGED phase
       \/ phase = "tail" /\ phase' = "between"
SOUND_AdjustTS == phase = "frame" /\ SoundThread_Drain("adjust") /\ phase' = "tail"

\* Between two frames a state may be saved or loaded.
SOUND_StateAction == phase = "between" /\ SoundThread_Drain("state") /\ UNCHANGED phase

\* Main itself works on the hardware's state, on behalf of the call that drained.
DirectAccess ==
    /\ mpc = "access"
    /\ mpc' = "ready" /\ sync' = "none"
    /\ CASE sync = "adjust" -> /\ lastts' = lastts - mlast /\ mlast' = 0
                               /\ UNCHANGED <<dev, IBufferCount, owed>>
         [] sync = "flush"  -> /\ IBufferCount' = 0 /\ owed' = 0
                               /\ UNCHANGED <<lastts, dev, mlast>>
         [] sync = "state"  -> /\ dev' \in RegCmds \union {dev}
                               /\ UNCHANGED <<lastts, IBufferCount, inlineVars>>
         [] sync = "midi"   -> UNCHANGED <<deviceVars, inlineVars>>
    /\ UNCHANGED <<todo, then, SQ_DoneCached, batchVars, lifeVars, ringVars, sleepVars,
                   threadVars>>

\* The next call of Emulate.
StartFrame ==
    /\ mpc = "ready" /\ phase = "between"
    /\ phase' = "frame"
    /\ UNCHANGED <<callVars, sync, SQ_DoneCached, batchVars, SThreaded, rax_active,
                   inlineVars, ringVars, sleepVars, threadVars, deviceVars>>

\* The game is closed: SoundThread_Stop pushes EXIT and joins, if there is a thread.
SOUND_Kill ==
    /\ mpc = "ready" /\ phase = "between"
    /\ phase' = "closed"
    /\ IF SThreaded
       THEN /\ SPendingRun' = FALSE
            /\ Push(FlushedRun \o <<[cmd |-> "EXIT", at |-> mlast]>>, "join")
       ELSE UNCHANGED <<SPendingRun, callVars>>
    /\ UNCHANGED <<sync, SQ_DoneCached, SPendingRunTS, SRunBatch, SThreaded, rax_active,
                   inlineVars, ringVars, sleepVars, threadVars, deviceVars>>

\* Another game is loaded; its cart may call SOUND_SetRAXActive(true), which
\* nothing ever undoes.
SOUND_Init ==
    /\ mpc = "ready" /\ phase = "closed"
    /\ phase' = "frame"
    /\ \E rax \in RaxCarts : rax_active' = (rax_active \/ rax)
    /\ lastts' = 0 /\ IBufferCount' = 0 /\ dev' = "NONE"
    /\ mlast' = 0 /\ owed' = 0
    /\ UNCHANGED <<callVars, sync, SQ_DoneCached, batchVars, SThreaded, ringVars,
                   sleepVars, threadVars>>

----------------------------------------------------------------------------
(* SoundThread_Push(Head(todo)), one shared access at a time; the spins.   *)

PushLook ==
    /\ mpc = "push"
    /\ mpc' = IF Full(SQ_DoneCached) THEN "full" ELSE "slot"
    /\ UNCHANGED <<todo, then, sync, SQ_DoneCached, batchVars, lifeVars, inlineVars,
                   ringVars, sleepVars, threadVars, deviceVars>>

BadRefresh == SQ_DoneCached
\* What the spin loads.
Refresh == SQ_Done

PushSpin ==
    /\ mpc = "full"
    /\ SQ_DoneCached' = Refresh
    /\ mpc' = IF Full(Refresh) THEN "full" ELSE "slot"
    /\ UNCHANGED <<todo, then, sync, batchVars, lifeVars, inlineVars,
                   ringVars, sleepVars, threadVars, deviceVars>>

PushSlot ==
    /\ mpc = "slot"
    /\ SQ' = [SQ EXCEPT ![Slot(SQ_Enq)] = Head(todo)]
    /\ mpc' = "publish"
    /\ UNCHANGED <<todo, then, sync, SQ_DoneCached, batchVars, lifeVars, inlineVars,
                   SQ_Enq, SQ_Done, sleepVars, threadVars, deviceVars>>

PushPublish ==
    /\ mpc = "publish"
    /\ SQ_Enq' = Succ(SQ_Enq)
    /\ todo' = Tail(todo)
    /\ mpc' = "post"
    /\ UNCHANGED <<then, sync, SQ_DoneCached, batchVars, lifeVars, inlineVars,
                   SQ, SQ_Done, sleepVars, threadVars, deviceVars>>

\* Wake the thread if it announced a sleep.
PushPost ==
    /\ mpc = "post"
    /\ SSem' = IF SThreadSleeping /\ SSem < SemCap THEN SSem + 1 ELSE SSem
    /\ IF todo = <<>> THEN mpc' = then /\ then' = "ready"
                      ELSE mpc' = "push" /\ UNCHANGED then
    /\ UNCHANGED <<todo, sync, SQ_DoneCached, batchVars, lifeVars, inlineVars,
                   ringVars, SThreadSleeping, threadVars, deviceVars>>

DrainSeen ==
    /\ mpc = "drain" /\ Drained
    /\ mpc' = "access"
    /\ UNCHANGED <<todo, then, sync, SQ_DoneCached, batchVars, lifeVars, inlineVars,
                   ringVars, sleepVars, threadVars, deviceVars>>

\* Thread_Wait returns; SoundThread_Stop clears SThread and SThreaded.
Join ==
    /\ mpc = "join" /\ spc = "exited"
    /\ mpc' = "ready" /\ spc' = "none" /\ SThreaded' = FALSE /\ SSem' = 0
    /\ UNCHANGED <<todo, then, sync, SQ_DoneCached, batchVars, phase, rax_active, inlineVars,
                   ringVars, SThreadSleeping, c, deviceVars>>

----------------------------------------------------------------------------
(* SoundThreadEntry.                                                       *)

\* A command is there, or, 4000 polls of an empty queue later, announce a sleep.
Poll ==
    /\ spc = "poll"
    /\ spc' = IF SQ_Enq # SQ_Done THEN "fetch" ELSE "announce"
    /\ UNCHANGED <<mainVars, ringVars, sleepVars, c, deviceVars>>

Announce ==
    /\ spc = "announce"
    /\ SThreadSleeping' = TRUE
    /\ spc' = "recheck"
    /\ UNCHANGED <<mainVars, ringVars, SSem, c, deviceVars>>

BadRecheck ==
    /\ spc = "recheck"
    /\ spc' = "wait"
    /\ UNCHANGED <<mainVars, ringVars, sleepVars, c, deviceVars>>
Recheck ==
    /\ spc = "recheck"
    /\ spc' = IF SQ_Enq = SQ_Done THEN "wait" ELSE "awake"
    /\ UNCHANGED <<mainVars, ringVars, sleepVars, c, deviceVars>>

\* Sem_TimedWait takes a token ...
SemTaken ==
    /\ spc = "wait" /\ SSem > 0
    /\ SSem' = SSem - 1
    /\ spc' = "awake"
    /\ UNCHANGED <<mainVars, ringVars, SThreadSleeping, c, deviceVars>>

\* ... or its millisecond is over.
SemTimeout ==
    /\ spc = "wait"
    /\ spc' = "awake"
    /\ UNCHANGED <<mainVars, ringVars, sleepVars, c, deviceVars>>

Awake ==
    /\ spc = "awake"
    /\ SThreadSleeping' = FALSE
    /\ spc' = "poll"
    /\ UNCHANGED <<mainVars, ringVars, SSem, c, deviceVars>>

Fetch ==
    /\ spc = "fetch"
    /\ c' = SQ[Slot(SQ_Done)]
    /\ spc' = "exec"
    /\ UNCHANGED <<mainVars, ringVars, sleepVars, deviceVars>>

Execute ==
    /\ spc = "exec"
    /\ \/ c.cmd = "RUN" /\ DoRun(c.at)
       \/ c.cmd \in RegCmds /\ DoRegister(c.cmd)
       \/ c.cmd = "EXIT" /\ UNCHANGED deviceVars
    /\ spc' = "report"
    /\ UNCHANGED <<mainVars, ringVars, sleepVars, c>>

Report ==
    /\ spc = "report"
    /\ SQ_Done' = Succ(SQ_Done)
    /\ spc' = IF c.cmd = "EXIT" THEN "exited" ELSE "poll"
    /\ c' = NoCmd
    /\ UNCHANGED <<mainVars, SQ, SQ_Enq, sleepVars, deviceVars>>

----------------------------------------------------------------------------
MainCall == \/ SOUND_Update \/ (\E r \in RegCmds : SOUND_Write(r))
            \/ SOUND_Read16 \/ SOUND_FlushOutput \/ SOUND_AdjustTS \/ SOUND_StateAction
            \/ StartFrame \/ SOUND_Kill \/ SOUND_Init

MainStep == \/ PushLook \/ PushSpin \/ PushSlot \/ PushPublish \/ PushPost
            \/ DrainSeen \/ DirectAccess \/ Join

ThreadStep == \/ Poll \/ Announce \/ Recheck \/ SemTaken \/ Awake
              \/ Fetch \/ Execute \/ Report

Next == MainCall \/ MainStep \/ ThreadStep \/ SemTimeout

Spec == Init /\ [][Next]_vars

\* Both threads are scheduled; the timed wait need not ever time out.
FairSpec == Spec /\ WF_vars(MainStep) /\ WF_vars(ThreadStep)

----------------------------------------------------------------------------
(* Properties.                                                             *)

\* Every variable has its type.
TypeOK ==
    /\ mpc \in {"ready", "push", "full", "slot", "publish", "post", "drain", "access", "join"}
    /\ todo \in Seq(Command)
    /\ then \in {"ready", "drain", "join"}
    /\ sync \in {"none", "midi", "flush", "adjust", "state"}
    /\ SQ_DoneCached \in Counters
    /\ SPendingRun \in BOOLEAN /\ SPendingRunTS \in Timestamps
    /\ SRunBatch \in 0 .. RunBatch - 1
    /\ phase \in {"frame", "tail", "between", "closed"}
    /\ SThreaded \in BOOLEAN /\ rax_active \in BOOLEAN
    /\ SQ \in [0 .. SQ_SIZE - 1 -> Command \union {NoCmd}]
    /\ SQ_Enq \in Counters /\ SQ_Done \in Counters
    /\ SThreadSleeping \in BOOLEAN /\ SSem \in 0 .. SemCap
    /\ spc \in {"none", "poll", "announce", "recheck", "wait", "awake", "fetch",
                "exec", "report", "exited"}
    /\ c \in Command \union {NoCmd}
    /\ lastts \in Int /\ dev \in RegCmds \union {"NONE"}
    /\ IBufferCount \in 0 .. IBUF - 1
    /\ mlast \in Timestamps /\ owed \in 0 .. IBUF - 1

\* The thread is working on a command.
Busy == spc \in {"fetch", "exec", "report"}

\* Slots whose command the thread has not copied yet.
Unread == {Slot(SQ_Done + i) :
             i \in (IF spc \in {"exec", "report"} THEN 1 ELSE 0) .. Dist(SQ_Enq, SQ_Done) - 1}

\* Main never writes a slot the thread has still to read, however old its view of
\* SQ_Done and however often the counters have wrapped (SoundThread_Push's test
\* for a full queue and its spin).
NoOverwrite == mpc = "slot" => Slot(SQ_Enq) \notin Unread

\* While main itself works on the state of the 68K and the SCSP, the thread is not
\* in the middle of a command and has none left (SoundThread_Drain).
DirectAccessExclusive == mpc = "access" => ~Busy /\ SQ_Enq = SQ_Done

\* ... and the hardware has run exactly as far, and made as many samples, as the
\* inline path would have: no batched slice is left out (SoundThread_FlushRun).  So
\* has it when a register command is executed, which finds it at the emulated time
\* it was issued at, although slices are batched and the thread lags (SOUND_Write16).
CaughtUp ==
    /\ mpc = "access" => lastts = mlast /\ IBufferCount = owed
    /\ spc = "exec" /\ c.cmd \in RegCmds => lastts = c.at

\* A push that raced with the announcement of a sleep is not missed: a thread
\* asleep on a non-empty queue has a token, or main is about to post one.
NoLostWakeup == spc = "wait" /\ SQ_Enq # SQ_Done => SSem > 0 \/ mpc = "post"

\* Every call main makes returns: the spin on a full queue, the drain and the
\* join come to an end.
CallsReturn == mpc # "ready" ~> mpc = "ready"

\* The commands issued and not yet performed: those published and not executed,
\* those of the call in progress, the batched slice.
Published   == [i \in 1 .. Dist(SQ_Enq, SQ_Done) |-> SQ[Slot(SQ_Done + i - 1)]]
Outstanding == (IF spc = "report" THEN Tail(Published) ELSE Published) \o todo \o FlushedRun

Order == INSTANCE SoundInOrder WITH
            chan <- Outstanding, clock <- lastts, now <- mlast

\* The ring, the batching and the two threads implement the ordered channel of
\* SoundInOrder.tla: commands take effect in the order they were issued, each
\* register command at its emulated time.
InOrder == Order!Spec

=============================================================================
