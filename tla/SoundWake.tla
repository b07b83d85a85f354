----------------------------- MODULE SoundWake ------------------------------
(***************************************************************************)
(* The queue of SoundQueue.tla with the memory order its atomics ask for:  *)
(* src/mednafen/ss/sound.cpp stores SQ_Enq, SQ_Done and SThreadSleeping    *)
(* with memory_order_release and loads them with memory_order_acquire,     *)
(* which lets a store sit in the storing core's buffer while later loads   *)
(* of that core go to memory.                                              *)
(*                                                                         *)
(* The slots, the 68K and the SCSP, written with plain stores, are in the  *)
(* same buffers.  The semaphore's calls are atomic read-modify-writes and  *)
(* empty the buffer first.  Commands are numbers, in the order they are    *)
(* pushed.  Operators named Bad... are plausible bugs; no specification    *)
(* uses them.                                                              *)
(***************************************************************************)
EXTENDS Naturals, Sequences

CONSTANTS
    SQ_SIZE,        \* slots of the ring
    MaxPush         \* bound: commands pushed

ASSUME SizeAssumption == SQ_SIZE \in Nat \ {0} /\ MaxPush \in Nat

VARIABLES
    mainpc, enq,        \* main: what it does next, its own count of commands pushed
    threadpc, d, c,     \* sound thread: the same, and the command it copied
    mem,                \* memory, as all cores see it
    mbuf, tbuf,         \* stores of main, of the thread, not yet in memory
    SSem                \* tokens

mainVars  == <<mainpc, enq>>
soundVars == <<threadpc, d, c>>
wakeVars  == <<mainVars, soundVars, mem, mbuf, tbuf, SSem>>

Slots == 0 .. SQ_SIZE - 1
Store(at, val) == [at |-> at, val |-> val]

InitWake ==
    /\ mainpc = "ready" /\ enq = 0
    /\ threadpc = "poll" /\ d = 0 /\ c = 0
    /\ mem = [SQ |-> [s \in Slots |-> 0], SQ_Enq |-> 0, SQ_Done |-> 0,
              SThreadSleeping |-> FALSE, dev |-> 0]
    /\ mbuf = <<>> /\ tbuf = <<>> /\ SSem = 0

----------------------------------------------------------------------------
(* The store buffers.                                                      *)

Written(s) ==
    IF s.at = "SQ" THEN [mem EXCEPT !.SQ[(s.val - 1) % SQ_SIZE] = s.val]
                   ELSE [mem EXCEPT ![s.at] = s.val]

FlushMain ==
    /\ mbuf # <<>>
    /\ mem' = Written(Head(mbuf)) /\ mbuf' = Tail(mbuf)
    /\ UNCHANGED <<mainVars, soundVars, tbuf, SSem>>

FlushThread ==
    /\ tbuf # <<>>
    /\ mem' = Written(Head(tbuf)) /\ tbuf' = Tail(tbuf)
    /\ UNCHANGED <<mainVars, soundVars, mbuf, SSem>>

----------------------------------------------------------------------------
(* SoundThread_Push and SoundThread_Drain.                                 *)

BadPublished(e) == <<Store("SQ_Enq", e), Store("SQ", e)>>
\* The slot, then the counter (release).
Published(e) == <<Store("SQ", e), Store("SQ_Enq", e)>>

\* (The spin on a full ring is the guard.)
Push ==
    /\ mainpc = "ready" /\ enq < MaxPush
    /\ enq - mem.SQ_Done < SQ_SIZE
    /\ enq' = enq + 1
    /\ mbuf' = mbuf \o Published(enq + 1)
    /\ mainpc' = "look"
    /\ UNCHANGED <<soundVars, mem, tbuf, SSem>>

\* SThreadSleeping.load
Look ==
    /\ mainpc = "look"
    /\ mainpc' = IF mem.SThreadSleeping THEN "post" ELSE "ready"
    /\ UNCHANGED <<enq, soundVars, mem, mbuf, tbuf, SSem>>

Post ==
    /\ mainpc = "post" /\ mbuf = <<>>
    /\ SSem' = SSem + 1
    /\ mainpc' = "ready"
    /\ UNCHANGED <<enq, soundVars, mem, mbuf, tbuf>>

Drain ==
    /\ mainpc = "ready"
    /\ mainpc' = "drain"
    /\ UNCHANGED <<enq, soundVars, mem, mbuf, tbuf, SSem>>

DrainSeen ==
    /\ mainpc = "drain" /\ mem.SQ_Done = enq
    /\ mainpc' = "access"
    /\ UNCHANGED <<enq, soundVars, mem, mbuf, tbuf, SSem>>

DirectAccess ==
    /\ mainpc = "access"
    /\ mainpc' = "ready"
    /\ UNCHANGED <<enq, soundVars, mem, mbuf, tbuf, SSem>>

----------------------------------------------------------------------------
(* SoundThreadEntry.                                                       *)

\* SQ_Enq.load; after 4000 polls of an empty queue, the announcement of a sleep.
Poll ==
    /\ threadpc = "poll"
    /\ IF mem.SQ_Enq # d
       THEN threadpc' = "fetch" /\ UNCHANGED tbuf
       ELSE threadpc' = "recheck" /\ tbuf' = Append(tbuf, Store("SThreadSleeping", TRUE))
    /\ UNCHANGED <<mainVars, d, c, mem, mbuf, SSem>>

Recheck ==
    /\ threadpc = "recheck"
    /\ threadpc' = IF mem.SQ_Enq = d THEN "sleep" ELSE "awake"
    /\ UNCHANGED <<mainVars, d, c, mem, mbuf, tbuf, SSem>>

\* Sem_TimedWait begins.
Sleep ==
    /\ threadpc = "sleep" /\ tbuf = <<>>
    /\ threadpc' = "wait"
    /\ UNCHANGED <<mainVars, d, c, mem, mbuf, tbuf, SSem>>

SemTaken ==
    /\ threadpc = "wait" /\ SSem > 0
    /\ SSem' = SSem - 1
    /\ threadpc' = "awake"
    /\ UNCHANGED <<mainVars, d, c, mem, mbuf, tbuf>>

BadSemTimeout == threadpc = "wait" /\ UNCHANGED wakeVars
\* A millisecond is over.
SemTimeout ==
    /\ threadpc = "wait"
    /\ threadpc' = "awake"
    /\ UNCHANGED <<mainVars, d, c, mem, mbuf, tbuf, SSem>>

Awake ==
    /\ threadpc = "awake"
    /\ tbuf' = Append(tbuf, Store("SThreadSleeping", FALSE))
    /\ threadpc' = "poll"
    /\ UNCHANGED <<mainVars, d, c, mem, mbuf, SSem>>

Fetch ==
    /\ threadpc = "fetch"
    /\ c' = mem.SQ[d % SQ_SIZE]
    /\ threadpc' = "exec"
    /\ UNCHANGED <<mainVars, d, mem, mbuf, tbuf, SSem>>

BadReported == <<Store("SQ_Done", d + 1), Store("dev", c)>>
\* What executing a command stores, then the counter (release).
Reported == <<Store("dev", c), Store("SQ_Done", d + 1)>>

Execute ==
    /\ threadpc = "exec"
    /\ tbuf' = tbuf \o Reported
    /\ d' = d + 1
    /\ threadpc' = "poll"
    /\ UNCHANGED <<mainVars, c, mem, mbuf, SSem>>

----------------------------------------------------------------------------
MainStep == Look \/ Post \/ DrainSeen \/ DirectAccess
ThreadStep == Poll \/ Recheck \/ Sleep \/ SemTaken \/ Awake \/ Fetch \/ Execute

NextWake == Push \/ Drain \/ MainStep \/ ThreadStep \/ SemTimeout \/ FlushMain \/ FlushThread

SpecWake == InitWake /\ [][NextWake]_wakeVars

\* Both threads are scheduled, a store reaches memory, a wait times out.
FairSpecWake ==
    /\ SpecWake
    /\ WF_wakeVars(MainStep) /\ WF_wakeVars(ThreadStep) /\ WF_wakeVars(SemTimeout)
    /\ WF_wakeVars(FlushMain) /\ WF_wakeVars(FlushThread)

----------------------------------------------------------------------------
(* Properties.                                                             *)

\* The thread executes the command that was pushed at its place in the queue, never
\* what the slot held before (the release store of SQ_Enq after the slot).
FetchesPushed == threadpc = "exec" => c = d + 1

\* Main, working on the 68K and the SCSP itself, sees all that the thread did to
\* them (the release store of SQ_Done after the command).
AccessSeesAll == mainpc = "access" => mem.dev = enq

\* A drain ends: what was pushed is executed, if need be after a timeout.
DrainReturns == mainpc = "drain" ~> mainpc = "access"

=============================================================================
