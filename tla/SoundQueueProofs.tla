-------------------------- MODULE SoundQueueProofs --------------------------
(***************************************************************************)
(* Theorems about SoundQueue.tla, for every size of the ring, width of the *)
(* counters, batch, frame and set of commands.                             *)
(***************************************************************************)
EXTENDS SoundQueue, ModArith, SequenceTheorems, TLAPS

----------------------------------------------------------------------------
(* Counters.                                                               *)

\* The distance of two counters is a counter, 0 only if they are equal.
LEMMA DistType ==
    ASSUME NEW e \in Counters, NEW d \in Counters
    PROVE  Dist(e, d) \in Counters /\ (Dist(e, d) = 0 <=> e = d)
  BY RingAssumption DEF Counters, Dist

\* Counting stays within the counter's width.
LEMMA SuccType ==
    ASSUME NEW e \in Counters
    PROVE  Succ(e) \in Counters
  BY RingAssumption DEF Counters, Succ

\* Pushing a command lengthens the queue by one, wrapped or not.
LEMMA DistPush ==
    ASSUME NEW e \in Counters, NEW d \in Counters, Dist(e, d) < Wrap - 1
    PROVE  Dist(Succ(e), d) = Dist(e, d) + 1
  BY RingAssumption DEF Counters, Dist, Succ

\* Completing a command shortens it by one.
LEMMA DistPop ==
    ASSUME NEW e \in Counters, NEW d \in Counters, e # d
    PROVE  Dist(e, Succ(d)) = Dist(e, d) - 1
  BY RingAssumption DEF Counters, Dist, Succ

\* The slot main writes next is the one behind the queued commands.
LEMMA SlotRear ==
    ASSUME NEW e \in Counters, NEW d \in Counters
    PROVE  Slot(d + Dist(e, d)) = Slot(e)
  <1>1. CASE e >= d
    BY <1>1 DEF Dist, Counters
  <1>2. CASE e < d
    <2>1. d + Dist(e, d) = e + Wrap
      BY <1>2, RingAssumption DEF Dist, Counters
    <2>2. e \in Nat
      BY RingAssumption DEF Counters
    <2>3. (e + Wrap) % SQ_SIZE = e % SQ_SIZE
      BY <2>2, RingAssumption, ModShift
    <2> QED
      BY <2>1, <2>3 DEF Slot
  <1> QED
    BY <1>1, <1>2 DEF Counters

\* The slot main writes next is none of those of the queued commands.
LEMMA SlotFree ==
    ASSUME NEW e \in Counters, NEW d \in Counters, Dist(e, d) < SQ_SIZE,
           NEW i \in 0 .. Dist(e, d) - 1
    PROVE  Slot(d + i) # Slot(e)
  <1> DEFINE n == Dist(e, d)
  <1>1. n \in Nat /\ d \in Nat /\ e \in Nat /\ i \in Nat /\ i < n /\ n < SQ_SIZE
    BY DistType DEF Counters
  <1> HIDE DEF n
  <1>2. Slot(d + i) # Slot(d + n)
    <2>1. /\ SQ_SIZE \in Nat \ {0} /\ d + i \in Nat /\ d + n \in Nat
          /\ d + i < d + n /\ (d + n) - (d + i) < SQ_SIZE
      BY <1>1, RingAssumption
    <2>2. (d + i) % SQ_SIZE # (d + n) % SQ_SIZE
      BY <2>1, ModNear
    <2> QED
      BY <2>2 DEF Slot
  <1>3. Slot(d + n) = Slot(e)
    BY SlotRear DEF n
  <1> QED
    BY <1>2, <1>3 DEF n

\* After a command is completed, the i-th queued command is where the one behind
\* it was.
LEMMA SlotSucc ==
    ASSUME NEW d \in Counters, NEW i \in Nat
    PROVE  Slot(Succ(d) + i) = Slot(d + (i + 1))
  <1>1. CASE d = Wrap - 1
    <2>1. d + (i + 1) = i + Wrap /\ Succ(d) + i = i
      BY <1>1, RingAssumption DEF Succ
    <2>2. (i + Wrap) % SQ_SIZE = i % SQ_SIZE
      BY RingAssumption, ModShift
    <2> QED
      BY <2>1, <2>2 DEF Slot
  <1>2. CASE d # Wrap - 1
    BY <1>2 DEF Succ, Counters
  <1> QED
    BY <1>1, <1>2

\* Every slot is a slot of the ring.
LEMMA SlotType ==
    ASSUME NEW e \in Nat
    PROVE  Slot(e) \in 0 .. SQ_SIZE - 1
  BY RingAssumption, ModBound DEF Slot

----------------------------------------------------------------------------
(* The inductive invariant.                                                *)

\* What main holds at each point of a call.
Control ==
    /\ mpc \in {"push", "full", "slot", "publish"} => todo # <<>>
    /\ mpc \in {"ready", "drain", "access", "join"} => todo = <<>>
    /\ mpc \in {"ready", "drain", "access", "join"} => then = "ready"
    /\ Len(todo) <= 2
    /\ mpc \in {"push", "full", "slot", "publish", "post", "drain", "join"} => SThreaded
    /\ SThreaded <=> spc # "none"
    /\ mpc # "ready" \/ ~SThreaded => ~SPendingRun
    /\ (mpc \in {"drain", "access"} \/ then = "drain") <=> sync # "none"

\* The window of queued commands, seen through SQ_Done and through main's older
\* view of it.
Window ==
    /\ Dist(SQ_Enq, SQ_Done) <= Dist(SQ_Enq, SQ_DoneCached)
    /\ Dist(SQ_Enq, SQ_DoneCached) <= SQ_SIZE
    /\ mpc \in {"slot", "publish"} => Dist(SQ_Enq, SQ_DoneCached) < SQ_SIZE
    /\ Busy => SQ_Enq # SQ_Done
    /\ mpc = "access" /\ SThreaded => SQ_Enq = SQ_Done

\* The announced sleep.
Sleep ==
    /\ SThreadSleeping <=> spc \in {"recheck", "wait", "awake"}
    /\ NoLostWakeup

Queued  == Dist(SQ_Enq, SQ_Done)
Item(i) == SQ[Slot(SQ_Done + i)]

\* How far the hardware will have run when the queue is empty.
Rear == IF Queued = 0 THEN lastts ELSE Item(Queued - 1).at

\* Command k comes behind one that leaves the hardware at time t.
Follows(k, t) == IF k.cmd = "RUN" THEN t <= k.at ELSE t = k.at

\* The commands in the ring: each follows the one before it.
Contents ==
    /\ \A i \in 0 .. Queued - 1 : Item(i) \in Command /\ Item(i).at <= mlast
    /\ \A i \in 1 .. Queued - 1 : Follows(Item(i), Item(i - 1).at)
    /\ Queued > 0 /\ spc # "report" => Follows(Item(0), lastts)
    /\ spc = "report" => Item(0).at = lastts
    /\ spc \in {"exec", "report"} => c = Item(0)
    /\ mpc = "publish" => SQ[Slot(SQ_Enq)] = Head(todo)

\* The commands main has still to push, and the batched slice, follow them and
\* end where the inline path would be.
Rest ==
    /\ todo = <<>> => IF SPendingRun THEN SPendingRunTS = mlast /\ Rear <= mlast
                                     ELSE Rear = mlast
    /\ todo # <<>> => /\ Follows(todo[1], Rear)
                      /\ Len(todo) = 2 => Follows(todo[2], todo[1].at)
                      /\ todo[Len(todo)].at = mlast

\* EXIT is the last command there is.
Last ==
    /\ \A i \in 0 .. Queued - 1 : Item(i).cmd = "EXIT" =>
          /\ i = Queued - 1 /\ todo = <<>>
          /\ mpc = "join" \/ (mpc = "post" /\ then = "join")
    /\ todo # <<>> => \A i \in 1 .. Len(todo) : todo[i].cmd = "EXIT" => i = Len(todo) /\ then = "join"
    /\ spc = "exited" => /\ SQ_Enq = SQ_Done /\ todo = <<>>
                         /\ mpc = "join" \/ (mpc = "post" /\ then = "join")
    /\ ~SThreaded => SQ_Enq = SQ_Done
    /\ phase = "closed" /\ SThreaded => mpc = "join" \/ then = "join"

\* The samples: those made and those the hardware lags behind are those owed.
Samples ==
    /\ IBufferCount + (mlast - lastts) = owed
    /\ 0 <= lastts /\ lastts <= mlast
    /\ owed <= FrameSlices
    /\ phase = "frame" => owed <= mlast
    /\ phase \in {"between", "closed"} /\ sync # "flush" => owed = 0
    /\ sync = "adjust" => phase = "tail"

IInv == TypeOK /\ Control /\ Window /\ Sleep /\ Contents /\ Rest /\ Last /\ Samples

----------------------------------------------------------------------------
USE DEF callVars, batchVars, lifeVars, ringVars, sleepVars, threadVars, deviceVars,
        inlineVars, mainVars

\* Sequences of one command.
LEMMA One ==
    ASSUME NEW S, NEW x \in S
    PROVE  /\ <<x>> \in Seq(S) /\ <<x>> # <<>> /\ Len(<<x>>) = 1 /\ <<x>>[1] = x
           /\ <<>> \o <<x>> = <<x>>
  <1>1. <<x>> \in Seq(S) /\ Len(<<x>>) = 1 /\ <<x>>[1] = x
    OBVIOUS
  <1>2. <<x>> # <<>>
    BY <1>1
  <1>3. <<>> \o <<x>> = <<x>>
    <2>1. <<>> \in Seq(S)
      OBVIOUS
    <2> QED
      BY <1>1, <2>1
  <1> QED
    BY <1>1, <1>2, <1>3

\* Sequences of two commands.
LEMMA Two ==
    ASSUME NEW S, NEW x \in S, NEW y \in S
    PROVE  /\ <<x, y>> \in Seq(S) /\ <<x, y>> # <<>> /\ Len(<<x, y>>) = 2
           /\ <<x, y>>[1] = x /\ <<x, y>>[2] = y
           /\ <<x>> \o <<y>> = <<x, y>>
  <1>1. <<x, y>> \in Seq(S) /\ Len(<<x, y>>) = 2 /\ <<x, y>>[1] = x /\ <<x, y>>[2] = y
    OBVIOUS
  <1>2. <<x, y>> # <<>>
    BY <1>1
  <1>3. <<x>> \o <<y>> = <<x, y>>
    <2> DEFINE p == <<x>>
               q == <<y>>
               r == p \o q
    <2>1. /\ p \in Seq(S) /\ Len(p) = 1 /\ p[1] = x
          /\ q \in Seq(S) /\ Len(q) = 1 /\ q[1] = y
      BY One
    <2> HIDE DEF p, q
    <2>2. /\ r \in Seq(S) /\ Len(r) = Len(p) + Len(q)
          /\ \A i \in 1 .. Len(p) + Len(q) : r[i] = IF i <= Len(p) THEN p[i] ELSE q[i - Len(p)]
      BY <2>1, ConcatProperties
    <2> HIDE DEF r
    <2>3. Len(p) + Len(q) = 2 /\ 1 <= Len(p) /\ ~(2 <= Len(p)) /\ 2 - Len(p) = 1
      BY <2>1
    <2>4. r \in Seq(S) /\ Len(r) = 2 /\ r[1] = x /\ r[2] = y
      BY <2>1, <2>2, <2>3
    <2>5. r = <<x, y>>
      BY <2>4
    <2> QED
      BY <2>5 DEF p, q, r
  <1> QED
    BY <1>1, <1>2, <1>3

\* Equal timestamps.
LEMMA Same ==
    ASSUME NEW a \in Int, NEW b \in Int, NEW n \in Int, a = b
    PROVE  a - b = 0 /\ b <= a /\ n + (a - b) = n
  OBVIOUS

\* The queue is a natural number of commands long, and empty when the counters meet.
LEMMA QueuedType ==
    TypeOK => Queued \in Nat /\ (Queued = 0 <=> SQ_Enq = SQ_Done)
  <1> SUFFICES ASSUME TypeOK PROVE Queued \in Nat /\ (Queued = 0 <=> SQ_Enq = SQ_Done)
    OBVIOUS
  <1>1. SQ_Enq \in Counters /\ SQ_Done \in Counters
    BY DEF TypeOK
  <1>2. Queued \in Counters /\ (Queued = 0 <=> SQ_Enq = SQ_Done)
    BY <1>1, DistType DEF Queued
  <1> QED
    BY <1>2, RingAssumption DEF Counters

\* What is in a slot is a command, or was never written.
LEMMA ItemType ==
    ASSUME TypeOK, NEW i \in Nat
    PROVE  Item(i) \in Command \union {NoCmd}
  <1>1. SQ_Done + i \in Nat
    BY DEF TypeOK, Counters
  <1> QED
    BY <1>1, SlotType DEF TypeOK, Item

\* The oldest command is the one in the slot SQ_Done points to.
LEMMA ItemZero ==
    TypeOK => Item(0) = SQ[Slot(SQ_Done)]
  <1> SUFFICES ASSUME TypeOK PROVE Item(0) = SQ[Slot(SQ_Done)]
    OBVIOUS
  <1>1. SQ_Done + 0 = SQ_Done
    BY DEF TypeOK, Counters
  <1> QED
    BY <1>1 DEF Item

\* The commands a call has to push: none, one or two.
LEMMA TodoShape ==
    ASSUME TypeOK, Control
    PROVE  \/ todo = <<>>
           \/ \E x \in Command : todo = <<x>>
           \/ \E x \in Command, y \in Command : todo = <<x, y>>
  <1>1. todo \in Seq(Command) /\ Len(todo) \in Nat /\ Len(todo) <= 2
    BY DEF TypeOK, Control
  <1>2. CASE Len(todo) = 0
    <2>1. todo = <<>>
      BY <1>1, <1>2
    <2> QED
      BY <2>1
  <1>3. CASE Len(todo) = 1
    <2>1. todo[1] \in Command /\ todo = <<todo[1]>>
      BY <1>1, <1>3
    <2> QED
      BY <2>1
  <1>4. CASE Len(todo) = 2
    <2>1. todo[1] \in Command /\ todo[2] \in Command
      BY <1>1, <1>4
    <2>2. todo = <<todo[1], todo[2]>>
      BY <1>1, <1>4
    <2> QED
      BY <2>1, <2>2
  <1>5. Len(todo) = 0 \/ Len(todo) = 1 \/ Len(todo) = 2
    <2> DEFINE n == Len(todo)
    <2>1. n \in Nat /\ n <= 2
      BY <1>1
    <2> HIDE DEF n
    <2>2. n = 0 \/ n = 1 \/ n = 2
      BY <2>1
    <2> QED
      BY <2>2 DEF n
  <1> QED
    BY <1>2, <1>3, <1>4, <1>5

\* The initial states.
LEMMA InitIInv == Init => IInv
  <1> SUFFICES ASSUME Init PROVE IInv
    OBVIOUS
  <1>1. SQ_Enq \in Counters /\ SQ_Done \in Counters /\ 0 \in Timestamps /\ Queued = 0
    BY DistType, RingAssumption, FrameAssumption DEF Init, Counters, Timestamps, Queued
  <1>2. TypeOK
    <2>1. todo \in Seq(Command) /\ SQ \in [0 .. SQ_SIZE - 1 -> Command \union {NoCmd}]
      BY DEF Init
    <2>2. SRunBatch \in 0 .. RunBatch - 1 /\ SSem \in 0 .. SemCap /\ rax_active \in BOOLEAN
      BY BatchAssumption, SemAssumption, CartAssumption DEF Init
    <2>3. IBufferCount \in 0 .. IBUF - 1 /\ owed \in 0 .. IBUF - 1 /\ SQ_DoneCached \in Counters
      BY <1>1, FrameAssumption DEF Init
    <2>4. c \in Command \union {NoCmd} /\ lastts \in Int /\ dev \in RegCmds \union {"NONE"}
      BY DEF Init
    <2>5. SPendingRunTS \in Timestamps /\ mlast \in Timestamps
      BY <1>1 DEF Init
    <2> QED
      BY <1>1, <2>1, <2>2, <2>3, <2>4, <2>5 DEF Init, TypeOK
  <1>3. Control /\ Sleep /\ Samples
    BY FrameAssumption DEF Init, Control, Sleep, NoLostWakeup, Samples
  <1>4. Window
    BY <1>1, RingAssumption DEF Init, Window, Busy, Queued
  <1>5. Contents /\ Rest /\ Last
    BY <1>1 DEF Init, Contents, Rest, Rear, Last
  <1> QED
    BY <1>2, <1>3, <1>4, <1>5 DEF IInv

----------------------------------------------------------------------------
(* The sound thread's steps.                                               *)

\* Looking at the queue, and going to sleep and waking up.
LEMMA StepIdle ==
    IInv /\ (Poll \/ Announce \/ Recheck \/ SemTaken \/ SemTimeout \/ Awake) => IInv'
  <1> SUFFICES ASSUME IInv, Poll \/ Announce \/ Recheck \/ SemTaken \/ SemTimeout \/ Awake
               PROVE  IInv'
    OBVIOUS
  <1> USE DEF Poll, Announce, Recheck, SemTaken, SemTimeout, Awake
  <1>1. TypeOK'
    <2>1. SSem' \in 0 .. SemCap
      BY SemAssumption DEF IInv, TypeOK
    <2> QED
      BY ZenonT(60), <2>1 DEF IInv, TypeOK
  <1>2. Control'
    BY DEF IInv, Control
  <1>3. Window'
    BY DEF IInv, Window, Busy
  <1>4. Sleep'
    BY DEF IInv, Sleep, NoLostWakeup
  <1>5. Contents'
    BY DEF IInv, Contents, Queued, Item
  <1>6. Rest'
    BY DEF IInv, Rest, Rear, Queued, Item
  <1>7. Last'
    BY DEF IInv, Last, Queued, Item
  <1>8. Samples'
    BY DEF IInv, Samples
  <1> QED
    BY <1>1, <1>2, <1>3, <1>4, <1>5, <1>6, <1>7, <1>8 DEF IInv

\* The copy of the oldest command.
LEMMA StepFetch ==
    IInv /\ Fetch => IInv'
  <1> SUFFICES ASSUME IInv, Fetch PROVE IInv'
    OBVIOUS
  <1>0. c' = Item(0) /\ Item(0) \in Command \union {NoCmd}
    BY ItemZero, ItemType DEF IInv, Fetch
  <1>1. TypeOK'
    BY <1>0 DEF IInv, TypeOK, Fetch
  <1>2. Control' /\ Sleep' /\ Samples'
    BY DEF IInv, Control, Sleep, NoLostWakeup, Samples, Fetch
  <1>3. Window'
    BY DEF IInv, Window, Busy, Fetch
  <1>4. Queued' = Queued /\ \A i \in Nat : Item(i)' = Item(i)
    BY DEF Fetch, Queued, Item
  <1>5. Contents'
    BY <1>0, <1>4, QueuedType DEF IInv, Contents, Queued, Item, Fetch
  <1>6. Rest' /\ Last'
    BY DEF IInv, Rest, Rear, Last, Queued, Item, Fetch
  <1> QED
    BY <1>1, <1>2, <1>3, <1>5, <1>6 DEF IInv

\* A command takes effect: the hardware reaches the command's time, within the
\* samples owed.
LEMMA StepExecute ==
    IInv /\ Execute => IInv'
  <1> SUFFICES ASSUME IInv, Execute PROVE IInv'
    OBVIOUS
  <1>0. /\ Queued \in Nat /\ Queued > 0
        /\ c = Item(0) /\ c \in Command /\ Follows(c, lastts)
    BY QueuedType DEF IInv, Window, Busy, Contents, Execute
  <1>a. lastts' = c.at
    BY <1>0, RegAssumption DEF Execute, DoRun, DoRegister, Follows
  <1>b. Queued' = Queued /\ \A i \in Nat : Item(i)' = Item(i)
    BY DEF Execute, Queued, Item
  <1>c. /\ lastts \in Int /\ c.at \in Int /\ mlast \in Int
        /\ lastts <= c.at /\ c.at <= mlast
    BY <1>0 DEF Command, Follows, Timestamps, IInv, TypeOK, Contents
  <1>d. /\ IBufferCount' = IBufferCount + (c.at - lastts)
        /\ IBufferCount' \in 0 .. IBUF - 1
    <2>1. IBufferCount + (c.at - lastts) \in 0 .. IBUF - 1
      BY <1>c, FrameAssumption DEF IInv, TypeOK, Samples
    <2>2. (IBufferCount + (c.at - lastts)) % IBUF = IBufferCount + (c.at - lastts)
      BY <2>1, FrameAssumption, ModSmall
    <2>3. CASE c.cmd = "RUN"
      BY <2>1, <2>2, <2>3, RegAssumption DEF Execute, DoRun
    <2>4. CASE c.cmd # "RUN"
      <3>1. IBufferCount' = IBufferCount /\ c.at = lastts
        BY <2>4, <1>0 DEF Execute, DoRegister, Follows
      <3>2. IBufferCount \in Int
        BY FrameAssumption DEF IInv, TypeOK
      <3> QED
        BY <2>1, <3>1, <3>2, <1>c
    <2> QED
      BY <2>3, <2>4
  <1>1. TypeOK'
    <2>1. dev' \in RegCmds \union {"NONE"}
      BY DEF IInv, TypeOK, Execute, DoRun, DoRegister
    <2> QED
      BY <2>1, <1>a, <1>c, <1>d DEF IInv, TypeOK, Execute
  <1>2. Control' /\ Sleep'
    BY DEF IInv, Control, Sleep, NoLostWakeup, Execute
  <1>3. Window'
    BY DEF IInv, Window, Busy, Execute
  <1>5. Contents'
    BY <1>0, <1>a, <1>b DEF IInv, Contents, Execute
  <1>6. Rest'
    <2>1. CASE Queued = 1
      BY <2>1, <1>0, <1>a, <1>b DEF IInv, Rest, Rear, Execute
    <2>2. CASE Queued > 1
      BY <2>2, <1>0, <1>a, <1>b DEF IInv, Rest, Rear, Execute
    <2> QED
      BY <2>1, <2>2, <1>0
  <1>7. Last'
    BY <1>b DEF IInv, Last, Execute
  <1>8. Samples'
    <2>1. UNCHANGED <<mlast, owed, phase, sync>>
      BY DEF Execute
    <2>2. IBufferCount \in Int /\ owed \in Int
      BY FrameAssumption DEF IInv, TypeOK
    <2> QED
      BY <1>a, <1>c, <1>d, <2>1, <2>2 DEF IInv, Samples
  <1> QED
    BY <1>1, <1>2, <1>3, <1>5, <1>6, <1>7, <1>8 DEF IInv

\* A command is complete: the queue is one shorter, and what was second is first.
LEMMA StepReport ==
    IInv /\ Report => IInv'
  <1> SUFFICES ASSUME IInv, Report PROVE IInv'
    OBVIOUS
  <1>0. /\ Queued \in Nat /\ Queued > 0 /\ SQ_Enq # SQ_Done
        /\ SQ_Enq \in Counters /\ SQ_Done \in Counters
        /\ Item(0).at = lastts /\ c = Item(0)
    BY QueuedType DEF IInv, TypeOK, Window, Busy, Contents, Report
  <1>a. Queued' = Queued - 1
    BY <1>0, DistPop DEF Queued, Report
  <1>b. \A i \in Nat : Item(i)' = Item(i + 1)
    <2> SUFFICES ASSUME NEW i \in Nat PROVE Item(i)' = Item(i + 1)
      OBVIOUS
    <2>1. Slot(Succ(SQ_Done) + i) = Slot(SQ_Done + (i + 1))
      BY <1>0, SlotSucc
    <2> QED
      BY <2>1 DEF Item, Report
  <1>1. TypeOK'
    BY <1>0, SuccType DEF IInv, TypeOK, Report
  <1>2. Control' /\ Sleep' /\ Samples'
    BY DEF IInv, Control, Sleep, NoLostWakeup, Samples, Report
  <1>3. Window'
    <2>1. SQ_DoneCached \in Counters /\ Dist(SQ_Enq, SQ_DoneCached) \in Nat
      BY <1>0, DistType DEF IInv, TypeOK, Counters
    <2> QED
      BY <2>1, <1>0, <1>a DEF IInv, Window, Busy, Queued, Report, Control
  <1>5. Contents'
    BY <1>0, <1>a, <1>b DEF IInv, Contents, Report
  <1>c. Rear' = Rear
    <2>1. CASE Queued = 1
      BY <2>1, <1>0, <1>a DEF Rear, Report
    <2>2. CASE Queued > 1
      <3>1. Queued' - 1 \in Nat /\ Queued' # 0 /\ (Queued' - 1) + 1 = Queued - 1
        BY <2>2, <1>0, <1>a
      <3> QED
        BY <3>1, <1>b, <1>0 DEF Rear
    <2> QED
      BY <2>1, <2>2, <1>0
  <1>6. Rest'
    BY <1>c DEF IInv, Rest, Report
  <1>7. Last'
    <2>1. ASSUME NEW i \in 0 .. Queued' - 1, Item(i)'.cmd = "EXIT"
          PROVE  /\ i = Queued' - 1 /\ todo = <<>>
                 /\ mpc = "join" \/ (mpc = "post" /\ then = "join")
      BY <2>1, <1>0, <1>a, <1>b DEF IInv, Last
    <2>2. ASSUME c.cmd = "EXIT"
          PROVE  /\ SQ_Enq' = SQ_Done' /\ todo = <<>>
                 /\ mpc = "join" \/ (mpc = "post" /\ then = "join")
      <3>1. Queued = 1 /\ todo = <<>> /\ (mpc = "join" \/ (mpc = "post" /\ then = "join"))
        BY <2>2, <1>0 DEF IInv, Last
      <3>2. Queued' = 0
        BY <3>1, <1>a
      <3>3. SQ_Enq' = SQ_Done'
        BY <3>2, <1>0, SuccType, DistType DEF Queued, Report
      <3> QED
        BY <3>1, <3>3
    <2>3. SThreaded
      BY DEF IInv, Control, Report
    <2>4. UNCHANGED <<todo, then, mpc, SThreaded>>
      BY DEF Report
    <2> QED
      BY <2>1, <2>2, <2>3, <2>4 DEF IInv, Last, Report
  <1> QED
    BY <1>1, <1>2, <1>3, <1>5, <1>6, <1>7 DEF IInv

----------------------------------------------------------------------------
(* SoundThread_Push and the spins.                                         *)

\* Steps that only look: the full test, the spin, the post, the end of the drain.
LEMMA StepLook ==
    IInv /\ (PushLook \/ PushSpin \/ DrainSeen) => IInv'
  <1> SUFFICES ASSUME IInv, PushLook \/ PushSpin \/ DrainSeen PROVE IInv'
    OBVIOUS
  <1> USE DEF PushLook, PushSpin, DrainSeen, Refresh, Drained
  <1>1. TypeOK'
    BY DEF IInv, TypeOK
  <1>2. Control'
    BY DEF IInv, Control
  <1>3. Window'
    <2>1. SQ_Enq \in Counters /\ SQ_Done \in Counters /\ SQ_DoneCached \in Counters
      BY DEF IInv, TypeOK
    <2>2. /\ Dist(SQ_Enq, SQ_DoneCached) \in Counters /\ Dist(SQ_Enq, SQ_Done) \in Counters
          /\ SQ_SIZE \in Int
      BY <2>1, DistType, RingAssumption
    <2> QED
      BY <2>1, <2>2 DEF IInv, Window, Busy, Full, Counters
  <1>4. Sleep'
    BY DEF IInv, Sleep, NoLostWakeup
  <1>5. Contents'
    BY DEF IInv, Contents, Queued, Item
  <1>6. Rest'
    BY DEF IInv, Rest, Rear, Queued, Item
  <1>7. Last'
    BY DEF IInv, Last, Control, Queued, Item
  <1>8. Samples'
    BY DEF IInv, Samples
  <1> QED
    BY <1>1, <1>2, <1>3, <1>4, <1>5, <1>6, <1>7, <1>8 DEF IInv

\* The wake-up.
LEMMA StepPost ==
    IInv /\ PushPost => IInv'
  <1> SUFFICES ASSUME IInv, PushPost PROVE IInv'
    OBVIOUS
  <1>1. SSem' \in 0 .. SemCap /\ (SThreadSleeping => SSem' > 0) /\ SSem' >= SSem
    BY SemAssumption DEF IInv, TypeOK, PushPost
  <1>2. TypeOK'
    BY <1>1 DEF IInv, TypeOK, PushPost
  <1>3. Control'
    BY DEF IInv, TypeOK, Control, PushPost
  <1>4. Window'
    BY DEF IInv, TypeOK, Control, Window, Busy, PushPost
  <1>5. Sleep'
    BY <1>1 DEF IInv, Sleep, NoLostWakeup, PushPost
  <1>6. Contents'
    BY DEF IInv, TypeOK, Contents, Queued, Item, PushPost
  <1>7. Rest'
    BY DEF IInv, Rest, Rear, Queued, Item, PushPost
  <1>8. Last'
    BY DEF IInv, Last, Control, Queued, Item, PushPost
  <1>9. Samples'
    BY DEF IInv, Samples, PushPost
  <1> QED
    BY <1>2, <1>3, <1>4, <1>5, <1>6, <1>7, <1>8, <1>9 DEF IInv

\* The write of a slot: it is none of those of the queued commands.
LEMMA StepSlot ==
    IInv /\ PushSlot => IInv'
  <1> SUFFICES ASSUME IInv, PushSlot PROVE IInv'
    OBVIOUS
  <1>0. /\ SQ_Enq \in Counters /\ SQ_Done \in Counters /\ Queued \in Nat
        /\ Dist(SQ_Enq, SQ_Done) < SQ_SIZE
    <2>1. SQ_Enq \in Counters /\ SQ_Done \in Counters /\ SQ_DoneCached \in Counters
      BY DEF IInv, TypeOK
    <2>2. Dist(SQ_Enq, SQ_DoneCached) \in Counters /\ Queued \in Nat
      BY <2>1, DistType, QueuedType DEF IInv
    <2> QED
      BY <2>1, <2>2, RingAssumption DEF IInv, Window, PushSlot, Counters, Queued
  <1>a. Slot(SQ_Enq) \in 0 .. SQ_SIZE - 1
    BY <1>0, SlotType DEF Counters
  <1>b. Head(todo) \in Command
    BY TodoShape DEF IInv, Control, PushSlot
  <1>c. SQ'[Slot(SQ_Enq)] = Head(todo)
    BY <1>a DEF IInv, TypeOK, PushSlot
  <1>d. Queued' = Queued /\ \A i \in 0 .. Queued - 1 : Item(i)' = Item(i)
    BY <1>0, SlotFree DEF IInv, TypeOK, PushSlot, Queued, Item
  <1>1. TypeOK'
    BY <1>a, <1>b DEF IInv, TypeOK, PushSlot
  <1>2. Control' /\ Samples'
    BY DEF IInv, Control, Samples, PushSlot
  <1>3. Window'
    BY DEF IInv, Window, Busy, PushSlot
  <1>4. Sleep'
    BY DEF IInv, Sleep, NoLostWakeup, PushSlot
  <1>5. Contents'
    <2>1. spc \in {"exec", "report"} => Queued > 0
      BY QueuedType DEF IInv, Window, Busy
    <2> QED
      BY <2>1, <1>0, <1>c, <1>d DEF IInv, Contents, PushSlot
  <1>6. Rest'
    BY <1>0, <1>d DEF IInv, Rest, Rear, PushSlot
  <1>7. Last'
    BY <1>0, <1>d DEF IInv, Last, PushSlot
  <1> QED
    BY <1>1, <1>2, <1>3, <1>4, <1>5, <1>6, <1>7 DEF IInv

\* The command becomes the last of the queue.
LEMMA StepPublish ==
    IInv /\ PushPublish => IInv'
  <1> SUFFICES ASSUME IInv, PushPublish PROVE IInv'
    OBVIOUS
  <1>0. /\ SQ_Enq \in Counters /\ SQ_Done \in Counters /\ SQ_DoneCached \in Counters
        /\ Queued \in Nat /\ Dist(SQ_Enq, SQ_DoneCached) \in Nat
        /\ Queued <= Dist(SQ_Enq, SQ_DoneCached)
        /\ Dist(SQ_Enq, SQ_DoneCached) < SQ_SIZE
        /\ SQ_SIZE \in Nat /\ Wrap \in Nat /\ SQ_SIZE < Wrap
    BY QueuedType, DistType, RingAssumption
       DEF IInv, TypeOK, Window, PushPublish, Counters, Queued
  <1>a. /\ Queued' = Queued + 1
        /\ Dist(SQ_Enq', SQ_DoneCached) = Dist(SQ_Enq, SQ_DoneCached) + 1
    BY <1>0, DistPush DEF PushPublish, Queued
  <1>b. \A i \in Nat : Item(i)' = Item(i)
    BY DEF PushPublish, Item
  <1>c. Item(Queued) = Head(todo)
    BY <1>0, SlotRear DEF IInv, Contents, PushPublish, Item, Queued
  <1>d. /\ todo # <<>> /\ todo' = Tail(todo)
        /\ \/ \E x \in Command : todo = <<x>>
           \/ \E x \in Command, y \in Command : todo = <<x, y>>
    BY TodoShape DEF IInv, Control, PushPublish
  <1>e. Head(todo) \in Command /\ Head(todo) = todo[1]
    BY <1>d
  <1>1. TypeOK'
    <2>1. todo' \in Seq(Command)
      BY <1>d
    <2> QED
      BY <2>1, <1>0, SuccType DEF IInv, TypeOK, PushPublish
  <1>2. Control'
    <2>1. Len(todo') <= 2
      BY <1>d
    <2> QED
      BY <2>1 DEF IInv, Control, PushPublish
  <1>3. Window'
    <2>1. SQ_Enq' # SQ_Done
      BY <1>0, <1>a, SuccType, DistType DEF Queued, PushPublish
    <2> QED
      BY <2>1, <1>0, <1>a DEF IInv, Control, Window, Busy, PushPublish, Queued
  <1>4. Sleep'
    BY DEF IInv, Sleep, NoLostWakeup, PushPublish
  <1>5. Contents'
    <2>1. Head(todo).at <= mlast
      <3>1. mlast \in Int /\ \A x \in Command : x.at \in Int
        BY DEF IInv, TypeOK, Command, Timestamps
      <3>2. CASE \E x \in Command : todo = <<x>>
        BY <3>1, <3>2 DEF IInv, Rest
      <3>3. CASE \E x \in Command, y \in Command : todo = <<x, y>>
        BY <3>1, <3>3 DEF IInv, Rest, Follows
      <3> QED
        BY <3>2, <3>3, <1>d
    <2>2. Follows(Head(todo), Rear)
      BY <1>d, <1>e DEF IInv, Rest
    <2> QED
      BY <2>1, <2>2, <1>0, <1>a, <1>b, <1>c, <1>e DEF IInv, Contents, Rear, PushPublish
  <1>6. Rest'
    <2>1. Rear' = Head(todo).at
      BY <1>0, <1>a, <1>b, <1>c DEF Rear
    <2>2. ~SPendingRun /\ UNCHANGED <<SPendingRun, mlast>>
      BY DEF IInv, Control, PushPublish
    <2>3. CASE \E x \in Command : todo = <<x>>
      BY <2>1, <2>2, <2>3, <1>d DEF IInv, Rest
    <2>4. CASE \E x \in Command, y \in Command : todo = <<x, y>>
      BY <2>1, <2>2, <2>4, <1>d DEF IInv, Rest
    <2> QED
      BY <2>3, <2>4, <1>d
  <1>7. Last'
    <2>1. ASSUME NEW i \in 0 .. Queued, Item(i)'.cmd = "EXIT"
          PROVE  i = Queued /\ Tail(todo) = <<>> /\ then = "join"
      <3>1. i = Queued
        BY <2>1, <1>0, <1>b, <1>d DEF IInv, Last
      <3>2. todo[1].cmd = "EXIT"
        BY <2>1, <3>1, <1>0, <1>b, <1>c, <1>e
      <3>3. Len(todo) = 1 /\ then = "join"
        BY <3>2, <1>d DEF IInv, Last
      <3> QED
        BY <3>1, <3>3, <1>d
    <2>2. \A i \in 1 .. Len(Tail(todo)) :
             Tail(todo)[i].cmd = "EXIT" => i = Len(Tail(todo)) /\ then = "join"
      <3>1. CASE \E x \in Command : todo = <<x>>
        BY <3>1
      <3>2. CASE \E x \in Command, y \in Command : todo = <<x, y>>
        <4>1. Tail(todo) = <<todo[2]>> /\ Len(todo) = 2
          BY <3>2
        <4>2. todo[2].cmd = "EXIT" => then = "join"
          BY <4>1, <1>d DEF IInv, Last
        <4>3. Len(Tail(todo)) = 1 /\ Tail(todo)[1] = todo[2]
          BY <4>1
        <4>4. \A i \in 1 .. Len(Tail(todo)) : i = 1
          BY <4>3
        <4> QED
          BY <4>2, <4>3, <4>4
      <3> QED
        BY <3>1, <3>2, <1>d
    <2>3. spc # "exited" /\ SThreaded
      BY <1>d DEF IInv, Last, Control, PushPublish
    <2>4. phase = "closed" => then = "join"
      BY <2>3 DEF IInv, Last, PushPublish
    <2>5. /\ 0 .. Queued' - 1 = 0 .. Queued
          /\ UNCHANGED <<then, phase, SThreaded, spc>> /\ todo' = Tail(todo) /\ mpc' = "post"
      BY <1>0, <1>a DEF PushPublish
    <2> QED
      BY <2>1, <2>2, <2>3, <2>4, <2>5, <1>0, <1>a DEF Last
  <1>8. Samples'
    BY DEF IInv, Samples, PushPublish
  <1> QED
    BY <1>1, <1>2, <1>3, <1>4, <1>5, <1>6, <1>7, <1>8 DEF IInv

----------------------------------------------------------------------------
(* Main's calls.                                                           *)

\* The thread is joined: EXIT was its last command.
LEMMA StepJoin ==
    IInv /\ Join => IInv'
  <1> SUFFICES ASSUME IInv, Join PROVE IInv'
    OBVIOUS
  <1>0. SQ_Enq = SQ_Done /\ todo = <<>> /\ ~SPendingRun /\ Queued = 0
    BY QueuedType DEF IInv, Last, Control, Join
  <1>1. TypeOK'
    <2>1. SSem' \in 0 .. SemCap
      BY SemAssumption DEF Join
    <2> QED
      BY ZenonT(60), <2>1 DEF IInv, TypeOK, Join
  <1>2. Control' /\ Sleep' /\ Samples'
    BY DEF IInv, Control, Sleep, NoLostWakeup, Samples, Join
  <1>3. Window'
    BY DEF IInv, Window, Busy, Join
  <1>4. Queued' = 0 /\ lastts' = lastts
    BY <1>0 DEF Queued, Join
  <1>5. Contents'
    BY <1>4 DEF Contents, Join
  <1>6. Rest'
    BY <1>0, <1>4 DEF IInv, Rest, Rear, Join
  <1>7. Last'
    BY <1>0, <1>4 DEF Last, Join
  <1> QED
    BY <1>1, <1>2, <1>3, <1>5, <1>6, <1>7 DEF IInv

\* Main works on the hardware: the queue is empty and the thread idle, and the
\* hardware is where the inline path would be.
LEMMA StepAccess ==
    IInv /\ DirectAccess => IInv'
  <1> SUFFICES ASSUME IInv, DirectAccess PROVE IInv'
    OBVIOUS
  <1>0. /\ SQ_Enq = SQ_Done /\ Queued = 0 /\ todo = <<>> /\ ~SPendingRun
        /\ sync \in {"midi", "flush", "adjust", "state"}
        /\ ~Busy
    BY QueuedType DEF IInv, TypeOK, Window, Control, Last, DirectAccess
  <1>a. lastts = mlast /\ IBufferCount = owed /\ lastts \in Timestamps
    BY <1>0, FrameAssumption DEF IInv, TypeOK, Rest, Rear, Samples, Timestamps
  <1>b. /\ lastts' = mlast' /\ IBufferCount' = owed' /\ lastts' \in Timestamps
        /\ IBufferCount' \in 0 .. IBUF - 1 /\ dev' \in RegCmds \union {"NONE"}
        /\ owed' <= owed /\ owed' \in 0 .. IBUF - 1
        /\ sync # "adjust" => mlast' = mlast
        /\ sync = "flush" => owed' = 0
    <2>1. /\ IBufferCount \in 0 .. IBUF - 1 /\ owed \in 0 .. IBUF - 1 /\ 0 \in 0 .. IBUF - 1
          /\ 0 \in Timestamps /\ mlast - mlast = 0
          /\ owed \in Nat /\ owed <= owed /\ dev \in RegCmds \union {"NONE"}
      BY <1>a, FrameAssumption DEF IInv, TypeOK, Timestamps
    <2>2. CASE sync = "adjust"
      BY <2>1, <2>2, <1>a DEF DirectAccess
    <2>3. CASE sync = "flush"
      BY <2>1, <2>3, <1>a DEF DirectAccess
    <2>4. CASE sync \in {"state", "midi"}
      BY <2>1, <2>4, <1>a DEF DirectAccess
    <2> QED
      BY <2>2, <2>3, <2>4, <1>0
  <1>1. TypeOK'
    BY <1>b DEF IInv, TypeOK, DirectAccess, Timestamps
  <1>2. Control' /\ Sleep'
    BY <1>0 DEF IInv, Control, Sleep, NoLostWakeup, DirectAccess
  <1>3. Window'
    BY DEF IInv, Window, Busy, DirectAccess
  <1>4. Queued' = 0
    BY <1>0 DEF Queued, DirectAccess
  <1>5. Contents'
    BY <1>0, <1>4 DEF Contents, Busy, DirectAccess
  <1>6. Rest'
    BY <1>0, <1>4, <1>b DEF Rest, Rear, DirectAccess
  <1>7. Last'
    BY <1>4 DEF IInv, Last, Queued, Item, DirectAccess
  <1>8. Samples'
    <2>1. lastts' \in Int /\ mlast' \in Int /\ 0 <= lastts' /\ owed' \in Int /\ owed \in Int /\ owed >= 0
      BY <1>b, FrameAssumption DEF Timestamps, IInv, TypeOK
    <2>2. UNCHANGED phase /\ sync' = "none"
      BY DEF DirectAccess
    <2>3. IBufferCount' + (mlast' - lastts') = owed' /\ lastts' <= mlast'
      <3>1. IBufferCount' = owed' /\ lastts' = mlast'
        BY <1>b
      <3>2. lastts' <= mlast' /\ owed' + (mlast' - lastts') = owed'
        BY <2>1, <3>1, Same
      <3> QED
        BY <3>1, <3>2
    <2>4. owed' <= FrameSlices
      BY <1>b, <2>1, FrameAssumption DEF IInv, Samples
    <2>5. phase = "frame" => owed' <= mlast'
      BY <1>b, <2>1, FrameAssumption DEF IInv, TypeOK, Timestamps, Samples
    <2>6. phase \in {"between", "closed"} => owed' = 0
      BY <1>b, <2>1 DEF IInv, Samples
    <2> QED
      BY <2>1, <2>2, <2>3, <2>4, <2>5, <2>6 DEF Samples
  <1> QED
    BY <1>1, <1>2, <1>3, <1>5, <1>6, <1>7, <1>8 DEF IInv

\* The frame loop goes on.
LEMMA StepStartFrame ==
    IInv /\ StartFrame => IInv'
  <1> SUFFICES ASSUME IInv, StartFrame PROVE IInv'
    OBVIOUS
  <1>1. TypeOK' /\ Control' /\ Sleep'
    BY DEF IInv, TypeOK, Control, Sleep, NoLostWakeup, StartFrame
  <1>3. Window'
    BY DEF IInv, Window, Busy, StartFrame
  <1>5. Contents' /\ Rest' /\ Last'
    BY DEF IInv, Contents, Rest, Last, Rear, Queued, Item, StartFrame
  <1>8. Samples'
    BY DEF IInv, TypeOK, Control, Samples, StartFrame, Timestamps
  <1> QED
    BY <1>1, <1>3, <1>5, <1>8 DEF IInv

\* The next game: there is no thread.
LEMMA StepInit ==
    IInv /\ SOUND_Init => IInv'
  <1> SUFFICES ASSUME IInv, SOUND_Init PROVE IInv'
    OBVIOUS
  <1>0. /\ ~SThreaded /\ spc = "none" /\ SQ_Enq = SQ_Done /\ Queued = 0 /\ todo = <<>>
        /\ ~SPendingRun /\ sync = "none"
    BY QueuedType DEF IInv, Last, Control, SOUND_Init
  <1>1. TypeOK'
    <2>1. /\ IBufferCount' \in 0 .. IBUF - 1 /\ owed' \in 0 .. IBUF - 1
          /\ mlast' \in Timestamps
      BY FrameAssumption DEF SOUND_Init, Timestamps
    <2>2. rax_active' \in BOOLEAN
      BY CartAssumption DEF IInv, TypeOK, SOUND_Init
    <2> QED
      BY <2>1, <2>2 DEF IInv, TypeOK, SOUND_Init
  <1>2. Control' /\ Sleep'
    BY DEF IInv, Control, Sleep, NoLostWakeup, SOUND_Init
  <1>3. Window'
    BY DEF IInv, Window, Busy, SOUND_Init
  <1>4. Queued' = 0
    BY <1>0 DEF Queued, SOUND_Init
  <1>5. Contents'
    BY <1>0, <1>4 DEF Contents, SOUND_Init
  <1>6. Rest'
    BY <1>0, <1>4 DEF Rest, Rear, SOUND_Init
  <1>7. Last'
    BY <1>0, <1>4 DEF Last, SOUND_Init
  <1>8. Samples'
    BY <1>0, FrameAssumption DEF Samples, SOUND_Init
  <1> QED
    BY <1>1, <1>2, <1>3, <1>5, <1>6, <1>7, <1>8 DEF IInv

\* What SoundThread_FlushRun pushes follows the queue and brings the hardware to
\* where the inline path is.
LEMMA FlushedShape ==
    ASSUME IInv, mpc = "ready"
    PROVE  \/ /\ FlushedRun = <<>> /\ ~SPendingRun /\ Rear = mlast
           \/ /\ FlushedRun = <<[cmd |-> "RUN", at |-> mlast]>> /\ Rear <= mlast
  BY DEF IInv, Control, Rest, FlushedRun

\* A timestamp makes a command.
LEMMA CommandType ==
    ASSUME NEW t \in Timestamps, NEW k \in {"RUN", "EXIT"} \union RegCmds
    PROVE  [cmd |-> k, at |-> t] \in Command
  BY DEF Command

\* SoundThread_Drain: a flush that goes on to the spin.
LEMMA StepDrain ==
    ASSUME IInv, NEW s \in {"midi", "flush", "adjust", "state"}, SoundThread_Drain(s),
           phase' \in {"frame", "tail", "between", "closed"},
           phase' = "frame" => phase = "frame",
           phase' = "closed" => phase = "closed",
           phase' = "between" => phase = "between" \/ s = "flush",
           s = "adjust" => phase' = "tail"
    PROVE  IInv'
  <1>0. /\ mpc = "ready" /\ todo = <<>> /\ then = "ready" /\ sync = "none"
        /\ sync' = s /\ UNCHANGED <<mlast, owed, lastts, IBufferCount, spc, SQ_Enq, SQ_Done, SQ>>
    BY DEF IInv, Control, SoundThread_Drain
  <1>a. /\ todo' = <<>> \/ todo' = <<[cmd |-> "RUN", at |-> mlast]>>
        /\ ~SPendingRun'
        /\ todo' = <<>> => Rear = mlast
        /\ todo' # <<>> => Rear <= mlast /\ mpc' = "push" /\ then' = "drain" /\ SThreaded
        /\ todo' = <<>> /\ SThreaded => mpc' = "drain" /\ then' = "ready"
        /\ ~SThreaded => mpc' = "access" /\ then' = "ready" /\ todo' = <<>>
    <2>1. CASE ~SThreaded
      BY <2>1, <1>0 DEF IInv, Control, Rest, SoundThread_Drain
    <2>2. CASE SThreaded /\ FlushedRun = <<>> /\ Rear = mlast
      BY <2>2, <1>0 DEF SoundThread_Drain, Push
    <2>3. CASE SThreaded /\ FlushedRun = <<[cmd |-> "RUN", at |-> mlast]>> /\ Rear <= mlast
      BY <2>3, <1>0 DEF SoundThread_Drain, Push
    <2> QED
      BY <2>1, <2>2, <2>3, <1>0, FlushedShape
  <1>1. TypeOK'
    <2>1. [cmd |-> "RUN", at |-> mlast] \in Command
      BY CommandType DEF IInv, TypeOK
    <2>2. todo' \in Seq(Command)
      <3>1. CASE todo' = <<>>
        BY <3>1
      <3>2. CASE todo' = <<[cmd |-> "RUN", at |-> mlast]>>
        BY <3>2, <2>1
      <3> QED
        BY <3>1, <3>2, <1>a
    <2>3. then' \in {"ready", "drain", "join"} /\ mpc' \in {"push", "drain", "access"}
      BY <1>a
    <2>4. SPendingRun' \in BOOLEAN
      BY DEF IInv, TypeOK, SoundThread_Drain, Push
    <2> QED
      BY <2>2, <2>3, <2>4, <1>0 DEF IInv, TypeOK, SoundThread_Drain
  <1>2. Control'
    <2>1. Len(todo') <= 2
      <3>1. CASE todo' = <<>>
        BY <3>1
      <3>2. CASE todo' = <<[cmd |-> "RUN", at |-> mlast]>>
        BY <3>2
      <3> QED
        BY <3>1, <3>2, <1>a
    <2>2. UNCHANGED <<SThreaded, spc>> /\ (SThreaded <=> spc # "none")
      BY DEF IInv, Control, SoundThread_Drain
    <2> QED
      BY <2>1, <2>2, <1>0, <1>a DEF Control
  <1>3. Window'
    BY <1>a DEF IInv, Window, Busy, SoundThread_Drain
  <1>4. Sleep'
    BY <1>0 DEF IInv, Sleep, NoLostWakeup, SoundThread_Drain
  <1>5. Contents'
    BY <1>a DEF IInv, Contents, Queued, Item, SoundThread_Drain
  <1>6. Rest'
    <2>1. Rear' = Rear
      BY <1>0 DEF Rear, Queued, Item
    <2>2. CASE todo' = <<>>
      BY <2>1, <2>2, <1>0, <1>a DEF Rest
    <2>3. CASE todo' = <<[cmd |-> "RUN", at |-> mlast]>>
      <3>1. todo'[1] = [cmd |-> "RUN", at |-> mlast] /\ Len(todo') = 1 /\ todo' # <<>>
        BY <2>3
      <3> QED
        BY <3>1, <2>1, <1>0, <1>a DEF Rest, Follows
    <2> QED
      BY <2>2, <2>3, <1>a
  <1>7. Last'
    BY <1>0, <1>a DEF IInv, Last, Queued, Item, SoundThread_Drain
  <1>8. Samples'
    BY <1>0 DEF IInv, Samples
  <1> QED
    BY <1>1, <1>2, <1>3, <1>4, <1>5, <1>6, <1>7, <1>8 DEF IInv

\* A register command, or EXIT, is queued behind the batched slice.
LEMMA StepQueue ==
    ASSUME IInv, NEW r \in RegCmds \union {"EXIT"}, mpc = "ready", SThreaded,
           ~SPendingRun', mpc' = "push",
           todo' = FlushedRun \o <<[cmd |-> r, at |-> mlast]>>,
           then' = IF r = "EXIT" THEN "join" ELSE "ready",
           phase' = IF r = "EXIT" THEN "closed" ELSE phase,
           phase \in {"frame", "between"}, r = "EXIT" => phase = "between",
           SPendingRun' \in BOOLEAN,
           UNCHANGED <<sync, SQ_DoneCached, SPendingRunTS, SRunBatch, SThreaded, rax_active,
                       inlineVars, ringVars, sleepVars, threadVars, deviceVars>>
    PROVE  IInv'
  <1> DEFINE run == [cmd |-> "RUN", at |-> mlast]
             cmd == [cmd |-> r, at |-> mlast]
  <1>0. /\ run \in Command /\ cmd \in Command /\ r # "RUN"
        /\ run.at = mlast /\ run.cmd = "RUN" /\ cmd.at = mlast /\ cmd.cmd = r
    BY CommandType, RegAssumption DEF IInv, TypeOK
  <1>a. /\ todo = <<>> /\ sync = "none" /\ Rear' = Rear
        /\ Queued' = Queued /\ \A i \in Nat : Item(i)' = Item(i)
    BY DEF IInv, Control, Rear, Queued, Item
  <1>b. \/ todo' = <<cmd>> /\ Rear = mlast
        \/ todo' = <<run, cmd>> /\ Rear <= mlast
    <2> HIDE DEF run, cmd
    <2>1. CASE FlushedRun = <<>> /\ Rear = mlast
      <3>1. todo' = <<>> \o <<cmd>>
        BY <2>1 DEF cmd
      <3>2. <<>> \o <<cmd>> = <<cmd>>
        BY <1>0, One
      <3> QED
        BY <2>1, <3>1, <3>2
    <2>2. CASE FlushedRun = <<run>> /\ Rear <= mlast
      <3>1. todo' = <<run>> \o <<cmd>>
        BY <2>2 DEF cmd
      <3>2. <<run>> \o <<cmd>> = <<run, cmd>>
        BY <1>0, Two
      <3> QED
        BY <2>2, <3>1, <3>2
    <2>3. \/ FlushedRun = <<>> /\ Rear = mlast
          \/ FlushedRun = <<run>> /\ Rear <= mlast
      BY FlushedShape DEF run
    <2> QED
      BY <2>1, <2>2, <2>3
  <1> HIDE DEF run, cmd
  <1>c. CASE todo' = <<cmd>> /\ Rear = mlast
    <2>0. Len(todo') = 1 /\ todo' # <<>> /\ todo'[1] = cmd /\ todo' \in Seq(Command)
      BY <1>c, <1>0, One
    <2>1. TypeOK'
      BY <2>0 DEF IInv, TypeOK
    <2>2. Control'
      BY <1>a, <2>0 DEF IInv, Control
    <2>3. Window' /\ Sleep' /\ Samples'
      BY <1>a DEF IInv, Window, Busy, Sleep, NoLostWakeup, Samples
    <2>4. Contents'
      BY <1>a DEF IInv, Contents, Queued, Item
    <2>5. Rest'
      BY <1>a, <1>c, <2>0, <1>0 DEF Rest, Follows
    <2>6. Last'
      BY <1>a, <2>0, <1>0 DEF IInv, Last, Control, Queued, Item
    <2> QED
      BY <2>1, <2>2, <2>3, <2>4, <2>5, <2>6 DEF IInv
  <1>d. CASE todo' = <<run, cmd>> /\ Rear <= mlast
    <2>0. /\ Len(todo') = 2 /\ todo' # <<>> /\ todo'[1] = run /\ todo'[2] = cmd
          /\ todo' \in Seq(Command)
      <3>1. /\ <<run, cmd>> \in Seq(Command) /\ <<run, cmd>> # <<>> /\ Len(<<run, cmd>>) = 2
            /\ <<run, cmd>>[1] = run /\ <<run, cmd>>[2] = cmd
        BY <1>0, Two
      <3> DEFINE q == <<run, cmd>>
      <3>2. todo' = q
        BY <1>d
      <3> HIDE DEF q
      <3> QED
        BY <3>1, <3>2 DEF q
    <2>1. TypeOK'
      BY <2>0 DEF IInv, TypeOK
    <2>2. Control'
      BY <1>a, <2>0 DEF IInv, Control
    <2>3. Window' /\ Sleep' /\ Samples'
      BY <1>a DEF IInv, Window, Busy, Sleep, NoLostWakeup, Samples
    <2>4. Contents'
      BY <1>a DEF IInv, Contents, Queued, Item
    <2>5. Rest'
      BY <1>a, <1>d, <2>0, <1>0 DEF Rest, Follows
    <2>6. Last'
      BY <1>a, <2>0, <1>0 DEF IInv, Last, Control, Queued, Item
    <2> QED
      BY <2>1, <2>2, <2>3, <2>4, <2>5, <2>6 DEF IInv
  <1> QED
    BY <1>b, <1>c, <1>d

\* Register commands.
LEMMA StepWrite ==
    ASSUME IInv, NEW r \in RegCmds, SOUND_Write(r)
    PROVE  IInv'
  <1>1. CASE SThreaded
    <2>1. Queue(r) = FlushedRun \o <<[cmd |-> r, at |-> mlast]>> /\ Queue(r) # <<>>
      BY FlushedShape DEF SOUND_Write, Queue
    <2>2. r # "EXIT"
      BY RegAssumption
    <2>3. /\ mpc = "ready" /\ mpc' = "push" /\ then' = "ready"
          /\ todo' = FlushedRun \o <<[cmd |-> r, at |-> mlast]>>
          /\ ~SPendingRun' /\ SPendingRun' \in BOOLEAN
          /\ UNCHANGED deviceVars /\ phase \in {"frame", "between"}
      BY <1>1, <2>1 DEF SOUND_Write, Push
    <2> QED
      BY <1>1, <2>2, <2>3, StepQueue DEF SOUND_Write
  <1>2. CASE ~SThreaded
    <2>0. /\ UNCHANGED <<mainVars, ringVars, sleepVars, threadVars, lastts, IBufferCount>>
          /\ dev' = r
      BY <1>2 DEF SOUND_Write, DoRegister
    <2>1. TypeOK'
      BY <2>0 DEF IInv, TypeOK
    <2>2. Control' /\ Window' /\ Sleep' /\ Samples'
      BY <2>0 DEF IInv, Control, Window, Busy, Sleep, NoLostWakeup, Samples
    <2>3. Contents' /\ Rest' /\ Last'
      BY <2>0 DEF IInv, Contents, Rest, Rear, Last, Queued, Item
    <2> QED
      BY <2>1, <2>2, <2>3 DEF IInv
  <1> QED
    BY <1>1, <1>2

\* The end of the game.
LEMMA StepKill ==
    IInv /\ SOUND_Kill => IInv'
  <1> SUFFICES ASSUME IInv, SOUND_Kill PROVE IInv'
    OBVIOUS
  <1>1. CASE SThreaded
    <2>1. FlushedRun \o <<[cmd |-> "EXIT", at |-> mlast]>> # <<>>
      BY FlushedShape DEF SOUND_Kill
    <2>2. /\ mpc = "ready" /\ mpc' = "push" /\ then' = "join"
          /\ todo' = FlushedRun \o <<[cmd |-> "EXIT", at |-> mlast]>>
          /\ ~SPendingRun' /\ SPendingRun' \in BOOLEAN
          /\ phase = "between" /\ phase' = "closed"
      BY <1>1, <2>1 DEF SOUND_Kill, Push
    <2> QED
      BY <1>1, <2>2, StepQueue DEF SOUND_Kill
  <1>2. CASE ~SThreaded
    <2>0. /\ UNCHANGED <<callVars, sync, SQ_DoneCached, batchVars, SThreaded, rax_active,
                         inlineVars, ringVars, sleepVars, threadVars, deviceVars>>
          /\ phase = "between" /\ phase' = "closed"
      BY <1>2 DEF SOUND_Kill
    <2>1. TypeOK' /\ Control' /\ Window' /\ Sleep' /\ Samples'
      BY <2>0 DEF IInv, TypeOK, Control, Window, Busy, Sleep, NoLostWakeup, Samples
    <2>3. Contents' /\ Rest' /\ Last'
      BY <1>2, <2>0 DEF IInv, Contents, Rest, Rear, Last, Queued, Item
    <2> QED
      BY <2>1, <2>3 DEF IInv
  <1> QED
    BY <1>1, <1>2

\* The accounts of SOUND_Update: a frame's slices fit the output buffer.
LEMMA UpdateAccount ==
    ASSUME IInv, phase = "frame", NEW ts \in mlast .. FrameSlices
    PROVE  /\ ts \in Timestamps /\ mlast <= ts
           /\ (owed + (ts - mlast)) % IBUF = owed + (ts - mlast)
           /\ owed + (ts - mlast) \in 0 .. IBUF - 1
           /\ owed + (ts - mlast) <= ts /\ ts <= FrameSlices
  <1>1. /\ mlast \in Nat /\ mlast <= ts /\ ts <= FrameSlices /\ ts \in Nat
        /\ owed \in Nat /\ owed <= mlast /\ FrameSlices < IBUF /\ IBUF \in Nat
        /\ FrameSlices \in Nat
    BY FrameAssumption DEF IInv, TypeOK, Samples, Timestamps
  <1>2. owed + (ts - mlast) \in 0 .. IBUF - 1 /\ IBUF \in Nat \ {0}
    BY <1>1
  <1>3. (owed + (ts - mlast)) % IBUF = owed + (ts - mlast)
    BY <1>2, ModSmall
  <1> QED
    BY <1>1, <1>2, <1>3 DEF Timestamps

\* What the batching leaves behind, once the hardware will have reached Rear'.
LEMMA BatchShape ==
    ASSUME NEW ts \in Timestamps, NEW b \in 0 .. RunBatch - 1, Batch(ts, b),
           mpc = "ready", todo = <<>>, then = "ready",
           mlast' = ts, Rear' \in Int, Rear' <= ts
    PROVE  /\ SPendingRunTS' = ts /\ SRunBatch' \in 0 .. RunBatch - 1
           /\ SPendingRun' \in BOOLEAN /\ mpc' \in {"ready", "push"} /\ then' = "ready"
           /\ todo' \in Seq(Command) /\ Len(todo') <= 2
           /\ mpc' = "ready" => todo' = <<>>
           /\ mpc' = "push" => todo' # <<>> /\ ~SPendingRun'
           /\ todo' # <<>> => Len(todo') = 1 /\ todo'[1].cmd = "RUN"
           /\ Rest'
  <1> DEFINE run == [cmd |-> "RUN", at |-> ts]
  <1>0. run \in Command /\ run.cmd = "RUN" /\ run.at = ts /\ ts \in Int
    BY CommandType, FrameAssumption DEF Timestamps
  <1>1. /\ <<run>> \in Seq(Command) /\ <<run>> # <<>> /\ Len(<<run>>) = 1 /\ <<run>>[1] = run
    BY <1>0, One
  <1>2. SPendingRunTS' = ts /\ SRunBatch' \in 0 .. RunBatch - 1
    BY BatchAssumption DEF Batch
  <1>3. CASE b + 1 >= RunBatch
    <2>1. SPendingRun' = FALSE /\ mpc' = "push" /\ then' = "ready" /\ todo' = <<run>>
      BY <1>1, <1>3 DEF Batch, Push
    <2> HIDE DEF run
    <2>2. todo' \in Seq(Command) /\ todo' # <<>> /\ Len(todo') = 1 /\ todo'[1] = run
      BY <1>1, <2>1
    <2>3. Rest'
      BY <1>0, <2>2 DEF Rest, Follows
    <2>4. Len(todo') <= 2 /\ todo'[1].cmd = "RUN"
      BY <1>0, <2>2
    <2> QED
      BY <1>2, <2>1, <2>2, <2>3, <2>4
  <1>4. CASE ~(b + 1 >= RunBatch)
    <2>1. SPendingRun' = TRUE /\ mpc' = "ready" /\ then' = "ready" /\ todo' = <<>>
      BY <1>4 DEF Batch
    <2>2. Rest'
      BY <1>2, <2>1 DEF Rest
    <2>3. todo' \in Seq(Command) /\ Len(todo') = 0
      BY <2>1
    <2> QED
      BY <1>2, <2>1, <2>2, <2>3
  <1> QED
    BY <1>3, <1>4

\* The samples owed grow with the clock of the inline path.
LEMMA SamplesGrow ==
    ASSUME IInv, phase = "frame", phase' = phase, sync = "none", sync' = sync,
           NEW ts \in mlast .. FrameSlices, mlast' = ts,
           owed' = owed + (ts - mlast), owed' <= ts, UNCHANGED <<lastts, IBufferCount>>
    PROVE  Samples'
  <1>1. /\ mlast \in Int /\ lastts \in Int /\ owed \in Int /\ IBufferCount \in Int /\ ts \in Int
        /\ mlast <= ts /\ ts <= FrameSlices /\ FrameSlices \in Int
    BY FrameAssumption DEF IInv, TypeOK, Timestamps
  <1>2. IBufferCount + (ts - lastts) = owed + (ts - mlast) /\ 0 <= lastts /\ lastts <= ts
    BY <1>1 DEF IInv, Samples
  <1>3. owed' <= FrameSlices
    <2>1. owed' \in Int
      BY <1>1
    <2> QED
      BY <1>1, <2>1
  <1>4. IBufferCount' + (mlast' - lastts') = owed' /\ 0 <= lastts' /\ lastts' <= mlast'
    BY <1>2
  <1> QED
    BY <1>3, <1>4 DEF Samples

\* The threaded SOUND_Update: a slice is batched, or the eighth pushed.
LEMMA StepUpdateThreaded ==
    ASSUME IInv, mpc = "ready", phase = "frame", NEW ts \in mlast .. FrameSlices,
           UpdateThreaded(ts), mlast' = ts, owed' = (owed + (ts - mlast)) % IBUF
    PROVE  IInv'
  <1>0. /\ ts \in Timestamps /\ mlast <= ts /\ owed' = owed + (ts - mlast)
        /\ owed' \in 0 .. IBUF - 1 /\ owed' <= ts /\ ts <= FrameSlices
    BY UpdateAccount
  <1>a. mlast \in Int /\ ts \in Int
    BY <1>0, FrameAssumption DEF IInv, TypeOK, Timestamps
  <1>b. /\ todo = <<>> /\ then = "ready" /\ sync = "none" /\ (SThreaded <=> spc # "none")
        /\ SThreaded /\ SThreaded' = SThreaded /\ SThreaded \in BOOLEAN
    BY DEF IInv, Control, UpdateThreaded, TypeOK
  <1>c. UNCHANGED <<sync, SQ_DoneCached, lifeVars, ringVars, sleepVars, threadVars, deviceVars>>
    BY DEF UpdateThreaded
  <1>d. Rear' = Rear /\ Rear <= mlast /\ Rear \in Int
    BY SMTT(30), <1>a, <1>b, <1>c, QueuedType
       DEF IInv, TypeOK, Rest, Rear, Queued, Item, Contents, Command, Timestamps
  <1>e. Rear' \in Int /\ Rear' <= ts
    BY <1>0, <1>a, <1>d
  <1>f. Batch(ts, SRunBatch) /\ SRunBatch \in 0 .. RunBatch - 1
    BY DEF UpdateThreaded, IInv, TypeOK
  <1>g. /\ SPendingRunTS' = ts /\ SRunBatch' \in 0 .. RunBatch - 1
        /\ SPendingRun' \in BOOLEAN /\ mpc' \in {"ready", "push"} /\ then' = "ready"
        /\ todo' \in Seq(Command) /\ Len(todo') <= 2
        /\ mpc' = "ready" => todo' = <<>>
        /\ mpc' = "push" => todo' # <<>> /\ ~SPendingRun'
        /\ todo' # <<>> => Len(todo') = 1 /\ todo'[1].cmd = "RUN"
        /\ Rest'
    BY <1>0, <1>b, <1>e, <1>f, BatchShape
  <1>1. TypeOK'
    BY <1>0, <1>c, <1>g DEF IInv, TypeOK
  <1>2. Control'
    BY <1>b, <1>c, <1>g DEF IInv, Control
  <1>3. Window' /\ Sleep'
    BY <1>c, <1>g DEF IInv, Window, Busy, Sleep, NoLostWakeup
  <1>4. Contents'
    <2>1. \A i \in 0 .. Queued - 1 : Item(i).at <= ts
      BY <1>0, <1>a DEF IInv, Contents, Command, Timestamps
    <2> QED
      BY <1>c, <1>g, <2>1 DEF IInv, Contents, Queued, Item
  <1>6. Last'
    <2>1. \A i \in 0 .. Queued - 1 : Item(i).cmd # "EXIT"
      BY DEF IInv, Last
    <2>2. \A i \in 0 .. Queued' - 1 : Item(i)'.cmd # "EXIT"
      BY <1>c, <2>1 DEF Queued, Item
    <2>3. todo' # <<>> => \A i \in 1 .. Len(todo') : todo'[i].cmd # "EXIT"
      <3>1. \A i \in 1 .. 1 : i = 1
        OBVIOUS
      <3> QED
        BY <1>g, <3>1
    <2>4. spc' # "exited" /\ SThreaded' /\ phase' # "closed"
      BY <1>b, <1>c DEF IInv, Last
    <2> QED
      BY <2>2, <2>3, <2>4 DEF Last
  <1>7. Samples'
    BY <1>0, <1>b, <1>c, SamplesGrow
  <1> QED
    BY <1>1, <1>2, <1>3, <1>4, <1>6, <1>7, <1>g DEF IInv

\* The SOUND_Update that starts the thread.
LEMMA StepUpdateStarts ==
    ASSUME IInv, mpc = "ready", phase = "frame", NEW ts \in mlast .. FrameSlices,
           UpdateStarts(ts), mlast' = ts, owed' = (owed + (ts - mlast)) % IBUF
    PROVE  IInv'
  <1>0. /\ ts \in Timestamps /\ mlast <= ts /\ owed' = owed + (ts - mlast)
        /\ owed' \in 0 .. IBUF - 1 /\ owed' <= ts /\ ts <= FrameSlices
    BY UpdateAccount
  <1>a. mlast \in Int /\ ts \in Int
    BY <1>0, FrameAssumption DEF IInv, TypeOK, Timestamps
  <1>b. /\ todo = <<>> /\ then = "ready" /\ sync = "none" /\ ~SThreaded
        /\ SThreaded' = TRUE /\ spc' = "poll"
        /\ SQ_Enq' = 0 /\ SQ_Done' = 0 /\ SQ_DoneCached' = 0
        /\ SThreadSleeping' = FALSE /\ SSem' = 0
    BY DEF IInv, Control, UpdateStarts
  <1>c. UNCHANGED <<sync, phase, rax_active, SQ, c, deviceVars>>
    BY DEF UpdateStarts
  <1>d. 0 \in Counters /\ 0 \in 0 .. SemCap /\ Dist(0, 0) = 0 /\ Queued' = 0
    BY <1>b, RingAssumption, SemAssumption DEF Counters, Dist, Queued
  <1>e. Rear' \in Int /\ Rear' <= ts
    <2>1. Queued = 0
      BY <1>b, QueuedType DEF IInv, Last
    <2>2. lastts = mlast
      BY <1>b, <2>1 DEF IInv, Control, Rest, Rear
    <2>3. Rear' = mlast
      BY <1>c, <1>d, <2>2 DEF Rear
    <2> QED
      BY <1>0, <1>a, <2>3
  <1>f. Batch(ts, 0) /\ 0 \in 0 .. RunBatch - 1
    BY BatchAssumption DEF UpdateStarts
  <1>g. /\ SPendingRunTS' = ts /\ SRunBatch' \in 0 .. RunBatch - 1
        /\ SPendingRun' \in BOOLEAN /\ mpc' \in {"ready", "push"} /\ then' = "ready"
        /\ todo' \in Seq(Command) /\ Len(todo') <= 2
        /\ mpc' = "ready" => todo' = <<>>
        /\ mpc' = "push" => todo' # <<>> /\ ~SPendingRun'
        /\ todo' # <<>> => Len(todo') = 1 /\ todo'[1].cmd = "RUN"
        /\ Rest'
    BY <1>0, <1>b, <1>e, <1>f, BatchShape
  <1>1. TypeOK'
    BY <1>0, <1>b, <1>c, <1>d, <1>g DEF IInv, TypeOK
  <1>2. Control'
    BY <1>b, <1>c, <1>g DEF IInv, Control
  <1>3. Window' /\ Sleep'
    BY <1>b, <1>d, <1>g, RingAssumption DEF Window, Busy, Sleep, NoLostWakeup
  <1>4. Contents'
    BY <1>b, <1>d, <1>g DEF Contents
  <1>6. Last'
    <2>1. todo' # <<>> => \A i \in 1 .. Len(todo') : todo'[i].cmd # "EXIT"
      <3>1. \A i \in 1 .. 1 : i = 1
        OBVIOUS
      <3> QED
        BY <1>g, <3>1
    <2> QED
      BY <1>b, <1>c, <1>d, <2>1 DEF Last
  <1>7. Samples'
    BY <1>0, <1>b, <1>c, SamplesGrow
  <1> QED
    BY <1>1, <1>2, <1>3, <1>4, <1>6, <1>7, <1>g DEF IInv

\* Without a thread the hardware runs at once.
LEMMA StepUpdateInline ==
    ASSUME IInv, mpc = "ready", phase = "frame", NEW ts \in mlast .. FrameSlices,
           UpdateInline(ts), mlast' = ts, owed' = (owed + (ts - mlast)) % IBUF
    PROVE  IInv'
  <1>0. /\ ts \in Timestamps /\ mlast <= ts /\ owed' = owed + (ts - mlast)
        /\ owed' \in 0 .. IBUF - 1 /\ owed' <= ts /\ ts <= FrameSlices
    BY UpdateAccount
  <1>a. /\ mlast \in Int /\ lastts \in Int /\ owed \in Int /\ IBufferCount \in Int /\ ts \in Int
        /\ FrameSlices \in Int /\ 0 <= mlast /\ owed' \in Int
    BY <1>0, FrameAssumption DEF IInv, TypeOK, Timestamps
  <1>b. todo = <<>> /\ then = "ready" /\ sync = "none"
    BY DEF IInv, Control
  <1>c. ~SThreaded /\ SQ_Enq = SQ_Done /\ ~SPendingRun /\ Queued = 0
    BY QueuedType DEF UpdateInline, IInv, Last, Control
  <1>d. lastts = mlast /\ IBufferCount = owed
    <2>1. lastts = mlast
      BY <1>b, <1>c DEF IInv, Rest, Rear
    <2> QED
      BY <1>a, <2>1 DEF IInv, Samples
  <1>e. /\ lastts' = ts /\ IBufferCount' = owed' /\ UNCHANGED dev
        /\ UNCHANGED <<callVars, sync, SQ_DoneCached, batchVars, lifeVars, ringVars,
                       sleepVars, threadVars>>
    BY <1>d, <1>0 DEF UpdateInline, DoRun
  <1>f. Queued' = 0
    BY <1>e, <1>c DEF Queued
  <1>1. TypeOK'
    BY <1>0, <1>a, <1>e DEF IInv, TypeOK
  <1>2. Control' /\ Window' /\ Sleep'
    BY <1>e DEF IInv, Control, Window, Busy, Sleep, NoLostWakeup
  <1>4. Contents'
    BY <1>c, <1>f, <1>e, <1>b DEF IInv, Control, Contents
  <1>5. Rest'
    BY <1>b, <1>e, <1>c, <1>f DEF Rest, Rear
  <1>6. Last'
    BY <1>b, <1>e, <1>c, <1>f DEF IInv, Last
  <1>7. Samples'
    <2>1. owed' + (ts - ts) = owed'
      BY <1>a
    <2>2. IBufferCount' + (mlast' - lastts') = owed'
      BY <1>e, <2>1
    <2>3. 0 <= lastts' /\ lastts' <= mlast' /\ owed' <= FrameSlices
      BY <1>0, <1>a, <1>e
    <2>4. phase' = "frame" /\ owed' <= mlast' /\ sync' = "none"
      BY <1>0, <1>b, <1>e
    <2> QED
      BY <2>2, <2>3, <2>4 DEF Samples
  <1> QED
    BY <1>1, <1>2, <1>4, <1>5, <1>6, <1>7 DEF IInv

\* SOUND_Update.
LEMMA StepUpdate ==
    IInv /\ SOUND_Update => IInv'
  BY StepUpdateThreaded, StepUpdateStarts, StepUpdateInline DEF SOUND_Update

----------------------------------------------------------------------------
(* The theorems.                                                           *)

\* Stuttering changes nothing.
LEMMA StepStutter ==
    IInv /\ UNCHANGED vars => IInv'
  <1> SUFFICES ASSUME IInv, UNCHANGED vars PROVE IInv'
    OBVIOUS
  <1>1. TypeOK' /\ Control' /\ Window' /\ Sleep' /\ Samples'
    BY DEF IInv, TypeOK, Control, Window, Busy, Sleep, NoLostWakeup, Samples, vars
  <1>2. Contents' /\ Rest' /\ Last'
    BY DEF IInv, Contents, Rest, Rear, Last, Queued, Item, vars
  <1> QED
    BY <1>1, <1>2 DEF IInv

\* Every step keeps the invariant.
LEMMA NextIInv ==
    IInv /\ [Next]_vars => IInv'
  <1> SUFFICES ASSUME IInv, [Next]_vars PROVE IInv'
    OBVIOUS
  <1>1. CASE SOUND_Update
    BY <1>1, StepUpdate
  <1>2. CASE \E r \in RegCmds : SOUND_Write(r)
    BY <1>2, StepWrite
  <1>3. CASE SOUND_Read16
    BY <1>3, StepDrain DEF SOUND_Read16
  <1>4. CASE SOUND_FlushOutput
    BY <1>4, StepDrain DEF SOUND_FlushOutput
  <1>5. CASE SOUND_AdjustTS
    BY <1>5, StepDrain DEF SOUND_AdjustTS
  <1>6. CASE SOUND_StateAction
    BY <1>6, StepDrain DEF SOUND_StateAction
  <1>7. CASE StartFrame \/ SOUND_Kill \/ SOUND_Init
    BY <1>7, StepStartFrame, StepKill, StepInit
  <1>8. CASE MainStep
    BY <1>8, StepLook, StepSlot, StepPublish, StepPost, StepAccess, StepJoin DEF MainStep
  <1>9. CASE ThreadStep \/ SemTimeout
    BY <1>9, StepIdle, StepFetch, StepExecute, StepReport DEF ThreadStep
  <1>10. CASE UNCHANGED vars
    BY <1>10, StepStutter
  <1> QED
    BY <1>1, <1>2, <1>3, <1>4, <1>5, <1>6, <1>7, <1>8, <1>9, <1>10 DEF Next, MainCall

\* The invariant holds throughout.
THEOREM Invariance == Spec => []IInv
  <1>1. Init => IInv
    BY InitIInv
  <1>2. IInv /\ [Next]_vars => IInv'
    BY NextIInv
  <1> QED
    BY <1>1, <1>2, PTL DEF Spec

\* Every variable keeps its type.
THEOREM TypeCorrect == Spec => []TypeOK
  <1>1. IInv => TypeOK
    BY DEF IInv
  <1> QED
    BY <1>1, Invariance, PTL

\* No queued command is overwritten before the thread has copied it, for every
\* ring size and every number of wrap-arounds (SoundThread_Push).
THEOREM RingSafe == Spec => []NoOverwrite
  <1>1. IInv => NoOverwrite
    <2> SUFFICES ASSUME IInv, mpc = "slot" PROVE Slot(SQ_Enq) \notin Unread
      BY DEF NoOverwrite
    <2>1. SQ_Enq \in Counters /\ SQ_Done \in Counters /\ SQ_DoneCached \in Counters
      BY DEF IInv, TypeOK
    <2>2. /\ Dist(SQ_Enq, SQ_DoneCached) \in Counters /\ Dist(SQ_Enq, SQ_Done) \in Counters
          /\ SQ_SIZE \in Int
      BY <2>1, DistType, RingAssumption
    <2>3. Dist(SQ_Enq, SQ_Done) < SQ_SIZE
      BY <2>2 DEF IInv, Window, Counters
    <2>4. \A i \in 0 .. Dist(SQ_Enq, SQ_Done) - 1 : Slot(SQ_Done + i) # Slot(SQ_Enq)
      BY <2>1, <2>3, SlotFree
    <2> QED
      BY <2>2, <2>4 DEF Unread, Counters
  <1> QED
    BY <1>1, Invariance, PTL

\* While main works on the hardware's state the thread does not
\* (SoundThread_Drain).
THEOREM Exclusive == Spec => []DirectAccessExclusive
  <1>1. IInv => DirectAccessExclusive
    BY DEF IInv, DirectAccessExclusive, Window, Control, Last, Busy
  <1> QED
    BY <1>1, Invariance, PTL

\* ... and finds it where the inline path would be, samples included; a register
\* command takes effect at the emulated time it was issued at.
THEOREM Complete == Spec => []CaughtUp
  <1>1. IInv /\ mpc = "access" => lastts = mlast /\ IBufferCount = owed
    <2> SUFFICES ASSUME IInv, mpc = "access"
                 PROVE  lastts = mlast /\ IBufferCount = owed
      OBVIOUS
    <2>1. Queued = 0 /\ todo = <<>> /\ ~SPendingRun
      BY QueuedType DEF IInv, Window, Control, Last
    <2>2. lastts = mlast /\ lastts \in Int /\ IBufferCount \in Int /\ owed \in Int
      BY <2>1, FrameAssumption DEF IInv, TypeOK, Rest, Rear
    <2> QED
      BY <2>2 DEF IInv, Samples
  <1>2. IInv /\ spc = "exec" /\ c.cmd \in RegCmds => lastts = c.at
    <2> SUFFICES ASSUME IInv, spc = "exec", c.cmd \in RegCmds PROVE lastts = c.at
      OBVIOUS
    <2>1. Queued \in Nat /\ Queued > 0
      BY QueuedType DEF IInv, Window, Busy
    <2> QED
      BY <2>1, RegAssumption DEF IInv, Contents, Follows
  <1>3. IInv => CaughtUp
    BY <1>1, <1>2 DEF CaughtUp
  <1> QED
    BY <1>3, Invariance, PTL

\* Announcing a sleep and looking again misses no push.
THEOREM WakeUp == Spec => []NoLostWakeup
  <1>1. IInv => NoLostWakeup
    BY DEF IInv, Sleep
  <1> QED
    BY <1>1, Invariance, PTL

----------------------------------------------------------------------------
(* The ring, the batch and the two threads implement SoundInOrder.tla.     *)

\* The published commands not yet executed.
Ahead == IF spc = "report" THEN Tail(Published) ELSE Published

\* Sequences: a longer first part keeps its head, and its tail goes on.
LEMMA HeadTailConcat ==
    ASSUME NEW S, NEW s \in Seq(S), s # <<>>, NEW t \in Seq(S)
    PROVE  /\ s \o t # <<>> /\ Head(s \o t) = Head(s) /\ Tail(s \o t) = Tail(s) \o t
  <1> DEFINE st == s \o t
             l  == Tail(s) \o t
  <1>1. Len(s) \in Nat \ {0} /\ Len(t) \in Nat
    BY EmptySeq, LenProperties
  <1>2. /\ st \in Seq(S) /\ Len(st) = Len(s) + Len(t)
        /\ \A i \in 1 .. Len(s) + Len(t) : st[i] = IF i <= Len(s) THEN s[i] ELSE t[i - Len(s)]
    BY ConcatProperties
  <1>3. /\ Tail(s) \in Seq(S) /\ Len(Tail(s)) = Len(s) - 1
        /\ \A i \in 1 .. Len(s) - 1 : Tail(s)[i] = s[i + 1]
    BY HeadTailProperties
  <1>4. /\ l \in Seq(S) /\ Len(l) = Len(Tail(s)) + Len(t)
        /\ \A i \in 1 .. Len(Tail(s)) + Len(t) :
              l[i] = IF i <= Len(Tail(s)) THEN Tail(s)[i] ELSE t[i - Len(Tail(s))]
    BY <1>3, ConcatProperties
  <1> HIDE DEF st, l
  <1>5. st # <<>>
    BY <1>1, <1>2, EmptySeq
  <1>6. Head(st) = Head(s)
    <2>1. st[1] = s[1]
      BY <1>1, <1>2
    <2> QED
      BY <2>1
  <1>7. /\ Tail(st) \in Seq(S) /\ Len(Tail(st)) = Len(st) - 1
        /\ \A i \in 1 .. Len(st) - 1 : Tail(st)[i] = st[i + 1]
    BY <1>2, <1>5, HeadTailProperties
  <1>8. Tail(st) = l
    <2>1. Len(Tail(st)) = Len(l)
      BY <1>1, <1>2, <1>3, <1>4, <1>7
    <2>2. \A i \in 1 .. Len(Tail(st)) : Tail(st)[i] = l[i]
      <3> SUFFICES ASSUME NEW i \in 1 .. Len(s) + Len(t) - 1 PROVE Tail(st)[i] = l[i]
        BY <1>2, <1>7
      <3>1. Tail(st)[i] = st[i + 1] /\ i + 1 \in 1 .. Len(s) + Len(t) /\ i \in Int
        BY <1>1, <1>2, <1>7
      <3>2. CASE i + 1 <= Len(s)
        <4>1. st[i + 1] = s[i + 1] /\ i \in 1 .. Len(s) - 1
          BY <1>1, <1>2, <3>1, <3>2
        <4>2. l[i] = Tail(s)[i]
          BY <1>1, <1>3, <1>4, <4>1
        <4> QED
          BY <1>3, <3>1, <4>1, <4>2
      <3>3. CASE ~(i + 1 <= Len(s))
        <4>1. st[i + 1] = t[(i + 1) - Len(s)]
          BY <1>2, <3>1, <3>3
        <4>2. l[i] = t[i - (Len(s) - 1)]
          BY <1>1, <1>3, <1>4, <3>1, <3>3
        <4>3. (i + 1) - Len(s) = i - (Len(s) - 1)
          BY <1>1, <3>1
        <4> QED
          BY <3>1, <4>1, <4>2, <4>3
      <3> QED
        BY <3>2, <3>3
    <2> QED
      BY <1>4, <1>7, <2>1, <2>2, SeqEqual
  <1> QED
    BY <1>5, <1>6, <1>8 DEF st, l

\* What is published is a sequence of commands.
LEMMA PublishedType ==
    ASSUME IInv
    PROVE  /\ Published \in Seq(Command) /\ Len(Published) = Queued
           /\ \A i \in 1 .. Queued : Published[i] = Item(i - 1)
           /\ (Published = <<>> <=> Queued = 0)
  <1>1. Queued \in Nat /\ SQ_Done \in Nat
    BY QueuedType DEF IInv, TypeOK, Counters
  <1>2. \A i \in 1 .. Queued : SQ[Slot(SQ_Done + i - 1)] = Item(i - 1) /\ Item(i - 1) \in Command
    <2> SUFFICES ASSUME NEW i \in 1 .. Queued
                 PROVE  SQ[Slot(SQ_Done + i - 1)] = Item(i - 1) /\ Item(i - 1) \in Command
      OBVIOUS
    <2>1. SQ_Done + i - 1 = SQ_Done + (i - 1) /\ i - 1 \in 0 .. Queued - 1
      BY <1>1
    <2>2. SQ[Slot(SQ_Done + i - 1)] = Item(i - 1)
      BY <2>1 DEF Item
    <2> QED
      BY <2>1, <2>2 DEF IInv, Contents
  <1>3. Published = [i \in 1 .. Queued |-> SQ[Slot(SQ_Done + i - 1)]]
    BY DEF Published, Queued
  <1>4. Published \in [1 .. Queued -> Command]
    BY <1>2, <1>3
  <1>5. Published \in Seq(Command) /\ Len(Published) = Queued
    BY <1>1, <1>4
  <1>6. \A i \in 1 .. Queued : Published[i] = Item(i - 1)
    BY <1>2, <1>3
  <1>7. Published = <<>> <=> Queued = 0
    BY <1>5
  <1> QED
    BY <1>5, <1>6, <1>7

\* The parts the outstanding commands are made of.
LEMMA Parts ==
    ASSUME IInv
    PROVE  /\ Ahead \in Seq(Command) /\ todo \in Seq(Command) /\ FlushedRun \in Seq(Command)
           /\ Outstanding = (Ahead \o todo) \o FlushedRun
           /\ Outstanding = Ahead \o (todo \o FlushedRun)
           /\ Outstanding \in Seq(Command)
  <1>1. spc = "report" => Published # <<>>
    BY PublishedType, QueuedType DEF IInv, Window, Busy
  <1>2. Ahead \in Seq(Command)
    BY <1>1, PublishedType, HeadTailProperties DEF Ahead
  <1>3. todo \in Seq(Command)
    BY DEF IInv, TypeOK
  <1>4. FlushedRun \in Seq(Command)
    <2>1. [cmd |-> "RUN", at |-> SPendingRunTS] \in Command
      BY CommandType DEF IInv, TypeOK
    <2> QED
      BY <2>1, One, EmptySeq DEF FlushedRun
  <1>5. Outstanding = (Ahead \o todo) \o FlushedRun
    BY DEF Outstanding, Ahead
  <1>6. (Ahead \o todo) \o FlushedRun = Ahead \o (todo \o FlushedRun)
    BY <1>2, <1>3, <1>4, ConcatAssociative
  <1>7. Ahead \o (todo \o FlushedRun) \in Seq(Command)
    BY <1>2, <1>3, <1>4, ConcatProperties
  <1> QED
    BY <1>2, <1>3, <1>4, <1>5, <1>6, <1>7

\* Between two calls of main: the batched slice is all that is not published.
LEMMA PartsReady ==
    ASSUME IInv, todo = <<>>
    PROVE  Outstanding = Ahead \o FlushedRun
  BY Parts, ConcatEmptySeq

\* Where main works on the hardware itself nothing is outstanding, and the hardware
\* has run as far as the issuer.
LEMMA Idle ==
    ASSUME IInv, mpc = "access" \/ (mpc = "ready" /\ ~SThreaded)
    PROVE  /\ Outstanding = <<>> /\ lastts = mlast
           /\ todo = <<>> /\ FlushedRun = <<>> /\ SQ_Enq = SQ_Done /\ spc # "report"
  <1>1. todo = <<>> /\ ~SPendingRun /\ SQ_Enq = SQ_Done /\ spc # "report"
    BY DEF IInv, Control, Window, Busy, Last
  <1>2. Published = <<>> /\ Queued = 0
    BY <1>1, PublishedType, QueuedType DEF IInv
  <1>3. Ahead = <<>> /\ FlushedRun = <<>>
    BY <1>1, <1>2 DEF Ahead, FlushedRun
  <1>4. Outstanding = <<>>
    BY <1>1, <1>3, Parts, ConcatEmptySeq
  <1>5. lastts = mlast
    BY <1>1, <1>2 DEF IInv, Rest, Rear
  <1> QED
    BY <1>1, <1>3, <1>4, <1>5

\* Writing a free slot changes no published command.
LEMMA SlotKeeps ==
    IInv /\ PushSlot => UNCHANGED <<Outstanding, lastts, dev, mlast>>
  <1> SUFFICES ASSUME IInv, PushSlot PROVE UNCHANGED <<Outstanding, lastts, dev, mlast>>
    OBVIOUS
  <1>0. /\ SQ_Enq \in Counters /\ SQ_Done \in Counters /\ Queued \in Nat
        /\ Dist(SQ_Enq, SQ_Done) < SQ_SIZE
    <2>1. SQ_Enq \in Counters /\ SQ_Done \in Counters /\ SQ_DoneCached \in Counters
      BY DEF IInv, TypeOK
    <2>2. Dist(SQ_Enq, SQ_DoneCached) \in Counters /\ Queued \in Nat
      BY <2>1, DistType, QueuedType DEF IInv
    <2> QED
      BY <2>1, <2>2, RingAssumption DEF IInv, Window, PushSlot, Counters, Queued
  <1>1. \A i \in 0 .. Queued - 1 : SQ'[Slot(SQ_Done + i)] = SQ[Slot(SQ_Done + i)]
    BY <1>0, SlotFree DEF IInv, TypeOK, PushSlot, Queued
  <1>2. \A i \in 1 .. Queued : SQ'[Slot(SQ_Done + i - 1)] = SQ[Slot(SQ_Done + i - 1)]
    <2> SUFFICES ASSUME NEW i \in 1 .. Queued
                 PROVE  SQ'[Slot(SQ_Done + i - 1)] = SQ[Slot(SQ_Done + i - 1)]
      OBVIOUS
    <2>1. SQ_Done + i - 1 = SQ_Done + (i - 1) /\ i - 1 \in 0 .. Queued - 1
      BY <1>0 DEF Counters
    <2> QED
      BY <1>1, <2>1
  <1>3. Published' = Published
    <2>1. Published' = [i \in 1 .. Queued |-> SQ'[Slot(SQ_Done + i - 1)]]
      BY DEF Published, Queued, PushSlot
    <2>2. Published = [i \in 1 .. Queued |-> SQ[Slot(SQ_Done + i - 1)]]
      BY DEF Published, Queued
    <2> QED
      BY <1>2, <2>1, <2>2
  <1> QED
    BY <1>3 DEF Outstanding, FlushedRun, PushSlot

\* Publishing moves a command from the call into the ring; the order stays.
LEMMA PublishKeeps ==
    IInv /\ PushPublish => UNCHANGED <<Outstanding, lastts, dev, mlast>>
  <1> SUFFICES ASSUME IInv, PushPublish PROVE UNCHANGED <<Outstanding, lastts, dev, mlast>>
    OBVIOUS
  <1> DEFINE x == Head(todo)
             r == Tail(todo)
  <1>0. /\ SQ_Enq \in Counters /\ SQ_Done \in Counters /\ SQ_DoneCached \in Counters
        /\ Queued \in Nat /\ Dist(SQ_Enq, SQ_DoneCached) \in Nat
        /\ Queued <= Dist(SQ_Enq, SQ_DoneCached)
        /\ Dist(SQ_Enq, SQ_DoneCached) < SQ_SIZE
        /\ SQ_SIZE \in Nat /\ Wrap \in Nat /\ SQ_SIZE < Wrap
    BY QueuedType, DistType, RingAssumption
       DEF IInv, TypeOK, Window, PushPublish, Counters, Queued
  <1>1. Dist(Succ(SQ_Enq), SQ_Done) = Queued + 1
    BY <1>0, DistPush DEF Queued
  <1>2. SQ[Slot(SQ_Done + Queued)] = Head(todo)
    BY <1>0, SlotRear DEF IInv, Contents, PushPublish, Queued
  <1>3. todo \in Seq(Command) /\ todo # <<>>
    BY DEF IInv, TypeOK, Control, PushPublish
  <1>4. x \in Command /\ r \in Seq(Command) /\ todo = <<x>> \o r
    <2>1. x \in Command /\ r \in Seq(Command)
      BY <1>3, HeadTailProperties
    <2>2. \/ \E y \in Command : todo = <<y>>
          \/ \E y \in Command, z \in Command : todo = <<y, z>>
      BY <1>3, TodoShape DEF IInv
    <2>3. ASSUME NEW y \in Command, todo = <<y>> PROVE todo = <<x>> \o r
      <3>1. x = y /\ r = <<>>
        BY <2>3
      <3> QED
        BY <2>3, <3>1, One, ConcatEmptySeq
    <2>4. ASSUME NEW y \in Command, NEW z \in Command, todo = <<y, z>> PROVE todo = <<x>> \o r
      <3>1. x = y /\ r = <<z>>
        BY <2>4
      <3> QED
        BY <2>4, <3>1, Two
    <2> QED
      BY <2>1, <2>2, <2>3, <2>4
  <1> HIDE DEF x, r
  <1>5. Published' = Append(Published, x)
    <2>1. /\ Published \in Seq(Command) /\ Len(Published) = Queued
          /\ Published = [i \in 1 .. Queued |-> SQ[Slot(SQ_Done + i - 1)]]
      BY PublishedType DEF Published, Queued
    <2>2. Published' = [i \in 1 .. Queued + 1 |-> SQ[Slot(SQ_Done + i - 1)]]
      BY <1>1 DEF Published, PushPublish
    <2>3. SQ[Slot(SQ_Done + (Queued + 1) - 1)] = x
      <3>1. SQ_Done + (Queued + 1) - 1 = SQ_Done + Queued
        BY <1>0 DEF Counters
      <3> QED
        BY <1>2, <3>1 DEF x
    <2>4. \A i \in 1 .. Queued : SQ[Slot(SQ_Done + i - 1)] = Published[i]
      BY <2>1
    <2>6. /\ Append(Published, x) \in Seq(Command)
          /\ Len(Append(Published, x)) = Queued + 1
          /\ \A i \in 1 .. Queued : Append(Published, x)[i] = Published[i]
          /\ Append(Published, x)[Queued + 1] = x
      <3>1. Published \in Seq(Command) /\ Len(Published) = Queued
        BY <2>1
      <3>2. /\ Append(Published, x) \in Seq(Command)
            /\ Len(Append(Published, x)) = Len(Published) + 1
            /\ \A i \in 1 .. Len(Published) : Append(Published, x)[i] = Published[i]
            /\ Append(Published, x)[Len(Published) + 1] = x
        BY <1>4, <3>1, AppendProperties
      <3> QED
        BY <3>1, <3>2
    <2>5. \A i \in 1 .. Queued + 1 : SQ[Slot(SQ_Done + i - 1)] = Append(Published, x)[i]
      <3> SUFFICES ASSUME NEW i \in 1 .. Queued + 1
                   PROVE  SQ[Slot(SQ_Done + i - 1)] = Append(Published, x)[i]
        OBVIOUS
      <3>1. CASE i = Queued + 1
        BY <2>3, <2>6, <3>1
      <3>2. CASE i # Queued + 1
        <4>1. i \in 1 .. Queued
          BY <1>0, <3>2
        <4> QED
          BY <2>4, <2>6, <4>1
      <3> QED
        BY <3>1, <3>2
    <2>7. /\ Published' \in Seq(Command) /\ Len(Published') = Queued + 1
          /\ \A i \in 1 .. Queued + 1 : Published'[i] = Append(Published, x)[i]
      <3>1. \A i \in 1 .. Queued + 1 : Append(Published, x)[i] \in Command
        BY <2>6
      <3>2. \A i \in 1 .. Queued + 1 : SQ[Slot(SQ_Done + i - 1)] \in Command
        BY <2>5, <3>1
      <3>3. Published' \in [1 .. Queued + 1 -> Command]
        BY <2>2, <3>2
      <3>4. Published' \in Seq(Command) /\ Len(Published') = Queued + 1
        BY <1>0, <3>3
      <3> QED
        BY <2>2, <2>5, <3>4
    <2> QED
      BY <2>6, <2>7, SeqEqual
  <1>6. Ahead' = Append(Ahead, x)
    <2>1. spc' = spc
      BY DEF PushPublish
    <2>2. spc = "report" => Published # <<>>
      BY PublishedType, QueuedType DEF IInv, Window, Busy
    <2>3. Published \in Seq(Command)
      BY PublishedType
    <2> QED
      BY <1>5, <2>1, <2>2, <2>3, HeadTailAppend DEF Ahead
  <1>7. Ahead' \o r = Ahead \o todo
    <2>1. Ahead \in Seq(Command) /\ <<x>> \in Seq(Command)
      BY <1>4, Parts, One
    <2>2. Append(Ahead, x) = Ahead \o <<x>>
      BY <1>4, <2>1, AppendIsConcat
    <2>3. (Ahead \o <<x>>) \o r = Ahead \o (<<x>> \o r)
      BY <1>4, <2>1, ConcatAssociative
    <2> QED
      BY <1>4, <1>6, <2>2, <2>3
  <1>8. todo' = r /\ FlushedRun' = FlushedRun /\ UNCHANGED <<lastts, dev, mlast>>
    BY DEF PushPublish, FlushedRun, r
  <1>9. Outstanding' = (Ahead' \o todo') \o FlushedRun' /\ Outstanding = (Ahead \o todo) \o FlushedRun
    BY DEF Outstanding, Ahead
  <1> QED
    BY <1>7, <1>8, <1>9

\* The thread reports a command after it has taken effect: nothing changes.
LEMMA ReportKeeps ==
    IInv /\ Report => UNCHANGED <<Outstanding, lastts, dev, mlast>>
  <1> SUFFICES ASSUME IInv, Report PROVE UNCHANGED <<Outstanding, lastts, dev, mlast>>
    OBVIOUS
  <1>0. /\ Queued \in Nat /\ Queued > 0 /\ SQ_Enq # SQ_Done
        /\ SQ_Enq \in Counters /\ SQ_Done \in Counters
    BY QueuedType DEF IInv, TypeOK, Window, Busy, Report
  <1>a. Dist(SQ_Enq, Succ(SQ_Done)) = Queued - 1
    BY <1>0, DistPop DEF Queued
  <1>b. \A i \in Nat : Slot(Succ(SQ_Done) + i) = Slot(SQ_Done + (i + 1))
    BY <1>0, SlotSucc
  <1>1. /\ Published \in Seq(Command) /\ Len(Published) = Queued /\ Published # <<>>
        /\ Published = [i \in 1 .. Queued |-> SQ[Slot(SQ_Done + i - 1)]]
    BY <1>0, PublishedType DEF Published, Queued
  <1>2. /\ Tail(Published) \in Seq(Command) /\ Len(Tail(Published)) = Queued - 1
        /\ \A i \in 1 .. Queued - 1 : Tail(Published)[i] = Published[i + 1]
    BY <1>1, HeadTailProperties
  <1>3. Published' = [i \in 1 .. Queued - 1 |-> SQ[Slot(Succ(SQ_Done) + i - 1)]]
    BY <1>a DEF Published, Report
  <1>4. \A i \in 1 .. Queued - 1 : SQ[Slot(Succ(SQ_Done) + i - 1)] = Tail(Published)[i]
    <2> SUFFICES ASSUME NEW i \in 1 .. Queued - 1
                 PROVE  SQ[Slot(Succ(SQ_Done) + i - 1)] = Tail(Published)[i]
      OBVIOUS
    <2>1. i - 1 \in Nat /\ i + 1 \in 1 .. Queued /\ Succ(SQ_Done) \in Nat /\ SQ_Done \in Nat
      BY <1>0, SuccType DEF Counters
    <2>2. Succ(SQ_Done) + i - 1 = Succ(SQ_Done) + (i - 1)
      BY <2>1
    <2>3. SQ_Done + ((i - 1) + 1) = SQ_Done + (i + 1) - 1
      BY <2>1
    <2>4. Slot(Succ(SQ_Done) + i - 1) = Slot(SQ_Done + (i + 1) - 1)
      BY <1>b, <2>1, <2>2, <2>3
    <2>5. Published[i + 1] = SQ[Slot(SQ_Done + (i + 1) - 1)]
      BY <1>1, <2>1
    <2> QED
      BY <1>2, <2>4, <2>5
  <1>5. Published' = Tail(Published)
    <2>1. \A i \in 1 .. Queued - 1 : Tail(Published)[i] \in Command
      BY <1>2
    <2>2. Published' \in [1 .. Queued - 1 -> Command]
      BY <1>3, <1>4, <2>1
    <2>3. Published' \in Seq(Command) /\ Len(Published') = Queued - 1
      BY <1>0, <2>2
    <2>4. \A i \in 1 .. Queued - 1 : Published'[i] = Tail(Published)[i]
      BY <1>3, <1>4
    <2> QED
      BY <1>2, <2>3, <2>4, SeqEqual
  <1>6. Ahead' = Ahead
    <2>1. spc = "report" /\ spc' # "report"
      BY DEF Report
    <2> QED
      BY <1>5, <2>1 DEF Ahead
  <1>7. UNCHANGED <<todo, SPendingRun, SPendingRunTS, lastts, dev, mlast>>
    BY DEF Report
  <1> QED
    BY <1>6, <1>7 DEF Outstanding, Ahead, FlushedRun

\* A command takes effect.
LEMMA ExecutePerforms ==
    IInv /\ Execute => Order!Perform
  <1> SUFFICES ASSUME IInv, Execute PROVE Order!Perform
    OBVIOUS
  <1>0. Queued \in Nat /\ Queued > 0 /\ c = Item(0) /\ c \in Command /\ Follows(c, lastts)
    BY QueuedType DEF IInv, Window, Busy, Contents, Execute
  <1>1. /\ Published \in Seq(Command) /\ Published # <<>> /\ Head(Published) = c
    <2>1. /\ Published \in Seq(Command) /\ Published # <<>> /\ Len(Published) = Queued
          /\ Published[1] = Item(1 - 1)
      BY <1>0, PublishedType
    <2>2. 1 - 1 = 0
      OBVIOUS
    <2> QED
      BY <1>0, <2>1, <2>2
  <1>2. Ahead = Published /\ Ahead' = Tail(Published) /\ todo' = todo /\ FlushedRun' = FlushedRun
    BY DEF Execute, Ahead, Published, FlushedRun
  <1> DEFINE q == todo \o FlushedRun
  <1>3. q \in Seq(Command) /\ Outstanding = Published \o q
    BY <1>2, Parts, ConcatProperties
  <1>4. Outstanding' = Tail(Published) \o q
    <2>1. Tail(Published) \in Seq(Command)
      BY <1>1, HeadTailProperties
    <2>2. Outstanding' = (Tail(Published) \o todo) \o FlushedRun
      BY <1>2 DEF Outstanding, Ahead
    <2>3. (Tail(Published) \o todo) \o FlushedRun = Tail(Published) \o q
      <3>1. todo \in Seq(Command) /\ FlushedRun \in Seq(Command)
        BY Parts
      <3> QED
        BY <2>1, <3>1, ConcatAssociative
    <2> QED
      BY <2>2, <2>3
  <1> HIDE DEF q
  <1>5. Outstanding # <<>> /\ Head(Outstanding) = c /\ Outstanding' = Tail(Outstanding)
    BY <1>1, <1>3, <1>4, HeadTailConcat
  <1>6. mlast' = mlast /\ lastts \in Int /\ c.at \in Int
    BY <1>0 DEF Execute, IInv, TypeOK, Command, Timestamps
  <1>7. \/ c.cmd = "RUN" /\ c.at >= lastts /\ lastts' = c.at /\ UNCHANGED dev
        \/ c.cmd \in RegCmds /\ c.at = lastts /\ dev' = c.cmd /\ UNCHANGED lastts
        \/ c.cmd = "EXIT" /\ c.at = lastts /\ UNCHANGED <<lastts, dev>>
    <2>1. CASE c.cmd = "RUN" /\ DoRun(c.at)
      BY <1>0, <1>6, <2>1 DEF DoRun, Follows
    <2>2. CASE c.cmd \in RegCmds /\ DoRegister(c.cmd)
      BY <1>0, <2>2, RegAssumption DEF DoRegister, Follows
    <2>3. CASE c.cmd = "EXIT" /\ UNCHANGED deviceVars
      BY <1>0, <2>3 DEF Follows
    <2> QED
      BY <2>1, <2>2, <2>3 DEF Execute
  <1> QED
    BY <1>5, <1>6, <1>7 DEF Order!Perform

\* A flush moves the batched slice into the call that drains; the order stays.
LEMMA DrainKeeps ==
    ASSUME IInv, NEW s, SoundThread_Drain(s)
    PROVE  UNCHANGED <<Outstanding, lastts, dev, mlast>>
  <1>0. /\ mpc = "ready" /\ todo = <<>>
        /\ UNCHANGED <<mlast, lastts, dev, spc, SQ_Enq, SQ_Done, SQ, SPendingRunTS>>
    BY DEF IInv, Control, SoundThread_Drain
  <1>1. Ahead' = Ahead /\ Outstanding' = (Ahead' \o todo') \o FlushedRun'
    BY <1>0 DEF Ahead, Published, Outstanding
  <1>2. /\ Ahead \in Seq(Command) /\ FlushedRun \in Seq(Command)
        /\ Outstanding = Ahead \o FlushedRun
    BY <1>0, Parts, PartsReady
  <1>3. CASE SThreaded
    <2>1. todo' = FlushedRun /\ FlushedRun' = <<>>
      BY <1>3 DEF SoundThread_Drain, Push, FlushedRun
    <2>2. Ahead \o FlushedRun \in Seq(Command)
      BY <1>2, ConcatProperties
    <2>3. (Ahead \o FlushedRun) \o <<>> = Ahead \o FlushedRun
      BY <2>2, ConcatEmptySeq
    <2> QED
      BY <1>0, <1>1, <1>2, <2>1, <2>3
  <1>4. CASE ~SThreaded
    <2>1. UNCHANGED <<todo, SPendingRun, SPendingRunTS>>
      BY <1>4 DEF SoundThread_Drain
    <2> QED
      BY <1>0, <1>1, <2>1 DEF Outstanding, Ahead, FlushedRun
  <1> QED
    BY <1>3, <1>4

\* A call that flushes the batched slice and pushes one command issues it.
LEMMA PushIssues ==
    ASSUME IInv, NEW k \in Command, todo = <<>>, todo' = FlushedRun \o <<k>>, SPendingRun' = FALSE,
           UNCHANGED <<SQ, SQ_Enq, SQ_Done, spc>>
    PROVE  Order!Issue(k)
  <1>1. /\ Ahead \in Seq(Command) /\ FlushedRun \in Seq(Command) /\ Outstanding \in Seq(Command)
        /\ Outstanding = Ahead \o FlushedRun
    BY Parts, PartsReady
  <1>2. <<k>> \in Seq(Command)
    BY One
  <1>3. Outstanding' = (Ahead \o (FlushedRun \o <<k>>)) \o <<>>
    BY DEF Outstanding, Ahead, Published, FlushedRun
  <1>4. Ahead \o (FlushedRun \o <<k>>) = Outstanding \o <<k>>
    BY <1>1, <1>2, ConcatAssociative
  <1>5. Outstanding \o <<k>> \in Seq(Command)
    BY <1>1, <1>2, ConcatProperties
  <1>6. Outstanding' = Outstanding \o <<k>>
    BY <1>3, <1>4, <1>5, ConcatEmptySeq
  <1>7. Outstanding' = Append(Outstanding, k)
    BY <1>1, <1>6, AppendIsConcat
  <1> QED
    BY <1>7 DEF Order!Issue

\* A register command is issued, or performed at once where there is no thread.
LEMMA WriteRegisters ==
    ASSUME IInv, NEW r \in RegCmds, SOUND_Write(r)
    PROVE  Order!Register(r)
  <1>0. mpc = "ready" /\ todo = <<>> /\ UNCHANGED <<SQ, SQ_Enq, SQ_Done, spc, mlast>>
    BY DEF IInv, Control, SOUND_Write
  <1>1. CASE SThreaded
    <2> DEFINE k == [cmd |-> r, at |-> mlast]
    <2>1. k \in Command
      BY CommandType DEF IInv, TypeOK
    <2>2. todo' = FlushedRun \o <<k>> /\ SPendingRun' = FALSE /\ UNCHANGED <<lastts, dev>>
      BY <1>1 DEF SOUND_Write, Push, Queue
    <2>3. Order!Issue(k)
      BY <1>0, <2>1, <2>2, PushIssues
    <2> QED
      BY <1>0, <2>2, <2>3 DEF Order!Register
  <1>2. CASE ~SThreaded
    <2>1. Outstanding = <<>> /\ lastts = mlast
      BY <1>0, <1>2, Idle
    <2>2. dev' = r /\ UNCHANGED <<lastts, SPendingRun, SPendingRunTS, todo>>
      BY <1>2 DEF SOUND_Write, DoRegister
    <2>3. Outstanding' = Outstanding
      BY <1>0, <2>2 DEF Outstanding, Published, FlushedRun
    <2> QED
      BY <1>0, <2>1, <2>2, <2>3 DEF Order!Register
  <1> QED
    BY <1>1, <1>2

\* The game is closed.
LEMMA KillStops ==
    IInv /\ SOUND_Kill => Order!Stop \/ UNCHANGED <<Outstanding, lastts, dev, mlast>>
  <1> SUFFICES ASSUME IInv, SOUND_Kill
               PROVE  Order!Stop \/ UNCHANGED <<Outstanding, lastts, dev, mlast>>
    OBVIOUS
  <1>0. mpc = "ready" /\ todo = <<>> /\ UNCHANGED <<SQ, SQ_Enq, SQ_Done, spc, mlast, lastts, dev>>
    BY DEF IInv, Control, SOUND_Kill
  <1>1. CASE SThreaded
    <2> DEFINE k == [cmd |-> "EXIT", at |-> mlast]
    <2>1. k \in Command
      BY CommandType DEF IInv, TypeOK
    <2>2. todo' = FlushedRun \o <<k>> /\ SPendingRun' = FALSE
      BY <1>1 DEF SOUND_Kill, Push
    <2>3. Order!Issue(k)
      BY <1>0, <2>1, <2>2, PushIssues
    <2> QED
      BY <1>0, <2>3 DEF Order!Stop
  <1>2. CASE ~SThreaded
    BY <1>0, <1>2 DEF SOUND_Kill, Outstanding, Published, FlushedRun
  <1> QED
    BY <1>1, <1>2

\* What SOUND_Update leaves: the new slice behind what is ahead, pushed or batched.
LEMMA BatchAppends ==
    ASSUME NEW ts \in Timestamps, NEW b, Batch(ts, b), todo = <<>>, Ahead' \in Seq(Command)
    PROVE  Outstanding' = Append(Ahead', [cmd |-> "RUN", at |-> ts])
  <1> DEFINE k == [cmd |-> "RUN", at |-> ts]
             a == Ahead'
  <1>0. k \in Command /\ a \in Seq(Command)
    BY CommandType
  <1>1. <<k>> \in Seq(Command)
    BY <1>0, One
  <1>2. \/ todo' = <<k>> /\ SPendingRun' = FALSE
        \/ todo' = <<>> /\ SPendingRun' = TRUE /\ SPendingRunTS' = ts
    BY DEF Batch, Push
  <1>3. \/ todo' = <<k>> /\ FlushedRun' = <<>>
        \/ todo' = <<>> /\ FlushedRun' = <<k>>
    BY <1>2 DEF FlushedRun
  <1>4. Outstanding' = (a \o todo') \o FlushedRun'
    BY DEF Outstanding, Ahead
  <1> HIDE DEF k, a
  <1>5. a \o <<k>> \in Seq(Command) /\ a \o <<>> = a
    BY <1>0, <1>1, ConcatProperties, ConcatEmptySeq
  <1>6. (a \o <<k>>) \o <<>> = a \o <<k>>
    BY <1>5, ConcatEmptySeq
  <1>7. Outstanding' = a \o <<k>>
    BY <1>3, <1>4, <1>5, <1>6
  <1>8. Outstanding' = Append(a, k)
    BY <1>0, <1>7, AppendIsConcat
  <1> QED
    BY <1>8 DEF a, k

\* Time passes.  The slice is issued, in place of the one batched before it if
\* there is one; without a thread the hardware follows at once.
LEMMA UpdateRuns ==
    IInv /\ SOUND_Update => \E ts \in 0 .. FrameSlices : Order!Run(ts)
  <1> SUFFICES ASSUME IInv, mpc = "ready", NEW ts \in mlast .. FrameSlices, mlast' = ts,
                      UpdateThreaded(ts) \/ UpdateStarts(ts) \/ UpdateInline(ts)
               PROVE  Order!Run(ts) /\ ts \in 0 .. FrameSlices
    BY DEF SOUND_Update
  <1>0. ts \in Timestamps /\ mlast <= ts /\ todo = <<>>
    <2>1. mlast \in Nat /\ FrameSlices \in Nat
      BY FrameAssumption DEF IInv, TypeOK, Timestamps
    <2> QED
      BY <2>1 DEF IInv, Control, Timestamps
  <1> DEFINE k == [cmd |-> "RUN", at |-> ts]
  <1>1. k \in Command
    BY <1>0, CommandType
  <1>2. CASE UpdateThreaded(ts)
    <2>1. Batch(ts, SRunBatch) /\ UNCHANGED <<SQ, SQ_Enq, SQ_Done, spc, lastts, dev>>
      BY <1>2 DEF UpdateThreaded
    <2>2. Ahead' = Ahead
      BY <2>1 DEF Ahead, Published
    <2>3. Ahead \in Seq(Command) /\ Outstanding = Ahead \o FlushedRun
      BY <1>0, Parts, PartsReady
    <2>4. Outstanding' = Append(Ahead, k)
      BY <1>0, <2>1, <2>2, <2>3, BatchAppends
    <2>5. CASE ~SPendingRun
      <3>1. Outstanding = Ahead
        BY <2>3, <2>5, ConcatEmptySeq DEF FlushedRun
      <3>2. Order!Issue(k)
        BY <2>4, <3>1 DEF Order!Issue
      <3> QED
        BY <1>0, <2>1, <3>2 DEF Order!Run, Timestamps
    <2>6. CASE SPendingRun
      <3> DEFINE o == [cmd |-> "RUN", at |-> SPendingRunTS]
                 n == Len(Ahead)
      <3>1. o \in Command /\ o.cmd = "RUN" /\ k.cmd = "RUN"
        BY CommandType DEF IInv, TypeOK
      <3>2. FlushedRun = <<o>>
        BY <2>6 DEF FlushedRun
      <3>3. Outstanding = Append(Ahead, o)
        BY <2>3, <3>1, <3>2, AppendIsConcat
      <3> HIDE DEF o, k
      <3>4. /\ Outstanding \in Seq(Command) /\ Outstanding # <<>> /\ Len(Outstanding) = n + 1
            /\ Outstanding[n + 1] = o /\ \A i \in 1 .. n : Outstanding[i] = Ahead[i]
        BY <2>3, <3>1, <3>3, AppendProperties
      <3>5. /\ Outstanding' \in Seq(Command) /\ Len(Outstanding') = n + 1
            /\ Outstanding'[n + 1] = k /\ \A i \in 1 .. n : Outstanding'[i] = Ahead[i]
        BY <1>1, <2>3, <2>4, AppendProperties
      <3>6. n \in Nat
        BY <2>3
      <3>7. Outstanding' = [Outstanding EXCEPT ![Len(Outstanding)] = k]
        <4> DEFINE e == [Outstanding EXCEPT ![n + 1] = k]
        <4>1. /\ e \in Seq(Command) /\ Len(e) = n + 1
              /\ \A j \in 1 .. n + 1 : e[j] = IF j = n + 1 THEN k ELSE Outstanding[j]
          <5>1. n + 1 \in 1 .. Len(Outstanding)
            BY <3>4, <3>6
          <5> QED
            BY <1>1, <3>4, <5>1, ExceptSeq
        <4> HIDE DEF e
        <4>2. \A j \in 1 .. n + 1 : Outstanding'[j] = e[j]
          BY <3>4, <3>5, <3>6, <4>1
        <4>3. Outstanding' = e
          BY <3>5, <4>1, <4>2, SeqEqual
        <4> QED
          BY <3>4, <4>3 DEF e
      <3>8. Order!Issue(k)
        BY <3>1, <3>4, <3>7 DEF Order!Issue, Order!Last
      <3> QED
        BY <1>0, <2>1, <3>8 DEF Order!Run, Timestamps, k
    <2> QED
      BY <2>5, <2>6
  <1>3. CASE UpdateStarts(ts)
    <2>1. /\ ~SThreaded /\ spc' = "poll" /\ SQ_Enq' = 0 /\ SQ_Done' = 0 /\ Batch(ts, 0)
          /\ UNCHANGED <<lastts, dev>>
      BY <1>3 DEF UpdateStarts
    <2>2. Outstanding = <<>>
      BY <2>1, Idle
    <2>3. Ahead' = <<>>
      <3>1. Dist(SQ_Enq', SQ_Done') = 0
        BY <2>1 DEF Dist
      <3>2. Published' = <<>>
        BY <3>1 DEF Published
      <3> QED
        BY <2>1, <3>2 DEF Ahead
    <2>4. Outstanding' = Append(<<>>, k)
      BY <1>0, <2>1, <2>3, EmptySeq, BatchAppends
    <2>5. Order!Issue(k)
      BY <2>2, <2>4 DEF Order!Issue
    <2> QED
      BY <1>0, <2>1, <2>5 DEF Order!Run, Timestamps
  <1>4. CASE UpdateInline(ts)
    <2>1. Outstanding = <<>>
      BY <1>4, Idle DEF UpdateInline
    <2>2. lastts' = ts /\ UNCHANGED <<dev, SQ, SQ_Enq, SQ_Done, spc, todo, SPendingRun, SPendingRunTS>>
      BY <1>4 DEF UpdateInline, DoRun
    <2>3. Outstanding' = Outstanding
      BY <2>2 DEF Outstanding, Published, FlushedRun
    <2> QED
      BY <1>0, <2>1, <2>2, <2>3 DEF Order!Run, Timestamps
  <1> QED
    BY <1>2, <1>3, <1>4

\* Main works on the hardware itself: its time is rebased, a state is loaded, or
\* nothing the specification speaks of changes.
LEMMA AccessMaps ==
    IInv /\ DirectAccess =>
        \/ Order!Rebase \/ Order!Load \/ UNCHANGED <<Outstanding, lastts, dev, mlast>>
  <1> SUFFICES ASSUME IInv, DirectAccess
               PROVE  \/ Order!Rebase \/ Order!Load
                      \/ UNCHANGED <<Outstanding, lastts, dev, mlast>>
    OBVIOUS
  <1>1. /\ Outstanding = <<>> /\ lastts = mlast
        /\ UNCHANGED <<SQ, SQ_Enq, SQ_Done, spc, todo, SPendingRun, SPendingRunTS>>
    BY Idle DEF DirectAccess
  <1>2. Outstanding' = Outstanding
    BY <1>1 DEF Outstanding, Published, FlushedRun
  <1>3. sync \in {"midi", "flush", "adjust", "state"}
    BY DEF IInv, TypeOK, Control, DirectAccess
  <1>4. CASE sync = "adjust"
    <2>1. lastts' = lastts - mlast /\ mlast' = 0 /\ UNCHANGED dev
      BY <1>4 DEF DirectAccess
    <2>2. lastts' = 0
      BY <1>1, <2>1 DEF IInv, TypeOK
    <2> QED
      BY <1>1, <1>2, <2>1, <2>2 DEF Order!Rebase
  <1>5. CASE sync = "state"
    <2>1. dev' \in RegCmds \union {dev} /\ UNCHANGED <<lastts, mlast>>
      BY <1>5 DEF DirectAccess
    <2> QED
      BY <1>1, <1>2, <2>1 DEF Order!Load
  <1>6. CASE sync \in {"flush", "midi"}
    BY <1>2, <1>6 DEF DirectAccess
  <1> QED
    BY <1>3, <1>4, <1>5, <1>6

\* Another game is loaded.
LEMMA InitRestarts ==
    IInv /\ SOUND_Init => Order!Restart
  <1> SUFFICES ASSUME IInv, SOUND_Init PROVE Order!Restart
    OBVIOUS
  <1>1. mpc = "ready" /\ ~SThreaded
    BY DEF IInv, Last, Control, SOUND_Init
  <1>2. Outstanding = <<>> /\ lastts = mlast
    BY <1>1, Idle
  <1>3. /\ lastts' = 0 /\ mlast' = 0 /\ dev' = "NONE"
        /\ UNCHANGED <<SQ, SQ_Enq, SQ_Done, spc, todo, SPendingRun, SPendingRunTS>>
    BY DEF SOUND_Init
  <1>4. Outstanding' = Outstanding
    BY <1>3 DEF Outstanding, Published, FlushedRun
  <1> QED
    BY <1>2, <1>3, <1>4 DEF Order!Restart

\* The looks at the queue, the spins, the wake-up, the sleep and the copy of a
\* command are steps of the implementation only.
LEMMA OthersKeep ==
    ASSUME IInv,
           \/ StartFrame \/ PushLook \/ PushSpin \/ PushPost \/ DrainSeen \/ Join
           \/ Poll \/ Announce \/ Recheck \/ SemTaken \/ SemTimeout \/ Awake \/ Fetch
           \/ UNCHANGED vars
    PROVE  UNCHANGED <<Outstanding, lastts, dev, mlast>>
  <1>1. /\ UNCHANGED <<SQ, SQ_Enq, SQ_Done, todo, SPendingRun, SPendingRunTS, lastts, dev, mlast>>
        /\ spc = "report" <=> spc' = "report"
    BY DEF StartFrame, PushLook, PushSpin, PushPost, DrainSeen, Join, Poll, Announce,
           Recheck, SemTaken, SemTimeout, Awake, Fetch, vars
  <1>2. Published' = Published /\ FlushedRun' = FlushedRun
    BY <1>1 DEF Published, FlushedRun
  <1> QED
    BY <1>1, <1>2 DEF Outstanding

\* Every step is a step of the specification, or none.
LEMMA StepMaps ==
    IInv /\ [Next]_vars => [Order!Next]_(Order!vars)
  <1> SUFFICES ASSUME IInv, [Next]_vars PROVE [Order!Next]_(Order!vars)
    OBVIOUS
  <1> DEFINE Keep == UNCHANGED <<Outstanding, lastts, dev, mlast>>
  <1>a. Keep => UNCHANGED Order!vars
    BY DEF Order!vars
  <1> HIDE DEF Keep
  <1>1. CASE SOUND_Update
    BY <1>1, UpdateRuns DEF Order!Next
  <1>2. CASE \E r \in RegCmds : SOUND_Write(r)
    BY <1>2, WriteRegisters DEF Order!Next
  <1>3. CASE SOUND_Read16 \/ SOUND_FlushOutput \/ SOUND_AdjustTS \/ SOUND_StateAction
    BY <1>3, <1>a, DrainKeeps
       DEF SOUND_Read16, SOUND_FlushOutput, SOUND_AdjustTS, SOUND_StateAction, Keep
  <1>4. CASE SOUND_Kill
    BY <1>4, <1>a, KillStops DEF Order!Next, Keep
  <1>5. CASE SOUND_Init
    BY <1>5, InitRestarts DEF Order!Next
  <1>6. CASE DirectAccess
    BY <1>6, <1>a, AccessMaps DEF Order!Next, Keep
  <1>7. CASE PushSlot \/ PushPublish \/ Report
    BY <1>7, <1>a, SlotKeeps, PublishKeeps, ReportKeeps DEF Keep
  <1>8. CASE Execute
    BY <1>8, ExecutePerforms DEF Order!Next
  <1>9. CASE \/ StartFrame \/ PushLook \/ PushSpin \/ PushPost \/ DrainSeen \/ Join
             \/ Poll \/ Announce \/ Recheck \/ SemTaken \/ SemTimeout \/ Awake \/ Fetch
             \/ UNCHANGED vars
    BY <1>9, <1>a, OthersKeep DEF Keep
  <1> QED
    BY <1>1, <1>2, <1>3, <1>4, <1>5, <1>6, <1>7, <1>8, <1>9
       DEF Next, MainCall, MainStep, ThreadStep

\* At first nothing is outstanding and all clocks are at 0.
LEMMA InitMaps ==
    Init => Order!Init
  <1> SUFFICES ASSUME Init PROVE Order!Init
    OBVIOUS
  <1>1. IInv
    BY InitIInv
  <1>2. mpc = "ready" /\ ~SThreaded
    BY DEF Init
  <1>3. Outstanding = <<>>
    BY <1>1, <1>2, Idle
  <1> QED
    BY <1>3 DEF Init, Order!Init

\* The ring, the batched slices and the two threads implement the ordered channel:
\* commands take effect in the order they were issued, each register command when
\* the hardware has run exactly as far as its issuer had, for every ring, counter
\* width, batch and frame.
THEOREM Ordered == Spec => InOrder
  <1>1. Init => Order!Init
    BY InitMaps
  <1>2. IInv /\ [Next]_vars => [Order!Next]_(Order!vars)
    BY StepMaps
  <1> QED
    BY <1>1, <1>2, Invariance, PTL DEF Spec, InOrder, Order!Spec

=============================================================================
