-------------------------- MODULE Vdp2QueueProofs ---------------------------
(***************************************************************************)
(* SurfaceExclusive, FrameAsIssued and StateComplete of Vdp2Queue.tla, for *)
(* every size of the ring, number of lines and set of values.              *)
(***************************************************************************)
EXTENDS Vdp2Queue, ModArith, SequenceTheorems, TLAPS

----------------------------------------------------------------------------
(* The inductive invariant.                                                *)

\* The entries in the ring: those counted, and one that is written but not counted yet.
Queued  == IF mpc = "publish" THEN WQ_InCount + 1 ELSE WQ_InCount
Slot(k) == (WQ_ReadPos + k) % WQ_Size
At(k)   == WQ[Slot(k)]

\* Main still has to write such an entry.
Owes(op) == mpc \in {"push", "slot"} /\ Head(todo).op = op

\* What follows the first entry of a call.
Later == {Post} \union [op : {"SET_BUSYWAIT"}, arg : BOOLEAN]

\* Where main is in a call, and in the frame.
Control ==
    /\ mpc \in {"push", "slot", "publish"} <=> todo # <<>>
    /\ todo # <<>> => Tail(todo) \in Seq(Later)
    /\ mpc \in {"slot", "publish"} => Head(todo) # Post
    /\ todo = <<>> => then = "ready"
    /\ then = "blank" \/ mpc \in {"spin", "blank"} => phase = "frame"
    /\ then = "blank" \/ mpc = "blank" \/ phase # "frame" => DrawCounter = 0
    /\ Owes("EXIT") \/ then = "join" \/ mpc = "join" => phase = "closed"
    /\ mpc \in {"state", "access"} => phase = "between"
    /\ mpc = "access" => WQ_InCount = 0
    /\ espec <=> phase = "frame"
    /\ phase # "closed" => rpc \notin {"none", "exited"}
    /\ phase = "frame" => kept <= line /\ (line = NextOutLine \/ line = VisibleLines)

\* Drawn on memory v, entry a shows what was issued: the memory and, while the picture a
\* belongs to goes on or no other began, the line data.  VCounter is beyond that picture's
\* lines, so the next buffer to be filled is none of theirs.
Right(a, v) ==
    /\ want[a.out].mem = v
    /\ a.vdp2 = NoLine => want[a.out].lib = Border
    /\ a.vdp2 # NoLine =>
          /\ want[a.out].lib \in Values
          /\ a.out >= kept => /\ LIB[a.vdp2] = want[a.out].lib
                              /\ VPhase = "ACTIVE" => a.vdp2 < VCounter

\* What main still has to write says what main has done already.
Debts ==
    /\ Owes("WRITE") => Head(todo).arg = main
    /\ Owes("DRAW_LINE") => /\ NextOutLine > 0 /\ Head(todo).arg.out = NextOutLine - 1
                            /\ Right(Head(todo).arg, main)

\* The ring's positions and its count agree.
Window ==
    /\ Queued <= WQ_Size /\ WQ_WritePos = Slot(Queued)
    /\ mpc = "slot" => WQ_InCount < WQ_Size
    /\ rpc \in {"exec", "draw", "pop"} => WQ_InCount > 0

\* What the entries are, and what the thread has done of the first.
Contents ==
    /\ \A k \in 0 .. Queued - 1 : At(k) \in Entry /\ (At(k).op = "EXIT" => phase = "closed")
    /\ rpc = "draw" => At(0).op = "DRAW_LINE"
    /\ rpc = "pop" /\ At(0).op = "WRITE" => mem = At(0).arg

Undrawn(k) == At(k).op = "DRAW_LINE" /\ ~(k = 0 /\ rpc = "pop")

\* m[k] is the memory, and d[k] the line to be drawn next, when the thread comes to
\* entry k.  An entry that draws, draws what was issued.
Link(m, d, k) ==
    /\ m[k + 1] = IF At(k).op = "WRITE" THEN At(k).arg ELSE m[k]
    /\ d[k + 1] = IF Undrawn(k) THEN d[k] + 1 ELSE d[k]
    /\ Undrawn(k) => At(k).arg.out = d[k] /\ Right(At(k).arg, m[k])

\* From what the thread has done to what main has issued.
Chain(m, d) ==
    /\ m[0] = mem /\ d[0] = NextOutLine - DrawCounter /\ d[0] >= 0
    /\ m[Queued] = main \/ Owes("WRITE")
    /\ d[Queued] = NextOutLine - (IF Owes("DRAW_LINE") THEN 1 ELSE 0)
    /\ \A i, j \in 0 .. Queued : i <= j => d[i] <= d[j]
    /\ \A k \in 0 .. Queued - 1 : Link(m, d, k)

Chained == \E m \in [0 .. Queued -> Values], d \in [0 .. Queued -> Int] : Chain(m, d)

\* The rows that are drawn show what was issued.
Painted ==
    /\ phase = "frame" => \A l \in Lines :
          /\ l < NextOutLine - DrawCounter => AsIssued(l)
          /\ l >= NextOutLine => want[l] = Black
    /\ phase # "frame" => \A l \in Lines : AsIssued(l)

Base == TypeOK /\ Control /\ Debts /\ Window /\ Contents /\ Painted
IInv == Base /\ Chained

----------------------------------------------------------------------------
USE DEF callVars, beamVars, frameVars, ringVars, threadVars

\* Remainders may be taken at any point of a sum.
LEMMA ModAdd ==
    ASSUME NEW S \in Nat \ {0}, NEW a \in Nat, NEW b \in Nat
    PROVE  ((a % S) + b) % S = (a + b) % S
<1> DEFINE p == a \div S
           r == a % S
           q == S * p
<1>1. a = q + r /\ p \in Nat /\ r \in 0 .. S - 1
  <2>1. a % S \in 0 .. S - 1 BY ModBound
  <2> QED BY <2>1, ModDiv
<1> HIDE DEF p, r
<1>2. q \in Nat BY <1>1
<1>3. q % S = 0
  <2>1. 0 \in 0 .. S - 1 /\ S * p + 0 = q BY <1>1
  <2> QED BY <2>1, <1>1, ModUnique
<1>4. r + b \in Nat BY <1>1
<1> HIDE DEF q
<1>5. ((r + b) + q) % S = (r + b) % S BY <1>2, <1>3, <1>4, ModShift
<1>6. (r + b) + q = a + b BY <1>1, <1>2
<1> QED BY <1>5, <1>6 DEF r

\* Every position is one of the ring.
LEMMA SlotType ==
    ASSUME TypeOK, NEW k \in Nat
    PROVE  Slot(k) \in 0 .. WQ_Size - 1
  BY RingAssumption, ModBound DEF TypeOK, Slot

\* The next slot to write is none of those in use.
LEMMA SlotFree ==
    ASSUME TypeOK, NEW j \in Nat, NEW k \in Nat, j < k, k < WQ_Size
    PROVE  Slot(j) # Slot(k)
<1>1. /\ WQ_Size \in Nat \ {0} /\ WQ_ReadPos + j \in Nat /\ WQ_ReadPos + k \in Nat
      /\ WQ_ReadPos + j < WQ_ReadPos + k /\ (WQ_ReadPos + k) - (WQ_ReadPos + j) < WQ_Size
  BY RingAssumption DEF TypeOK
<1> QED BY <1>1, ModNear DEF Slot

\* Positions do not jump where the ring ends.
LEMMA SlotNext ==
    ASSUME TypeOK, NEW k \in Nat
    PROVE  /\ NextPos(Slot(k)) = Slot(k + 1)
           /\ (NextPos(WQ_ReadPos) + k) % WQ_Size = Slot(k + 1)
<1>0. WQ_Size \in Nat \ {0} /\ WQ_ReadPos \in Nat /\ WQ_ReadPos + k \in Nat /\ WQ_ReadPos + 1 \in Nat
  BY RingAssumption DEF TypeOK
<1>1. (((WQ_ReadPos + k) % WQ_Size) + 1) % WQ_Size = ((WQ_ReadPos + k) + 1) % WQ_Size
  BY <1>0, ModAdd
<1>2. (((WQ_ReadPos + 1) % WQ_Size) + k) % WQ_Size = ((WQ_ReadPos + 1) + k) % WQ_Size
  BY <1>0, ModAdd
<1>3. (WQ_ReadPos + k) + 1 = WQ_ReadPos + (k + 1) /\ (WQ_ReadPos + 1) + k = WQ_ReadPos + (k + 1)
  BY <1>0
<1> QED BY <1>1, <1>2, <1>3 DEF Slot, NextPos

\* The first entry of a list, and the rest.
LEMMA Cons ==
    ASSUME NEW S, NEW x \in S, NEW s \in Seq(S)
    PROVE  /\ <<x>> \o s \in Seq(S) /\ <<x>> \o s # <<>>
           /\ Head(<<x>> \o s) = x /\ Tail(<<x>> \o s) = s
<1> DEFINE p == <<x>>
           r == p \o s
<1>1. p \in Seq(S) /\ Len(p) = 1 /\ p[1] = x OBVIOUS
<1>2. Len(s) \in Nat OBVIOUS
<1> HIDE DEF p
<1>3. /\ r \in Seq(S) /\ Len(r) = 1 + Len(s)
      /\ \A i \in 1 .. 1 + Len(s) : r[i] = IF i <= 1 THEN p[i] ELSE s[i - 1]
  <2>1. /\ r \in Seq(S) /\ Len(r) = Len(p) + Len(s)
        /\ \A i \in 1 .. Len(p) + Len(s) : r[i] = IF i <= Len(p) THEN p[i] ELSE s[i - Len(p)]
    BY <1>1, ConcatProperties
  <2> HIDE DEF r
  <2> QED BY <1>1, <1>2, <2>1
<1> HIDE DEF r
<1>4. r # <<>> /\ r[1] = x BY <1>1, <1>2, <1>3
<1>5. Head(r) = x BY <1>3, <1>4
<1>6. /\ Tail(r) \in Seq(S) /\ Len(Tail(r)) = Len(s)
      /\ \A i \in 1 .. Len(s) : Tail(r)[i] = s[i]
  <2>1. /\ Tail(r) \in Seq(S) /\ Len(Tail(r)) = Len(r) - 1
        /\ \A i \in 1 .. Len(Tail(r)) : Tail(r)[i] = r[i + 1]
    BY <1>3, <1>4, HeadTailProperties
  <2> QED BY <1>2, <1>3, <2>1
<1>7. Tail(r) = s BY <1>6
<1> QED BY <1>3, <1>4, <1>5, <1>7 DEF r, p

\* A list of one.
LEMMA One ==
    ASSUME NEW S, NEW x \in S
    PROVE  /\ <<x>> \in Seq(S) /\ <<x>> # <<>>
           /\ Head(<<x>>) = x /\ Tail(<<x>>) = <<>>
  OBVIOUS

LEMMA Two == ASSUME NEW S, NEW x \in S, NEW y \in S PROVE <<x, y>> \in Seq(S)
  OBVIOUS

LEMMA QueuedType == TypeOK => Queued \in Nat /\ WQ_InCount \in Nat /\ WQ_InCount <= Queued
  BY DEF TypeOK, Queued

LEMMA InitIInv == Init => IInv
<1> SUFFICES ASSUME Init PROVE IInv OBVIOUS
<1> USE RingAssumption, LineAssumption
<1>1. TypeOK
  <2>1. LIB \in [Numbers -> Values] BY DEF Init
  <2>2. VCounter \in Numbers BY ActiveAssumption DEF Init, Numbers
  <2>3. want \in [Lines -> Shown] /\ surface = want BY DEF Init, Shown
  <2>4. WQ \in [0 .. WQ_Size - 1 -> Entry \union {NoEntry}] BY DEF Init
  <2>5. todo \in Seq(Entry \union {Post}) BY DEF Init
  <2> QED BY <2>1, <2>2, <2>3, <2>4, <2>5 DEF Init, TypeOK
<1>2. Queued = 0 BY DEF Init, Queued
<1>3. Slot(0) = 0
  <2>1. 0 % WQ_Size = 0 BY ModSmall
  <2> QED BY <2>1 DEF Init, Slot
<1>4. Control /\ Debts /\ Window /\ Contents /\ Painted
  BY <1>2, <1>3 DEF Init, Control, Debts, Window, Contents, Painted, Owes, AsIssued
<1>5. Chained
  <2> DEFINE m == [k \in 0 .. 0 |-> mem]
             d == [k \in 0 .. 0 |-> 0]
  <2>1. m \in [0 .. Queued -> Values] /\ d \in [0 .. Queued -> Int]
    BY <1>2 DEF Init
  <2>2. Chain(m, d)
    <3>1. /\ mpc = "ready" /\ mem = main /\ NextOutLine = 0 /\ DrawCounter = 0
          /\ m[0] = mem /\ d[0] = 0
      BY DEF Init
    <3> HIDE DEF m, d
    <3>2. ~Owes("DRAW_LINE") BY <3>1 DEF Owes
    <3>3. d[Queued] = 0 /\ m[Queued] = main BY <1>2, <3>1
    <3>4. \A i, j \in 0 .. Queued : d[i] <= d[j] BY <1>2, <3>1
    <3>5. 0 .. Queued - 1 = {} BY <1>2
    <3>6. d[Queued] = NextOutLine - (IF Owes("DRAW_LINE") THEN 1 ELSE 0)
      <4>1. NextOutLine - 0 = 0 BY <3>1
      <4>2. (IF Owes("DRAW_LINE") THEN 1 ELSE 0) = 0 BY <3>2, Zenon
      <4> QED BY <3>3, <4>1, <4>2
    <3>7. d[0] = NextOutLine - DrawCounter /\ d[0] >= 0 BY <3>1
    <3>8. \A k \in 0 .. Queued - 1 : Link(m, d, k) BY <3>5
    <3> QED BY <3>1, <3>3, <3>4, <3>6, <3>7, <3>8 DEF Chain
  <2> QED BY <2>1, <2>2 DEF Chained
<1> QED BY <1>1, <1>4, <1>5 DEF IInv, Base

----------------------------------------------------------------------------
(* Steps of main that leave the ring alone.                                *)

LEMMA Unmoved ==
    ASSUME UNCHANGED <<WQ, WQ_ReadPos>>
    PROVE  \A k : At(k)' = At(k) /\ Slot(k)' = Slot(k)
  BY DEF At, Slot

\* What an entry that draws is to show stays so.
RightsKept == \A k \in 0 .. Queued - 1, v \in Values :
                 Undrawn(k) /\ Right(At(k).arg, v) => Right(At(k).arg, v)'

LEMMA RightsQuiet ==
    ASSUME UNCHANGED <<WQ, WQ_ReadPos, want, LIB, kept, VPhase, VCounter>>
    PROVE  RightsKept
  BY Unmoved DEF RightsKept, Right

\* The chain does not depend on anything else.
LEMMA ChainKept ==
    ASSUME TypeOK, Chained, RightsKept,
           UNCHANGED <<WQ, WQ_ReadPos, mem, NextOutLine, DrawCounter>>,
           Queued' = Queued, \A k \in 0 .. Queued - 1 : Undrawn(k)' <=> Undrawn(k),
           Owes("DRAW_LINE")' <=> Owes("DRAW_LINE"), Owes("WRITE") => Owes("WRITE")',
           main' = main \/ Owes("WRITE")'
    PROVE  Chained'
<1>1. PICK m \in [0 .. Queued -> Values], d \in [0 .. Queued -> Int] : Chain(m, d)
  BY DEF Chained
<1>2. \A k \in 0 .. Queued - 1 : Link(m, d, k)'
  <2> SUFFICES ASSUME NEW k \in 0 .. Queued - 1 PROVE Link(m, d, k)' OBVIOUS
  <2>1. Link(m, d, k) BY <1>1 DEF Chain
  <2>2. At(k)' = At(k) BY Unmoved
  <2>3. m[k] \in Values BY QueuedType
  <2>4. Undrawn(k) => Right(At(k).arg, m[k])' BY <2>1, <2>3 DEF RightsKept, Link
  <2> QED BY <2>1, <2>2, <2>4 DEF Link
<1>3. Chain(m, d)' BY <1>1, <1>2 DEF Chain
<1>4. m \in [0 .. Queued' -> Values] /\ d \in [0 .. Queued' -> Int] OBVIOUS
<1> QED BY <1>3, <1>4 DEF Chained

\* Rows keep what they show right when VCounter starts again for rows to come.
LEMMA AsIssuedKept ==
    ASSUME TypeOK, NEW l \in Lines, AsIssued(l), UNCHANGED <<surface, want>>,
           kept' \in Int, kept <= kept'
    PROVE  AsIssued(l)'
  BY DEF AsIssued, Lines, TypeOK

LEMMA QuietKeeps ==
    ASSUME IInv, UNCHANGED <<ringVars, threadVars, DrawCounter, want, NextOutLine, surface>>,
           RightsKept, kept' \in Int, kept <= kept',
           phase' = "frame" <=> phase = "frame", phase = "closed" => phase' = "closed",
           mpc # "publish", mpc' # "publish", mpc' = "slot" => WQ_InCount < WQ_Size,
           Owes("DRAW_LINE")' <=> Owes("DRAW_LINE"), Owes("WRITE") => Owes("WRITE")',
           main' = main \/ Owes("WRITE")'
    PROVE  Window' /\ Contents' /\ Painted' /\ Chained'
<1> USE DEF IInv, Base
<1>0. Queued' = Queued BY DEF Queued
<1>1. Window' BY <1>0, Unmoved DEF Window
<1>2. Contents' BY <1>0, Unmoved DEF Contents
<1>3. Painted' BY AsIssuedKept DEF Painted
<1>4. \A k \in 0 .. Queued - 1 : Undrawn(k)' <=> Undrawn(k) BY Unmoved DEF Undrawn
<1>5. Chained' BY <1>0, <1>4, ChainKept
<1> QED BY <1>1, <1>2, <1>3, <1>5

\* The beam does not move.
LEMMA StillKeeps ==
    ASSUME IInv, UNCHANGED <<ringVars, threadVars, DrawCounter, LIB, want, NextOutLine, surface>>,
           UNCHANGED <<kept, VPhase, VCounter>>,
           phase' = "frame" <=> phase = "frame", phase = "closed" => phase' = "closed",
           mpc # "publish", mpc' # "publish", mpc' = "slot" => WQ_InCount < WQ_Size,
           Owes("DRAW_LINE")' <=> Owes("DRAW_LINE"), Owes("WRITE") => Owes("WRITE")',
           main' = main \/ Owes("WRITE")'
    PROVE  Window' /\ Contents' /\ Painted' /\ Chained'
<1>1. kept' \in Int /\ kept <= kept' BY DEF IInv, Base, TypeOK
<1> QED BY <1>1, RightsQuiet, QuietKeeps

\* Nothing is left to be drawn.
LEMMA NoneUndrawn ==
    ASSUME TypeOK, Chained, DrawCounter = 0
    PROVE  \A k \in 0 .. Queued - 1 : ~Undrawn(k)
<1>1. PICK m \in [0 .. Queued -> Values], d \in [0 .. Queued -> Int] : Chain(m, d)
  BY DEF Chained
<1>2. Queued \in Nat BY QueuedType
<1>3. d[0] = NextOutLine /\ d[Queued] <= NextOutLine BY <1>1 DEF Chain, TypeOK
<1> SUFFICES ASSUME NEW k \in 0 .. Queued - 1, Undrawn(k) PROVE FALSE OBVIOUS
<1>4. d[k + 1] = d[k] + 1 BY <1>1 DEF Chain, Link
<1>5. d[0] <= d[k] /\ d[k + 1] <= d[Queued] BY <1>1, <1>2 DEF Chain
<1>6. d[k] \in Int /\ NextOutLine \in Int /\ d[Queued] \in Int /\ d[0] \in Int
  BY <1>2 DEF TypeOK
<1> QED BY <1>3, <1>4, <1>5, <1>6

\* Lines are queued for rows that were issued.
LEMMA RowsIssued ==
    ASSUME TypeOK, Contents, Chained, NEW k \in 0 .. Queued - 1, Undrawn(k)
    PROVE  At(k).arg \in Draws /\ At(k).arg.out \in Int /\ At(k).arg.out < NextOutLine
<1>1. PICK m \in [0 .. Queued -> Values], d \in [0 .. Queued -> Int] : Chain(m, d)
  BY DEF Chained
<1>2. Queued \in Nat BY QueuedType
<1>3. d[Queued] <= NextOutLine BY <1>1 DEF Chain, TypeOK
<1>4. d[k + 1] = d[k] + 1 /\ At(k).arg.out = d[k] BY <1>1 DEF Chain, Link
<1>5. d[k + 1] <= d[Queued] BY <1>1, <1>2 DEF Chain
<1>6. d[k] \in Int /\ NextOutLine \in Int /\ d[Queued] \in Int BY <1>2 DEF TypeOK
<1>7. At(k).arg \in Draws BY DEF Contents, Undrawn, Entry
<1> QED BY <1>3, <1>4, <1>5, <1>6, <1>7

\* After a reset in the middle of a frame, no line is queued for a row to come.
LEMMA ResetRights ==
    ASSUME IInv, NEW v \in Values, VDP2REND_Reset(v)
    PROVE  RightsKept
<1> USE DEF IInv, Base
<1>1. UNCHANGED <<WQ, WQ_ReadPos, want>> /\ kept' = (IF phase = "frame" THEN line ELSE kept)
  BY DEF VDP2REND_Reset
<1> SUFFICES ASSUME NEW k \in 0 .. Queued - 1, NEW u \in Values, Undrawn(k),
                    Right(At(k).arg, u)
             PROVE  Right(At(k).arg, u)'
  BY DEF RightsKept
<1>2. phase = "frame" BY NoneUndrawn DEF Control
<1>3. At(k).arg.out \in Int /\ At(k).arg.out < NextOutLine BY RowsIssued
<1>4. kept' >= NextOutLine /\ kept' \in Int /\ NextOutLine \in Int
  BY <1>1, <1>2 DEF Control, TypeOK
<1>5. ~(At(k).arg.out >= kept') BY <1>3, <1>4
<1>6. At(k)' = At(k) BY <1>1, Unmoved
<1> QED BY <1>1, <1>5, <1>6 DEF Right

LEMMA WriteKeeps ==
    ASSUME IInv, NEW v \in Values, VDP2REND_Write(v) \/ VDP2REND_Reset(v)
    PROVE  IInv'
<1> USE DEF IInv, Base
<1>1. /\ todo' = <<Cmd("WRITE", v)>> /\ mpc' = "push" /\ then' = "ready" /\ main' = v
      /\ mpc = "ready" /\ phase # "closed"
      /\ UNCHANGED <<phase, line, NextOutLine, DoWakeupIfNecessary, LIB, espec, want,
                     ringVars, DrawCounter, WakeupSem, threadVars, surface>>
  BY DEF VDP2REND_Write, VDP2REND_Reset, Call
<1>b. /\ VPhase' \in {VPhase, "ACTIVE"} /\ VCounter' \in {VCounter, 0, 1}
      /\ InternalVB' \in BOOLEAN
      /\ kept' = kept \/ (kept' = line /\ phase = "frame")
  BY DEF VDP2REND_Write, VDP2REND_Reset, TypeOK
<1>2. Cmd("WRITE", v) \in Entry \union {Post} BY DEF Cmd, Entry
<1>3. /\ todo' \in Seq(Entry \union {Post}) /\ todo' # <<>>
      /\ Head(todo') = Cmd("WRITE", v) /\ Tail(todo') = <<>>
  BY <1>1, <1>2, One
<1>c. kept' \in Int /\ kept <= kept' /\ (phase = "frame" => kept' <= line)
  BY <1>b DEF TypeOK, Control
<1>4. TypeOK'
  <2>1. kept' \in 0 .. VisibleLines BY <1>b DEF TypeOK
  <2>2. VCounter' \in Numbers BY <1>b, ActiveAssumption DEF TypeOK, Numbers
  <2> QED BY <1>1, <1>b, <1>3, <2>1, <2>2 DEF TypeOK
<1>5. Owes("WRITE")' /\ ~Owes("DRAW_LINE")' /\ ~Owes("EXIT")'
  BY <1>1, <1>3 DEF Owes, Cmd
<1>6. ~Owes("DRAW_LINE") /\ ~Owes("WRITE") BY <1>1 DEF Owes
<1>7. Control' BY <1>1, <1>3, <1>5, <1>c DEF Control
<1>8. Debts' BY <1>1, <1>3, <1>5 DEF Debts, Cmd
<1>9. RightsKept
  <2>1. CASE VDP2REND_Write(v)
    <3>1. UNCHANGED <<WQ, WQ_ReadPos, want, LIB, kept, VPhase, VCounter>>
      BY <2>1 DEF VDP2REND_Write
    <3> QED BY <3>1, RightsQuiet
  <2>2. CASE VDP2REND_Reset(v) BY <2>2, ResetRights
  <2> QED BY <2>1, <2>2
<1> QED BY <1>1, <1>4, <1>5, <1>6, <1>7, <1>8, <1>9, <1>c, QuietKeeps

\* A step that leaves what main has to write alone.
LEMMA WaitKeeps ==
    ASSUME IInv, \/ VDP2REND_EndFrame \/ VDP2REND_StateAction \/ StateSpun
    PROVE  IInv'
<1> USE DEF IInv, Base
<1>1. /\ UNCHANGED <<todo, then, frameVars, ringVars, DrawCounter, WakeupSem, threadVars, surface>>
      /\ mpc \in {"ready", "state"} /\ mpc' \in {"spin", "state", "access"}
      /\ mpc' = "spin" => phase = "frame"
      /\ mpc' \in {"state", "access"} => phase = "between"
      /\ mpc' = "access" => WQ_InCount = 0
  BY DEF VDP2REND_EndFrame, VDP2REND_StateAction, StateSpun, Idle, Control
<1>2. \A op : ~Owes(op) /\ ~Owes(op)' BY <1>1 DEF Owes
<1>3. TypeOK' BY <1>1 DEF TypeOK
<1>4. Control' /\ Debts' BY <1>1, <1>2 DEF Control, Debts, Right
<1> QED BY <1>1, <1>2, <1>3, <1>4, StillKeeps

LEMMA KillKeeps ==
    ASSUME IInv, VDP2REND_Kill \/ EndFrameSpun
    PROVE  IInv'
<1> USE DEF IInv, Base
<1>1. PICK x \in {Cmd("EXIT", 0), Cmd("SET_BUSYWAIT", FALSE)} :
         /\ todo' = <<x>> /\ mpc' = "push"
         /\ x.op = "EXIT" => phase = "between" /\ phase' = "closed" /\ then' = "join"
         /\ x.op # "EXIT" => phase' = phase /\ then' = "blank" /\ DrawCounter = 0 /\ phase = "frame"
         /\ mpc \in {"ready", "spin"}
         /\ UNCHANGED <<beamVars, NextOutLine, DoWakeupIfNecessary, main, LIB, espec, want,
                        ringVars, DrawCounter, WakeupSem, threadVars, surface>>
  <2>1. CASE VDP2REND_Kill BY <2>1 DEF VDP2REND_Kill, Call, Cmd
  <2>2. CASE EndFrameSpun
    BY <2>2 DEF EndFrameSpun, Call, Cmd, BusyWaitOff, AllDrawn, Control
  <2> QED BY <2>1, <2>2
<1>2. x \in Entry \union {Post} /\ x.op \notin {"WRITE", "DRAW_LINE"}
  <2>1. Cmd("EXIT", 0) \in Entry /\ Cmd("SET_BUSYWAIT", FALSE) \in Entry BY DEF Cmd, Entry
  <2>2. x.op \notin {"WRITE", "DRAW_LINE"} BY DEF Cmd
  <2> QED BY <2>1, <2>2
<1>3. /\ todo' \in Seq(Entry \union {Post}) /\ todo' # <<>>
      /\ Head(todo') = x /\ Tail(todo') = <<>>
  BY <1>1, <1>2, One
<1>4. TypeOK' BY <1>1, <1>3 DEF TypeOK
<1>5. /\ ~Owes("WRITE")' /\ ~Owes("DRAW_LINE")' /\ (Owes("EXIT")' <=> x.op = "EXIT")
      /\ \A op : ~Owes(op)
  BY <1>1, <1>2, <1>3 DEF Owes
<1>6. Control' BY <1>1, <1>3, <1>5 DEF Control
<1>7. Debts' BY <1>5 DEF Debts
<1> QED BY <1>1, <1>4, <1>5, <1>6, <1>7, StillKeeps

LEMMA LookKeeps ==
    ASSUME IInv, PushLook
    PROVE  IInv'
<1> USE DEF IInv, Base
<1>1. /\ UNCHANGED <<todo, then, frameVars, ringVars, DrawCounter, WakeupSem, threadVars, surface>>
      /\ mpc = "push" /\ mpc' = "slot" /\ Head(todo) # Post /\ WQ_InCount # WQ_Size
  BY DEF PushLook, Full
<1>2. \A op : Owes(op)' <=> Owes(op) BY <1>1 DEF Owes
<1>3. TypeOK' /\ WQ_InCount < WQ_Size BY <1>1, RingAssumption DEF TypeOK
<1>4. Control' /\ Debts' BY <1>1, <1>2 DEF Control, Debts, Right
<1> QED BY <1>1, <1>2, <1>3, <1>4, StillKeeps

\* What is left of a call is neither a write nor a line nor the end.
LEMMA Continued ==
    ASSUME TypeOK, Control, todo # <<>>, Continue
    PROVE  /\ todo' \in Seq(Entry \union {Post}) /\ then' \in {"ready", "blank", "join"}
           /\ todo' # <<>> => Tail(todo') \in Seq(Later)
           /\ mpc' = "push" <=> todo' # <<>>
           /\ todo' # <<>> => then' = then
           /\ todo' = <<>> => then' = "ready" /\ mpc' = then
           /\ mpc' \in {"push", "ready", "blank", "join"}
           /\ ~Owes("WRITE")' /\ ~Owes("DRAW_LINE")' /\ ~Owes("EXIT")'
<1>1. todo' = Tail(todo) /\ todo' \in Seq(Later) BY DEF Continue, Control
<1>2. todo' \in Seq(Entry \union {Post})
  BY <1>1, HeadTailProperties DEF TypeOK
<1>3. CASE todo' = <<>>
  BY <1>1, <1>2, <1>3 DEF Continue, TypeOK, Owes
<1>4. CASE todo' # <<>>
  <2>1. mpc' = "push" /\ then' = then BY <1>1, <1>4 DEF Continue
  <2>2. Head(todo') \in Later /\ Tail(todo') \in Seq(Later)
    BY <1>1, <1>4, HeadTailProperties
  <2>3. Head(todo').op \notin {"WRITE", "DRAW_LINE", "EXIT"} BY <2>2 DEF Later, Post, Cmd
  <2> QED BY <1>2, <1>4, <2>1, <2>2, <2>3 DEF TypeOK, Owes
<1> QED BY <1>3, <1>4

LEMMA PostKeeps ==
    ASSUME IInv, SemPost
    PROVE  IInv'
<1> USE DEF IInv, Base
<1>1. /\ UNCHANGED <<frameVars, ringVars, DrawCounter, threadVars, surface>>
      /\ mpc = "push" /\ Head(todo) = Post /\ Continue /\ todo # <<>>
      /\ WakeupSem' \in 0 .. SemCap
  BY RingAssumption DEF SemPost, TypeOK, Control
<1>2. \A op \in {"WRITE", "DRAW_LINE", "EXIT"} : ~Owes(op) BY <1>1 DEF Owes, Post, Cmd
<1>3. TypeOK' BY <1>1, Continued DEF TypeOK
<1>4. Control' /\ Debts' BY <1>1, Continued DEF Control, Debts
<1> QED BY <1>1, <1>2, <1>3, <1>4, Continued, StillKeeps

LEMMA PublishKeeps ==
    ASSUME IInv, PushPublish
    PROVE  IInv'
<1> USE DEF IInv, Base
<1>1. /\ UNCHANGED <<frameVars, WQ, WQ_ReadPos, WQ_WritePos, DrawCounter, WakeupSem, threadVars,
                     surface>>
      /\ mpc = "publish" /\ WQ_InCount' = WQ_InCount + 1 /\ Continue /\ todo # <<>>
  BY DEF PushPublish, Control
<1>2. \A op : ~Owes(op) BY <1>1 DEF Owes
<1>3. Queued' = Queued /\ Queued = WQ_InCount + 1 BY <1>1, Continued DEF Queued
<1>4. TypeOK' BY <1>1, <1>3, Continued DEF TypeOK, Window
<1>5. Control' /\ Debts' BY <1>1, Continued DEF Control, Debts
<1>6. Window'
  <2>1. Slot(Queued)' = Slot(Queued) BY <1>1, <1>3 DEF Slot
  <2> QED BY <1>1, <1>3, <2>1, Continued DEF Window, TypeOK
<1>7. Contents' BY <1>1, <1>3, Unmoved DEF Contents
<1>8. Painted' BY <1>1 DEF Painted, AsIssued
<1>9. Chained'
  <2>1. \A k \in 0 .. Queued - 1 : Undrawn(k)' <=> Undrawn(k) BY <1>1, Unmoved DEF Undrawn
  <2>2. RightsKept BY <1>1, RightsQuiet
  <2> QED BY <1>1, <1>2, <1>3, <2>1, <2>2, Continued, ChainKept
<1> QED BY <1>4, <1>5, <1>6, <1>7, <1>8, <1>9

----------------------------------------------------------------------------
(* Steps of main that begin and end frames, or touch both sides.           *)

LEMMA StartFrameKeeps ==
    ASSUME IInv, VDP2REND_StartFrame
    PROVE  IInv'
<1> USE DEF IInv, Base
<1>1. /\ mpc = "ready" /\ phase = "between" /\ phase' = "frame" /\ espec' = TRUE
      /\ line' = 0 /\ NextOutLine' = 0 /\ kept' = 0 /\ want' = [l \in Lines |-> Black]
      /\ UNCHANGED <<callVars, VPhase, VCounter, InternalVB, DoWakeupIfNecessary, main, LIB,
                     ringVars, DrawCounter, WakeupSem, threadVars, surface>>
      /\ DrawCounter = 0
  BY DEF VDP2REND_StartFrame, Control
<1>2. \A op : ~Owes(op) /\ ~Owes(op)' BY <1>1 DEF Owes
<1>3. TypeOK'
  <2>2. want' \in [Lines -> Shown] BY <1>1 DEF Shown
  <2> QED BY <1>1, <2>2, LineAssumption DEF TypeOK
<1>4. Control' /\ Debts' BY <1>1, <1>2 DEF Control, Debts
<1>5. Queued' = Queued BY <1>1 DEF Queued
<1>6. Window' BY <1>1, <1>5, Unmoved DEF Window
<1>7. Contents' BY <1>1, <1>5, Unmoved DEF Contents
<1>8. Painted' BY <1>1 DEF Painted, Lines
<1>9. Chained'
  <2>1. PICK m \in [0 .. Queued -> Values], d \in [0 .. Queued -> Int] : Chain(m, d)
    BY DEF Chained
  <2>6. PICK e \in [0 .. Queued -> Int] : \A k \in 0 .. Queued : e[k] = 0
    <3> DEFINE z == [k \in 0 .. Queued |-> 0]
    <3>1. z \in [0 .. Queued -> Int] /\ \A k \in 0 .. Queued : z[k] = 0 OBVIOUS
    <3> QED BY <3>1
  <2>2. e \in [0 .. Queued' -> Int] /\ m \in [0 .. Queued' -> Values] BY <1>5
  <2>3. Queued \in Nat BY QueuedType
  <2>4. \A k \in 0 .. Queued - 1 : Link(m, e, k)'
    <3> SUFFICES ASSUME NEW k \in 0 .. Queued - 1 PROVE Link(m, e, k)' OBVIOUS
    <3>1. ~Undrawn(k)' BY <1>1, NoneUndrawn, Unmoved DEF Undrawn
    <3>2. e[k] = 0 /\ e[k + 1] = 0 BY <2>3, <2>6
    <3>3. m[k + 1] = IF At(k).op = "WRITE" THEN At(k).arg ELSE m[k] BY <2>1 DEF Chain, Link
    <3> QED BY <1>1, <3>1, <3>2, <3>3, Unmoved DEF Link
  <2>5. Chain(m, e)' BY <1>1, <1>2, <1>5, <2>1, <2>3, <2>4, <2>6 DEF Chain
  <2> QED BY <2>2, <2>5 DEF Chained
<1> QED BY <1>3, <1>4, <1>6, <1>7, <1>8, <1>9

\* IncVCounter: the picture goes on, or ends, or another starts at the next row.
LEMMA BeamMoves ==
    ASSUME TypeOK, NEW row \in 0 .. VisibleLines, kept <= row, IncVCounter(row)
    PROVE  /\ VPhase' \in {"ACTIVE", "BOTTOM_BORDER", "BLANKING", "TOP_BORDER"}
           /\ VCounter' \in Numbers /\ InternalVB' \in BOOLEAN
           /\ line' \in {row, VisibleLines} /\ kept' \in 0 .. VisibleLines
           /\ kept <= kept' /\ kept' <= line'
           /\ \/ kept' = line'
              \/ /\ kept' = kept
                 /\ VPhase' = "ACTIVE" => VPhase = "ACTIVE" /\ VCounter' > VCounter
<1>1. CASE PictureGoesOn(row)
  <2>1. VCounter + 1 \in Numbers /\ VCounter + 1 > VCounter
    BY <1>1, ActiveAssumption DEF PictureGoesOn, TypeOK, Numbers
  <2> QED BY <1>1, <2>1 DEF PictureGoesOn, TypeOK
<1>2. CASE IncVPhase(row)
  <2>1. Follows(VPhase) \subseteq {"ACTIVE", "BOTTOM_BORDER", "BLANKING", "TOP_BORDER"}
    BY DEF Follows, TypeOK
  <2>2. /\ VPhase' \in Follows(VPhase) /\ VCounter' = 0 /\ line' \in {row, VisibleLines}
        /\ InternalVB' \in BOOLEAN
        /\ kept' = IF VPhase' = "ACTIVE" THEN line' ELSE kept
    BY <1>2 DEF IncVPhase
  <2>3. 0 \in Numbers BY ActiveAssumption DEF Numbers
  <2>4. line' \in 0 .. VisibleLines /\ kept <= line' BY <2>2, LineAssumption DEF TypeOK
  <2> QED BY <2>1, <2>2, <2>3, <2>4 DEF TypeOK
<1> QED BY <1>1, <1>2 DEF IncVCounter

\* A step that draws, or passes, a line.
LineStep == (\E x \in Values : ActiveLine(x)) \/ BorderLine \/ BlankLine

LEMMA RowMoves ==
    ASSUME IInv, LineStep
    PROVE  /\ mpc = "ready" /\ phase = "frame" /\ kept <= line
           /\ UNCHANGED <<phase, main, espec, ringVars, WakeupSem, threadVars, surface>>
           /\ \E row \in {line, NextRow} :
                 /\ IncVCounter(row) /\ row \in 0 .. VisibleLines /\ row >= line
                 /\ row = NextRow \/ BlankLine
           /\ LIB' = LIB \/ (VPhase = "ACTIVE"
                               /\ \E x \in Values : LIB' = [LIB EXCEPT ![VCounter] = x])
           /\ want' = want \/ \E w : want' = [want EXCEPT ![line] = w]
<1> USE DEF IInv, Base
<1>1. NextRow \in 0 .. VisibleLines /\ NextRow >= line /\ line \in 0 .. VisibleLines
  BY LineAssumption DEF NextRow, TypeOK
<1>2. \A vdp2, lib : VDP2REND_DrawLine(vdp2, lib)
                       => want' = want \/ \E w : want' = [want EXCEPT ![line] = w]
  BY DEF VDP2REND_DrawLine
<1>3. mpc = "ready" /\ phase = "frame" => kept <= line BY DEF Control
<1>4. CASE BlankLine BY <1>1, <1>3, <1>4 DEF BlankLine, TypeOK
<1>5. CASE BorderLine BY <1>1, <1>2, <1>3, <1>5 DEF BorderLine
<1>6. ASSUME NEW x \in Values, ActiveLine(x)
      PROVE  /\ LIB' = [LIB EXCEPT ![VCounter] = x] /\ VPhase = "ACTIVE"
             /\ mpc = "ready" /\ phase = "frame" /\ IncVCounter(NextRow)
             /\ UNCHANGED <<phase, main, espec, ringVars, WakeupSem, threadVars, surface>>
             /\ want' = want \/ \E w : want' = [want EXCEPT ![line] = w]
  BY <1>2, <1>6 DEF ActiveLine, LibLine
<1> QED BY <1>1, <1>3, <1>4, <1>5, <1>6 DEF LineStep

\* The buffer that is filled in belongs to no line that is queued, of this picture.
LEMMA LineRights ==
    ASSUME IInv, LineStep
    PROVE  RightsKept
<1> USE DEF IInv, Base
<1>1. /\ phase = "frame" /\ kept <= line /\ UNCHANGED <<WQ, WQ_ReadPos>>
      /\ LIB' = LIB \/ (VPhase = "ACTIVE"
                          /\ \E x \in Values : LIB' = [LIB EXCEPT ![VCounter] = x])
      /\ want' = want \/ \E w : want' = [want EXCEPT ![line] = w]
  BY RowMoves
<1>2. PICK row \in 0 .. VisibleLines : IncVCounter(row) /\ row >= line BY RowMoves
<1>3. NextOutLine <= line /\ line \in Int /\ NextOutLine \in Int /\ kept \in Int
  BY <1>1 DEF Control, TypeOK
<1>4. kept <= row BY <1>1, <1>2, <1>3
<1>5. /\ line' \in {row, VisibleLines} /\ kept' \in 0 .. VisibleLines
      /\ \/ kept' = line'
         \/ /\ kept' = kept
            /\ VPhase' = "ACTIVE" => VPhase = "ACTIVE" /\ VCounter' > VCounter
      /\ VCounter' \in Numbers
  BY <1>2, <1>4, BeamMoves
<1>6. line' >= NextOutLine BY <1>2, <1>3, <1>5, LineAssumption DEF TypeOK
<1> SUFFICES ASSUME NEW k \in 0 .. Queued - 1, NEW u \in Values, Undrawn(k),
                    Right(At(k).arg, u)
             PROVE  Right(At(k).arg, u)'
  BY DEF RightsKept
<1> DEFINE a == At(k).arg
<1>7. a \in Draws /\ a.out \in Int /\ a.out < NextOutLine BY RowsIssued
<1>8. At(k)' = At(k) BY <1>1, Unmoved
<1>9. a.out \in Lines /\ a.vdp2 \in Numbers \union {NoLine} BY <1>7 DEF Draws
<1>10. want'[a.out] = want[a.out] BY <1>1, <1>3, <1>7, <1>9 DEF TypeOK
<1>11. Right(a, u) OBVIOUS
<1> HIDE DEF a
<1>12. a.vdp2 # NoLine /\ a.out >= kept =>
          LIB[a.vdp2] = want[a.out].lib /\ (VPhase = "ACTIVE" => a.vdp2 < VCounter)
  BY <1>11 DEF Right
<1>13. ASSUME a.vdp2 # NoLine, a.out >= kept'
       PROVE  LIB'[a.vdp2] = want'[a.out].lib /\ (VPhase' = "ACTIVE" => a.vdp2 < VCounter')
  <2>1. kept' = kept BY <1>3, <1>5, <1>6, <1>7, <1>13, LineAssumption DEF TypeOK
  <2>2. LIB[a.vdp2] = want[a.out].lib /\ (VPhase = "ACTIVE" => a.vdp2 < VCounter)
    BY <1>12, <1>13, <2>1
  <2>3. a.vdp2 \in Numbers BY <1>9, <1>13
  <2>4. LIB'[a.vdp2] = LIB[a.vdp2]
    <3>1. VPhase = "ACTIVE" => a.vdp2 # VCounter BY <2>2, <2>3 DEF Numbers, TypeOK
    <3> QED BY <1>1, <2>3, <3>1 DEF TypeOK
  <2>5. VPhase' = "ACTIVE" => a.vdp2 < VCounter'
    <3>1. VCounter \in Int /\ a.vdp2 \in Int /\ VCounter' \in Int
      BY <1>5, <2>3, ActiveAssumption DEF Numbers, TypeOK
    <3>2. VPhase' = "ACTIVE" => VPhase = "ACTIVE" /\ VCounter' > VCounter
      <4>1. CASE kept' = line'
        BY <1>3, <1>6, <1>5, <1>7, <1>13, <4>1, LineAssumption DEF TypeOK
      <4> QED BY <1>5, <4>1
    <3> QED BY <2>2, <3>1, <3>2
  <2> QED BY <1>10, <2>2, <2>4, <2>5
<1>14. /\ want'[a.out].mem = u
       /\ a.vdp2 = NoLine => want'[a.out].lib = Border
       /\ a.vdp2 # NoLine => want'[a.out].lib \in Values
  BY <1>10, <1>11 DEF Right
<1>15. At(k)'.arg = a BY <1>8 DEF a
<1> QED BY <1>13, <1>14, <1>15 DEF Right

\* A line that is not visible, or blank, is only counted.
LEMMA PassKeeps ==
    ASSUME IInv, LineStep, BlankLine \/ line = VisibleLines
    PROVE  IInv'
<1> USE DEF IInv, Base
<1>1. /\ mpc = "ready" /\ phase = "frame"
      /\ UNCHANGED <<phase, main, espec, ringVars, WakeupSem, threadVars, surface>>
      /\ LIB' = LIB \/ (VPhase = "ACTIVE"
                          /\ \E x \in Values : LIB' = [LIB EXCEPT ![VCounter] = x])
  BY RowMoves
<1>2. PICK row \in 0 .. VisibleLines : IncVCounter(row) /\ row = line
  <2>1. line = VisibleLines => NextRow = line BY LineAssumption DEF NextRow, TypeOK
  <2>2. CASE BlankLine BY <2>2 DEF BlankLine, TypeOK
  <2>3. CASE line = VisibleLines BY <2>1, <2>3, RowMoves
  <2> QED BY <2>2, <2>3
<1>3. UNCHANGED <<callVars, DoWakeupIfNecessary, NextOutLine, DrawCounter, want>>
  <2>1. CASE BlankLine BY <2>1 DEF BlankLine
  <2>2. CASE line = VisibleLines
    <3>1. \A vdp2, lib : VDP2REND_DrawLine(vdp2, lib) =>
             UNCHANGED <<callVars, DoWakeupIfNecessary, NextOutLine, DrawCounter, want>>
      BY <2>2, LineAssumption DEF VDP2REND_DrawLine
    <3>2. CASE BorderLine BY <3>1, <3>2 DEF BorderLine
    <3>3. ASSUME NEW x \in Values, ActiveLine(x)
          PROVE  UNCHANGED <<callVars, DoWakeupIfNecessary, NextOutLine, DrawCounter, want>>
      BY <3>1, <3>3 DEF ActiveLine
    <3> QED BY <2>1, <3>2, <3>3 DEF LineStep
  <2> QED BY <2>1, <2>2
<1>4. kept <= row BY <1>1, <1>2 DEF Control
<1>5. /\ VPhase' \in {"ACTIVE", "BOTTOM_BORDER", "BLANKING", "TOP_BORDER"}
      /\ VCounter' \in Numbers /\ InternalVB' \in BOOLEAN
      /\ line' \in {line, VisibleLines} /\ kept' \in 0 .. VisibleLines
      /\ kept <= kept' /\ kept' <= line'
  BY <1>2, <1>4, BeamMoves
<1>6. \A op : ~Owes(op) /\ ~Owes(op)' BY <1>1, <1>3 DEF Owes
<1>7. TypeOK'
  <2>1. LIB' \in [Numbers -> Values] BY <1>1 DEF TypeOK
  <2>2. line' \in 0 .. VisibleLines BY <1>5, LineAssumption DEF TypeOK
  <2> QED BY <1>1, <1>3, <1>5, <2>1, <2>2 DEF TypeOK
<1>8. Control' BY <1>1, <1>3, <1>5, <1>6 DEF Control
<1>9. Debts' BY <1>6 DEF Debts
<1>10. kept' \in Int BY <1>5
<1> QED BY <1>1, <1>3, <1>5, <1>6, <1>7, <1>8, <1>9, <1>10, LineRights, QuietKeeps

\* What is queued for a visible line shows what was issued.
LEMMA NewLine ==
    ASSUME IInv, LineStep, ~BlankLine, line < VisibleLines
    PROVE  \E a \in Draws, w \in Shown :
              /\ a.out = line /\ w.mem = main
              /\ want' = [want EXCEPT ![line] = w]
              /\ Wakeup(Cmd("DRAW_LINE", a), DrawCounter)
              /\ DrawCounter' = DrawCounter + 1 /\ NextOutLine' = line + 1
              /\ Right(a, main)'
<1> USE DEF IInv, Base
<1>1. line \in Lines /\ line # VisibleLines BY LineAssumption DEF TypeOK, Lines
<1>2. ASSUME NEW c \in Numbers \union {NoLine}, NEW lib \in Values \union {Border},
             VDP2REND_DrawLine(c, lib)
      PROVE  \E a \in Draws, w \in Shown :
                /\ a.out = line /\ a.vdp2 = c /\ w.mem = main /\ w.lib = lib
                /\ want' = [want EXCEPT ![line] = w]
                /\ Wakeup(Cmd("DRAW_LINE", a), DrawCounter)
                /\ DrawCounter' = DrawCounter + 1 /\ NextOutLine' = line + 1
  <2> DEFINE a == [out |-> line, vdp2 |-> c]
             w == [mem |-> main, lib |-> lib]
  <2>1. a \in Draws /\ w \in Shown BY <1>1 DEF Draws, Shown, TypeOK
  <2>2. /\ want' = [want EXCEPT ![line] = w] /\ Wakeup(Cmd("DRAW_LINE", a), DrawCounter)
        /\ DrawCounter' = DrawCounter + 1 /\ NextOutLine' = line + 1
    BY <1>1, <1>2 DEF VDP2REND_DrawLine
  <2> QED BY <2>1, <2>2
<1>3. main' = main BY RowMoves
<1>4. CASE BorderLine \/ InternalVB
  <2>1. VDP2REND_DrawLine(NoLine, Border) BY <1>4 DEF LineStep, BorderLine, ActiveLine
  <2>2. PICK a \in Draws, w \in Shown :
                /\ a.out = line /\ a.vdp2 = NoLine /\ w.mem = main /\ w.lib = Border
                /\ want' = [want EXCEPT ![line] = w]
                /\ Wakeup(Cmd("DRAW_LINE", a), DrawCounter)
                /\ DrawCounter' = DrawCounter + 1 /\ NextOutLine' = line + 1
    BY <1>2, <2>1
  <2>3. want'[line] = w BY <1>1, <2>2 DEF TypeOK
  <2>4. Right(a, main)' BY <1>3, <2>2, <2>3 DEF Right
  <2> QED BY <2>2, <2>4
<1>5. CASE ~BorderLine /\ ~InternalVB
  <2>1. PICK x \in Values : ActiveLine(x) BY <1>5 DEF LineStep
  <2>2. /\ VDP2REND_DrawLine(VCounter, x) /\ LIB' = [LIB EXCEPT ![VCounter] = x]
        /\ VPhase = "ACTIVE" /\ IncVCounter(NextRow) /\ phase = "frame"
    BY <1>5, <2>1 DEF ActiveLine, LibLine
  <2>3. PICK a \in Draws, w \in Shown :
                /\ a.out = line /\ a.vdp2 = VCounter /\ w.mem = main /\ w.lib = x
                /\ want' = [want EXCEPT ![line] = w]
                /\ Wakeup(Cmd("DRAW_LINE", a), DrawCounter)
                /\ DrawCounter' = DrawCounter + 1 /\ NextOutLine' = line + 1
    <3>1. VCounter \in Numbers BY DEF TypeOK
    <3> QED BY <1>2, <2>2, <3>1
  <2>4. want'[line] = w /\ LIB'[VCounter] = x BY <1>1, <2>2, <2>3 DEF TypeOK
  <2>5. NextRow = line + 1 /\ NextRow \in 0 .. VisibleLines /\ kept <= NextRow
    <3>1. kept <= line BY <2>2 DEF Control
    <3> QED BY <1>1, <3>1, LineAssumption DEF NextRow, TypeOK, Lines
  <2>6. /\ \/ kept' = line'
           \/ VPhase' = "ACTIVE" => VPhase = "ACTIVE" /\ VCounter' > VCounter
        /\ line' \in {NextRow, VisibleLines}
    BY <2>2, <2>5, BeamMoves
  <2>7. line >= kept' => (VPhase' = "ACTIVE" => VCounter < VCounter')
    <3>1. CASE kept' = line'
      <4>1. line' > line /\ line' \in Int BY <1>1, <2>5, <2>6, LineAssumption DEF Lines
      <4> QED BY <1>1, <3>1, <4>1 DEF Lines
    <3>2. CASE VPhase' = "ACTIVE" => VPhase = "ACTIVE" /\ VCounter' > VCounter
      <4>1. IncVCounter(NextRow) => VCounter' \in Int BY <2>5, BeamMoves DEF Numbers
      <4> QED BY <2>2, <3>2, <4>1 DEF TypeOK, Numbers
    <3> QED BY <2>6, <3>1, <3>2
  <2>8. VCounter # NoLine BY DEF TypeOK, Numbers, NoLine
  <2>9. Right(a, main)' BY <1>3, <2>3, <2>4, <2>7, <2>8 DEF Right
  <2> QED BY <2>3, <2>9
<1> QED BY <1>4, <1>5

LEMMA IssueKeeps ==
    ASSUME IInv, LineStep, ~BlankLine, line < VisibleLines
    PROVE  IInv'
<1> USE DEF IInv, Base
<1>a. PICK a \in Draws, w \in Shown :
         /\ a.out = line /\ w.mem = main /\ want' = [want EXCEPT ![line] = w]
         /\ Wakeup(Cmd("DRAW_LINE", a), DrawCounter)
         /\ DrawCounter' = DrawCounter + 1 /\ NextOutLine' = line + 1
         /\ Right(a, main)'
  BY NewLine
<1> DEFINE draw == Cmd("DRAW_LINE", a)
<1>b. /\ mpc = "ready" /\ phase = "frame" /\ kept <= line
      /\ UNCHANGED <<phase, main, espec, ringVars, WakeupSem, threadVars, surface>>
      /\ LIB' = LIB \/ (VPhase = "ACTIVE"
                          /\ \E x \in Values : LIB' = [LIB EXCEPT ![VCounter] = x])
  BY RowMoves
<1>c. IncVCounter(NextRow) BY RowMoves
<1>1. /\ then = "ready" /\ line = NextOutLine /\ line \in Lines /\ espec
      /\ line + 1 \in 0 .. VisibleLines /\ NextRow = line + 1
  BY <1>b, LineAssumption DEF Control, TypeOK, Lines, NextRow
<1>d. /\ VPhase' \in {"ACTIVE", "BOTTOM_BORDER", "BLANKING", "TOP_BORDER"}
      /\ VCounter' \in Numbers /\ InternalVB' \in BOOLEAN
      /\ line' \in {line + 1, VisibleLines} /\ kept' \in 0 .. VisibleLines
      /\ kept <= kept' /\ kept' <= line'
  <2>1. kept <= line + 1 BY <1>b, <1>1 DEF TypeOK, Lines
  <2> QED BY <1>c, <1>1, <2>1, BeamMoves
<1>2. PICK rest \in {<<>>, <<Post>>, BusyWaitOn} :
         /\ todo' = <<draw>> \o rest /\ mpc' = "push" /\ then' = "ready"
         /\ DoWakeupIfNecessary' \in BOOLEAN
  BY <1>a DEF Wakeup, Call, TypeOK
<1>3. rest \in Seq(Later) /\ rest \in Seq(Entry \union {Post})
  <2>1. Post \in Later /\ Cmd("SET_BUSYWAIT", TRUE) \in Later \cap Entry
    BY DEF Later, Cmd, Entry
  <2>2. ASSUME NEW S, Post \in S, Cmd("SET_BUSYWAIT", TRUE) \in S
        PROVE  <<>> \in Seq(S) /\ <<Post>> \in Seq(S) /\ BusyWaitOn \in Seq(S)
    <3>1. <<>> \in Seq(S) OBVIOUS
    <3>2. <<Post>> \in Seq(S) BY <2>2, One
    <3>3. <<Cmd("SET_BUSYWAIT", TRUE), Post>> \in Seq(S) BY <2>2, Two
    <3> QED BY <3>1, <3>2, <3>3 DEF BusyWaitOn
  <2> QED BY <2>1, <2>2
<1>4. draw \in Entry BY DEF Cmd, Entry
<1>5. /\ todo' \in Seq(Entry \union {Post}) /\ todo' # <<>>
      /\ Head(todo') = draw /\ Tail(todo') = rest
  BY <1>2, <1>3, <1>4, Cons
<1>6. Owes("DRAW_LINE")' /\ ~Owes("WRITE")' /\ ~Owes("EXIT")' /\ \A op : ~Owes(op)
  BY <1>b, <1>2, <1>5 DEF Owes, Cmd
<1>7. PICK m \in [0 .. Queued -> Values], d \in [0 .. Queued -> Int] : Chain(m, d)
  BY DEF Chained
<1>8. Queued' = Queued /\ Queued \in Nat BY <1>b, <1>2, QueuedType DEF Queued
<1>9. d[Queued] = NextOutLine /\ d[0] = NextOutLine - DrawCounter /\ m[Queued] = main
  BY <1>6, <1>7 DEF Chain, TypeOK
<1>10. d[0] >= 0 BY <1>7 DEF Chain
<1>11. TypeOK'
  <2>1. DrawCounter' \in 0 .. VisibleLines
    BY <1>a, <1>1, <1>9, <1>10, LineAssumption DEF TypeOK, Lines
  <2>2. LIB' \in [Numbers -> Values] BY <1>b DEF TypeOK
  <2>3. want' \in [Lines -> Shown] BY <1>a DEF TypeOK
  <2>4. line' \in 0 .. VisibleLines BY <1>1, <1>d, LineAssumption
  <2> QED BY <1>a, <1>b, <1>d, <1>1, <1>2, <1>5, <2>1, <2>2, <2>3, <2>4 DEF TypeOK
<1>12. Control' BY <1>a, <1>b, <1>d, <1>1, <1>2, <1>3, <1>5, <1>6 DEF Control
<1>13. Debts'
  <2>1. Head(todo').arg = a BY <1>5 DEF Cmd
  <2>2. NextOutLine' > 0 /\ a.out = NextOutLine' - 1 BY <1>a, <1>1 DEF Lines
  <2> QED BY <1>a, <1>6, <2>1, <2>2 DEF Debts, Right
<1>14. Window' BY <1>b, <1>2, <1>8, Unmoved DEF Window
<1>15. Contents' BY <1>b, <1>8, Unmoved DEF Contents
<1>16. Painted'
  <2>1. NextOutLine' - DrawCounter' = NextOutLine - DrawCounter BY <1>a, <1>1 DEF TypeOK, Lines
  <2>2. ASSUME NEW l \in Lines, l < NextOutLine - DrawCounter PROVE AsIssued(l)'
    <3>1. AsIssued(l) BY <1>b, <2>2 DEF Painted
    <3>2. l # line BY <1>1, <2>2 DEF TypeOK, Lines
    <3>3. want'[l] = want[l] /\ surface'[l] = surface[l] BY <1>a, <1>b, <3>2 DEF TypeOK
    <3>4. kept \in Int /\ kept' \in Int BY <1>d DEF TypeOK
    <3> QED BY <1>d, <3>1, <3>3, <3>4 DEF AsIssued, Lines
  <2>3. ASSUME NEW l \in Lines, l >= NextOutLine' PROVE want'[l] = Black
    <3>1. l # line /\ l >= NextOutLine BY <1>a, <1>1, <2>3 DEF Lines
    <3> QED BY <1>a, <1>b, <3>1 DEF Painted, TypeOK
  <2> QED BY <1>b, <2>1, <2>2, <2>3 DEF Painted
<1>17. Chained'
  <2>1. \A k \in 0 .. Queued - 1 : Link(m, d, k)'
    <3> SUFFICES ASSUME NEW k \in 0 .. Queued - 1 PROVE Link(m, d, k)' OBVIOUS
    <3>1. Link(m, d, k) BY <1>7 DEF Chain
    <3>2. At(k)' = At(k) /\ (Undrawn(k)' <=> Undrawn(k)) BY <1>b, Unmoved DEF Undrawn
    <3>3. m[k] \in Values BY <1>8
    <3>4. Undrawn(k) => Right(At(k).arg, m[k])' BY <3>1, <3>3, LineRights DEF Link, RightsKept
    <3> QED BY <3>1, <3>2, <3>4 DEF Link
  <2>2. d[0] = NextOutLine' - DrawCounter' /\ d[Queued] = NextOutLine' - 1
    BY <1>a, <1>1, <1>9 DEF TypeOK, Lines
  <2>3. Chain(m, d)' BY <1>a, <1>b, <1>6, <1>7, <1>8, <1>9, <2>1, <2>2 DEF Chain
  <2>4. m \in [0 .. Queued' -> Values] /\ d \in [0 .. Queued' -> Int] BY <1>8
  <2> QED BY <2>3, <2>4 DEF Chained
<1> QED BY <1>11, <1>12, <1>13, <1>14, <1>15, <1>16, <1>17

LEMMA BlankKeeps ==
    ASSUME IInv, EndFrameBlank
    PROVE  IInv'
<1> USE DEF IInv, Base
<1>1. /\ mpc = "blank" /\ mpc' = "ready" /\ phase' = "between" /\ espec' = FALSE
      /\ surface' = [l \in Lines |-> IF l >= NextOutLine THEN Black ELSE surface[l]]
      /\ UNCHANGED <<todo, then, beamVars, NextOutLine, DoWakeupIfNecessary, main, LIB, want,
                     ringVars, DrawCounter, WakeupSem, threadVars>>
      /\ phase = "frame" /\ DrawCounter = 0 /\ todo = <<>> /\ then = "ready"
  BY DEF EndFrameBlank, FirstBlank, Control
<1>2. \A op : ~Owes(op) /\ ~Owes(op)' BY <1>1 DEF Owes
<1>3. TypeOK'
  <2>1. surface' \in [Lines -> Shown] BY <1>1 DEF TypeOK, Shown
  <2> QED BY <1>1, <2>1 DEF TypeOK
<1>4. Control' /\ Debts' BY <1>1, <1>2 DEF Control, Debts
<1>5. Queued' = Queued BY <1>1 DEF Queued
<1>6. Window' BY <1>1, <1>5, Unmoved DEF Window
<1>7. Contents' BY <1>1, <1>5, Unmoved DEF Contents
<1>8. Painted'
  <2> SUFFICES ASSUME NEW l \in Lines PROVE AsIssued(l)' BY <1>1 DEF Painted
  <2>1. NextOutLine - DrawCounter = NextOutLine /\ NextOutLine \in Int BY <1>1 DEF TypeOK
  <2>2. CASE l >= NextOutLine
    <3>1. surface'[l] = want'[l] BY <1>1, <2>2 DEF Painted
    <3> QED BY <3>1 DEF AsIssued
  <2>3. CASE ~(l >= NextOutLine)
    <3>1. surface'[l] = surface[l] BY <1>1, <2>3
    <3>2. AsIssued(l) BY <1>1, <2>1, <2>3 DEF Painted, Lines
    <3> QED BY <1>1, <3>1, <3>2 DEF AsIssued
  <2> QED BY <2>2, <2>3
<1>9. \A k \in 0 .. Queued - 1 : Undrawn(k)' <=> Undrawn(k) BY <1>1, Unmoved DEF Undrawn
<1>10. Chained' BY <1>1, <1>2, <1>5, <1>9, RightsQuiet, ChainKept
<1> QED BY <1>3, <1>4, <1>6, <1>7, <1>8, <1>10

LEMMA MinusZero ==
    ASSUME NEW a \in Int, NEW b \in Int, b = 0
    PROVE  a - b = a /\ a - 0 = a
  OBVIOUS

\* With nothing in the ring the two sides agree.
LEMMA EmptyChain ==
    ASSUME Queued' = 0, main' = mem', mem' \in Values, DrawCounter' = 0, NextOutLine' \in Nat,
           ~Owes("DRAW_LINE")'
    PROVE  Chained'
<1>0. PICK m \in [0 .. 0 -> Values], d \in [0 .. 0 -> Int] : m[0] = mem' /\ d[0] = NextOutLine'
  <2> DEFINE f == [k \in 0 .. 0 |-> mem']
             g == [k \in 0 .. 0 |-> NextOutLine']
  <2>1. f \in [0 .. 0 -> Values] /\ g \in [0 .. 0 -> Int] /\ f[0] = mem' /\ g[0] = NextOutLine'
    OBVIOUS
  <2> QED BY <2>1
<1>1. m \in [0 .. Queued' -> Values] /\ d \in [0 .. Queued' -> Int] OBVIOUS
<1>2. Chain(m, d)'
  <2>1. m[Queued'] = main' /\ d[Queued'] = NextOutLine' BY <1>0
  <2>2. NextOutLine' - DrawCounter' = NextOutLine' /\ NextOutLine' - 0 = NextOutLine'
    <3>1. NextOutLine' \in Int /\ DrawCounter' \in Int OBVIOUS
    <3> QED BY <3>1, MinusZero
  <2>3. \A i, j \in 0 .. Queued' : i <= j => d[i] <= d[j] OBVIOUS
  <2>4. \A k \in 0 .. Queued' - 1 : Link(m, d, k)' OBVIOUS
  <2>5. m[0] = mem' /\ d[0] = NextOutLine' - DrawCounter' /\ d[0] >= 0
    <3>1. d[0] \in Nat BY <1>0
    <3>2. d[0] >= 0 BY <3>1
    <3> QED BY <1>0, <2>2, <3>2
  <2>6. d[Queued'] = NextOutLine' - (IF Owes("DRAW_LINE")' THEN 1 ELSE 0) BY <2>1, <2>2
  <2> QED BY <2>1, <2>3, <2>4, <2>5, <2>6 DEF Chain
<1> QED BY <1>1, <1>2 DEF Chained

\* A loaded state, or a new game.
LEMMA BeamSet ==
    ASSUME BeamLoaded
    PROVE  /\ VPhase' \in {"ACTIVE", "BOTTOM_BORDER", "BLANKING", "TOP_BORDER"}
           /\ VCounter' \in Numbers /\ InternalVB' \in BOOLEAN /\ UNCHANGED <<line, kept>>
  BY ActiveAssumption DEF BeamLoaded, Numbers

LEMMA AccessKeeps ==
    ASSUME IInv, StateAccess
    PROVE  IInv'
<1> USE DEF IInv, Base
<1>1. /\ mpc = "access" /\ mpc' = "ready"
      /\ UNCHANGED <<todo, then, phase, NextOutLine, DoWakeupIfNecessary, LIB, espec, want,
                     ringVars, DrawCounter, WakeupSem, rpc, DoBusyWait, surface>>
      /\ UNCHANGED beamVars \/ BeamLoaded
      /\ phase = "between" /\ DrawCounter = 0 /\ WQ_InCount = 0 /\ todo = <<>>
  BY DEF StateAccess, Control
<1>2. \A op : ~Owes(op) /\ ~Owes(op)' BY <1>1 DEF Owes
<1>3. Queued = 0 /\ Queued' = 0 BY <1>1 DEF Queued
<1>4. mem = main
  <2>1. PICK m \in [0 .. Queued -> Values], d \in [0 .. Queued -> Int] : Chain(m, d)
    BY DEF Chained
  <2> QED BY <1>2, <1>3, <2>1 DEF Chain
<1>5. main' = mem' /\ mem' \in Values BY <1>4 DEF StateAccess, TypeOK
<1>a. /\ VPhase' \in {"ACTIVE", "BOTTOM_BORDER", "BLANKING", "TOP_BORDER"}
      /\ VCounter' \in Numbers /\ InternalVB' \in BOOLEAN /\ UNCHANGED <<line, kept>>
  BY <1>1, BeamSet DEF TypeOK
<1>6. TypeOK' BY <1>1, <1>a, <1>5 DEF TypeOK
<1>7. Control' /\ Debts' BY <1>1, <1>a, <1>2 DEF Control, Debts
<1>8. Window' BY <1>1, <1>3, Unmoved DEF Window
<1>9. Contents' BY <1>1, <1>3, Unmoved DEF Contents, Window
<1>10. Painted' BY <1>1, <1>a DEF Painted, AsIssued
<1>11. Chained' BY <1>1, <1>2, <1>3, <1>5, EmptyChain DEF TypeOK
<1> QED BY <1>6, <1>7, <1>8, <1>9, <1>10, <1>11

LEMMA JoinKeeps ==
    ASSUME IInv, Join
    PROVE  IInv'
<1> USE DEF IInv, Base
<1>1. /\ mpc = "join" /\ mpc' = "ready" /\ rpc = "exited" /\ rpc' = "none" /\ WakeupSem' = 0
      /\ UNCHANGED <<todo, then, frameVars, ringVars, DrawCounter, DoBusyWait, mem, surface>>
      /\ phase = "closed"
  BY DEF Join, Control
<1>2. \A op : ~Owes(op) /\ ~Owes(op)' BY <1>1 DEF Owes
<1>3. TypeOK' BY <1>1, RingAssumption DEF TypeOK
<1>4. Control' /\ Debts' BY <1>1, <1>2 DEF Control, Debts
<1>5. Queued' = Queued BY <1>1 DEF Queued
<1>6. Window' BY <1>1, <1>5, Unmoved DEF Window
<1>7. Contents' BY <1>1, <1>5, Unmoved DEF Contents
<1>8. Painted' BY <1>1 DEF Painted, AsIssued
<1>9. \A k \in 0 .. Queued - 1 : Undrawn(k)' <=> Undrawn(k) BY <1>1, Unmoved DEF Undrawn
<1>10. Chained' BY <1>1, <1>2, <1>5, <1>9, RightsQuiet, ChainKept
<1> QED BY <1>3, <1>4, <1>6, <1>7, <1>8, <1>10

LEMMA InitKeeps ==
    ASSUME IInv, VDP2REND_Init
    PROVE  IInv'
<1> USE DEF IInv, Base
<1>1. /\ mpc = "ready" /\ phase = "closed" /\ phase' = "between" /\ rpc' = "poll"
      /\ WQ_ReadPos' = 0 /\ WQ_WritePos' = 0 /\ WQ_InCount' = 0 /\ DrawCounter' = 0
      /\ main' = mem' /\ mem' \in Values
      /\ UNCHANGED <<callVars, NextOutLine, DoWakeupIfNecessary, LIB, espec, want, WQ, WakeupSem,
                     DoBusyWait, surface>>
  BY DEF VDP2REND_Init
<1>a. /\ VPhase' \in {"ACTIVE", "BOTTOM_BORDER", "BLANKING", "TOP_BORDER"}
      /\ VCounter' \in Numbers /\ InternalVB' \in BOOLEAN /\ UNCHANGED <<line, kept>>
  BY BeamSet DEF VDP2REND_Init
<1>2. \A op : ~Owes(op) /\ ~Owes(op)' BY <1>1 DEF Owes
<1>3. Queued' = 0 BY <1>1 DEF Queued
<1>4. TypeOK' BY <1>1, <1>a, RingAssumption, LineAssumption DEF TypeOK
<1>5. Control' /\ Debts' BY <1>1, <1>a, <1>2 DEF Control, Debts
<1>6. Window'
  <2>1. 0 % WQ_Size = 0 BY ModSmall, RingAssumption
  <2> QED BY <1>1, <1>3, <2>1, RingAssumption DEF Window, Slot
<1>7. Contents' BY <1>1, <1>3 DEF Contents
<1>8. Painted' BY <1>1, <1>a DEF Painted, AsIssued
<1>9. Chained' BY <1>1, <1>2, <1>3, EmptyChain DEF TypeOK
<1> QED BY <1>4, <1>5, <1>6, <1>7, <1>8, <1>9

----------------------------------------------------------------------------
(* The two ends of the ring.                                               *)

LEMMA SlotKeeps ==
    ASSUME IInv, PushSlot
    PROVE  IInv'
<1> USE DEF IInv, Base
<1>0. PICK n, x : n = Queued /\ x = Head(todo) OBVIOUS
<1>1. /\ mpc = "slot" /\ mpc' = "publish" /\ WQ' = [WQ EXCEPT ![WQ_WritePos] = x]
      /\ WQ_WritePos' = NextPos(WQ_WritePos)
      /\ UNCHANGED <<todo, then, frameVars, WQ_ReadPos, WQ_InCount, DrawCounter, WakeupSem,
                     threadVars, surface>>
      /\ todo # <<>> /\ x # Post
  BY <1>0 DEF PushSlot, Control
<1>2. n \in Nat /\ n = WQ_InCount /\ n < WQ_Size /\ Queued' = n + 1 /\ WQ_WritePos = Slot(n)
  BY <1>0, <1>1, QueuedType DEF Queued, Window
<1>3. x \in Entry BY <1>0, <1>1, HeadTailProperties DEF TypeOK
<1>4. /\ \A k \in 0 .. n - 1 : At(k)' = At(k)
      /\ At(n)' = x
  <2>1. \A k \in 0 .. n - 1 : Slot(k) # Slot(n) BY <1>2, SlotFree
  <2>2. \A k \in 0 .. n : Slot(k)' = Slot(k) /\ Slot(k) \in 0 .. WQ_Size - 1
    BY <1>1, <1>2, SlotType DEF Slot
  <2> QED BY <1>1, <1>2, <2>1, <2>2 DEF At, TypeOK
<1>5. \A op : /\ Owes(op) <=> x.op = op
              /\ ~Owes(op)'
  BY <1>0, <1>1 DEF Owes
<1>6. TypeOK'
  <2>1. WQ_WritePos' \in 0 .. WQ_Size - 1
    BY <1>1, RingAssumption, ModBound DEF NextPos, TypeOK
  <2> QED BY <1>1, <1>3, <2>1 DEF TypeOK
<1>7. Control' /\ Debts' BY <1>1, <1>5 DEF Control, Debts
<1>8. Window'
  <2>1. WQ_WritePos' = Slot(n + 1) BY <1>1, <1>2, SlotNext
  <2>2. Slot(n + 1)' = Slot(n + 1) BY <1>1 DEF Slot
  <2>3. Slot(Queued)' = Slot(n + 1)' BY <1>1, <1>2 DEF Slot
  <2> QED BY <1>1, <1>2, <2>1, <2>2, <2>3, RingAssumption DEF Window
<1>9. Contents'
  <2>1. \A k \in 0 .. n : At(k)' \in Entry /\ (At(k)'.op = "EXIT" => phase' = "closed")
    <3>1. phase' = phase BY <1>1
    <3>2. ASSUME NEW k \in 0 .. n - 1
          PROVE  At(k)' \in Entry /\ (At(k)'.op = "EXIT" => phase = "closed")
      BY <1>0, <1>4 DEF Contents
    <3>3. x.op = "EXIT" => phase = "closed" BY <1>5 DEF Control
    <3>4. \A k \in 0 .. n : k \in 0 .. n - 1 \/ k = n BY <1>2
    <3> QED BY <1>3, <1>4, <3>1, <3>2, <3>3, <3>4
  <2>2. rpc \in {"draw", "pop"} => At(0)' = At(0) BY <1>2, <1>4 DEF Window
  <2> QED BY <1>1, <1>2, <2>1, <2>2 DEF Contents
<1>10. Painted' BY <1>1 DEF Painted, AsIssued
<1>11. Chained'
  <2>1. PICK m \in [0 .. n -> Values], d \in [0 .. n -> Int] : Chain(m, d)
    BY <1>0 DEF Chained
  <2>2. PICK mm \in [0 .. n + 1 -> Values], dd \in [0 .. n + 1 -> Int] :
           /\ \A k \in 0 .. n : mm[k] = m[k] /\ dd[k] = d[k]
           /\ mm[n + 1] = main /\ dd[n + 1] = NextOutLine
    <3> DEFINE f == [k \in 0 .. n + 1 |-> IF k <= n THEN m[k] ELSE main]
               g == [k \in 0 .. n + 1 |-> IF k <= n THEN d[k] ELSE NextOutLine]
    <3>1. f \in [0 .. n + 1 -> Values] /\ g \in [0 .. n + 1 -> Int]
      BY <1>2 DEF TypeOK
    <3>2. /\ \A k \in 0 .. n : f[k] = m[k] /\ g[k] = d[k]
          /\ f[n + 1] = main /\ g[n + 1] = NextOutLine
      BY <1>2
    <3> QED BY <3>1, <3>2
  <2>3. \A k \in 0 .. n - 1 : Link(mm, dd, k)'
    <3> SUFFICES ASSUME NEW k \in 0 .. n - 1 PROVE Link(mm, dd, k)' OBVIOUS
    <3>1. Link(m, d, k) BY <1>0, <2>1 DEF Chain
    <3>2. Undrawn(k)' <=> Undrawn(k) BY <1>1, <1>4 DEF Undrawn
    <3>3. /\ mm[k] = m[k] /\ dd[k] = d[k] /\ mm[k + 1] = m[k + 1] /\ dd[k + 1] = d[k + 1]
      BY <1>2, <2>2
    <3>4. At(k)' = At(k) BY <1>4
    <3> QED BY <1>1, <3>1, <3>2, <3>3, <3>4 DEF Link, Right
  <2>4. Link(mm, dd, n)'
    <3>1. Undrawn(n)' <=> x.op = "DRAW_LINE"
      BY <1>1, <1>2, <1>4 DEF Undrawn, Window
    <3>2. mm[n] = m[n] /\ dd[n] = d[n] BY <1>2, <2>2
    <3>3. m[n] = main \/ x.op = "WRITE" BY <1>0, <1>5, <2>1 DEF Chain
    <3>4. d[n] = NextOutLine - (IF x.op = "DRAW_LINE" THEN 1 ELSE 0)
      BY <1>0, <1>5, <2>1 DEF Chain
    <3>5. x.op = "WRITE" => x.arg = main BY <1>0, <1>5 DEF Debts
    <3>6. x.op = "DRAW_LINE" =>
            x.arg.out = NextOutLine - 1 /\ Right(x.arg, main)
      BY <1>0, <1>5 DEF Debts
    <3>7. NextOutLine \in Int BY DEF TypeOK
    <3>8. mm[n + 1] = main /\ dd[n + 1] = NextOutLine /\ At(n)' = x BY <1>4, <2>2
    <3>9. UNCHANGED <<want, LIB, kept, VPhase, VCounter>> BY <1>1
    <3>10. CASE x.op = "DRAW_LINE"
      <4>1. d[n] = NextOutLine - 1 /\ dd[n + 1] = d[n] + 1 BY <3>4, <3>7, <3>8, <3>10
      <4> QED BY <3>1, <3>2, <3>3, <3>6, <3>8, <3>9, <3>10, <4>1 DEF Link, Right
    <3>11. CASE x.op # "DRAW_LINE"
      <4>1. d[n] = NextOutLine BY <3>4, <3>7, <3>11
      <4> QED BY <3>1, <3>2, <3>3, <3>5, <3>8, <3>9, <3>11, <4>1 DEF Link
    <3> QED BY <3>10, <3>11
  <2>5. \A i, j \in 0 .. n + 1 : i <= j => dd[i] <= dd[j]
    <3>1. d[n] <= NextOutLine BY <1>0, <2>1 DEF Chain, TypeOK
    <3>2. \A i, j \in 0 .. n : i <= j => d[i] <= d[j] BY <1>0, <2>1 DEF Chain
    <3>3. \A i \in 0 .. n : d[i] <= d[n] /\ d[i] \in Int BY <1>2, <3>2
    <3>4. NextOutLine \in Int BY DEF TypeOK
    <3> QED BY <1>2, <2>2, <3>1, <3>2, <3>3, <3>4
  <2>6. \A k \in 0 .. (n + 1) - 1 : Link(mm, dd, k)' BY <1>2, <2>3, <2>4
  <2>7. mm[0] = mem' /\ dd[0] = NextOutLine' - DrawCounter' /\ dd[0] >= 0
    BY <1>1, <1>2, <2>1, <2>2 DEF Chain
  <2>8. mm[n + 1] = main' /\ dd[n + 1] = NextOutLine' - 0 BY <1>1, <2>2 DEF TypeOK
  <2>9. Chain(mm, dd)' BY <1>2, <1>5, <2>5, <2>6, <2>7, <2>8 DEF Chain
  <2>10. mm \in [0 .. Queued' -> Values] /\ dd \in [0 .. Queued' -> Int] BY <1>2
  <2> QED BY <2>9, <2>10 DEF Chained
<1> QED BY <1>6, <1>7, <1>8, <1>9, <1>10, <1>11

\* The thread looks, sleeps and wakes.
LEMMA PollKeeps ==
    ASSUME IInv, Poll \/ SemTaken \/ SemTimeout
    PROVE  IInv'
<1> USE DEF IInv, Base
<1>1. /\ rpc \in {"poll", "wait"} /\ rpc' \in {"poll", "wait", "exec"}
      /\ rpc' = "exec" => WQ_InCount # 0
      /\ WakeupSem' \in 0 .. SemCap
      /\ UNCHANGED <<callVars, frameVars, ringVars, DrawCounter, DoBusyWait, mem, surface>>
  BY RingAssumption DEF Poll, SemTaken, SemTimeout, TypeOK
<1>2. \A op : Owes(op)' <=> Owes(op) BY <1>1 DEF Owes
<1>3. TypeOK' BY <1>1 DEF TypeOK
<1>4. Control' /\ Debts' BY <1>1, <1>2 DEF Control, Debts, Right
<1>5. Queued' = Queued BY <1>1 DEF Queued
<1>6. Window' BY <1>1, <1>5, Unmoved DEF Window, TypeOK
<1>7. Contents' BY <1>1, <1>5, Unmoved DEF Contents
<1>8. Painted' BY <1>1 DEF Painted, AsIssued
<1>9. \A k \in 0 .. Queued - 1 : Undrawn(k)' <=> Undrawn(k) BY <1>1, Unmoved DEF Undrawn
<1>10. Chained' BY <1>1, <1>2, <1>5, <1>9, RightsQuiet, ChainKept
<1> QED BY <1>3, <1>4, <1>6, <1>7, <1>8, <1>10

LEMMA ExecuteKeeps ==
    ASSUME IInv, Execute
    PROVE  IInv'
<1> USE DEF IInv, Base
<1>0. At(0) = WQ[WQ_ReadPos]
  <2>1. WQ_ReadPos % WQ_Size = WQ_ReadPos BY ModSmall, RingAssumption DEF TypeOK
  <2>2. WQ_ReadPos + 0 = WQ_ReadPos BY DEF TypeOK
  <2> QED BY <2>1, <2>2 DEF At, Slot
<1>1. /\ rpc = "exec" /\ rpc' = IF At(0).op = "DRAW_LINE" THEN "draw" ELSE "pop"
      /\ mem' = IF At(0).op = "WRITE" THEN At(0).arg ELSE mem
      /\ DoBusyWait' = IF At(0).op = "SET_BUSYWAIT" THEN At(0).arg ELSE DoBusyWait
      /\ UNCHANGED <<callVars, frameVars, ringVars, DrawCounter, WakeupSem, surface>>
  BY <1>0 DEF Execute
<1>2. Queued' = Queued /\ Queued \in Nat /\ Queued > 0 /\ WQ_InCount > 0
  BY <1>1, QueuedType DEF Queued, Window, TypeOK
<1>3. At(0) \in Entry BY <1>2 DEF Contents
<1>4. /\ At(0).op = "WRITE" => At(0).arg \in Values
      /\ At(0).op = "SET_BUSYWAIT" => At(0).arg \in BOOLEAN
  BY <1>3 DEF Entry
<1>5. TypeOK'
  <2>1. mem' \in Values BY <1>1, <1>4 DEF TypeOK
  <2>2. DoBusyWait' \in BOOLEAN BY <1>1, <1>4 DEF TypeOK
  <2>3. rpc' \in {"draw", "pop"} BY <1>1
  <2> QED BY <1>1, <2>1, <2>2, <2>3 DEF TypeOK
<1>6. \A op : Owes(op)' <=> Owes(op) BY <1>1 DEF Owes
<1>7. Control' /\ Debts' BY <1>1, <1>6 DEF Control, Debts, Right
<1>8. Window' BY <1>1, <1>2, Unmoved DEF Window
<1>9. Contents' BY <1>1, <1>2, Unmoved DEF Contents
<1>10. Painted' BY <1>1 DEF Painted, AsIssued
<1>11. \A k \in 0 .. Queued - 1 : Undrawn(k)' <=> Undrawn(k)
  BY <1>1, Unmoved DEF Undrawn
<1>12. Chained'
  <2>1. PICK m \in [0 .. Queued -> Values], d \in [0 .. Queued -> Int] : Chain(m, d)
    BY DEF Chained
  <2>2. PICK mm \in [0 .. Queued -> Values] :
           mm[0] = mem' /\ \A k \in 0 .. Queued : k # 0 => mm[k] = m[k]
    <3> DEFINE f == [k \in 0 .. Queued |-> IF k = 0 THEN mem' ELSE m[k]]
    <3>1. f \in [0 .. Queued -> Values] BY <1>5 DEF TypeOK
    <3>2. f[0] = mem' /\ \A k \in 0 .. Queued : k # 0 => f[k] = m[k] BY <1>2
    <3> QED BY <3>1, <3>2
  <2>3. \A k \in 0 .. Queued - 1 : Link(mm, d, k)'
    <3> SUFFICES ASSUME NEW k \in 0 .. Queued - 1 PROVE Link(mm, d, k)' OBVIOUS
    <3>1. Link(m, d, k) BY <2>1 DEF Chain
    <3>2. mm[k + 1] = m[k + 1] BY <1>2, <2>2
    <3>3. k = 0 => m[0] = mem BY <2>1 DEF Chain
    <3>4. mm[k] = m[k] \/ (k = 0 /\ At(k).op = "WRITE") BY <1>1, <1>2, <2>2, <3>3
    <3>5. At(k)' = At(k) /\ UNCHANGED <<want, LIB, kept, VPhase, VCounter>>
      BY <1>1, Unmoved
    <3> QED BY <1>11, <3>1, <3>2, <3>4, <3>5 DEF Link, Undrawn, Right
  <2>4. Chain(mm, d)' BY <1>1, <1>2, <1>6, <2>1, <2>2, <2>3 DEF Chain
  <2>5. mm \in [0 .. Queued' -> Values] /\ d \in [0 .. Queued' -> Int] BY <1>2
  <2> QED BY <2>4, <2>5 DEF Chained
<1> QED BY <1>5, <1>7, <1>8, <1>9, <1>10, <1>12

\* While the thread draws there is a line to be drawn, and it is the next.
LEMMA Drawing ==
    ASSUME IInv, rpc = "draw", NEW m \in [0 .. Queued -> Values], NEW d \in [0 .. Queued -> Int],
           Chain(m, d)
    PROVE  /\ Queued > 0 /\ Link(m, d, 0) /\ Undrawn(0) /\ d[1] = d[0] + 1
           /\ d[0] < NextOutLine /\ d[0] \in Lines /\ DrawCounter > 0 /\ phase = "frame"
<1> USE DEF IInv, Base
<1>1. Queued \in Nat /\ Queued > 0 BY QueuedType DEF Window
<1>2. Link(m, d, 0) /\ Undrawn(0) BY <1>1 DEF Chain, Contents, Undrawn
<1>3. d[1] = d[0] + 1 BY <1>2 DEF Link
<1>4. d[1] <= d[Queued] BY <1>1 DEF Chain
<1>5. d[Queued] <= NextOutLine BY DEF Chain, TypeOK
<1>6. d[0] \in Int /\ d[1] \in Int /\ d[Queued] \in Int /\ NextOutLine \in 0 .. VisibleLines
  BY <1>1 DEF TypeOK
<1>7. d[0] < NextOutLine BY <1>3, <1>4, <1>5, <1>6
<1>8. d[0] = NextOutLine - DrawCounter /\ d[0] >= 0 BY DEF Chain
<1>9. DrawCounter > 0 BY <1>6, <1>7, <1>8 DEF TypeOK
<1>10. d[0] \in Lines BY <1>6, <1>7, <1>8, LineAssumption DEF Lines
<1>11. phase = "frame" BY <1>9 DEF Control
<1> QED BY <1>1, <1>2, <1>3, <1>7, <1>9, <1>10, <1>11

LEMMA DrawKeeps ==
    ASSUME IInv, DrawLine
    PROVE  IInv'
<1> USE DEF IInv, Base
<1>0. At(0) = WQ[WQ_ReadPos]
  <2>1. WQ_ReadPos % WQ_Size = WQ_ReadPos BY ModSmall, RingAssumption DEF TypeOK
  <2>2. WQ_ReadPos + 0 = WQ_ReadPos BY DEF TypeOK
  <2> QED BY <2>1, <2>2 DEF At, Slot
<1>1. PICK m \in [0 .. Queued -> Values], d \in [0 .. Queued -> Int] : Chain(m, d)
  BY DEF Chained
<1>2. /\ rpc = "draw" /\ rpc' = "pop" /\ DrawCounter' = DrawCounter - 1
      /\ surface' = [surface EXCEPT ![At(0).arg.out] = Picture(At(0).arg)]
      /\ UNCHANGED <<callVars, frameVars, ringVars, WakeupSem, DoBusyWait, mem>>
  BY <1>0 DEF DrawLine, Drawn
<1>3. /\ Queued > 0 /\ Link(m, d, 0) /\ Undrawn(0) /\ d[1] = d[0] + 1
      /\ d[0] < NextOutLine /\ d[0] \in Lines /\ DrawCounter > 0 /\ phase = "frame"
  BY <1>1, <1>2, Drawing
<1>a. PICK a : a = At(0).arg OBVIOUS
<1>4. /\ a.out = d[0] /\ d[0] = NextOutLine - DrawCounter /\ Right(a, mem)
  <2>1. At(0).arg.out = d[0] /\ d[0] = NextOutLine - DrawCounter /\ m[0] = mem
    BY <1>1, <1>3 DEF Chain, Link
  <2>2. Right(At(0).arg, m[0]) BY <1>3 DEF Link
  <2> QED BY <1>a, <2>1, <2>2
<1>b. a \in Draws
  <2>1. At(0) \in Entry /\ At(0).op = "DRAW_LINE" BY <1>3, QueuedType DEF Contents, Undrawn
  <2> QED BY <1>a, <2>1 DEF Entry
<1>c. /\ Picture(a) \in Shown /\ Picture(a).mem = want[d[0]].mem
      /\ d[0] >= kept \/ want[d[0]].lib = Border => Picture(a).lib = want[d[0]].lib
  <2>1. a.vdp2 \in Numbers \union {NoLine} BY <1>b DEF Draws
  <2>2. a.vdp2 # NoLine => LIB[a.vdp2] \in Values BY <2>1 DEF TypeOK
  <2>3. CASE a.vdp2 = NoLine
    <3>1. Picture(a) = [mem |-> mem, lib |-> Border] BY <2>3 DEF Picture
    <3> QED BY <1>4, <2>3, <3>1 DEF Shown, TypeOK, Right
  <2>4. CASE a.vdp2 # NoLine
    <3>1. Picture(a) = [mem |-> mem, lib |-> LIB[a.vdp2]] BY <2>4 DEF Picture, LibLine
    <3>2. want[d[0]].lib # Border BY <1>4, <2>4, ValueAssumption DEF Right
    <3> QED BY <1>4, <2>2, <2>4, <3>1, <3>2 DEF Shown, TypeOK, Right
  <2> QED BY <2>3, <2>4
<1>5. /\ surface' = [surface EXCEPT ![d[0]] = Picture(a)]
      /\ DrawCounter' \in 0 .. VisibleLines /\ NextOutLine - DrawCounter' = d[0] + 1
  <2>1. DrawCounter \in 0 .. VisibleLines /\ NextOutLine \in 0 .. VisibleLines BY DEF TypeOK
  <2>2. DrawCounter - 1 \in 0 .. VisibleLines BY <1>3, <2>1, LineAssumption
  <2>3. NextOutLine - (DrawCounter - 1) = d[0] + 1 BY <1>4, <2>1, LineAssumption
  <2>4. surface' = [surface EXCEPT ![d[0]] = Picture(a)] BY <1>2, <1>a, <1>4
  <2> QED BY <1>2, <2>2, <2>3, <2>4
<1>6. TypeOK'
  <2>1. surface' \in [Lines -> Shown] BY <1>c, <1>3, <1>5 DEF TypeOK
  <2> QED BY <1>2, <1>5, <2>1 DEF TypeOK
<1>7. \A op : Owes(op)' <=> Owes(op) BY <1>2 DEF Owes
<1>8. Control' BY <1>2, <1>3, <1>7 DEF Control, TypeOK
<1>9. Debts' BY <1>2, <1>7 DEF Debts, Right
<1>10. Queued' = Queued /\ Queued \in Nat BY <1>2, QueuedType DEF Queued
<1>11. Window' BY <1>2, <1>10, Unmoved DEF Window
<1>12. Contents' BY <1>2, <1>3, <1>10, Unmoved DEF Contents, Undrawn
<1>13. Painted'
  <2>1. \A l \in Lines : l < d[0] => AsIssued(l) BY <1>3, <1>4 DEF Painted
  <2>2. ASSUME NEW l \in Lines, l < d[0] + 1 PROVE AsIssued(l)'
    <3>1. l < d[0] \/ l = d[0] BY <1>3, <2>2 DEF Lines
    <3>2. CASE l = d[0]
      <4>1. surface'[l] = Picture(a) BY <1>3, <1>5, <3>2 DEF TypeOK
      <4>2. want[l] \in Shown BY DEF TypeOK
      <4>3. \A p, q \in Shown : p.mem = q.mem /\ p.lib = q.lib => p = q BY DEF Shown, Black
      <4> QED BY <1>2, <1>c, <3>2, <4>1, <4>2, <4>3 DEF AsIssued
    <3>3. CASE l < d[0] /\ l # d[0]
      <4>1. surface'[l] = surface[l] BY <1>5, <3>3 DEF TypeOK
      <4> QED BY <1>2, <2>1, <3>3, <4>1 DEF AsIssued
    <3> QED BY <1>3, <3>1, <3>2, <3>3 DEF Lines
  <2> QED BY <1>2, <1>3, <1>5, <2>2 DEF Painted
<1>14. Chained'
  <2>1. PICK dd \in [0 .. Queued -> Int] :
           dd[0] = d[0] + 1 /\ \A k \in 0 .. Queued : k # 0 => dd[k] = d[k]
    <3> DEFINE g == [k \in 0 .. Queued |-> IF k = 0 THEN d[0] + 1 ELSE d[k]]
    <3>1. g \in [0 .. Queued -> Int] BY <1>3, <1>10
    <3>2. g[0] = d[0] + 1 /\ \A k \in 0 .. Queued : k # 0 => g[k] = d[k] BY <1>10
    <3> QED BY <3>1, <3>2
  <2>2. \A k \in 0 .. Queued - 1 : Link(m, dd, k)'
    <3> SUFFICES ASSUME NEW k \in 0 .. Queued - 1 PROVE Link(m, dd, k)' OBVIOUS
    <3>1. Link(m, d, k) BY <1>1 DEF Chain
    <3>2. At(k)' = At(k) /\ UNCHANGED <<want, LIB, kept, VPhase, VCounter>>
      BY <1>2, Unmoved
    <3>3. dd[k + 1] = d[k + 1] BY <1>10, <2>1
    <3>4. CASE k = 0
      <4>1. ~Undrawn(k)' BY <1>2, <3>4 DEF Undrawn
      <4>2. dd[k + 1] = dd[k] BY <1>3, <2>1, <3>3, <3>4
      <4> QED BY <3>1, <3>2, <4>1, <4>2 DEF Link
    <3>5. CASE k # 0
      <4>1. Undrawn(k)' <=> Undrawn(k) BY <3>2, <3>5 DEF Undrawn
      <4>2. dd[k] = d[k] BY <1>10, <2>1, <3>5
      <4> QED BY <3>1, <3>2, <3>3, <4>1, <4>2 DEF Link, Right
    <3> QED BY <3>4, <3>5
  <2>3. \A i, j \in 0 .. Queued : i <= j => dd[i] <= dd[j]
    <3>1. \A i, j \in 0 .. Queued : i <= j => d[i] <= d[j] BY <1>1 DEF Chain
    <3>2. \A j \in 0 .. Queued : j # 0 => d[1] <= d[j] BY <1>3, <1>10, <3>1
    <3>3. \A j \in 0 .. Queued : dd[0] <= dd[j]
      BY <1>3, <1>10, <2>1, <3>2
    <3>4. \A i, j \in 0 .. Queued : i # 0 /\ i <= j => dd[i] <= dd[j]
      BY <2>1, <3>1
    <3> QED BY <3>3, <3>4
  <2>4. dd[Queued] = d[Queued] BY <1>3, <1>10, <2>1
  <2>5. dd[0] >= 0 /\ dd[0] = NextOutLine' - DrawCounter'
    BY <1>2, <1>3, <1>5, <2>1 DEF Lines
  <2>6. Chain(m, dd)' BY <1>1, <1>2, <1>7, <1>10, <2>2, <2>3, <2>4, <2>5 DEF Chain
  <2>7. m \in [0 .. Queued' -> Values] /\ dd \in [0 .. Queued' -> Int] BY <1>10
  <2> QED BY <2>6, <2>7 DEF Chained
<1> QED BY <1>6, <1>8, <1>9, <1>11, <1>12, <1>13, <1>14

LEMMA PopKeeps ==
    ASSUME IInv, Pop
    PROVE  IInv'
<1> USE DEF IInv, Base
<1>0. PICK n : n = Queued - 1 OBVIOUS
<1>1. /\ rpc = "pop" /\ rpc' \in {"poll", "exited"}
      /\ WQ_ReadPos' = NextPos(WQ_ReadPos) /\ WQ_InCount' = WQ_InCount - 1
      /\ UNCHANGED <<callVars, frameVars, WQ, WQ_WritePos, DrawCounter, WakeupSem, DoBusyWait,
                     mem, surface>>
      /\ rpc' = "exited" => At(0).op = "EXIT"
  <2>1. At(0) = WQ[WQ_ReadPos]
    <3>1. WQ_ReadPos % WQ_Size = WQ_ReadPos BY ModSmall, RingAssumption DEF TypeOK
    <3>2. WQ_ReadPos + 0 = WQ_ReadPos BY DEF TypeOK
    <3> QED BY <3>1, <3>2 DEF At, Slot
  <2> QED BY <2>1 DEF Pop
<1>2. WQ_InCount > 0 /\ n \in Nat /\ Queued = n + 1 /\ Queued' = n
  BY <1>0, <1>1 DEF Queued, Window, TypeOK
<1>3. \A k \in 0 .. n : Slot(k)' = Slot(k + 1)
  <2> SUFFICES ASSUME NEW k \in 0 .. n PROVE Slot(k)' = Slot(k + 1) OBVIOUS
  <2>1. k \in Nat BY <1>2
  <2> QED BY <1>1, <2>1, SlotNext DEF Slot
<1>4. \A k \in 0 .. n : At(k)' = At(k + 1) BY <1>1, <1>3 DEF At
<1>5. \A op : Owes(op)' <=> Owes(op) BY <1>1 DEF Owes
<1>6. TypeOK'
  <2>1. WQ_ReadPos' \in 0 .. WQ_Size - 1
    BY <1>1, RingAssumption, ModBound DEF NextPos, TypeOK
  <2>2. WQ_InCount' \in 0 .. WQ_Size BY <1>1, <1>2, RingAssumption DEF TypeOK
  <2> QED BY <1>1, <2>1, <2>2 DEF TypeOK
<1>7. Control'
  <2>1. rpc' = "exited" => phase = "closed"
    BY <1>1, <1>2 DEF Contents
  <2>2. mpc # "access" BY <1>2 DEF Control
  <2> QED BY <1>1, <1>5, <2>1, <2>2 DEF Control
<1>8. Debts' BY <1>1, <1>5 DEF Debts, Right
<1>9. Window'
  <2>1. Slot(Queued)' = Slot(n)' BY <1>2 DEF Slot
  <2>2. Slot(n)' = Slot(n + 1) BY <1>2, <1>3
  <2> QED BY <1>1, <1>2, <2>1, <2>2, RingAssumption DEF Window, TypeOK
<1>10. Contents'
  <2>1. \A k \in 0 .. n - 1 : At(k)' = At(k + 1) /\ k + 1 \in 0 .. Queued - 1 BY <1>2, <1>4
  <2>2. \A k \in 0 .. n - 1 : At(k)' \in Entry /\ (At(k)'.op = "EXIT" => phase = "closed")
    BY <2>1 DEF Contents
  <2> QED BY <1>1, <1>2, <2>2 DEF Contents
<1>11. Painted' BY <1>1 DEF Painted, AsIssued
<1>12. Chained'
  <2>1. PICK m \in [0 .. Queued -> Values], d \in [0 .. Queued -> Int] : Chain(m, d)
    BY DEF Chained
  <2>2. PICK mm \in [0 .. n -> Values], dd \in [0 .. n -> Int] :
           \A k \in 0 .. n : mm[k] = m[k + 1] /\ dd[k] = d[k + 1]
    <3> DEFINE f == [k \in 0 .. n |-> m[k + 1]]
               g == [k \in 0 .. n |-> d[k + 1]]
    <3>1. f \in [0 .. n -> Values] /\ g \in [0 .. n -> Int] BY <1>2
    <3>2. \A k \in 0 .. n : f[k] = m[k + 1] /\ g[k] = d[k + 1] OBVIOUS
    <3> QED BY <3>1, <3>2
  <2>3. \A k \in 0 .. n - 1 : Link(mm, dd, k)'
    <3> SUFFICES ASSUME NEW k \in 0 .. n - 1 PROVE Link(mm, dd, k)' OBVIOUS
    <3>1. Link(m, d, k + 1) BY <1>2, <2>1 DEF Chain
    <3>2. At(k)' = At(k + 1) /\ UNCHANGED <<want, LIB, kept, VPhase, VCounter>>
      BY <1>1, <1>2, <1>4
    <3>3. Undrawn(k)' <=> Undrawn(k + 1) BY <1>1, <1>2, <3>2 DEF Undrawn
    <3>4. /\ mm[k] = m[k + 1] /\ mm[k + 1] = m[(k + 1) + 1]
          /\ dd[k] = d[k + 1] /\ dd[k + 1] = d[(k + 1) + 1]
      BY <1>2, <2>2
    <3> QED BY <3>1, <3>2, <3>3, <3>4 DEF Link, Right
  <2>4. mm[0] = mem' /\ dd[0] = d[0]
    <3>1. Link(m, d, 0) /\ ~Undrawn(0) BY <1>1, <1>2, <2>1 DEF Chain, Undrawn
    <3>2. m[1] = mem BY <1>1, <2>1, <3>1 DEF Link, Contents, Chain
    <3>3. d[1] = d[0] BY <3>1 DEF Link
    <3> QED BY <1>1, <1>2, <2>2, <3>2, <3>3
  <2>5. mm[n] = m[Queued] /\ dd[n] = d[Queued] BY <1>2, <2>2
  <2>6. \A i, j \in 0 .. n : i <= j => dd[i] <= dd[j]
    <3>1. \A i, j \in 0 .. Queued : i <= j => d[i] <= d[j] BY <2>1 DEF Chain
    <3> SUFFICES ASSUME NEW i \in 0 .. n, NEW j \in 0 .. n, i <= j PROVE dd[i] <= dd[j] OBVIOUS
    <3>2. i + 1 \in 0 .. Queued /\ j + 1 \in 0 .. Queued /\ i + 1 <= j + 1 BY <1>2
    <3>3. d[i + 1] <= d[j + 1] BY <3>1, <3>2
    <3> QED BY <2>2, <3>3
  <2>7. Chain(mm, dd)' BY <1>1, <1>2, <1>5, <2>1, <2>3, <2>4, <2>5, <2>6 DEF Chain
  <2>8. mm \in [0 .. Queued' -> Values] /\ dd \in [0 .. Queued' -> Int] BY <1>2
  <2> QED BY <2>7, <2>8 DEF Chained
<1> QED BY <1>6, <1>7, <1>8, <1>9, <1>10, <1>11, <1>12

----------------------------------------------------------------------------
LEMMA StutterKeeps == ASSUME IInv, UNCHANGED vars PROVE IInv'
<1> USE DEF IInv, Base
<1>0. /\ UNCHANGED <<callVars, frameVars, ringVars, DrawCounter, WakeupSem, threadVars, surface>>
  BY DEF vars
<1>1. \A op : Owes(op)' <=> Owes(op) BY <1>0 DEF Owes
<1>2. TypeOK' BY <1>0 DEF TypeOK
<1>3. Control' /\ Debts' BY <1>0, <1>1 DEF Control, Debts, Right
<1>4. Queued' = Queued BY <1>0 DEF Queued
<1>5. Window' BY <1>0, <1>4, Unmoved DEF Window
<1>6. Contents' BY <1>0, <1>4, Unmoved DEF Contents
<1>7. Painted' BY <1>0 DEF Painted, AsIssued
<1>8. \A k \in 0 .. Queued - 1 : Undrawn(k)' <=> Undrawn(k) BY <1>0, Unmoved DEF Undrawn
<1>9. Chained' BY <1>0, <1>1, <1>4, <1>8, RightsQuiet, ChainKept
<1> QED BY <1>2, <1>3, <1>5, <1>6, <1>7, <1>9

LEMMA NextIInv == IInv /\ [Next]_vars => IInv'
<1> SUFFICES ASSUME IInv, [Next]_vars PROVE IInv' OBVIOUS
<1>1. CASE MainCall
  <2>1. CASE LineStep
    <3>1. line < VisibleLines \/ line = VisibleLines BY LineAssumption DEF IInv, Base, TypeOK
    <3> QED BY <2>1, <3>1, IssueKeeps, PassKeeps
  <2> QED BY <1>1, <2>1, WriteKeeps, StartFrameKeeps, WaitKeeps, KillKeeps, InitKeeps
      DEF MainCall, LineStep
<1>2. CASE MainStep
  BY <1>2, LookKeeps, SlotKeeps, PublishKeeps, PostKeeps, KillKeeps, BlankKeeps, WaitKeeps,
     AccessKeeps, JoinKeeps DEF MainStep
<1>3. CASE ThreadStep \/ SemTimeout
  BY <1>3, PollKeeps, ExecuteKeeps, DrawKeeps, PopKeeps DEF ThreadStep
<1>4. CASE UNCHANGED vars BY <1>4, StutterKeeps
<1> QED BY <1>1, <1>2, <1>3, <1>4 DEF Next

\* The ring always leads from what the thread has done to what main has issued.
THEOREM Vdp2Invariance == Spec => []IInv
  BY InitIInv, NextIInv, PTL DEF Spec

----------------------------------------------------------------------------
(* The theorems.                                                           *)

\* Every variable keeps its type, DrawCounter and WQ_InCount their bounds.
THEOREM Vdp2Types == Spec => []TypeOK
<1>1. IInv => TypeOK BY DEF IInv, Base
<1> QED BY <1>1, Vdp2Invariance, PTL

\* The thread draws only on a surface that is there and that main leaves alone, however
\* far it lags (VDP2REND_EndFrame waits for DrawCounter, not for the ring).
THEOREM SurfaceHeld == Spec => []SurfaceExclusive
<1>1. IInv => SurfaceExclusive
  <2> SUFFICES ASSUME IInv, rpc = "draw" PROVE espec /\ mpc # "blank"
    BY DEF SurfaceExclusive
  <2>1. PICK m \in [0 .. Queued -> Values], d \in [0 .. Queued -> Int] : Chain(m, d)
    BY DEF IInv, Chained
  <2>2. DrawCounter > 0 /\ phase = "frame" BY <2>1, Drawing
  <2> QED BY <2>2 DEF IInv, Base, Control
<1> QED BY <1>1, Vdp2Invariance, PTL

\* A finished frame shows what was issued, on every row, for every size of the ring, the
\* frame and the picture, however often the VDP2 is reset: the memory always, the line
\* data unless VCounter started again in the frame after the line (the queue's order,
\* LIB, DrawCounter, NextOutLine).
THEOREM FramesShown == Spec => []FrameAsIssued
<1>1. IInv => FrameAsIssued BY DEF IInv, Base, Painted, FrameAsIssued
<1> QED BY <1>1, Vdp2Invariance, PTL

\* A state is saved or loaded when both copies of the memory agree (VDP2REND_StateAction).
THEOREM StatesComplete == Spec => []StateComplete
<1>1. IInv => StateComplete
  <2> SUFFICES ASSUME IInv, mpc = "access" PROVE mem = main /\ rpc \in {"poll", "wait"}
    BY DEF StateComplete
  <2>1. WQ_InCount = 0 /\ phase = "between" BY DEF IInv, Base, Control
  <2>2. Queued = 0 /\ \A op : ~Owes(op) BY <2>1 DEF Queued, Owes
  <2>3. PICK m \in [0 .. Queued -> Values], d \in [0 .. Queued -> Int] : Chain(m, d)
    BY DEF IInv, Chained
  <2>4. mem = main BY <2>2, <2>3 DEF Chain
  <2>5. rpc \in {"poll", "wait"} BY <2>1 DEF IInv, Base, TypeOK, Control, Window
  <2> QED BY <2>4, <2>5
<1> QED BY <1>1, Vdp2Invariance, PTL
=============================================================================
