--------------------------- MODULE Vdp1DrawProofs ---------------------------
(***************************************************************************)
(* Proofs about Vdp1Draw, threaded instant drawing: the types, that the    *)
(* main thread and the drawing thread never have the framebuffer at the    *)
(* same time, and that the detailed drawing, band by band on a thread of   *)
(* its own, implements Vdp1Instant, where a list is drawn in one go when   *)
(* it is started.                                                          *)
(***************************************************************************)
EXTENDS Vdp1Draw, SequenceTheorems, WellFoundedInduction, TLAPS

USE DEF jobVars, threadVars, syncVars, lifeVars, cpuVars

----------------------------------------------------------------------------
(* The inductive invariant.                                                *)

\* Instructions that touch what a draw in progress uses.
Waits == {"freeze", "swap", "fill", "poke", "peek", "all", "clip", "save", "load", "reset",
          "quit"}
Dos   == Waits \union {"wait", "arm", "publish", "post", "draw", "start", "stop", "TVMR", "VRAM",
                       "snapshot", "line", "join", "want"}
Instructions == [do : Dos, arg : Nat \union Modes \union Contents \union Clips]

\* An instruction's argument.
Wanting(a) == /\ a.do \in {"poke", "peek", "line"} => a.arg \in Row
              /\ a.do = "TVMR" => a.arg \in Modes
              /\ a.do = "VRAM" => a.arg \in Contents
              /\ a.do = "clip" => a.arg \in Clips
              /\ a.do = "wait" => a.arg \in 1 .. DrawNumBands

\* b may come right after a: what touches the framebuffer or the registers comes after
\* a wait for the whole draw, a row after one for its band.
Follows(a, b) ==
    \/ a.do = "wait" /\ b.do \in Waits /\ a.arg = DrawNumBands
    \/ a.do = "wait" /\ b.do = "line" /\ a.arg = RowBand(b.arg) + 1
    \/ a.do = "freeze" /\ b.do = "arm"
    \/ a.do = "arm" /\ b.do = "publish"
    \/ a.do = "publish" /\ b.do = "post"
    \/ a.do \in {"post", "draw"} /\ b.do \in {"TVMR", "wait", "stop"}
    \/ a.do \in {"swap", "fill"} /\ b.do = "start"
    \/ a.do = "start" /\ b.do \in {"wait", "draw"}
    \/ a.do = "quit" /\ b.do = "join"
    \/ a.do = "join" /\ b.do = "want"
    \/ a.do = "want" /\ b.do = "wait"

\* What a call, or the rest of one, looks like: at most one draw, and the next game is
\* set up to its end.
Chain(s) ==
    /\ s \in Seq(Instructions)
    /\ \A i \in 1 .. Len(s) : Wanting(s[i])
    /\ \A i \in 1 .. Len(s) - 1 : Follows(s[i], s[i + 1])
    /\ \A i \in 1 .. Len(s) : s[i].do = "want" => Len(s) = i + 2 /\ s[i + 2].do = "load"
    /\ \A i, j \in 1 .. Len(s) :
          s[i].do \in {"draw", "arm"} /\ s[j].do \in {"draw", "freeze", "arm"} => j <= i
Ends(s) == s # <<>> => s[Len(s)].do \notin {"freeze", "arm", "publish", "quit"}
Plan(s) == Chain(s) /\ Ends(s)

\* What its instructions rest on.
Suits(a) ==
    /\ a.do = "draw" => ~DrawThreadWanted
    /\ a.do = "freeze" => DrawThreadWanted
    /\ a.do = "quit" => DrawThread
    /\ a.do = "all" => TVMR \in Rotating
Primed(s) ==
    DrawingActive \/ \A i \in 1 .. Len(s) : s[i].do \in {"draw", "freeze", "arm"} =>
                        \E j \in 1 .. i - 1 : s[j].do = "start"
Setting ==
    /\ \A i \in 1 .. Len(todo) : Suits(todo[i])
    /\ Primed(todo)
    /\ DrawThread => DrawThreadWanted
    /\ todo # <<>> => seen = Nothing

\* What the next instruction finds.
Ready ==
    /\ Doing(Waits \union {"draw", "arm", "join", "want"}) => ~DrawJobActive
    /\ Doing({"arm"}) => DrawThread /\ DrawVRAM = VRAM /\ DrawCmdSnapshot = VRAMCmdSnapshot
    /\ Doing({"publish", "post"}) => DrawJobActive
    /\ Doing({"post"}) => DrawBandsDone = 0
    /\ Doing({"join"}) => DrawThreadQuit
    /\ Doing({"want"}) => ~DrawThread
    /\ Doing({"line"}) /\ DrawJobActive => DrawBandsDone >= RowBand(arg) + 1

\* The thread is at rest, has been told to stop, or has as much left of the list as
\* DrawBandsDone says.
Resting  == DrawThreadSem = 0 /\ tpc = "wait"
Stopping == \/ DrawThreadSem = 1 /\ tpc = "wait"
            \/ DrawThreadSem = 0 /\ tpc \in {"woken", "exited"}
Drawing ==
    \/ DrawThreadSem = 1 /\ tpc = "wait" /\ DrawBandsDone = 0
    \/ DrawThreadSem = 0 /\ tpc = "woken" /\ DrawBandsDone = 0
    \/ DrawThreadSem = 0 /\ tpc \in {"band", "row", "done"} /\ DrawBandsDone = band
    \/ Resting /\ DrawBandsDone = DrawNumBands
Thread ==
    /\ ~DrawThread => DrawThreadSem = 0 /\ tpc = "none" /\ ~DrawJobActive /\ ~DrawThreadQuit
    /\ DrawThreadQuit => Doing({"join"})
    /\ DrawThread /\ DrawThreadQuit => Stopping
    /\ DrawThread /\ ~DrawThreadQuit /\ (~DrawJobActive \/ Doing({"publish", "post"})) => Resting
    /\ DrawThread /\ ~DrawThreadQuit /\ DrawJobActive /\ ~Doing({"publish", "post"}) => Drawing

\* Where the thread is in its band, and which registers it draws with.
Pass ==
    /\ tpc \in {"band", "row", "done"} => regs \in Clips
    /\ tpc = "row" => DrawBands[band] <= row /\ row < DrawBands[band + 1] /\ clip = regs
    /\ tpc = "done" => clip = ClipAfter[DrawCmdSnapshot][regs]

\* The drawing code's copies.
Copies == IF DrawJobActive THEN DVRAM = "DrawVRAM" ELSE DVRAM = "VRAM" /\ DrawTVMR = TVMR

IInv == TypeOK /\ Plan(todo) /\ Setting /\ Ready /\ Thread /\ Pass /\ Copies

----------------------------------------------------------------------------
(* The instructions of a call.                                             *)

LEMMA LeastIs ==
    ASSUME NEW B \in SUBSET Nat, B # {}
    PROVE  \E x \in B : \A y \in B : x <= y
  <1>1. PICK x \in B : \A y \in B : ~(<<y, x>> \in OpToRel(<, Nat))
    BY WFMin, NatLessThanWellFounded
  <1>2. ASSUME NEW y \in B PROVE x <= y
    <2>1. <<y, x>> \in Nat \X Nat /\ <<y, x>>[1] = y /\ <<y, x>>[2] = x
      OBVIOUS
    <2>2. y < x => <<y, x>> \in OpToRel(<, Nat)
      BY <2>1, Zenon DEF OpToRel
    <2>3. ~(y < x)
      BY <1>1, <2>2
    <2> QED
      BY <2>3
  <1> QED
    BY <1>2

\* The band that a row waits for is one of the framebuffer's, and the row is in it or in
\* one before it.
LEMMA RowBandType ==
    ASSUME NEW r \in Row
    PROVE  /\ RowBand(r) \in Bands
           /\ RowBand(r) = DrawNumBands - 1 \/ r < DrawBands[RowBand(r) + 1]
  <1> DEFINE T == {b \in Bands : b = DrawNumBands - 1 \/ r < DrawBands[b + 1]}
  <1>1. DrawNumBands - 1 \in T /\ T \subseteq Nat
    BY BandAssumption DEF Bands
  <1>2. PICK x \in T : \A y \in T : x <= y
    <2> HIDE DEF T
    <2> QED
      BY <1>1, LeastIs
  <1>3. r \in Int /\ \A a \in Bands : a \in Int /\ DrawBands[a + 1] \in Int
    BY BandAssumption DEF Row, Bands
  <1>4. \A a \in Bands : a < x => r >= DrawBands[a + 1]
    BY <1>2, <1>3
  <1>5. /\ x \in Bands /\ (x = DrawNumBands - 1 \/ r < DrawBands[x + 1])
        /\ \A a \in Bands : a < x => r >= DrawBands[a + 1]
    BY <1>2, <1>4
  <1> QED
    BY <1>5 DEF RowBand

\* One instruction, two and three.
LEMMA One ==
    ASSUME NEW a \in Instructions, Wanting(a), a.do \notin {"want"}
    PROVE  Chain(<<a>>) /\ Len(<<a>>) = 1 /\ <<a>>[1] = a
  <1> DEFINE s == <<a>>
  <1>1. s \in Seq(Instructions) /\ Len(s) = 1 /\ s[1] = a
    OBVIOUS
  <1> HIDE DEF s
  <1>2. \A i \in 1 .. 1 : i = 1
    OBVIOUS
  <1>3. Chain(s)
    BY <1>1, <1>2 DEF Chain
  <1> QED
    BY <1>1, <1>3 DEF s

LEMMA Two ==
    ASSUME NEW a \in Instructions, NEW b \in Instructions, Wanting(a), Wanting(b),
           Follows(a, b), a.do \notin {"want", "arm", "draw"}, b.do \notin {"want"}
    PROVE  Chain(<<a, b>>) /\ Len(<<a, b>>) = 2 /\ <<a, b>>[1] = a /\ <<a, b>>[2] = b
  <1> DEFINE s == <<a, b>>
  <1>1. s \in Seq(Instructions) /\ Len(s) = 2 /\ s[1] = a /\ s[2] = b
    OBVIOUS
  <1> HIDE DEF s
  <1>2. \A i \in 1 .. 2 : i = 1 \/ i = 2
    OBVIOUS
  <1>3. \A i \in 1 .. 2 - 1 : i = 1 /\ i + 1 = 2
    OBVIOUS
  <1>4. \A i \in 1 .. Len(s) : s[i].do # "want"
    BY <1>1, <1>2
  <1>5. \A i, j \in 1 .. Len(s) :
          s[i].do \in {"draw", "arm"} /\ s[j].do \in {"draw", "freeze", "arm"} => j <= i
    BY <1>1, <1>2
  <1>6. \A i \in 1 .. Len(s) - 1 : Follows(s[i], s[i + 1])
    BY <1>1, <1>3
  <1>7. \A i \in 1 .. Len(s) : Wanting(s[i])
    BY <1>1, <1>2
  <1>8. Chain(s)
    BY <1>1, <1>4, <1>5, <1>6, <1>7 DEF Chain
  <1> QED
    BY <1>1, <1>8 DEF s

LEMMA Three ==
    ASSUME NEW a \in Instructions, NEW b \in Instructions, NEW e \in Instructions,
           Wanting(a), Wanting(b), Wanting(e), Follows(a, b), Follows(b, e),
           a.do = "want" => e.do = "load", b.do # "want", e.do # "want",
           a.do \notin {"draw"}, b.do \notin {"draw", "arm", "freeze"},
           e.do \notin {"draw", "arm", "freeze"}
    PROVE  /\ Chain(<<a, b, e>>) /\ Len(<<a, b, e>>) = 3
           /\ <<a, b, e>>[1] = a /\ <<a, b, e>>[2] = b /\ <<a, b, e>>[3] = e
  <1> DEFINE s == <<a, b, e>>
  <1>1. s \in Seq(Instructions) /\ Len(s) = 3 /\ s[1] = a /\ s[2] = b /\ s[3] = e
    OBVIOUS
  <1> HIDE DEF s
  <1>2. \A i \in 1 .. 3 : i = 1 \/ i = 2 \/ i = 3
    OBVIOUS
  <1>3. \A i \in 1 .. 3 - 1 : (i = 1 /\ i + 1 = 2) \/ (i = 2 /\ i + 1 = 3)
    OBVIOUS
  <1>4. \A i \in 1 .. Len(s) : s[i].do = "want" => Len(s) = i + 2 /\ s[i + 2].do = "load"
    <2>1. 1 + 2 = 3
      OBVIOUS
    <2> QED
      BY <1>1, <1>2, <2>1
  <1>5. \A i, j \in 1 .. Len(s) :
          s[i].do \in {"draw", "arm"} /\ s[j].do \in {"draw", "freeze", "arm"} => j <= i
    BY <1>1, <1>2
  <1>6. \A i \in 1 .. Len(s) - 1 : Follows(s[i], s[i + 1])
    BY <1>1, <1>3
  <1>7. \A i \in 1 .. Len(s) : Wanting(s[i])
    BY <1>1, <1>2
  <1>8. Chain(s)
    BY <1>1, <1>4, <1>5, <1>6, <1>7 DEF Chain
  <1> QED
    BY <1>1, <1>8 DEF s

\* One sequence after another.
LEMMA Joined ==
    ASSUME NEW s, NEW t, Chain(s), Chain(t),
           s # <<>> /\ t # <<>> => Follows(s[Len(s)], t[1]),
           \A i \in 1 .. Len(s) : s[i].do # "want",
           \/ \A i \in 1 .. Len(s) : s[i].do \notin {"draw", "arm"}
           \/ \A i \in 1 .. Len(t) : t[i].do \notin {"draw", "freeze", "arm"}
    PROVE  /\ Chain(s \o t) /\ Len(s \o t) = Len(s) + Len(t)
           /\ \A i \in 1 .. Len(s) : (s \o t)[i] = s[i]
           /\ \A i \in 1 .. Len(t) : (s \o t)[Len(s) + i] = t[i]
           /\ \A i \in 1 .. Len(s) + Len(t) : i <= Len(s) \/ i - Len(s) \in 1 .. Len(t)
  <1> DEFINE p == s \o t
             m == Len(s)
             n == Len(t)
  <1>1. s \in Seq(Instructions) /\ t \in Seq(Instructions)
    BY DEF Chain
  <1>2. m \in Nat /\ n \in Nat
    BY <1>1, LenProperties
  <1>3. p \in Seq(Instructions) /\ Len(p) = m + n
    BY <1>1, ConcatProperties
  <1>4. \A i \in 1 .. m + n : p[i] = IF i <= m THEN s[i] ELSE t[i - m]
    BY <1>1, ConcatProperties
  <1>5. \A i \in 1 .. m : p[i] = s[i]
    <2> HIDE DEF p, m, n
    <2>1. \A i \in 1 .. m : i \in 1 .. m + n /\ i <= m
      BY <1>2
    <2> QED
      BY <1>4, <2>1
  <1>6. \A i \in 1 .. m + n : i <= m \/ i - m \in 1 .. n
    <2> HIDE DEF p, m, n
    <2> QED
      BY <1>2
  <1>7. \A i \in 1 .. n : p[m + i] = t[i] /\ m + i \in 1 .. m + n
    <2> HIDE DEF p, m, n
    <2>1. \A i \in 1 .. n : m + i \in 1 .. m + n /\ ~(m + i <= m) /\ (m + i) - m = i
      BY <1>2
    <2> QED
      BY <1>4, <2>1
  <1>8. \A i \in 1 .. m + n : (i \in 1 .. m /\ p[i] = s[i]) \/ (i - m \in 1 .. n /\ p[i] = t[i - m])
    <2> HIDE DEF p, m, n
    <2>1. \A i \in 1 .. m + n : i <= m => i \in 1 .. m
      BY <1>2
    <2> QED
      BY <1>4, <1>6, <2>1
  <1>9. Chain(p)
    <2>1. \A i \in 1 .. m : Wanting(s[i])
      BY DEF Chain
    <2>2. \A i \in 1 .. n : Wanting(t[i])
      BY DEF Chain
    <2>3. \A i \in 1 .. m - 1 : Follows(s[i], s[i + 1])
      BY DEF Chain
    <2>4. \A i \in 1 .. n - 1 : Follows(t[i], t[i + 1])
      BY DEF Chain
    <2>5. \A i \in 1 .. n : t[i].do = "want" => n = i + 2 /\ t[i + 2].do = "load"
      BY DEF Chain
    <2>6. \A i, j \in 1 .. m :
            s[i].do \in {"draw", "arm"} /\ s[j].do \in {"draw", "freeze", "arm"} => j <= i
      BY DEF Chain
    <2>7. \A i, j \in 1 .. n :
            t[i].do \in {"draw", "arm"} /\ t[j].do \in {"draw", "freeze", "arm"} => j <= i
      BY DEF Chain
    <2>8. m # 0 /\ n # 0 => Follows(s[m], t[1])
      BY <1>1, EmptySeq
    <2>9. \A i \in 1 .. m : s[i].do # "want"
      OBVIOUS
    <2>10. \/ \A i \in 1 .. m : s[i].do \notin {"draw", "arm"}
           \/ \A i \in 1 .. n : t[i].do \notin {"draw", "freeze", "arm"}
      OBVIOUS
    <2> HIDE DEF p, m, n
    <2>11. \A i \in 1 .. m + n : Wanting(p[i])
      BY <1>8, <2>1, <2>2
    <2>12. ASSUME NEW i \in 1 .. (m + n) - 1
           PROVE  Follows(p[i], p[i + 1])
      <3>0. i \in 1 .. m + n /\ i + 1 \in 1 .. m + n /\ i \in Nat
        BY <1>2
      <3>1. CASE i < m
        <4>1. i \in 1 .. m /\ i + 1 \in 1 .. m /\ i \in 1 .. m - 1
          BY <1>2, <3>0, <3>1
        <4> QED
          BY <1>5, <2>3, <4>1
      <3>2. CASE i = m
        <4>1. m # 0 /\ n # 0 /\ m \in 1 .. m /\ 1 \in 1 .. n
          BY <1>2, <3>0, <3>2
        <4> QED
          BY <1>5, <1>7, <2>8, <3>2, <4>1
      <3>3. CASE i > m
        <4> DEFINE k == i - m
        <4>1. k \in 1 .. n - 1 /\ k \in 1 .. n /\ k + 1 \in 1 .. n /\ m + k = i /\ m + (k + 1) = i + 1
          BY <1>2, <3>0, <3>3
        <4> HIDE DEF k
        <4> QED
          BY <1>7, <2>4, <4>1
      <3> QED
        BY <1>2, <3>0, <3>1, <3>2, <3>3
    <2>13. ASSUME NEW i \in 1 .. m + n, p[i].do = "want"
           PROVE  m + n = i + 2 /\ p[i + 2].do = "load"
      <3>1. i - m \in 1 .. n /\ p[i] = t[i - m]
        BY <1>8, <2>9, <2>13
      <3> DEFINE k == i - m
      <3>2. n = k + 2 /\ t[k + 2].do = "load"
        BY <2>5, <2>13, <3>1
      <3>3. k + 2 \in 1 .. n /\ m + (k + 2) = i + 2 /\ m + n = i + 2
        BY <1>2, <3>1, <3>2
      <3> HIDE DEF k
      <3> QED
        BY <1>7, <3>2, <3>3
    <2>14. ASSUME NEW i \in 1 .. m + n, NEW j \in 1 .. m + n,
                  p[i].do \in {"draw", "arm"}, p[j].do \in {"draw", "freeze", "arm"}
           PROVE  j <= i
      <3>1. CASE i \in 1 .. m /\ p[i] = s[i] /\ j \in 1 .. m /\ p[j] = s[j]
        BY <2>6, <2>14, <3>1
      <3>2. CASE i \in 1 .. m /\ p[i] = s[i] /\ j - m \in 1 .. n /\ p[j] = t[j - m]
        BY <2>10, <2>14, <3>2
      <3>3. CASE i - m \in 1 .. n /\ j \in 1 .. m
        BY <1>2, <3>3
      <3>4. CASE i - m \in 1 .. n /\ p[i] = t[i - m] /\ j - m \in 1 .. n /\ p[j] = t[j - m]
        <4>1. j - m <= i - m
          BY <2>7, <2>14, <3>4
        <4> QED
          BY <1>2, <4>1
      <3> QED
        BY <1>8, <3>1, <3>2, <3>3, <3>4
    <2> QED
      BY <1>3, <2>11, <2>12, <2>13, <2>14 DEF Chain
  <1> QED
    BY <1>3, <1>5, <1>6, <1>7, <1>9

\* The rest of a call.
LEMMA Rest ==
    ASSUME Plan(todo), todo # <<>>, todo' = Tail(todo)
    PROVE  /\ Plan(todo)' /\ Len(todo) \in Nat \ {0} /\ Head(todo) = todo[1]
           /\ Len(todo') = Len(todo) - 1
           /\ \A i \in 1 .. Len(todo') : todo'[i] = todo[i + 1] /\ i + 1 \in 1 .. Len(todo)
           /\ Head(todo) \in Instructions /\ Wanting(Head(todo))
           /\ todo' # <<>> => /\ Head(todo)' = todo'[1] /\ 1 \in 1 .. Len(todo')
                              /\ Follows(Head(todo), todo'[1])
           /\ Head(todo).do \in {"freeze", "arm", "publish", "quit"} => todo' # <<>>
  <1> DEFINE n == Len(todo)
  <1>1. todo \in Seq(Instructions)
    BY DEF Plan, Chain
  <1>2. n \in Nat \ {0}
    BY <1>1, EmptySeq
  <1>3. /\ Head(todo) \in Instructions /\ todo' \in Seq(Instructions) /\ Len(todo') = n - 1
        /\ \A i \in 1 .. n - 1 : todo'[i] = todo[i + 1]
    BY <1>1, HeadTailProperties
  <1>4. Head(todo) = todo[1]
    OBVIOUS
  <1>5. todo' # <<>> => Head(todo)' = todo'[1] /\ n - 1 \in Nat \ {0}
    <2>1. ASSUME todo' # <<>> PROVE n - 1 \in Nat \ {0}
      BY <1>3, <2>1, EmptySeq
    <2> QED
      BY <2>1
  <1>6. todo' = <<>> => n = 1
    <2>1. ASSUME todo' = <<>> PROVE n = 1
      <3>1. Len(todo') = 0
        BY <2>1, EmptySeq
      <3> HIDE DEF n
      <3> QED
        BY <1>2, <1>3, <3>1
    <2> QED
      BY <2>1
  <1>7. \A i \in 1 .. n : Wanting(todo[i])
    BY DEF Plan, Chain
  <1>8. \A i \in 1 .. n - 1 : Follows(todo[i], todo[i + 1])
    BY DEF Plan, Chain
  <1>9. \A i \in 1 .. n : todo[i].do = "want" => n = i + 2 /\ todo[i + 2].do = "load"
    BY DEF Plan, Chain
  <1>10. \A i, j \in 1 .. n :
          todo[i].do \in {"draw", "arm"} /\ todo[j].do \in {"draw", "freeze", "arm"} => j <= i
    BY DEF Plan, Chain
  <1>11. todo[n].do \notin {"freeze", "arm", "publish", "quit"}
    BY DEF Plan, Ends
  <1> HIDE DEF n
  <1>12. /\ \A i \in 1 .. n - 1 : i + 1 \in 1 .. n /\ i \in 1 .. n /\ i + 1 \in Nat
         /\ \A i \in 1 .. (n - 1) - 1 : i \in 1 .. n - 1 /\ i + 1 \in 1 .. n - 1 /\ i + 1 \in 1 .. n
    BY <1>2
  <1>13. Chain(todo)'
    <2>1. \A i \in 1 .. n - 1 : Wanting(todo'[i])
      BY <1>3, <1>7, <1>12
    <2>2. \A i \in 1 .. (n - 1) - 1 : Follows(todo'[i], todo'[i + 1])
      BY <1>3, <1>8, <1>12
    <2>3. ASSUME NEW i \in 1 .. n - 1, todo'[i].do = "want"
          PROVE  n - 1 = i + 2 /\ todo'[i + 2].do = "load"
      <3>1. n = (i + 1) + 2 /\ todo[(i + 1) + 2].do = "load"
        BY <1>3, <1>9, <1>12, <2>3
      <3>2. n - 1 = i + 2 /\ i + 2 \in 1 .. n - 1 /\ (i + 1) + 2 = (i + 2) + 1
        BY <1>2, <3>1
      <3> QED
        BY <1>3, <3>1, <3>2
    <2>4. ASSUME NEW i \in 1 .. n - 1, NEW j \in 1 .. n - 1,
                 todo'[i].do \in {"draw", "arm"}, todo'[j].do \in {"draw", "freeze", "arm"}
          PROVE  j <= i
      <3>1. j + 1 <= i + 1
        BY <1>3, <1>10, <1>12, <2>4
      <3> QED
        BY <1>2, <3>1
    <2> QED
      BY <1>3, <2>1, <2>2, <2>3, <2>4 DEF Chain, Wanting, Follows
  <1>14. Ends(todo)'
    <2>1. ASSUME todo' # <<>> PROVE todo'[n - 1] = todo[n]
      <3>1. n - 1 \in 1 .. n - 1 /\ (n - 1) + 1 = n
        BY <1>2, <1>5, <2>1
      <3> QED
        BY <1>3, <3>1
    <2>2. Len(todo') = n - 1
      BY <1>3
    <2> QED
      BY <1>11, <2>1, <2>2 DEF Ends
  <1>15. todo' # <<>> => 1 \in 1 .. n - 1 /\ todo'[1] = todo[2] /\ Follows(todo[1], todo'[1])
    <2>1. ASSUME todo' # <<>> PROVE 1 \in 1 .. n - 1 /\ 1 + 1 = 2
      <3>1. n - 1 \in Nat \ {0}
        BY <1>5, <2>1
      <3> QED
        BY <1>2, <3>1
    <2> QED
      BY <1>3, <1>8, <2>1
  <1>16. Wanting(todo[1])
    BY <1>2, <1>7
  <1> QED
    BY <1>2, <1>3, <1>4, <1>5, <1>6, <1>11, <1>12, <1>13, <1>14, <1>15, <1>16 DEF n, Plan

----------------------------------------------------------------------------
(* Calls.                                                                  *)

\* A call that main may make now.
Fits(s) == Chain(s) /\ Ends(s) /\ \A i \in 1 .. Len(s) : Suits(s[i])

\* What it begins with.
Opens(s) == s # <<>> => \/ s[1].do \in {"wait", "TVMR", "stop", "VRAM", "snapshot", "draw"}
                        \/ s[1].do = "want" /\ ~DrawThread

\* There is no drawing in it.
Plain(s) == \A i \in 1 .. Len(s) : s[i].do \notin {"draw", "freeze", "arm"}

LEMMA DoIs ==
    ASSUME NEW k \in Dos
    PROVE  Do(k) \in Instructions /\ Do(k).do = k
  BY DEF Do, Instructions

LEMMA DoWants ==
    ASSUME NEW k \in Dos \ {"wait", "TVMR", "VRAM", "clip", "poke", "peek", "line"}
    PROVE  Do(k) \in Instructions /\ Do(k).do = k /\ Wanting(Do(k))
  BY DoIs DEF Wanting

LEMMA WaitIs ==
    ASSUME NEW n \in 1 .. DrawNumBands
    PROVE  Wait(n) \in Instructions /\ Wait(n).do = "wait" /\ Wait(n).arg = n /\ Wanting(Wait(n))
  BY BandAssumption DEF Wait, Instructions, Dos, Wanting

LEMMA WaitAllIs ==
    WaitAll \in Instructions /\ WaitAll.do = "wait" /\ WaitAll.arg = DrawNumBands /\ Wanting(WaitAll)
  <1>1. DrawNumBands \in 1 .. DrawNumBands
    BY BandAssumption
  <1> QED
    BY <1>1, WaitIs DEF WaitAll

LEMMA ArgIs ==
    ASSUME NEW k \in Dos, NEW x, [do |-> k, arg |-> x] \in Instructions,
           k \in {"poke", "peek", "line"} => x \in Row,
           k = "TVMR" => x \in Modes, k = "VRAM" => x \in Contents, k = "clip" => x \in Clips,
           k # "wait"
    PROVE  Wanting([do |-> k, arg |-> x])
  BY DEF Wanting

\* One part of a call after another.
LEMMA JoinedFits ==
    ASSUME NEW s, NEW t, Chain(s), \A i \in 1 .. Len(s) : Suits(s[i]), Fits(t), t # <<>>,
           s # <<>> => Follows(s[Len(s)], t[1]),
           \A i \in 1 .. Len(s) : s[i].do # "want",
           (\A i \in 1 .. Len(s) : s[i].do \notin {"draw", "arm"}) \/ Plain(t)
    PROVE  /\ Fits(s \o t) /\ s \o t # <<>> /\ Len(s \o t) = Len(s) + Len(t)
           /\ Len(s) \in Nat /\ Len(t) \in Nat \ {0}
           /\ (s \o t)[1] = IF s = <<>> THEN t[1] ELSE s[1]
           /\ (s \o t)[Len(s) + Len(t)] = t[Len(t)]
           /\ \A i \in 1 .. Len(s) : (s \o t)[i] = s[i]
           /\ \A i \in 1 .. Len(t) : (s \o t)[Len(s) + i] = t[i]
           /\ \A i \in 1 .. Len(s) + Len(t) : i <= Len(s) \/ i - Len(s) \in 1 .. Len(t)
  <1> DEFINE p == s \o t
             m == Len(s)
             n == Len(t)
  <1>0. s \in Seq(Instructions) /\ t \in Seq(Instructions) /\ Chain(t)
    BY DEF Chain, Fits
  <1>1. m \in Nat /\ n \in Nat \ {0}
    BY <1>0, LenProperties, EmptySeq
  <1>2. Plain(t) => \A i \in 1 .. n : t[i].do \notin {"draw", "freeze", "arm"}
    BY DEF Plain
  <1>3. /\ Chain(p) /\ Len(p) = m + n
        /\ \A i \in 1 .. m : p[i] = s[i]
        /\ \A i \in 1 .. n : p[m + i] = t[i]
        /\ \A i \in 1 .. m + n : i <= m \/ i - m \in 1 .. n
    BY <1>0, <1>2, Joined
  <1>4. s = <<>> <=> m = 0
    BY <1>0, EmptySeq
  <1>5. \A i \in 1 .. m : Suits(s[i])
    OBVIOUS
  <1>6. (\A i \in 1 .. n : Suits(t[i])) /\ t[n].do \notin {"freeze", "arm", "publish", "quit"}
    BY DEF Fits, Ends
  <1>7. p \in Seq(Instructions)
    BY <1>3 DEF Chain
  <1>7a. p # <<>>
    <2>1. ASSUME p = <<>> PROVE FALSE
      <3>1. Len(p) = 0
        BY <2>1, EmptySeq
      <3> HIDE DEF p, m, n
      <3> QED
        BY <1>1, <1>3, <3>1
    <2> QED
      BY <2>1
  <1> HIDE DEF p, m, n
  <1>8. p[m + n] = t[n] /\ p[1] = IF m = 0 THEN t[1] ELSE s[1]
    <2>1. n \in 1 .. n /\ 1 \in 1 .. n /\ (m = 0 => m + 1 = 1) /\ (m # 0 => 1 \in 1 .. m)
      BY <1>1
    <2> QED
      BY <1>3, <2>1
  <1>9. \A i \in 1 .. m + n : Suits(p[i])
    <2>1. ASSUME NEW i \in 1 .. m + n PROVE Suits(p[i])
      <3>1. CASE i <= m
        <4>1. i \in 1 .. m
          BY <1>1, <3>1
        <4> QED
          BY <1>3, <1>5, <4>1
      <3>2. CASE i - m \in 1 .. n
        <4>1. m + (i - m) = i
          BY <1>1
        <4>2. p[m + (i - m)] = t[i - m]
          BY <1>3, <3>2
        <4> QED
          BY <1>6, <3>2, <4>1, <4>2
      <3> QED
        BY <1>3, <3>1, <3>2
    <2> QED
      BY <2>1
  <1>10. Fits(p)
    BY <1>3, <1>6, <1>7, <1>8, <1>9 DEF Fits, Ends
  <1> QED
    BY <1>1, <1>3, <1>4, <1>7a, <1>8, <1>10 DEF p, m, n

\* A drawing has its DrawingActive from a start in front of it.
LEMMA PrimedAfter ==
    ASSUME NEW s, NEW t, Len(s) \in Nat, Len(t) \in Nat, Len(s \o t) = Len(s) + Len(t),
           \A i \in 1 .. Len(s) : (s \o t)[i] = s[i],
           \A i \in 1 .. Len(t) : (s \o t)[Len(s) + i] = t[i],
           \A i \in 1 .. Len(s) + Len(t) : i <= Len(s) \/ i - Len(s) \in 1 .. Len(t),
           Plain(s),
           Primed(t) \/ \E j \in 1 .. Len(s) : s[j].do = "start"
    PROVE  Primed(s \o t)
  <1> DEFINE p == s \o t
             m == Len(s)
             n == Len(t)
  <1>1. CASE DrawingActive
    BY <1>1 DEF Primed
  <1>2. CASE ~DrawingActive
    <2>1. \A i \in 1 .. m : s[i].do \notin {"draw", "freeze", "arm"}
      BY DEF Plain
    <2>2. \/ \A i \in 1 .. n : t[i].do \in {"draw", "freeze", "arm"} =>
                                 \E j \in 1 .. i - 1 : t[j].do = "start"
          \/ \E j \in 1 .. m : s[j].do = "start"
      BY <1>2 DEF Primed
    <2>3. /\ m \in Nat /\ n \in Nat /\ Len(p) = m + n
          /\ \A i \in 1 .. m : p[i] = s[i]
          /\ \A i \in 1 .. n : p[m + i] = t[i]
          /\ \A i \in 1 .. m + n : i <= m \/ i - m \in 1 .. n
      OBVIOUS
    <2> HIDE DEF p, m, n
    <2>4. ASSUME NEW i \in 1 .. m + n, p[i].do \in {"draw", "freeze", "arm"}
          PROVE  \E j \in 1 .. i - 1 : p[j].do = "start"
      <3> DEFINE k == i - m
      <3>1. k \in 1 .. n /\ m + k = i
        <4>1. ~(i <= m)
          <5>1. i <= m => i \in 1 .. m
            BY <2>3
          <5> QED
            BY <2>1, <2>3, <2>4, <5>1
        <4> QED
          BY <2>3, <4>1
      <3> HIDE DEF k
      <3>2. p[i] = t[k]
        BY <2>3, <3>1
      <3>3. CASE \E j \in 1 .. m : s[j].do = "start"
        <4>1. PICK j \in 1 .. m : s[j].do = "start"
          BY <3>3
        <4>2. j \in 1 .. i - 1 /\ p[j].do = "start"
          BY <2>3, <3>1, <4>1
        <4> QED
          BY <4>2
      <3>4. CASE \A l \in 1 .. n : t[l].do \in {"draw", "freeze", "arm"} =>
                                 \E j \in 1 .. l - 1 : t[j].do = "start"
        <4>1. PICK j \in 1 .. k - 1 : t[j].do = "start"
          BY <2>4, <3>1, <3>2, <3>4
        <4>2. j \in 1 .. n /\ m + j \in 1 .. i - 1
          BY <2>3, <3>1
        <4>3. p[m + j].do = "start"
          BY <2>3, <4>1, <4>2
        <4> QED
          BY <4>2, <4>3
      <3> QED
        BY <2>2, <3>3, <3>4
    <2> QED
      BY <2>3, <2>4 DEF Primed, p
  <1> QED
    BY <1>1, <1>2

LEMMA PlainPrimed == ASSUME NEW s, Plain(s) PROVE Primed(s)
  BY DEF Plain, Primed

\* DoDrawing.
LEMMA DrawNowIs ==
    /\ Fits(DrawNow) /\ DrawNow # <<>> /\ Opens(DrawNow)
    /\ DrawNow[1].do \in {"wait", "draw"} /\ DrawNow[Len(DrawNow)].do \in {"post", "draw"}
    /\ \A i \in 1 .. Len(DrawNow) : DrawNow[i].do # "want"
  <1>1. CASE ~DrawThreadWanted
    <2> DEFINE s == <<Do("draw")>>
    <2>1. Do("draw") \in Instructions /\ Do("draw").do = "draw" /\ Wanting(Do("draw"))
      BY DoWants DEF Dos
    <2>2. Chain(s) /\ Len(s) = 1 /\ s[1] = Do("draw")
      BY <2>1, One
    <2>3. DrawNow = s
      BY <1>1 DEF DrawNow
    <2> HIDE DEF s
    <2>4. \A i \in 1 .. 1 : i = 1
      OBVIOUS
    <2>5. s # <<>>
      <3>1. ASSUME s = <<>> PROVE FALSE
        BY <2>2, <3>1, EmptySeq
      <3> QED
        BY <3>1
    <2> QED
      BY <1>1, <2>1, <2>2, <2>3, <2>4, <2>5 DEF Fits, Ends, Suits, Opens
  <1>2. CASE DrawThreadWanted
    <2> DEFINE a == Do("freeze")
               b == Do("arm")
               e == Do("publish")
               f == Do("post")
               s == <<WaitAll, a>>
               t == <<b, e, f>>
    <2>1. /\ a \in Instructions /\ a.do = "freeze" /\ Wanting(a)
          /\ b \in Instructions /\ b.do = "arm" /\ Wanting(b)
          /\ e \in Instructions /\ e.do = "publish" /\ Wanting(e)
          /\ f \in Instructions /\ f.do = "post" /\ Wanting(f)
      <3>1. {"freeze", "arm", "publish", "post"}
               \subseteq Dos \ {"wait", "TVMR", "VRAM", "clip", "poke", "peek", "line"}
        BY DEF Dos, Waits
      <3> QED
        BY <3>1, DoWants
    <2>2. DrawNow = s \o t
      BY <1>2 DEF DrawNow, HandOver
    <2> HIDE DEF a, b, e, f
    <2>3. Follows(WaitAll, a) /\ Follows(a, b) /\ Follows(b, e) /\ Follows(e, f)
      BY <2>1, WaitAllIs DEF Follows, Waits
    <2>4. Chain(s) /\ Len(s) = 2 /\ s[1] = WaitAll /\ s[2] = a
      BY <2>1, <2>3, WaitAllIs, Two
    <2>5. Chain(t) /\ Len(t) = 3 /\ t[1] = b /\ t[2] = e /\ t[3] = f
      BY <2>1, <2>3, Three
    <2> HIDE DEF s, t
    <2>6. \A i \in 1 .. 2 : i = 1 \/ i = 2
      OBVIOUS
    <2>7. \A i \in 1 .. 3 : i = 1 \/ i = 2 \/ i = 3
      OBVIOUS
    <2>8. \A i \in 1 .. Len(s) : Suits(s[i]) /\ s[i].do \in {"wait", "freeze"}
      BY <1>2, <2>1, <2>4, <2>6, WaitAllIs DEF Suits
    <2>9. \A i \in 1 .. Len(t) : Suits(t[i]) /\ t[i].do \in {"arm", "publish", "post"}
      BY <2>1, <2>5, <2>7 DEF Suits
    <2>10. s # <<>> /\ t # <<>>
      <3>1. ASSUME s = <<>> PROVE FALSE
        BY <2>4, <3>1, EmptySeq
      <3>2. ASSUME t = <<>> PROVE FALSE
        BY <2>5, <3>2, EmptySeq
      <3> QED
        BY <3>1, <3>2
    <2>11. Fits(t)
      BY <2>1, <2>5, <2>9 DEF Fits, Ends
    <2>12. s # <<>> => Follows(s[Len(s)], t[1])
      BY <2>3, <2>4, <2>5
    <2>13. /\ Fits(s \o t) /\ s \o t # <<>> /\ Len(s \o t) = Len(s) + Len(t)
           /\ (s \o t)[1] = s[1] /\ (s \o t)[Len(s) + Len(t)] = t[Len(t)]
           /\ \A i \in 1 .. Len(s) : (s \o t)[i] = s[i]
           /\ \A i \in 1 .. Len(t) : (s \o t)[Len(s) + i] = t[i]
           /\ \A i \in 1 .. Len(s) + Len(t) : i <= Len(s) \/ i - Len(s) \in 1 .. Len(t)
      <3>1. /\ \A i \in 1 .. Len(s) : s[i].do # "want" /\ s[i].do \notin {"draw", "arm"}
            /\ \A i \in 1 .. Len(s) : Suits(s[i])
            /\ Chain(s) /\ Fits(t)
        BY <2>4, <2>8, <2>11
      <3>2. /\ Fits(s \o t) /\ s \o t # <<>> /\ Len(s \o t) = Len(s) + Len(t)
            /\ (s \o t)[1] = IF s = <<>> THEN t[1] ELSE s[1]
            /\ (s \o t)[Len(s) + Len(t)] = t[Len(t)]
            /\ \A i \in 1 .. Len(s) : (s \o t)[i] = s[i]
            /\ \A i \in 1 .. Len(t) : (s \o t)[Len(s) + i] = t[i]
            /\ \A i \in 1 .. Len(s) + Len(t) : i <= Len(s) \/ i - Len(s) \in 1 .. Len(t)
        BY <2>10, <2>12, <3>1, JoinedFits
      <3> QED
        BY <2>10, <3>2
    <2> DEFINE p == s \o t
    <2>14. /\ Fits(p) /\ p # <<>> /\ Len(p) = 5 /\ p[1] = s[1] /\ p[5] = t[3]
           /\ \A i \in 1 .. 2 : p[i] = s[i]
           /\ \A i \in 1 .. 3 : p[2 + i] = t[i]
      BY <2>4, <2>5, <2>13
    <2>15. DrawNow = p
      BY <2>2
    <2> HIDE DEF p
    <2>16. \A i \in 1 .. 5 : i \in 1 .. 2 \/ (i - 2 \in 1 .. 3 /\ 2 + (i - 2) = i)
      OBVIOUS
    <2>17. \A i \in 1 .. 5 : p[i].do # "want"
      <3> TAKE i \in 1 .. 5
      <3>1. CASE i \in 1 .. 2
        BY <2>4, <2>8, <2>14, <3>1
      <3>2. CASE i - 2 \in 1 .. 3 /\ 2 + (i - 2) = i
        <4>1. p[2 + (i - 2)] = t[i - 2]
          BY <2>14, <3>2
        <4> QED
          BY <2>5, <2>9, <3>2, <4>1
      <3> QED
        BY <2>16, <3>1, <3>2
    <2> QED
      BY <2>1, <2>4, <2>5, <2>14, <2>15, <2>17, WaitAllIs DEF Opens
  <1>3. DrawThreadWanted \in BOOLEAN => DrawThreadWanted \/ ~DrawThreadWanted
    OBVIOUS
  <1> QED
    BY <1>1, <1>2

\* The invariant holds and main does not hand over a list.
Called == IInv /\ ~Doing({"publish", "post"})

\* A call that fits leaves the invariant as it is.
LEMMA CallKeeps ==
    ASSUME IInv, NEW p, Fits(p), Primed(p), Opens(p), Call(p)
    PROVE  Called'
  <1>1. /\ todo = <<>> /\ todo' = p /\ seen' = Nothing
        /\ UNCHANGED <<lifeVars, jobVars, syncVars, threadVars, cpuVars, FB, clip>>
    BY DEF Call
  <1>2. TypeOK'
    BY <1>1 DEF IInv, TypeOK
  <1>3. Plan(todo)'
    <2>1. Chain(p) /\ Ends(p)
      BY DEF Fits
    <2> QED
      BY <1>1, <2>1 DEF Plan, Chain, Ends, Wanting, Follows
  <1>4. Setting'
    <2>1. \A i \in 1 .. Len(p) : Suits(p[i])'
      BY <1>1 DEF Fits, Suits
    <2>2. Primed(todo)'
      BY <1>1 DEF Primed
    <2> QED
      BY <1>1, <2>1, <2>2 DEF IInv, Setting
  <1>5. ~Doing({"publish", "post", "join"}) /\ ~DrawThreadQuit
    BY <1>1 DEF IInv, Thread, Doing
  <1>6. p # <<>> => /\ Head(p) = p[1] /\ 1 \in 1 .. Len(p)
                    /\ p[1].do \in {"wait", "TVMR", "stop", "VRAM", "snapshot", "draw", "want"}
                    /\ p[1].do = "draw" => ~DrawJobActive
                    /\ p[1].do = "want" => ~DrawThread
    <2> SUFFICES ASSUME p # <<>>
                 PROVE  /\ Head(p) = p[1] /\ 1 \in 1 .. Len(p)
                        /\ p[1].do \in {"wait", "TVMR", "stop", "VRAM", "snapshot", "draw", "want"}
                        /\ p[1].do = "draw" => ~DrawJobActive
                        /\ p[1].do = "want" => ~DrawThread
      OBVIOUS
    <2>1. p \in Seq(Instructions)
      BY DEF Fits, Chain
    <2>2. Len(p) \in Nat \ {0} /\ Head(p) = p[1]
      BY <2>1, EmptySeq
    <2>3. 1 \in 1 .. Len(p)
      BY <2>2
    <2>4. Suits(p[1])
      BY <2>3 DEF Fits
    <2> QED
      BY <2>2, <2>3, <2>4 DEF IInv, Setting, Thread, Opens, Suits
  <1>7. Ready'
    BY <1>1, <1>6 DEF IInv, Ready, Doing, Waits, Thread
  <1>8. Thread'
    <2>1. Doing({"publish", "post"})' = FALSE /\ Doing({"join"})' = FALSE
      BY <1>1, <1>6 DEF Doing
    <2>2. /\ Resting' <=> Resting
          /\ Drawing' <=> Drawing
      BY <1>1 DEF Resting, Drawing
    <2> QED
      BY <1>1, <1>5, <2>1, <2>2 DEF IInv, Thread, Doing
  <1>9. Pass' /\ Copies'
    BY <1>1 DEF IInv, Pass, Copies
  <1>10. ~Doing({"publish", "post"})'
    BY <1>1, <1>6 DEF Doing
  <1> QED
    BY <1>2, <1>3, <1>4, <1>7, <1>8, <1>9, <1>10 DEF IInv, Called

\* Calls of one instruction that do not wait, and of one behind a wait.
LEMMA OneFits ==
    ASSUME NEW a \in Instructions, Wanting(a), a.do \in {"TVMR", "stop", "VRAM", "snapshot"}
    PROVE  Fits(<<a>>) /\ Primed(<<a>>) /\ Opens(<<a>>) /\ Plain(<<a>>) /\ <<a>> # <<>>
           /\ <<a>>[1] = a
  <1> DEFINE s == <<a>>
  <1>1. Chain(s) /\ Len(s) = 1 /\ s[1] = a
    BY One
  <1> HIDE DEF s
  <1>2. \A i \in 1 .. 1 : i = 1
    OBVIOUS
  <1>3. Plain(s)
    BY <1>1, <1>2 DEF Plain
  <1>4. Fits(s) /\ Opens(s)
    BY <1>1, <1>2 DEF Fits, Ends, Suits, Opens
  <1>5. s # <<>>
    <2>1. ASSUME s = <<>> PROVE FALSE
      BY <1>1, <2>1, EmptySeq
    <2> QED
      BY <2>1
  <1> QED
    BY <1>1, <1>3, <1>4, <1>5, PlainPrimed DEF s

LEMMA WaitFits ==
    ASSUME NEW w \in Instructions, NEW a \in Instructions, w.do = "wait",
           Wanting(w), Wanting(a), Follows(w, a),
           a.do \in (Waits \ {"freeze", "quit"}) \union {"line"},
           a.do = "all" => TVMR \in Rotating
    PROVE  Fits(<<w, a>>) /\ Primed(<<w, a>>) /\ Opens(<<w, a>>)
  <1> DEFINE s == <<w, a>>
  <1>1. Chain(s) /\ Len(s) = 2 /\ s[1] = w /\ s[2] = a
    BY Two DEF Waits
  <1> HIDE DEF s
  <1>2. \A i \in 1 .. 2 : i = 1 \/ i = 2
    OBVIOUS
  <1>3. Plain(s)
    BY <1>1, <1>2 DEF Plain, Waits
  <1>4. Fits(s) /\ Opens(s)
    BY <1>1, <1>2 DEF Fits, Ends, Suits, Opens, Waits
  <1> QED
    BY <1>3, <1>4, PlainPrimed DEF s

\* The update in front of a register's write.
LEMMA UpdateFits ==
    ASSUME NEW u \in Updates, NEW t, Fits(t), Plain(t), t # <<>>, Opens(t),
           t[1].do \in {"TVMR", "wait", "stop"}
    PROVE  Fits(u \o t) /\ Primed(u \o t) /\ Opens(u \o t)
  <1>0. t \in Seq(Instructions)
    BY DEF Fits, Chain
  <1>1. CASE u = <<>>
    <2>1. u \o t = t
      BY <1>0, <1>1, ConcatEmptySeq
    <2> QED
      BY <2>1, PlainPrimed
  <1>2. CASE u # <<>>
    <2>1. u = DrawNow /\ DrawingActive
      BY <1>2 DEF Updates
    <2> HIDE DEF Updates
    <2>2. Chain(u) /\ \A i \in 1 .. Len(u) : Suits(u[i])
      BY <2>1, DrawNowIs DEF Fits
    <2>3. Follows(u[Len(u)], t[1])
      BY <2>1, DrawNowIs DEF Follows
    <2>4. \A i \in 1 .. Len(u) : u[i].do # "want"
      BY <2>1, DrawNowIs
    <2>5. /\ Fits(u \o t) /\ u \o t # <<>>
          /\ (u \o t)[1] = IF u = <<>> THEN t[1] ELSE u[1]
      BY <2>2, <2>3, <2>4, JoinedFits
    <2>6. (u \o t)[1].do \in {"wait", "draw"}
      BY <1>2, <2>1, <2>5, DrawNowIs
    <2>7. Primed(u \o t)
      BY <2>1 DEF Primed
    <2> QED
      BY <2>5, <2>6, <2>7 DEF Opens
  <1> QED
    BY <1>1, <1>2

\* Every call fits.
LEMMA UpdateKeeps == IInv /\ Update => Called'
  <1> SUFFICES ASSUME IInv, Update PROVE Called'
    OBVIOUS
  <1>1. DrawingActive /\ \E u \in Updates \ {<<>>} : Call(u)
    BY DEF Update
  <1>2. Call(DrawNow)
    BY <1>1 DEF Updates
  <1>3. Primed(DrawNow)
    BY <1>1 DEF Primed
  <1> QED
    BY <1>2, <1>3, DrawNowIs, CallKeeps

LEMMA WriteRegKeeps == IInv /\ WriteReg => Called'
  <1> SUFFICES ASSUME IInv, WriteReg PROVE Called'
    OBVIOUS
  <1>0. PICK u \in Updates : \/ \E m \in Modes : Call(u \o <<[do |-> "TVMR", arg |-> m]>>)
                             \/ Call(u \o Restart)
                             \/ Call(u \o <<Do("stop")>>)
    BY DEF WriteReg
  <1>1. ASSUME NEW m \in Modes, Call(u \o <<[do |-> "TVMR", arg |-> m]>>)
        PROVE  Called'
    <2> DEFINE a == [do |-> "TVMR", arg |-> m]
    <2>1. a \in Instructions /\ a.do = "TVMR" /\ Wanting(a)
      BY DEF Instructions, Dos, Wanting
    <2>2. Call(u \o <<a>>)
      BY <1>1
    <2> HIDE DEF a
    <2>3. Fits(u \o <<a>>) /\ Primed(u \o <<a>>) /\ Opens(u \o <<a>>)
      BY <2>1, OneFits, UpdateFits
    <2> QED
      BY <2>2, <2>3, CallKeeps
  <1>2. CASE Call(u \o <<Do("stop")>>)
    <2> DEFINE a == Do("stop")
    <2>1. a \in Instructions /\ a.do = "stop" /\ Wanting(a)
      BY DoWants DEF Dos, Waits
    <2>2. Call(u \o <<a>>)
      BY <1>2
    <2> HIDE DEF a
    <2>3. Fits(u \o <<a>>) /\ Primed(u \o <<a>>) /\ Opens(u \o <<a>>)
      BY <2>1, OneFits, UpdateFits
    <2> QED
      BY <2>2, <2>3, CallKeeps
  <1>3. CASE Call(u \o Restart)
    <2> DEFINE a == Do("fill")
               b == Do("start")
               s == <<WaitAll, a, b>>
    <2>1. /\ a \in Instructions /\ a.do = "fill" /\ Wanting(a)
          /\ b \in Instructions /\ b.do = "start" /\ Wanting(b)
      BY DoWants DEF Dos, Waits
    <2>2. Restart = s
      BY DEF Restart
    <2> HIDE DEF a, b
    <2>3. Follows(WaitAll, a) /\ Follows(a, b)
      BY <2>1, WaitAllIs DEF Follows, Waits
    <2>4. Chain(s) /\ Len(s) = 3 /\ s[1] = WaitAll /\ s[2] = a /\ s[3] = b
      BY <2>1, <2>3, WaitAllIs, Three
    <2> HIDE DEF s
    <2>5. \A i \in 1 .. 3 : i = 1 \/ i = 2 \/ i = 3
      OBVIOUS
    <2>6. s # <<>>
      <3>1. ASSUME s = <<>> PROVE FALSE
        BY <2>4, <3>1, EmptySeq
      <3> QED
        BY <3>1
    <2>7. Fits(s) /\ Plain(s) /\ Opens(s)
      BY <2>1, <2>4, <2>5, WaitAllIs DEF Fits, Ends, Suits, Plain, Opens
    <2>8. Fits(u \o s) /\ Primed(u \o s) /\ Opens(u \o s)
      BY <2>4, <2>6, <2>7, WaitAllIs, UpdateFits
    <2> QED
      BY <1>3, <2>2, <2>8, CallKeeps
  <1> QED
    BY <1>0, <1>1, <1>2, <1>3

LEMMA SetHBVBKeeps == IInv /\ SetHBVB => Called'
  <1> SUFFICES ASSUME IInv, SetHBVB PROVE Called'
    OBVIOUS
  <1> DEFINE a == Do("swap")
             b == Do("start")
             s == <<WaitAll>>
             x == <<a>>
             y == <<a, b>>
  <1>1. /\ a \in Instructions /\ a.do = "swap" /\ Wanting(a)
        /\ b \in Instructions /\ b.do = "start" /\ Wanting(b)
    BY DoWants DEF Dos, Waits
  <1>2. PICK rest \in {<<>>, x, y, y \o DrawNow} : Call(s \o rest)
    BY DEF SetHBVB
  <1> HIDE DEF a, b
  <1>3. Follows(WaitAll, a) /\ Follows(a, b)
    BY <1>1, WaitAllIs DEF Follows, Waits
  <1>4. Chain(s) /\ Len(s) = 1 /\ s[1] = WaitAll
    BY WaitAllIs, One
  <1>5. Chain(x) /\ Len(x) = 1 /\ x[1] = a
    BY <1>1, One
  <1>6. Chain(y) /\ Len(y) = 2 /\ y[1] = a /\ y[2] = b
    BY <1>1, <1>3, Two
  <1> HIDE DEF s, x, y
  <1>7. (\A i \in 1 .. 1 : i = 1) /\ (\A i \in 1 .. 2 : i = 1 \/ i = 2)
    OBVIOUS
  <1>8. /\ \A i \in 1 .. Len(s) : Suits(s[i]) /\ s[i].do = "wait"
        /\ \A i \in 1 .. Len(x) : Suits(x[i]) /\ x[i].do = "swap"
        /\ \A i \in 1 .. Len(y) : Suits(y[i]) /\ y[i].do \in {"swap", "start"}
    BY <1>1, <1>4, <1>5, <1>6, <1>7, WaitAllIs DEF Suits
  <1>9. s # <<>> /\ x # <<>> /\ y # <<>>
    <2>1. ASSUME s = <<>> \/ x = <<>> \/ y = <<>> PROVE FALSE
      BY <1>4, <1>5, <1>6, <2>1, EmptySeq
    <2> QED
      BY <2>1
  <1>10. Fits(x) /\ Fits(y) /\ Plain(x) /\ Plain(y) /\ Plain(s) /\ Fits(s) /\ Opens(s)
    BY <1>1, <1>4, <1>5, <1>6, <1>8, WaitAllIs DEF Fits, Ends, Plain, Opens
  <1>11. \A i \in 1 .. Len(s) : s[i].do # "want" /\ s[i].do \notin {"draw", "arm"}
    BY <1>8
  <1>12. ASSUME NEW t, Fits(t), t # <<>>, t[1].do = "swap", Primed(t)
         PROVE  Fits(s \o t) /\ Primed(s \o t) /\ Opens(s \o t)
    <2>1. Follows(s[Len(s)], t[1])
      BY <1>4, <1>12, WaitAllIs DEF Follows, Waits
    <2>2. /\ Fits(s \o t) /\ s \o t # <<>> /\ Len(s \o t) = Len(s) + Len(t)
          /\ Len(s) \in Nat /\ Len(t) \in Nat \ {0}
          /\ (s \o t)[1] = IF s = <<>> THEN t[1] ELSE s[1]
          /\ \A i \in 1 .. Len(s) : (s \o t)[i] = s[i]
          /\ \A i \in 1 .. Len(t) : (s \o t)[Len(s) + i] = t[i]
          /\ \A i \in 1 .. Len(s) + Len(t) : i <= Len(s) \/ i - Len(s) \in 1 .. Len(t)
      <3>1. Chain(s) /\ \A i \in 1 .. Len(s) : Suits(s[i])
        BY <1>4, <1>8
      <3> QED
        BY <1>11, <1>12, <2>1, <3>1, JoinedFits
    <2>3. Primed(s \o t)
      BY <1>10, <1>12, <2>2, PrimedAfter
    <2>4. Opens(s \o t)
      BY <1>4, <1>9, <2>2, WaitAllIs DEF Opens
    <2> QED
      BY <2>2, <2>3, <2>4
  <1>13. CASE rest = <<>>
    <2>1. s \o rest = s
      BY <1>4, <1>13, ConcatEmptySeq DEF Chain
    <2> QED
      BY <1>2, <1>10, <2>1, PlainPrimed, CallKeeps
  <1>14. CASE rest = x
    BY <1>1, <1>2, <1>5, <1>9, <1>10, <1>12, <1>14, PlainPrimed, CallKeeps
  <1>15. CASE rest = y
    BY <1>1, <1>2, <1>6, <1>9, <1>10, <1>12, <1>15, PlainPrimed, CallKeeps
  <1>16. CASE rest = y \o DrawNow
    <2> DEFINE t == DrawNow
    <2>0. Fits(t) /\ t # <<>> /\ t[1].do \in {"wait", "draw"}
      BY DrawNowIs
    <2> HIDE DEF t
    <2>1. Follows(y[Len(y)], t[1])
      BY <1>1, <1>6, <2>0 DEF Follows
    <2>2. /\ Fits(y \o t) /\ y \o t # <<>> /\ Len(y \o t) = Len(y) + Len(t)
          /\ Len(y) \in Nat /\ Len(t) \in Nat \ {0}
          /\ (y \o t)[1] = IF y = <<>> THEN t[1] ELSE y[1]
          /\ \A i \in 1 .. Len(y) : (y \o t)[i] = y[i]
          /\ \A i \in 1 .. Len(t) : (y \o t)[Len(y) + i] = t[i]
          /\ \A i \in 1 .. Len(y) + Len(t) : i <= Len(y) \/ i - Len(y) \in 1 .. Len(t)
      <3>1. Chain(y) /\ \A i \in 1 .. Len(y) :
               Suits(y[i]) /\ y[i].do # "want" /\ y[i].do \notin {"draw", "arm"}
        BY <1>6, <1>8
      <3> QED
        BY <2>0, <2>1, <3>1, JoinedFits
    <2>3. 2 \in 1 .. Len(y) /\ y[2].do = "start"
      BY <1>1, <1>6
    <2>4. Primed(y \o t)
      BY <1>10, <2>2, <2>3, PrimedAfter
    <2>5. (y \o t)[1].do = "swap"
      BY <1>1, <1>6, <1>9, <2>2
    <2>6. rest = y \o t
      BY <1>16 DEF t
    <2> QED
      BY <1>2, <1>12, <2>2, <2>4, <2>5, <2>6, CallKeeps
  <1> QED
    BY <1>2, <1>13, <1>14, <1>15, <1>16

LEMMA WritesKeep == IInv /\ (WriteVRAM_DB \/ IdleScanline) => Called'
  <1> SUFFICES ASSUME IInv, WriteVRAM_DB \/ IdleScanline PROVE Called'
    OBVIOUS
  <1>1. ASSUME NEW v \in Contents, Call(<<[do |-> "VRAM", arg |-> v]>>)
        PROVE  Called'
    <2> DEFINE a == [do |-> "VRAM", arg |-> v]
    <2>1. a \in Instructions /\ a.do = "VRAM" /\ Wanting(a)
      BY DEF Instructions, Dos, Wanting
    <2>2. Call(<<a>>)
      BY <1>1
    <2> HIDE DEF a
    <2> QED
      BY <2>1, <2>2, OneFits, CallKeeps
  <1>2. CASE IdleScanline
    <2> DEFINE a == Do("snapshot")
    <2>1. a \in Instructions /\ a.do = "snapshot" /\ Wanting(a)
      BY DoWants DEF Dos, Waits
    <2>2. Call(<<a>>)
      BY <1>2 DEF IdleScanline
    <2> HIDE DEF a
    <2> QED
      BY <2>1, <2>2, OneFits, CallKeeps
  <1> QED
    BY <1>1, <1>2 DEF WriteVRAM_DB

LEMMA AccessesKeep == IInv /\ (AccessFB \/ ReadLine \/ SetRegister \/ StateReset) => Called'
  <1> SUFFICES ASSUME IInv, AccessFB \/ ReadLine \/ SetRegister \/ StateReset PROVE Called'
    OBVIOUS
  <1>1. ASSUME NEW a \in Instructions, Wanting(a), a.do \in Waits \ {"freeze", "quit"},
               a.do = "all" => TVMR \in Rotating, Call(<<WaitAll, a>>)
        PROVE  Called'
    <2>1. Follows(WaitAll, a)
      BY <1>1, WaitAllIs DEF Follows
    <2>2. Fits(<<WaitAll, a>>) /\ Primed(<<WaitAll, a>>) /\ Opens(<<WaitAll, a>>)
      BY <1>1, <2>1, WaitAllIs, WaitFits
    <2> QED
      BY <1>1, <2>2, CallKeeps
  <1>2. ASSUME NEW k \in {"poke", "peek"}, NEW r \in Row, Call(<<WaitAll, [do |-> k, arg |-> r]>>)
        PROVE  Called'
    <2> DEFINE a == [do |-> k, arg |-> r]
    <2>1. a \in Instructions /\ a.do = k /\ Wanting(a)
      BY DEF Instructions, Dos, Waits, Wanting, Row
    <2>2. Call(<<WaitAll, a>>)
      BY <1>2
    <2> HIDE DEF a
    <2>3. a.do \in Waits \ {"freeze", "quit"} /\ a.do # "all"
      BY <2>1 DEF Waits
    <2> QED
      BY <1>1, <2>1, <2>2, <2>3
  <1>3. CASE TVMR \in Rotating /\ Call(<<WaitAll, Do("all")>>)
    <2> DEFINE a == Do("all")
    <2>1. a \in Instructions /\ a.do = "all" /\ Wanting(a)
      BY DoWants DEF Dos, Waits
    <2>2. Call(<<WaitAll, a>>)
      BY <1>3
    <2> HIDE DEF a
    <2>3. a.do \in Waits \ {"freeze", "quit"}
      BY <2>1 DEF Waits
    <2> QED
      BY <1>1, <1>3, <2>1, <2>2, <2>3
  <1>4. ASSUME NEW r \in Row, Call(<<WaitRow(r), [do |-> "line", arg |-> r]>>)
        PROVE  Called'
    <2> DEFINE w == WaitRow(r)
               a == [do |-> "line", arg |-> r]
    <2>1. a \in Instructions /\ a.do = "line" /\ a.arg = r /\ Wanting(a)
      BY DEF Instructions, Dos, Waits, Wanting, Row
    <2>2. RowBand(r) + 1 \in 1 .. DrawNumBands
      BY BandAssumption, RowBandType DEF Bands
    <2>3. w \in Instructions /\ w.do = "wait" /\ w.arg = RowBand(r) + 1 /\ Wanting(w)
      BY <2>2, WaitIs DEF WaitRow
    <2>4. Call(<<w, a>>)
      BY <1>4
    <2> HIDE DEF a, w
    <2>5. Follows(w, a)
      BY <2>1, <2>3 DEF Follows
    <2>6. Fits(<<w, a>>) /\ Primed(<<w, a>>) /\ Opens(<<w, a>>)
      BY <2>1, <2>3, <2>5, WaitFits
    <2> QED
      BY <2>4, <2>6, CallKeeps
  <1>5. ASSUME NEW x \in Clips, Call(<<WaitAll, [do |-> "clip", arg |-> x]>>)
        PROVE  Called'
    <2> DEFINE a == [do |-> "clip", arg |-> x]
    <2>1. a \in Instructions /\ a.do = "clip" /\ Wanting(a)
      BY DEF Instructions, Dos, Waits, Wanting
    <2>2. Call(<<WaitAll, a>>)
      BY <1>5
    <2> HIDE DEF a
    <2>3. a.do \in Waits \ {"freeze", "quit"} /\ a.do # "all"
      BY <2>1 DEF Waits
    <2> QED
      BY <1>1, <2>1, <2>2, <2>3
  <1>6. ASSUME NEW k \in {"save", "load", "reset"}, Call(<<WaitAll, Do(k)>>)
        PROVE  Called'
    <2> DEFINE a == Do(k)
    <2>1. a \in Instructions /\ a.do = k /\ Wanting(a)
      BY DoWants DEF Dos, Waits
    <2>2. Call(<<WaitAll, a>>)
      BY <1>6
    <2> HIDE DEF a
    <2>3. a.do \in Waits \ {"freeze", "quit"} /\ a.do # "all"
      BY <2>1 DEF Waits
    <2> QED
      BY <1>1, <2>1, <2>2, <2>3
  <1> QED
    BY <1>2, <1>3, <1>4, <1>5, <1>6 DEF AccessFB, ReadLine, SetRegister, StateReset

LEMMA KillKeeps == IInv /\ Kill => Called'
  <1> SUFFICES ASSUME IInv, Kill PROVE Called'
    OBVIOUS
  <1> DEFINE a == Do("quit")
             b == Do("join")
             e == Do("want")
             f == Do("load")
             s == <<WaitAll, a, b>>
             t == <<e, WaitAll, f>>
  <1>1. /\ a \in Instructions /\ a.do = "quit" /\ Wanting(a)
        /\ b \in Instructions /\ b.do = "join" /\ Wanting(b)
        /\ e \in Instructions /\ e.do = "want" /\ Wanting(e)
        /\ f \in Instructions /\ f.do = "load" /\ Wanting(f)
    <2>1. {"quit", "join", "want", "load"}
             \subseteq Dos \ {"wait", "TVMR", "VRAM", "clip", "poke", "peek", "line"}
      BY DEF Dos, Waits
    <2> QED
      BY <2>1, DoWants
  <1>2. Call((IF DrawThread THEN s ELSE <<>>) \o t)
    BY DEF Kill, Stop
  <1> HIDE DEF a, b, e, f
  <1>3. Follows(WaitAll, a) /\ Follows(a, b) /\ Follows(b, e) /\ Follows(e, WaitAll) /\ Follows(WaitAll, f)
    BY <1>1, WaitAllIs DEF Follows, Waits
  <1>4. Chain(s) /\ Len(s) = 3 /\ s[1] = WaitAll /\ s[2] = a /\ s[3] = b
    BY <1>1, <1>3, WaitAllIs, Three
  <1>5. Chain(t) /\ Len(t) = 3 /\ t[1] = e /\ t[2] = WaitAll /\ t[3] = f
    BY <1>1, <1>3, WaitAllIs, Three
  <1> HIDE DEF s, t
  <1>6. \A i \in 1 .. 3 : i = 1 \/ i = 2 \/ i = 3
    OBVIOUS
  <1>7. s # <<>> /\ t # <<>>
    <2>1. ASSUME s = <<>> \/ t = <<>> PROVE FALSE
      BY <1>4, <1>5, <2>1, EmptySeq
    <2> QED
      BY <2>1
  <1>8. Fits(t) /\ Plain(t)
    BY <1>1, <1>5, <1>6, WaitAllIs DEF Fits, Ends, Suits, Plain
  <1>9. CASE ~DrawThread
    <2>1. (IF DrawThread THEN s ELSE <<>>) \o t = t
      BY <1>5, <1>9, ConcatEmptySeq DEF Chain
    <2>2. Opens(t)
      BY <1>1, <1>5, <1>9 DEF Opens
    <2> QED
      BY <1>2, <1>8, <2>1, <2>2, PlainPrimed, CallKeeps
  <1>10. CASE DrawThread
    <2>1. (IF DrawThread THEN s ELSE <<>>) \o t = s \o t
      BY <1>10
    <2>2. Chain(s) /\ \A i \in 1 .. Len(s) :
             Suits(s[i]) /\ s[i].do # "want" /\ s[i].do \notin {"draw", "freeze", "arm"}
      BY <1>1, <1>4, <1>6, <1>10, WaitAllIs DEF Suits
    <2>3. Follows(s[Len(s)], t[1])
      BY <1>3, <1>4, <1>5
    <2>4. /\ Fits(s \o t) /\ s \o t # <<>> /\ Len(s \o t) = Len(s) + Len(t)
          /\ Len(s) \in Nat /\ Len(t) \in Nat \ {0}
          /\ (s \o t)[1] = IF s = <<>> THEN t[1] ELSE s[1]
          /\ \A i \in 1 .. Len(s) : (s \o t)[i] = s[i]
          /\ \A i \in 1 .. Len(t) : (s \o t)[Len(s) + i] = t[i]
          /\ \A i \in 1 .. Len(s) + Len(t) : i <= Len(s) \/ i - Len(s) \in 1 .. Len(t)
      BY <1>7, <1>8, <2>2, <2>3, JoinedFits
    <2>5. Plain(s) /\ Primed(t)
      BY <1>8, <2>2, PlainPrimed DEF Plain
    <2>6. Primed(s \o t)
      BY <2>4, <2>5, PrimedAfter
    <2>7. Opens(s \o t)
      BY <1>4, <1>7, <2>4, WaitAllIs DEF Opens
    <2> QED
      BY <1>2, <2>1, <2>4, <2>6, <2>7, CallKeeps
  <1> QED
    BY <1>9, <1>10

LEMMA CallsKeep == IInv /\ MainCall => Called'
  BY UpdateKeeps, WriteRegKeeps, SetHBVBKeeps, WritesKeep, AccessesKeep, KillKeeps DEF MainCall

----------------------------------------------------------------------------
(* Instructions of main.                                                   *)

\* What the next instruction is, after one that main executes.
LEMMA Then ==
    ASSUME IInv, todo # <<>>, todo' = Tail(todo)
    PROVE  /\ Plan(todo)' /\ Wanting(Head(todo)) /\ Suits(Head(todo)) /\ Head(todo).do \in Dos
           /\ \A i \in 1 .. Len(todo') : Suits(todo'[i])
           /\ seen = Nothing
           /\ todo' # <<>> => Head(todo)' = todo'[1] /\ Follows(Head(todo), todo'[1])
                              /\ Suits(todo'[1])
           /\ Head(todo).do \in {"freeze", "arm", "publish", "quit"} => todo' # <<>>
  <1>1. Plan(todo)
    BY DEF IInv
  <1>2. \A i \in 1 .. Len(todo) : Suits(todo[i])
    BY DEF IInv, Setting
  <1>3. /\ Plan(todo)' /\ Len(todo) \in Nat \ {0} /\ Head(todo) = todo[1]
        /\ \A i \in 1 .. Len(todo') : todo'[i] = todo[i + 1] /\ i + 1 \in 1 .. Len(todo)
        /\ Head(todo) \in Instructions /\ Wanting(Head(todo))
        /\ todo' # <<>> => /\ Head(todo)' = todo'[1] /\ 1 \in 1 .. Len(todo')
                           /\ Follows(Head(todo), todo'[1])
        /\ Head(todo).do \in {"freeze", "arm", "publish", "quit"} => todo' # <<>>
    BY <1>1, Rest
  <1>4. 1 \in 1 .. Len(todo)
    BY <1>3
  <1>5. \A i \in 1 .. Len(todo') : Suits(todo'[i])
    BY <1>2, <1>3
  <1>6. Suits(Head(todo))
    BY <1>2, <1>3, <1>4
  <1>7. Head(todo).do \in Dos
    BY <1>3 DEF Instructions
  <1>8. seen = Nothing
    BY DEF IInv, Setting
  <1> QED
    BY <1>3, <1>5, <1>6, <1>7, <1>8

\* A drawing that is still to come keeps its DrawingActive.
LEMMA PrimedRest ==
    ASSUME IInv, todo # <<>>, todo' = Tail(todo),
           \/ DrawingActive'
           \/ DrawingActive' = DrawingActive /\ Head(todo).do # "start"
           \/ Head(todo).do \in {"draw", "arm"}
           \/ todo' = <<>>
           \/ todo'[1].do = "start"
    PROVE  Primed(todo)'
  <1>1. Plan(todo) /\ Primed(todo)
    BY DEF IInv, Setting
  <1>2. /\ Len(todo) \in Nat \ {0} /\ Head(todo) = todo[1]
        /\ Len(todo') = Len(todo) - 1
        /\ \A i \in 1 .. Len(todo') : todo'[i] = todo[i + 1] /\ i + 1 \in 1 .. Len(todo)
    BY <1>1, Rest
  <1> DEFINE n == Len(todo)
  <1>3. n \in Nat \ {0} /\ Len(todo') = n - 1 /\ \A i \in 1 .. n - 1 : todo'[i] = todo[i + 1]
    BY <1>2
  <1>4. \A i, j \in 1 .. n :
          todo[i].do \in {"draw", "arm"} /\ todo[j].do \in {"draw", "freeze", "arm"} => j <= i
    BY <1>1 DEF Plan, Chain
  <1>5. DrawingActive \/ \A i \in 1 .. n : todo[i].do \in {"draw", "freeze", "arm"} =>
                        \E j \in 1 .. i - 1 : todo[j].do = "start"
    BY <1>1 DEF Primed
  <1>6. CASE DrawingActive'
    BY <1>6 DEF Primed
  <1>7. CASE DrawingActive' = DrawingActive /\ Head(todo).do # "start" /\ ~DrawingActive
    <2> HIDE DEF n
    <2> SUFFICES ASSUME NEW i \in 1 .. n - 1, todo'[i].do \in {"draw", "freeze", "arm"}
                 PROVE  \E j \in 1 .. i - 1 : todo'[j].do = "start"
      BY <1>3 DEF Primed
    <2>1. i + 1 \in 1 .. n /\ todo[i + 1] = todo'[i]
      BY <1>3
    <2>2. PICK j \in 1 .. (i + 1) - 1 : todo[j].do = "start"
      BY <1>5, <1>7, <2>1
    <2>3. j # 1
      BY <1>2, <1>7, <2>2
    <2>4. j - 1 \in 1 .. i - 1 /\ j - 1 \in 1 .. n - 1 /\ (j - 1) + 1 = j
      BY <1>3, <2>2, <2>3
    <2>5. todo'[j - 1] = todo[(j - 1) + 1]
      BY <1>3, <2>4
    <2>6. todo'[j - 1].do = "start"
      BY <2>2, <2>4, <2>5
    <2> QED
      BY <2>4, <2>6
  <1>8. CASE Head(todo).do \in {"draw", "arm"}
    <2> HIDE DEF n
    <2>1. ASSUME NEW i \in 1 .. n - 1, todo'[i].do \in {"draw", "freeze", "arm"} PROVE FALSE
      <3>1. i + 1 \in 1 .. n /\ todo[i + 1] = todo'[i] /\ 1 \in 1 .. n /\ i \in Nat \ {0}
        BY <1>3
      <3>2. i + 1 <= 1
        BY <1>2, <1>4, <1>8, <2>1, <3>1
      <3> QED
        BY <3>1, <3>2
    <2> QED
      BY <1>3, <2>1 DEF Primed
  <1>9. CASE todo' = <<>>
    <2>1. Len(todo') = 0
      BY <1>9, EmptySeq
    <2>2. \A i \in 1 .. 0 : FALSE
      OBVIOUS
    <2> QED
      BY <2>1, <2>2 DEF Primed
  <1>10. CASE todo'[1].do = "start"
    <2> HIDE DEF n
    <2>1. ASSUME NEW i \in 1 .. n - 1, todo'[i].do \in {"draw", "freeze", "arm"}
          PROVE  \E j \in 1 .. i - 1 : todo'[j].do = "start"
      <3>1. i # 1
        BY <1>10, <2>1
      <3>2. 1 \in 1 .. i - 1
        BY <1>3, <3>1
      <3> QED
        BY <1>10, <3>2
    <2> QED
      BY <1>3, <2>1 DEF Primed
  <1> QED
    BY <1>6, <1>7, <1>8, <1>9, <1>10

\* The parts of the invariant that speak of what main does next, for an instruction
\* after which main neither hands over nor ends the thread.
LEMMA CalmAfter ==
    ASSUME IInv, todo # <<>>, todo' = Tail(todo), seen' = seen \/ todo' = <<>>,
           Head(todo).do \notin {"publish", "post", "join"},
           todo' # <<>> => todo'[1].do \in {"wait", "start", "stop", "TVMR"},
           DrawThread' = DrawThread, DrawThreadWanted' = DrawThreadWanted,
           TVMR' = TVMR \/ todo' = <<>>,
           \/ DrawingActive'
           \/ DrawingActive' = DrawingActive /\ Head(todo).do # "start"
           \/ Head(todo).do \in {"draw", "arm"}
           \/ todo' = <<>>
           \/ todo'[1].do = "start",
           UNCHANGED <<DrawJobActive, syncVars, tpc, band>>
    PROVE  Plan(todo)' /\ Setting' /\ Ready' /\ Thread'
  <1>1. /\ Plan(todo)' /\ (\A i \in 1 .. Len(todo') : Suits(todo'[i])) /\ seen = Nothing
        /\ todo' # <<>> => Head(todo)' = todo'[1]
    BY Then
  <1>2. Primed(todo)'
    BY PrimedRest
  <1>3. (\A i \in 1 .. Len(todo) : Suits(todo[i]))'
    <2>1. CASE TVMR' = TVMR
      BY <1>1, <2>1 DEF Suits
    <2>2. CASE todo' = <<>>
      <3>1. Len(todo') = 0
        BY <2>2, EmptySeq
      <3>2. \A i \in 1 .. 0 : FALSE
        OBVIOUS
      <3> QED
        BY <3>1, <3>2
    <2> QED
      BY <2>1, <2>2
  <1>4. Setting'
    BY <1>1, <1>2, <1>3 DEF IInv, Setting
  <1>5. Ready'
    BY <1>1 DEF Ready, Doing, Waits
  <1>6. Doing({"publish", "post"})' = FALSE /\ Doing({"join"})' = FALSE
        /\ Doing({"publish", "post"}) = FALSE /\ Doing({"join"}) = FALSE
    BY <1>1 DEF Doing
  <1>7. (Resting' <=> Resting) /\ (Drawing' <=> Drawing)
    BY DEF Resting, Drawing
  <1>8. Thread'
    BY <1>6, <1>7 DEF IInv, Thread
  <1> QED
    BY <1>1, <1>4, <1>5, <1>8

\* The framebuffers keep their type.
LEMMA FBTypes ==
    ASSUME TypeOK, NEW w \in {0, 1}
    PROVE  /\ Filled \in [Row -> Seq(Paint)]
           /\ [FB EXCEPT ![w] = Filled] \in [{0, 1} -> [Row -> Seq(Paint)]]
           /\ [x \in {0, 1} |-> Filled] \in [{0, 1} -> [Row -> Seq(Paint)]]
           /\ \A r \in Row : [FB EXCEPT ![w][r] = <<>>] \in [{0, 1} -> [Row -> Seq(Paint)]]
           /\ \A b \in Paint : /\ [FB EXCEPT ![w] = [r \in Row |-> Append(@[r], b)]]
                                     \in [{0, 1} -> [Row -> Seq(Paint)]]
                               /\ \A r \in Row : [FB EXCEPT ![w][r] = Append(@, b)]
                                     \in [{0, 1} -> [Row -> Seq(Paint)]]
  <1>0. FB \in [{0, 1} -> [Row -> Seq(Paint)]]
    BY DEF TypeOK
  <1>1. Filled \in [Row -> Seq(Paint)]
    <2>1. <<>> \in Seq(Paint)
      BY EmptySeq
    <2> QED
      BY <2>1 DEF Filled
  <1>2. \A r \in Row : [FB EXCEPT ![w][r] = <<>>] \in [{0, 1} -> [Row -> Seq(Paint)]]
    <2>1. <<>> \in Seq(Paint)
      BY EmptySeq
    <2> QED
      BY <1>0, <2>1
  <1>3. \A b \in Paint, r \in Row : Append(FB[w][r], b) \in Seq(Paint)
    BY <1>0, AppendProperties
  <1>4. \A b \in Paint, r \in Row : [FB EXCEPT ![w][r] = Append(@, b)]
                                     \in [{0, 1} -> [Row -> Seq(Paint)]]
    BY <1>0, <1>3
  <1>5. ASSUME NEW b \in Paint
        PROVE  [FB EXCEPT ![w] = [r \in Row |-> Append(@[r], b)]] \in [{0, 1} -> [Row -> Seq(Paint)]]
    <2>1. [r \in Row |-> Append(FB[w][r], b)] \in [Row -> Seq(Paint)]
      BY <1>3
    <2> QED
      BY <1>0, <2>1
  <1> QED
    BY <1>0, <1>1, <1>2, <1>4, <1>5

LEMMA BrushType ==
    ASSUME TypeOK, NEW l \in Contents
    PROVE  Brush(l) \in Paint /\ ClipAfter[l][clip] \in Clips
  BY DataAssumption DEF TypeOK, Brush, Paint

\* The instructions that access what the threads share.
LEMMA AccessKeeps == IInv /\ Access => IInv'
  <1> SUFFICES ASSUME IInv, Access PROVE IInv'
    OBVIOUS
  <1> DEFINE k == Head(todo).do
  <1>1. /\ todo # <<>> /\ todo' = Tail(todo)
        /\ k \in {"draw", "swap", "fill", "poke", "peek", "line", "all", "save", "clip", "reset", "load"}
        /\ UNCHANGED <<lifeVars, DrawJobActive, DVRAM, DrawVRAM, DrawCmdSnapshot, syncVars, threadVars>>
    BY DEF Access, Executes
  <1>2. /\ Wanting(Head(todo))
        /\ todo' # <<>> => Follows(Head(todo), todo'[1])
        /\ seen = Nothing
    BY <1>1, Then
  <1>3. /\ k \notin {"draw", "swap", "fill"} => todo' = <<>>
        /\ k \in {"swap", "fill"} => todo' = <<>> \/ todo'[1].do = "start"
        /\ todo' # <<>> => todo'[1].do \in {"wait", "start", "stop", "TVMR"}
    BY <1>1, <1>2 DEF Follows
  <1>4. k # "line" => ~DrawJobActive
    BY <1>1 DEF IInv, Ready, Doing, Waits
  <1>5. ~DrawJobActive => tpc \in {"none", "wait"} /\ DVRAM = "VRAM" /\ DrawTVMR = TVMR
    <2>1. ~DrawThreadQuit
      BY <1>1 DEF IInv, Thread, Doing
    <2> QED
      BY <2>1 DEF IInv, Thread, Resting, Copies, TypeOK
  <1> HIDE DEF k
  <1>6. /\ TypeOK'
        /\ TVMR' = TVMR \/ todo' = <<>>
        /\ seen' = seen \/ todo' = <<>>
        /\ \/ DrawingActive' = DrawingActive /\ k # "start"
           \/ k \in {"draw", "arm"}
           \/ todo' = <<>>
           \/ todo'[1].do = "start"
        /\ k # "line" => DrawTVMR' = TVMR'
        /\ k = "line" => UNCHANGED <<clip, DrawTVMR, TVMR>>
    <2>0. TypeOK
      BY DEF IInv
    <2>1. CASE /\ Executes("draw")
               /\ FB' = [FB EXCEPT ![FBDrawWhich] = [r \in Row |-> Append(@[r], Brush(VRAMCmdSnapshot))]]
               /\ clip' = ClipAfter[VRAMCmdSnapshot][clip]
               /\ DrawingActive' = FALSE
               /\ UNCHANGED <<FBDrawWhich, VRAM, VRAMCmdSnapshot, TVMR, DrawTVMR, seen>>
      <3>1. k = "draw"
        BY <2>1 DEF Executes, k
      <3>2. FBDrawWhich \in {0, 1} /\ VRAMCmdSnapshot \in Contents
        BY <2>0 DEF TypeOK
      <3>3. FB' \in [{0, 1} -> [Row -> Seq(Paint)]] /\ clip' \in Clips
        BY <2>0, <2>1, <3>2, FBTypes, BrushType
      <3>4. TypeOK'
        BY <1>1, <2>0, <2>1, <3>3 DEF TypeOK
      <3> QED
        BY <1>4, <1>5, <2>1, <3>1, <3>4
    <2>2. CASE /\ Executes("swap")
               /\ FBDrawWhich' = 1 - FBDrawWhich
               /\ FB' = [FB EXCEPT ![FBDrawWhich'] = Filled]
               /\ VRAMCmdSnapshot' \in {VRAM, VRAMCmdSnapshot}
               /\ DrawingActive' = FALSE
               /\ UNCHANGED <<VRAM, TVMR, DrawTVMR, clip, seen>>
      <3>1. k = "swap"
        BY <2>2 DEF Executes, k
      <3>2. FBDrawWhich' \in {0, 1}
        BY <2>0, <2>2 DEF TypeOK
      <3>3. FB' \in [{0, 1} -> [Row -> Seq(Paint)]]
        BY <2>0, <2>2, <3>2, FBTypes
      <3>4. TypeOK'
        BY <1>1, <2>0, <2>2, <3>2, <3>3 DEF TypeOK
      <3> QED
        BY <1>3, <1>4, <1>5, <2>2, <3>1, <3>4
    <2>3. CASE /\ Executes("fill")
               /\ FB' = [FB EXCEPT ![FBDrawWhich] = Filled]
               /\ UNCHANGED <<cpuVars, DrawTVMR, clip, seen>>
      <3>1. k = "fill"
        BY <2>3 DEF Executes, k
      <3>2. FBDrawWhich \in {0, 1}
        BY <2>0 DEF TypeOK
      <3>3. FB' \in [{0, 1} -> [Row -> Seq(Paint)]]
        BY <2>0, <2>3, <3>2, FBTypes
      <3>4. TypeOK'
        BY <1>1, <2>0, <2>3, <3>3 DEF TypeOK
      <3> QED
        BY <1>3, <1>4, <1>5, <2>3, <3>1, <3>4
    <2>4. CASE /\ Executes("poke")
               /\ FB' = [FB EXCEPT ![FBDrawWhich][arg] = <<>>]
               /\ UNCHANGED <<cpuVars, DrawTVMR, clip, seen>>
      <3>1. k = "poke"
        BY <2>4 DEF Executes, k
      <3>2. FBDrawWhich \in {0, 1} /\ arg \in Row
        BY <1>2, <2>0, <3>1 DEF TypeOK, Wanting, arg, k
      <3>3. FB' \in [{0, 1} -> [Row -> Seq(Paint)]]
        BY <2>0, <2>4, <3>2, FBTypes
      <3>4. TypeOK'
        BY <1>1, <2>0, <2>4, <3>3 DEF TypeOK
      <3> QED
        BY <1>3, <1>4, <1>5, <2>4, <3>1, <3>4
    <2>5. CASE /\ Executes("peek") \/ Executes("line") \/ Executes("all") \/ Executes("save")
               /\ UNCHANGED <<cpuVars, DrawTVMR, FB, clip>>
      <3>1. k \in {"peek", "line", "all", "save"}
        BY <2>5 DEF Executes, k
      <3>2. TypeOK'
        BY <1>1, <2>0, <2>5 DEF TypeOK
      <3> QED
        BY <1>3, <1>4, <1>5, <2>5, <3>1, <3>2
    <2>6. CASE /\ Executes("clip")
               /\ clip' = arg
               /\ UNCHANGED <<cpuVars, DrawTVMR, FB, seen>>
      <3>1. k = "clip"
        BY <2>6 DEF Executes, k
      <3>2. arg \in Clips
        BY <1>2, <3>1 DEF Wanting, arg, k
      <3>3. TypeOK'
        BY <1>1, <2>0, <2>6, <3>2 DEF TypeOK
      <3> QED
        BY <1>3, <1>4, <1>5, <2>6, <3>1, <3>3
    <2>7. CASE /\ Executes("reset")
               /\ FBDrawWhich' = 0 /\ DrawingActive' = FALSE
               /\ TVMR' \in Modes \ Rotating /\ DrawTVMR' = Synced(TVMR')
               /\ UNCHANGED <<VRAM, VRAMCmdSnapshot, FB, clip, seen>>
      <3>1. k = "reset"
        BY <2>7 DEF Executes, k
      <3>2. DrawTVMR' = TVMR'
        BY <1>4, <2>7, <3>1 DEF Synced
      <3>3. TypeOK'
        BY <1>1, <2>0, <2>7, <3>2 DEF TypeOK
      <3> QED
        BY <1>3, <1>4, <2>7, <3>1, <3>2, <3>3
    <2>8. CASE /\ Executes("load")
               /\ FB' = [w \in {0, 1} |-> Filled] /\ clip' \in Clips
               /\ FBDrawWhich' \in {0, 1} /\ DrawingActive' \in BOOLEAN
               /\ VRAM' \in Contents /\ VRAMCmdSnapshot' \in Contents
               /\ TVMR' \in Modes /\ DrawTVMR' = Synced(TVMR')
               /\ UNCHANGED seen
      <3>1. k = "load"
        BY <2>8 DEF Executes, k
      <3>2. DrawTVMR' = TVMR'
        BY <1>4, <2>8, <3>1 DEF Synced
      <3>3. FB' \in [{0, 1} -> [Row -> Seq(Paint)]]
        BY <2>0, <2>8, FBTypes
      <3>4. TypeOK'
        BY <1>1, <2>0, <2>8, <3>2, <3>3 DEF TypeOK
      <3> QED
        BY <1>3, <1>4, <2>8, <3>1, <3>2, <3>4
    <2> QED
      BY <2>1, <2>2, <2>3, <2>4, <2>5, <2>6, <2>7, <2>8 DEF Access
  <1>7. Plan(todo)' /\ Setting' /\ Ready' /\ Thread'
    <2>1. k \notin {"publish", "post", "join"}
      BY <1>1
    <2> QED
      BY <1>1, <1>3, <1>6, <2>1, CalmAfter DEF k
  <1>8. Pass' /\ Copies'
    <2>1. CASE k = "line"
      BY <1>1, <1>6, <2>1 DEF IInv, Pass, Copies
    <2>2. CASE k # "line"
      BY <1>1, <1>4, <1>5, <1>6, <2>2 DEF Pass, Copies
    <2> QED
      BY <2>1, <2>2
  <1> QED
    BY <1>6, <1>7, <1>8 DEF IInv

\* The instructions that write what the thread has copies of.
LEMMA RegisterKeeps == IInv /\ Register => IInv'
  <1> SUFFICES ASSUME IInv, Register PROVE IInv'
    OBVIOUS
  <1> DEFINE k == Head(todo).do
  <1>1. /\ todo # <<>> /\ todo' = Tail(todo)
        /\ k \in {"TVMR", "VRAM", "snapshot", "start", "stop"}
        /\ UNCHANGED <<lifeVars, DrawJobActive, DVRAM, DrawVRAM, DrawCmdSnapshot, syncVars, threadVars,
                       FBDrawWhich, FB, clip, seen>>
    BY DEF Register, Executes
  <1>2. Wanting(Head(todo)) /\ (todo' # <<>> => Follows(Head(todo), todo'[1]))
    BY <1>1, Then
  <1>3. /\ k # "start" => todo' = <<>>
        /\ todo' # <<>> => todo'[1].do \in {"wait", "draw"}
        /\ todo' # <<>> /\ todo'[1].do = "draw" => ~DrawJobActive /\ k = "start"
    <2>1. todo' # <<>> => Suits(todo'[1])
      BY <1>1, Then
    <2>2. Suits(todo'[1]) /\ todo'[1].do = "draw" => ~DrawJobActive
      BY DEF IInv, Setting, Thread, Suits
    <2> QED
      BY <1>1, <1>2, <2>1, <2>2 DEF Follows
  <1> HIDE DEF k
  <1>4. TypeOK' /\ (~DrawJobActive /\ DrawTVMR = TVMR => DrawTVMR' = TVMR')
        /\ (TVMR' = TVMR \/ todo' = <<>>)
        /\ (DrawingActive' \/ (DrawingActive' = DrawingActive /\ k # "start") \/ todo' = <<>>)
    <2>0. TypeOK
      BY DEF IInv
    <2>1. CASE /\ Executes("TVMR") /\ TVMR' = arg /\ DrawTVMR' = Synced(arg)
               /\ UNCHANGED <<VRAM, VRAMCmdSnapshot, DrawingActive>>
      <3>1. k = "TVMR" /\ arg \in Modes
        BY <1>2, <2>1 DEF Executes, Wanting, arg, k
      <3>2. TypeOK'
        BY <1>1, <2>0, <2>1, <3>1 DEF TypeOK, Synced
      <3> QED
        BY <1>3, <2>1, <3>1, <3>2 DEF Synced
    <2>2. CASE /\ Executes("VRAM") /\ VRAM' = arg
               /\ UNCHANGED <<TVMR, DrawTVMR, VRAMCmdSnapshot, DrawingActive>>
      <3>1. k = "VRAM" /\ arg \in Contents
        BY <1>2, <2>2 DEF Executes, Wanting, arg, k
      <3>2. TypeOK'
        BY <1>1, <2>0, <2>2, <3>1 DEF TypeOK
      <3> QED
        BY <1>3, <2>2, <3>1, <3>2
    <2>3. CASE /\ Executes("snapshot") /\ VRAMCmdSnapshot' = VRAM
               /\ UNCHANGED <<TVMR, DrawTVMR, VRAM, DrawingActive>>
      <3>1. k = "snapshot"
        BY <2>3 DEF Executes, k
      <3>2. TypeOK'
        BY <1>1, <2>0, <2>3 DEF TypeOK
      <3> QED
        BY <1>3, <2>3, <3>1, <3>2
    <2>4. CASE /\ Executes("start") /\ DrawingActive' = TRUE
               /\ UNCHANGED <<TVMR, DrawTVMR, VRAM, VRAMCmdSnapshot>>
      <3>2. TypeOK'
        BY <1>1, <2>0, <2>4 DEF TypeOK
      <3> QED
        BY <2>4, <3>2
    <2>5. CASE /\ Executes("stop") /\ DrawingActive' = FALSE
               /\ UNCHANGED <<TVMR, DrawTVMR, VRAM, VRAMCmdSnapshot>>
      <3>1. k = "stop"
        BY <2>5 DEF Executes, k
      <3>2. TypeOK'
        BY <1>1, <2>0, <2>5 DEF TypeOK
      <3> QED
        BY <1>3, <2>5, <3>1, <3>2
    <2> QED
      BY <2>1, <2>2, <2>3, <2>4, <2>5 DEF Register
  <1>5. Plan(todo)' /\ (\A i \in 1 .. Len(todo') : Suits(todo'[i])) /\ seen = Nothing
        /\ (todo' # <<>> => Head(todo)' = todo'[1])
    BY <1>1, Then
  <1>6. Primed(todo)'
    BY <1>1, <1>4, PrimedRest DEF k
  <1>7. (\A i \in 1 .. Len(todo) : Suits(todo[i]))'
    <2>1. CASE TVMR' = TVMR
      BY <1>1, <1>5, <2>1 DEF Suits
    <2>2. CASE todo' = <<>>
      <3>1. Len(todo') = 0
        BY <2>2, EmptySeq
      <3>2. \A i \in 1 .. 0 : FALSE
        OBVIOUS
      <3> QED
        BY <3>1, <3>2
    <2> QED
      BY <1>4, <2>1, <2>2
  <1>8. Setting'
    BY <1>1, <1>5, <1>6, <1>7 DEF IInv, Setting
  <1>9. Ready'
    BY <1>1, <1>3, <1>5 DEF Ready, Doing, Waits
  <1>10. Thread'
    <2>1. Doing({"publish", "post"})' = FALSE /\ Doing({"join"})' = FALSE
          /\ Doing({"publish", "post"}) = FALSE /\ Doing({"join"}) = FALSE
      BY <1>1, <1>3, <1>5 DEF Doing, k
    <2>2. (Resting' <=> Resting) /\ (Drawing' <=> Drawing)
      BY <1>1 DEF Resting, Drawing
    <2> QED
      BY <1>1, <2>1, <2>2 DEF IInv, Thread
  <1>11. Pass' /\ Copies'
    BY <1>1, <1>4 DEF IInv, Pass, Copies, Register
  <1> QED
    BY <1>4, <1>5, <1>8, <1>9, <1>10, <1>11 DEF IInv

\* The wait for bands.
LEMMA WaitKeeps == IInv /\ WaitDrawThreadBands => IInv'
  <1> SUFFICES ASSUME IInv, WaitDrawThreadBands PROVE IInv'
    OBVIOUS
  <1>1. /\ todo # <<>> /\ todo' = Tail(todo) /\ Head(todo).do = "wait" /\ arg = Head(todo).arg
        /\ UNCHANGED <<lifeVars, DrawVRAM, DrawCmdSnapshot, syncVars, threadVars, cpuVars, FB, clip, seen>>
    BY DEF WaitDrawThreadBands, Executes, arg
  <1>2. /\ \/ ~DrawJobActive /\ UNCHANGED <<DrawJobActive, DVRAM, DrawTVMR>>
           \/ /\ DrawJobActive /\ DrawBandsDone >= arg
              /\ IF arg >= DrawNumBands THEN CaughtUp(arg)
                                        ELSE UNCHANGED <<DrawJobActive, DVRAM, DrawTVMR>>
    BY DEF WaitDrawThreadBands
  <1>3. /\ Plan(todo)' /\ Wanting(Head(todo)) /\ (\A i \in 1 .. Len(todo') : Suits(todo'[i]))
        /\ seen = Nothing
        /\ todo' # <<>> => Head(todo)' = todo'[1] /\ Follows(Head(todo), todo'[1])
    BY <1>1, Then
  <1>4. TypeOK'
    BY ZenonT(60), <1>1, <1>2 DEF IInv, TypeOK, CaughtUp
  <1>5. Setting'
    <2>1. Primed(todo)'
      BY <1>1, PrimedRest
    <2>2. (\A i \in 1 .. Len(todo) : Suits(todo[i]))'
      BY <1>1, <1>3 DEF Suits
    <2> QED
      BY <1>1, <1>3, <2>1, <2>2 DEF IInv, Setting
  <1>6. /\ todo' # <<>> => \/ todo'[1].do \in Waits /\ arg = DrawNumBands
                           \/ todo'[1].do = "line" /\ arg = RowBand(todo'[1].arg) + 1
        /\ arg \in 1 .. DrawNumBands
    BY <1>1, <1>3 DEF Follows, Wanting
  <1>7. arg = DrawNumBands => ~DrawJobActive'
    BY <1>2, BandAssumption DEF CaughtUp
  <1>8. Ready'
    <2>1. CASE todo' = <<>>
      BY <2>1 DEF Ready, Doing
    <2>2. CASE todo' # <<>> /\ todo'[1].do \in Waits
      <3>1. ~DrawJobActive' /\ todo'[1].do # "line"
        BY <1>6, <1>7, <2>2 DEF Waits
      <3> QED
        BY <1>3, <2>2, <3>1 DEF Ready, Doing, Waits
    <2>3. CASE todo' # <<>> /\ todo'[1].do = "line" /\ arg = RowBand(todo'[1].arg) + 1
      <3>1. DrawJobActive' => DrawBandsDone' >= arg
        BY <1>1, <1>2 DEF CaughtUp
      <3> QED
        BY <1>3, <2>3, <3>1 DEF Ready, Doing, Waits, arg
    <2> QED
      BY <1>6, <2>1, <2>2, <2>3
  <1>9. Doing({"publish", "post", "join"})' = FALSE /\ Doing({"publish", "post"})' = FALSE
        /\ Doing({"join"})' = FALSE /\ Doing({"publish", "post", "join"}) = FALSE
    BY <1>1, <1>3, <1>6 DEF Doing, Waits
  <1>10. Thread'
    <2>1. ~DrawThreadQuit /\ ~DrawThreadQuit'
      BY <1>1, <1>9 DEF IInv, Thread, Doing
    <2>2. CASE DrawJobActive' = DrawJobActive
      <3>1. (Resting' <=> Resting) /\ (Drawing' <=> Drawing)
        BY <1>1 DEF Resting, Drawing
      <3> QED
        BY <1>1, <1>9, <2>1, <2>2, <3>1 DEF IInv, Thread, Doing
    <2>3. CASE DrawJobActive /\ ~DrawJobActive' /\ DrawBandsDone >= DrawNumBands
      <3>1. Drawing
        BY <1>9, <2>1, <2>3 DEF IInv, Thread, Doing
      <3>2. Resting
        <4>1. band \in Nat /\ band <= DrawNumBands - 1
          BY BandAssumption DEF IInv, TypeOK, Bands
        <4> QED
          BY <2>3, <3>1, <4>1, BandAssumption DEF Drawing
      <3> QED
        BY <1>1, <2>1, <2>3, <3>2 DEF IInv, Thread, Resting
    <2>4. arg >= DrawNumBands => arg = DrawNumBands
      BY <1>6, BandAssumption
    <2> QED
      BY <1>2, <2>2, <2>3, <2>4 DEF CaughtUp
  <1>11. Pass' /\ Copies'
    BY <1>1, <1>2 DEF IInv, Pass, Copies, CaughtUp
  <1> QED
    BY <1>3, <1>4, <1>5, <1>8, <1>10, <1>11 DEF IInv

\* The hand-over.
LEMMA FreezeKeeps == IInv /\ FreezeVRAM => IInv'
  <1> SUFFICES ASSUME IInv, FreezeVRAM PROVE IInv'
    OBVIOUS
  <1>1. todo # <<>> /\ todo' = Tail(todo) /\ Head(todo).do = "freeze"
    BY DEF FreezeVRAM, Executes
  <1>2. /\ DrawThread' = TRUE /\ tpc' = IF DrawThread THEN tpc ELSE "wait"
        /\ DrawVRAM' = VRAM /\ DrawCmdSnapshot' = VRAMCmdSnapshot
        /\ UNCHANGED <<DrawThreadWanted, DrawJobActive, DrawTVMR, DVRAM, syncVars, regs, band, row,
                       cpuVars, FB, clip, seen>>
    BY DEF FreezeVRAM
  <1>3. /\ Plan(todo)' /\ (\A i \in 1 .. Len(todo') : Suits(todo'[i])) /\ Suits(Head(todo))
        /\ seen = Nothing /\ todo' # <<>> /\ Head(todo)' = todo'[1] /\ Follows(Head(todo), todo'[1])
    BY <1>1, Then
  <1>4. todo'[1].do = "arm"
    BY <1>1, <1>3 DEF Follows, Waits
  <1>5. ~DrawJobActive /\ ~DrawThreadQuit /\ (DrawThread => Resting) /\ DrawThreadSem = 0
    BY <1>1 DEF IInv, Ready, Thread, Resting, Doing, Waits
  <1>6. TypeOK'
    BY <1>2 DEF IInv, TypeOK
  <1>7. Setting'
    <2>1. Primed(todo)'
      BY <1>1, <1>2, PrimedRest
    <2>2. (\A i \in 1 .. Len(todo) : Suits(todo[i]))'
      BY <1>2, <1>3 DEF Suits
    <2> QED
      BY <1>1, <1>2, <1>3, <2>1, <2>2 DEF IInv, Setting, Suits
  <1>8. Ready'
    BY <1>2, <1>3, <1>4, <1>5 DEF Ready, Doing, Waits
  <1>9. Thread'
    BY <1>2, <1>5 DEF Thread, Resting
  <1>10. Pass' /\ Copies'
    BY <1>2, <1>5 DEF IInv, Pass, Copies, Resting
  <1> QED
    BY <1>3, <1>6, <1>7, <1>8, <1>9, <1>10 DEF IInv

LEMMA ArmKeeps == IInv /\ Arm => IInv'
  <1> SUFFICES ASSUME IInv, Arm PROVE IInv'
    OBVIOUS
  <1>1. todo # <<>> /\ todo' = Tail(todo) /\ Head(todo).do = "arm"
    BY DEF Arm, Executes
  <1>2. /\ DrawingActive' = FALSE /\ DVRAM' = "DrawVRAM" /\ DrawJobActive' = TRUE
        /\ UNCHANGED <<lifeVars, DrawTVMR, DrawVRAM, DrawCmdSnapshot, syncVars, threadVars, FBDrawWhich,
                       VRAM, VRAMCmdSnapshot, TVMR, FB, clip, seen>>
    BY DEF Arm
  <1>3. /\ Plan(todo)' /\ (\A i \in 1 .. Len(todo') : Suits(todo'[i]))
        /\ seen = Nothing /\ todo' # <<>> /\ Head(todo)' = todo'[1] /\ Follows(Head(todo), todo'[1])
    BY <1>1, Then
  <1>4. todo'[1].do = "publish"
    BY <1>1, <1>3 DEF Follows, Waits
  <1>5. ~DrawJobActive /\ ~DrawThreadQuit /\ Resting /\ DrawThread
    BY <1>1 DEF IInv, Ready, Thread, Resting, Doing
  <1>6. TypeOK'
    BY <1>2 DEF IInv, TypeOK
  <1>7. Setting'
    <2>1. Primed(todo)'
      BY <1>1, <1>2, PrimedRest
    <2>2. (\A i \in 1 .. Len(todo) : Suits(todo[i]))'
      BY <1>2, <1>3 DEF Suits
    <2> QED
      BY <1>1, <1>2, <1>3, <2>1, <2>2 DEF IInv, Setting
  <1>8. Ready'
    BY <1>2, <1>3, <1>4 DEF Ready, Doing, Waits
  <1>9. Thread'
    BY <1>2, <1>3, <1>4, <1>5 DEF Thread, Resting, Doing
  <1>10. Pass' /\ Copies'
    BY <1>2 DEF IInv, Pass, Copies
  <1> QED
    BY <1>3, <1>6, <1>7, <1>8, <1>9, <1>10 DEF IInv

LEMMA PublishKeeps == IInv /\ Publish => IInv'
  <1> SUFFICES ASSUME IInv, Publish PROVE IInv'
    OBVIOUS
  <1>1. todo # <<>> /\ todo' = Tail(todo) /\ Head(todo).do = "publish"
    BY DEF Publish, Executes
  <1>2. /\ DrawBandsDone' = 0
        /\ UNCHANGED <<lifeVars, jobVars, DrawThreadSem, DrawThreadQuit, threadVars, cpuVars, FB, clip, seen>>
    BY DEF Publish
  <1>3. /\ Plan(todo)' /\ (\A i \in 1 .. Len(todo') : Suits(todo'[i]))
        /\ seen = Nothing /\ todo' # <<>> /\ Head(todo)' = todo'[1] /\ Follows(Head(todo), todo'[1])
    BY <1>1, Then
  <1>4. todo'[1].do = "post"
    BY <1>1, <1>3 DEF Follows, Waits
  <1>5. DrawJobActive /\ ~DrawThreadQuit /\ Resting /\ DrawThread
    BY <1>1 DEF IInv, Ready, Thread, Resting, Doing
  <1>6. TypeOK'
    BY <1>2, BandAssumption DEF IInv, TypeOK
  <1>7. Setting'
    <2>1. Primed(todo)'
      BY <1>1, <1>2, PrimedRest
    <2>2. (\A i \in 1 .. Len(todo) : Suits(todo[i]))'
      BY <1>2, <1>3 DEF Suits
    <2> QED
      BY <1>1, <1>2, <1>3, <2>1, <2>2 DEF IInv, Setting
  <1>8. Ready'
    BY <1>2, <1>3, <1>4, <1>5 DEF Ready, Doing, Waits
  <1>9. Thread'
    BY <1>2, <1>3, <1>4, <1>5 DEF Thread, Resting, Doing
  <1>10. Pass' /\ Copies'
    BY <1>2 DEF IInv, Pass, Copies
  <1> QED
    BY <1>3, <1>6, <1>7, <1>8, <1>9, <1>10 DEF IInv

LEMMA PostKeeps == IInv /\ Post => IInv'
  <1> SUFFICES ASSUME IInv, Post PROVE IInv'
    OBVIOUS
  <1>1. todo # <<>> /\ todo' = Tail(todo) /\ Head(todo).do = "post"
    BY DEF Post, Executes
  <1>2. /\ DrawThreadSem' = DrawThreadSem + 1
        /\ UNCHANGED <<lifeVars, jobVars, DrawBandsDone, DrawThreadQuit, threadVars, cpuVars, FB, clip, seen>>
    BY DEF Post
  <1>3. /\ Plan(todo)' /\ (\A i \in 1 .. Len(todo') : Suits(todo'[i])) /\ seen = Nothing
        /\ todo' # <<>> => Head(todo)' = todo'[1] /\ Follows(Head(todo), todo'[1])
    BY <1>1, Then
  <1>4. todo' # <<>> => todo'[1].do \in {"TVMR", "wait", "stop"}
    BY <1>1, <1>3 DEF Follows, Waits
  <1>5. DrawJobActive /\ ~DrawThreadQuit /\ Resting /\ DrawThread /\ DrawBandsDone = 0
    BY <1>1 DEF IInv, Ready, Thread, Resting, Doing
  <1>6. TypeOK'
    BY <1>2, <1>5 DEF IInv, TypeOK, Resting
  <1>7. Setting'
    <2>1. Primed(todo)'
      BY <1>1, <1>2, PrimedRest
    <2>2. (\A i \in 1 .. Len(todo) : Suits(todo[i]))'
      BY <1>2, <1>3 DEF Suits
    <2> QED
      BY <1>1, <1>2, <1>3, <2>1, <2>2 DEF IInv, Setting
  <1>8. Ready'
    BY <1>2, <1>3, <1>4 DEF Ready, Doing, Waits
  <1>9. Thread'
    BY <1>2, <1>3, <1>4, <1>5 DEF Thread, Resting, Drawing, Doing
  <1>10. Pass' /\ Copies'
    BY <1>2 DEF IInv, Pass, Copies
  <1> QED
    BY <1>3, <1>6, <1>7, <1>8, <1>9, <1>10 DEF IInv

\* The end of the thread.
LEMMA QuitKeeps == IInv /\ Quit => IInv'
  <1> SUFFICES ASSUME IInv, Quit PROVE IInv'
    OBVIOUS
  <1>1. todo # <<>> /\ todo' = Tail(todo) /\ Head(todo).do = "quit"
    BY DEF Quit, Executes
  <1>2. /\ DrawThreadQuit' = TRUE /\ DrawThreadSem' = DrawThreadSem + 1
        /\ UNCHANGED <<lifeVars, jobVars, DrawBandsDone, threadVars, cpuVars, FB, clip, seen>>
    BY DEF Quit
  <1>3. /\ Plan(todo)' /\ (\A i \in 1 .. Len(todo') : Suits(todo'[i])) /\ Suits(Head(todo))
        /\ seen = Nothing /\ todo' # <<>> /\ Head(todo)' = todo'[1] /\ Follows(Head(todo), todo'[1])
    BY <1>1, Then
  <1>4. todo'[1].do = "join"
    BY <1>1, <1>3 DEF Follows, Waits
  <1>5. ~DrawJobActive /\ ~DrawThreadQuit /\ Resting /\ DrawThread
    BY <1>1, <1>3 DEF IInv, Ready, Thread, Resting, Doing, Waits, Suits
  <1>6. TypeOK'
    BY <1>2, <1>5 DEF IInv, TypeOK, Resting
  <1>7. Setting'
    <2>1. Primed(todo)'
      BY <1>1, <1>2, PrimedRest
    <2>2. (\A i \in 1 .. Len(todo) : Suits(todo[i]))'
      BY <1>2, <1>3 DEF Suits
    <2> QED
      BY <1>1, <1>2, <1>3, <2>1, <2>2 DEF IInv, Setting
  <1>8. Ready'
    BY <1>2, <1>3, <1>4, <1>5 DEF Ready, Doing, Waits
  <1>9. Thread'
    BY <1>2, <1>3, <1>4, <1>5 DEF Thread, Resting, Stopping, Doing
  <1>10. Pass' /\ Copies'
    BY <1>2 DEF IInv, Pass, Copies
  <1> QED
    BY <1>3, <1>6, <1>7, <1>8, <1>9, <1>10 DEF IInv

LEMMA JoinKeeps == IInv /\ Join => IInv'
  <1> SUFFICES ASSUME IInv, Join PROVE IInv'
    OBVIOUS
  <1>1. todo # <<>> /\ todo' = Tail(todo) /\ Head(todo).do = "join"
    BY DEF Join, Executes
  <1>2. /\ tpc = "exited" /\ tpc' = "none"
        /\ DrawThread' = FALSE /\ DrawThreadSem' = 0 /\ DrawThreadQuit' = FALSE
        /\ UNCHANGED <<DrawThreadWanted, jobVars, DrawBandsDone, regs, band, row, cpuVars, FB, clip, seen>>
    BY DEF Join
  <1>3. /\ Plan(todo)' /\ (\A i \in 1 .. Len(todo') : Suits(todo'[i])) /\ seen = Nothing
        /\ todo' # <<>> => Head(todo)' = todo'[1] /\ Follows(Head(todo), todo'[1])
    BY <1>1, Then
  <1>4. todo' # <<>> => todo'[1].do = "want"
    BY <1>1, <1>3 DEF Follows, Waits
  <1>5. ~DrawJobActive
    BY <1>1 DEF IInv, Ready, Doing
  <1>6. TypeOK'
    <2>1. TypeOK /\ 0 \in 0 .. 1
      BY DEF IInv
    <2> QED
      BY <1>2, <2>1 DEF TypeOK
  <1>7. Setting'
    <2>1. Primed(todo)'
      BY <1>1, <1>2, PrimedRest
    <2>2. (\A i \in 1 .. Len(todo) : Suits(todo[i]))'
      <3>1. \A i \in 1 .. Len(todo') : todo'[i].do # "quit"
        <4>1. ASSUME NEW i \in 1 .. Len(todo'), todo'[i].do = "quit" PROVE FALSE
          <5>1. Len(todo') \in Nat /\ Chain(todo)'
            BY <1>3, LenProperties DEF Plan, Chain
          <5>2. CASE i = 1
            <6>1. todo' # <<>>
              <7>1. ASSUME todo' = <<>> PROVE FALSE
                <8>1. Len(todo') = 0
                  BY <7>1, EmptySeq
                <8> QED
                  BY <8>1
              <7> QED
                BY <7>1
            <6> QED
              BY <1>4, <4>1, <5>2, <6>1
          <5>3. CASE i # 1
            <6>1. 1 \in 1 .. Len(todo') /\ todo' # <<>>
              <7>1. 1 \in 1 .. Len(todo')
                BY <5>1, <5>3
              <7>2. Len(<<>>) = 0
                BY EmptySeq
              <7>3. ~(1 \in 1 .. 0)
                OBVIOUS
              <7> QED
                BY <7>1, <7>2, <7>3
            <6>2. Len(todo') = 1 + 2 /\ todo'[1 + 2].do = "load"
              BY <1>4, <5>1, <6>1 DEF Chain
            <6>3. i = 2 \/ i = 3
              BY <5>3, <6>2
            <6>4. Follows(todo'[1], todo'[1 + 1])
              <7>1. 1 \in 1 .. Len(todo') - 1
                BY <6>2
              <7> QED
                BY <5>1, <7>1 DEF Chain, Follows
            <6>5. todo'[2].do = "wait"
              BY <1>4, <6>1, <6>4 DEF Follows, Waits
            <6> QED
              BY <4>1, <6>2, <6>3, <6>5
          <5> QED
            BY <5>2, <5>3
        <4> QED
          BY <4>1
      <3> QED
        BY <1>2, <1>3, <3>1 DEF Suits
    <2> QED
      BY <1>1, <1>2, <1>3, <2>1, <2>2 DEF IInv, Setting
  <1>8. Ready'
    BY <1>2, <1>3, <1>4, <1>5 DEF Ready, Doing, Waits
  <1>9. Thread'
    BY <1>2, <1>5 DEF Thread
  <1>10. Pass' /\ Copies'
    BY <1>2 DEF IInv, Pass, Copies
  <1> QED
    BY <1>3, <1>6, <1>7, <1>8, <1>9, <1>10 DEF IInv

LEMMA SetThreadedKeeps == IInv /\ SetThreaded => IInv'
  <1> SUFFICES ASSUME IInv, SetThreaded PROVE IInv'
    OBVIOUS
  <1>1. todo # <<>> /\ todo' = Tail(todo) /\ Head(todo).do = "want"
    BY DEF SetThreaded, Executes
  <1>2. /\ DrawThreadWanted' \in BOOLEAN
        /\ UNCHANGED <<DrawThread, jobVars, syncVars, threadVars, cpuVars, FB, clip, seen>>
    BY DEF SetThreaded
  <1>3. /\ Plan(todo)' /\ (\A i \in 1 .. Len(todo') : Suits(todo'[i])) /\ seen = Nothing
        /\ todo' # <<>> => Head(todo)' = todo'[1] /\ Follows(Head(todo), todo'[1])
    BY <1>1, Then
  <1>4. todo' # <<>> => todo'[1].do = "wait"
    BY <1>1, <1>3 DEF Follows, Waits
  <1>5. ~DrawJobActive /\ ~DrawThread
    BY <1>1 DEF IInv, Ready, Doing
  <1>6. TypeOK'
    BY <1>2 DEF IInv, TypeOK
  <1>7. Setting'
    <2>1. Primed(todo)'
      BY <1>1, <1>2, PrimedRest
    <2>2. (\A i \in 1 .. Len(todo) : Suits(todo[i]))'
      <3>1. \A i \in 1 .. Len(todo') : todo'[i].do \notin {"draw", "freeze"}
        <4>1. Plan(todo)
          BY DEF IInv
        <4>2. /\ Len(todo) \in Nat \ {0} /\ Head(todo) = todo[1] /\ Len(todo') = Len(todo) - 1
              /\ \A i \in 1 .. Len(todo') : todo'[i] = todo[i + 1]
          BY <1>1, <4>1, Rest
        <4>3. Len(todo) = 1 + 2 /\ todo[1 + 2].do = "load"
          <5>1. 1 \in 1 .. Len(todo)
            BY <4>2
          <5> QED
            BY <1>1, <4>1, <4>2, <5>1 DEF Plan, Chain
        <4>4. todo[1 + 1].do = "wait"
          <5>1. 1 \in 1 .. Len(todo) - 1
            BY <4>3
          <5>2. Follows(todo[1], todo[1 + 1])
            BY <4>1, <5>1 DEF Plan, Chain
          <5> QED
            BY <1>1, <4>2, <5>2 DEF Follows, Waits
        <4>5. Len(todo') = 2 /\ \A i \in 1 .. 2 : i = 1 \/ i = 2
          BY <4>2, <4>3
        <4>6. todo'[1].do = "wait" /\ todo'[2].do = "load"
          <5>1. 1 \in 1 .. Len(todo') /\ 2 \in 1 .. Len(todo') /\ 2 + 1 = 1 + 2
            BY <4>5
          <5>2. todo'[1] = todo[1 + 1] /\ todo'[2] = todo[2 + 1]
            BY <4>2, <5>1
          <5> QED
            BY <4>3, <4>4, <5>1, <5>2
        <4> QED
          BY <4>5, <4>6
      <3> QED
        BY <1>2, <1>3, <3>1 DEF Suits
    <2> QED
      BY <1>1, <1>2, <1>3, <1>5, <2>1, <2>2 DEF IInv, Setting
  <1>8. Ready'
    BY <1>2, <1>3, <1>4 DEF Ready, Doing, Waits
  <1>9. Thread'
    BY <1>1, <1>2, <1>5 DEF IInv, Thread, Doing
  <1>10. Pass' /\ Copies'
    BY <1>2 DEF IInv, Pass, Copies
  <1> QED
    BY <1>3, <1>6, <1>7, <1>8, <1>9, <1>10 DEF IInv

----------------------------------------------------------------------------
(* The thread, and the invariant.                                          *)

\* What main has in mind does not change with a step of the thread.
LEMMA MainKeeps ==
    ASSUME IInv,
           UNCHANGED <<todo, lifeVars, cpuVars, seen, DrawJobActive, DrawVRAM, DrawCmdSnapshot,
                       DrawThreadQuit>>,
           DrawBandsDone' \in Int,
           \/ DrawBandsDone' = DrawBandsDone
           \/ DrawJobActive /\ DrawBandsDone' > DrawBandsDone /\ ~Doing({"publish", "post"})
    PROVE  Plan(todo)' /\ Setting' /\ Ready'
  <1>1. Plan(todo)'
    BY DEF IInv, Plan, Chain, Ends, Wanting, Follows
  <1>2. Setting'
    BY DEF IInv, Setting, Suits, Primed
  <1>3. Ready'
    <2>1. Doing({"line"}) => arg \in Row
      <3>1. ASSUME todo # <<>>, Head(todo).do = "line" PROVE arg \in Row
        <4>1. Plan(todo) /\ todo \in Seq(Instructions)
          BY DEF IInv, Plan, Chain
        <4>2. Len(todo) \in Nat \ {0} /\ Head(todo) = todo[1]
          BY <3>1, <4>1, EmptySeq
        <4>3. 1 \in 1 .. Len(todo)
          BY <4>2
        <4>4. Wanting(todo[1])
          BY <4>1, <4>3 DEF Plan, Chain
        <4> QED
          BY <3>1, <4>2, <4>4 DEF Wanting, arg
      <3> QED
        BY <3>1 DEF Doing
    <2>2. Doing({"line"}) => RowBand(arg) \in Nat
      BY <2>1, RowBandType, BandAssumption DEF Bands
    <2>3. DrawBandsDone \in Int
      BY BandAssumption DEF IInv, TypeOK
    <2>4. CASE DrawBandsDone' = DrawBandsDone
      BY <2>4 DEF IInv, Ready, Doing, arg
    <2>5. CASE DrawJobActive /\ DrawBandsDone' > DrawBandsDone /\ ~Doing({"publish", "post"})
      <3>1. Doing({"line"})' /\ DrawJobActive' => DrawBandsDone' >= (RowBand(arg) + 1)'
        <4>1. SUFFICES ASSUME Doing({"line"}) PROVE DrawBandsDone' >= RowBand(arg) + 1
          BY DEF Doing, arg
        <4>2. DrawBandsDone >= RowBand(arg) + 1
          BY <2>5, <4>1 DEF IInv, Ready
        <4> QED
          BY <2>2, <2>3, <2>5, <4>1, <4>2
      <3>2. ~Doing({"post"})
        BY <2>5 DEF Doing
      <3> QED
        BY <2>5, <3>1, <3>2 DEF IInv, Ready, Doing
    <2> QED
      BY <2>4, <2>5
  <1> QED
    BY <1>1, <1>2, <1>3

\* The bands are parts of the framebuffer.
LEMMA BandsEnd ==
    ASSUME NEW b \in 0 .. DrawNumBands
    PROVE  DrawBands[b] <= Rows
  <1> DEFINE N == DrawNumBands
             B == {k \in 0 .. N : DrawBands[N - k] > Rows}
  <1>0. /\ N \in Nat \ {0} /\ Rows \in Nat /\ DrawBands[N] = Rows
        /\ \A a \in 0 .. N : DrawBands[a] \in Nat
        /\ \A a \in 0 .. N - 1 : DrawBands[a] < DrawBands[a + 1]
    BY BandAssumption
  <1>1. B \in SUBSET Nat
    BY <1>0
  <1>2. B = {}
    <2> SUFFICES ASSUME B # {} PROVE FALSE
      OBVIOUS
    <2>1. PICK k \in B : \A y \in B : k <= y
      <3> HIDE DEF B
      <3> QED
        BY <1>1, LeastIs
    <2> HIDE DEF N
    <2>2. k \in 0 .. N /\ DrawBands[N - k] > Rows
      BY <2>1
    <2>3. k # 0
      <3>1. N - 0 = N
        BY <1>0
      <3> QED
        BY <1>0, <2>2, <3>1
    <2>4. k - 1 \in 0 .. N /\ N - (k - 1) = (N - k) + 1 /\ N - k \in 0 .. N - 1
          /\ N - (k - 1) \in 0 .. N /\ N - k \in 0 .. N
      BY <1>0, <2>2, <2>3
    <2>5. DrawBands[N - k] < DrawBands[N - (k - 1)]
      BY <1>0, <2>4
    <2>6. DrawBands[N - (k - 1)] > Rows
      BY <1>0, <2>2, <2>4, <2>5
    <2>7. k - 1 \in B
      BY <2>4, <2>6
    <2> HIDE DEF B
    <2>8. k <= k - 1
      BY <2>1, <2>7
    <2> QED
      BY <1>0, <2>2, <2>8
  <1>3. N - b \in 0 .. N /\ N - (N - b) = b
    BY <1>0
  <1>4. ~(DrawBands[N - (N - b)] > Rows)
    BY <1>2, <1>3
  <1> QED
    BY <1>0, <1>3, <1>4

LEMMA RowsOfBand ==
    ASSUME NEW b \in Bands
    PROVE  /\ DrawBands[b] \in Row /\ DrawBands[b] < DrawBands[b + 1] /\ DrawBands[b + 1] <= Rows
           /\ DrawBands[b + 1] \in Nat /\ b + 1 \in 0 .. DrawNumBands
           /\ b \in 0 .. DrawNumBands - 1
  <1>1. b \in 0 .. DrawNumBands - 1 /\ b \in 0 .. DrawNumBands /\ b + 1 \in 0 .. DrawNumBands
    BY BandAssumption DEF Bands
  <1>2. DrawBands[b] \in Nat /\ DrawBands[b + 1] \in Nat /\ DrawBands[b] < DrawBands[b + 1]
    BY <1>1, BandAssumption
  <1>3. DrawBands[b + 1] <= Rows
    BY <1>1, BandsEnd
  <1> QED
    BY <1>1, <1>2, <1>3, BandAssumption DEF Row

\* A thread that has begun has main's list, or was told to stop.
LEMMA AwakeIs ==
    ASSUME IInv, tpc \in {"woken", "band", "row", "done"} \/ DrawThreadSem > 0
    PROVE  /\ DrawThread
           /\ DrawThreadQuit => Stopping /\ ~DrawJobActive /\ Doing({"join"})
           /\ ~DrawThreadQuit => Drawing /\ DrawJobActive /\ ~Doing({"publish", "post"})
           /\ tpc \in {"band", "row", "done"} => ~DrawThreadQuit
  <1>1. DrawThread
    BY DEF IInv, Thread
  <1>2. ~Resting
    BY DEF Resting
  <1>3. DrawThreadQuit => Stopping /\ ~DrawJobActive /\ Doing({"join"})
    BY <1>1 DEF IInv, Thread, Ready, Doing
  <1>4. ~DrawThreadQuit => Drawing /\ DrawJobActive /\ ~Doing({"publish", "post"})
    BY <1>1, <1>2 DEF IInv, Thread
  <1>5. tpc \in {"band", "row", "done"} => ~Stopping
    BY DEF Stopping
  <1> QED
    BY <1>1, <1>3, <1>4, <1>5

LEMMA SemWaitKeeps == IInv /\ SemWait => IInv'
  <1> SUFFICES ASSUME IInv, SemWait PROVE IInv'
    OBVIOUS
  <1>1. /\ tpc = "wait" /\ DrawThreadSem > 0
        /\ DrawThreadSem' = DrawThreadSem - 1 /\ tpc' = "woken"
        /\ UNCHANGED <<todo, lifeVars, jobVars, DrawBandsDone, DrawThreadQuit, regs, band, row, cpuVars,
                       FB, clip, seen>>
    BY DEF SemWait
  <1>2. /\ DrawThread
        /\ DrawThreadQuit => Stopping /\ ~DrawJobActive /\ Doing({"join"})
        /\ ~DrawThreadQuit => Drawing /\ DrawJobActive /\ ~Doing({"publish", "post"})
    BY <1>1, AwakeIs
  <1>3. DrawThreadSem = 1 /\ DrawThreadSem' = 0
    BY <1>1 DEF IInv, TypeOK
  <1>4. TypeOK'
    BY <1>1, <1>3 DEF IInv, TypeOK
  <1>5. Plan(todo)' /\ Setting' /\ Ready'
    <2>1. DrawBandsDone' \in Int
      BY <1>1, BandAssumption DEF IInv, TypeOK
    <2>2. UNCHANGED <<todo, lifeVars, cpuVars, seen, DrawJobActive, DrawVRAM, DrawCmdSnapshot,
                      DrawThreadQuit>>
      BY <1>1
    <2>3. DrawBandsDone' = DrawBandsDone
      BY <1>1
    <2> QED
      BY <2>1, <2>2, <2>3, MainKeeps
  <1>6. Thread'
    <2>1. CASE DrawThreadQuit
      BY <1>1, <1>2, <1>3, <2>1 DEF Thread, Stopping, Doing
    <2>2. CASE ~DrawThreadQuit
      <3>1. DrawBandsDone = 0
        BY <1>1, <1>2, <1>3, <2>2 DEF Drawing, Resting
      <3> QED
        BY <1>1, <1>2, <1>3, <2>2, <3>1 DEF Thread, Drawing, Doing
    <2> QED
      BY <2>1, <2>2
  <1>7. Pass' /\ Copies'
    BY <1>1 DEF IInv, Pass, Copies
  <1> QED
    BY <1>4, <1>5, <1>6, <1>7 DEF IInv

LEMMA WokenKeeps == IInv /\ Woken => IInv'
  <1> SUFFICES ASSUME IInv, Woken PROVE IInv'
    OBVIOUS
  <1>1. /\ tpc = "woken"
        /\ IF DrawThreadQuit THEN tpc' = "exited" /\ UNCHANGED <<regs, band>>
                             ELSE tpc' = "band" /\ regs' = clip /\ band' = 0
        /\ UNCHANGED <<todo, lifeVars, jobVars, syncVars, row, cpuVars, FB, clip, seen>>
    BY DEF Woken
  <1>2. /\ DrawThread
        /\ DrawThreadQuit => Stopping /\ ~DrawJobActive /\ Doing({"join"})
        /\ ~DrawThreadQuit => Drawing /\ DrawJobActive /\ ~Doing({"publish", "post"})
    BY <1>1, AwakeIs
  <1>3. TypeOK /\ 0 \in Bands
    BY BandAssumption DEF IInv, Bands
  <1>4. TypeOK'
    BY <1>1, <1>3 DEF TypeOK
  <1>5. Plan(todo)' /\ Setting' /\ Ready'
    <2>1. DrawBandsDone' \in Int
      BY <1>1, BandAssumption DEF IInv, TypeOK
    <2>2. UNCHANGED <<todo, lifeVars, cpuVars, seen, DrawJobActive, DrawVRAM, DrawCmdSnapshot,
                      DrawThreadQuit>>
      BY <1>1
    <2>3. DrawBandsDone' = DrawBandsDone
      BY <1>1
    <2> QED
      BY <2>1, <2>2, <2>3, MainKeeps
  <1>6. Thread'
    <2>1. CASE DrawThreadQuit
      BY <1>1, <1>2, <2>1 DEF Thread, Stopping, Doing
    <2>2. CASE ~DrawThreadQuit
      <3>1. DrawBandsDone = 0 /\ DrawThreadSem = 0
        BY <1>1, <1>2, <2>2 DEF Drawing, Resting
      <3> QED
        BY <1>1, <1>2, <2>2, <3>1 DEF Thread, Drawing, Doing
    <2> QED
      BY <2>1, <2>2
  <1>7. Pass' /\ Copies'
    BY <1>1, <1>3 DEF IInv, TypeOK, Pass, Copies
  <1> QED
    BY <1>4, <1>5, <1>6, <1>7 DEF IInv

LEMMA BandPassKeeps == IInv /\ BandPass => IInv'
  <1> SUFFICES ASSUME IInv, BandPass PROVE IInv'
    OBVIOUS
  <1>1. /\ tpc = "band" /\ tpc' = "row" /\ row' = DrawBands[band] /\ clip' = regs
        /\ UNCHANGED <<todo, lifeVars, jobVars, syncVars, regs, band, cpuVars, FB, seen>>
    BY DEF BandPass, StartBand
  <1>2. DrawThread /\ ~DrawThreadQuit /\ Drawing /\ DrawJobActive /\ ~Doing({"publish", "post"})
    BY <1>1, AwakeIs
  <1>3. TypeOK /\ band \in Bands /\ regs \in Clips
    BY <1>1 DEF IInv, TypeOK, Pass
  <1>4. row' \in Row /\ DrawBands[band] < DrawBands[band + 1] /\ DrawBands[band] \in Nat
    BY <1>1, <1>3, RowsOfBand DEF Row
  <1>5. TypeOK'
    BY <1>1, <1>3, <1>4 DEF TypeOK
  <1>6. Plan(todo)' /\ Setting' /\ Ready'
    <2>1. DrawBandsDone' \in Int
      BY <1>1, BandAssumption DEF IInv, TypeOK
    <2>2. UNCHANGED <<todo, lifeVars, cpuVars, seen, DrawJobActive, DrawVRAM, DrawCmdSnapshot,
                      DrawThreadQuit>>
      BY <1>1
    <2>3. DrawBandsDone' = DrawBandsDone
      BY <1>1
    <2> QED
      BY <2>1, <2>2, <2>3, MainKeeps
  <1>7. Thread'
    BY <1>1, <1>2 DEF Thread, Drawing, Resting, Doing
  <1>8. Pass' /\ Copies'
    BY <1>1, <1>3, <1>4 DEF IInv, Pass, Copies
  <1> QED
    BY <1>5, <1>6, <1>7, <1>8 DEF IInv

LEMMA ListPassKeeps == IInv /\ DrawListPass => IInv'
  <1> SUFFICES ASSUME IInv, DrawListPass PROVE IInv'
    OBVIOUS
  <1>1. /\ tpc = "row"
        /\ FB' = [FB EXCEPT ![FBDrawWhich][row] = Append(@, Brush(DrawCmdSnapshot))]
        /\ \/ /\ row + 1 < DrawBands[band + 1] /\ row' = row + 1
              /\ UNCHANGED <<tpc, clip>>
           \/ /\ ~(row + 1 < DrawBands[band + 1])
              /\ tpc' = "done" /\ clip' = ClipAfter[DrawCmdSnapshot][clip] /\ UNCHANGED row
        /\ UNCHANGED <<todo, lifeVars, jobVars, syncVars, regs, band, cpuVars, seen>>
    BY DEF DrawListPass
  <1>2. DrawThread /\ ~DrawThreadQuit /\ Drawing /\ DrawJobActive /\ ~Doing({"publish", "post"})
    BY <1>1, AwakeIs
  <1>3. /\ TypeOK /\ band \in Bands /\ regs \in Clips /\ clip = regs /\ row \in Row
        /\ DrawBands[band] <= row /\ row < DrawBands[band + 1]
        /\ FBDrawWhich \in {0, 1} /\ DrawCmdSnapshot \in Contents
    BY <1>1 DEF IInv, TypeOK, Pass
  <1>4. FB' \in [{0, 1} -> [Row -> Seq(Paint)]] /\ ClipAfter[DrawCmdSnapshot][clip] \in Clips
    BY <1>1, <1>3, FBTypes, BrushType
  <1>5. DrawBands[band + 1] <= Rows /\ DrawBands[band + 1] \in Nat /\ DrawBands[band] \in Nat
    BY <1>3, RowsOfBand DEF Row
  <1>6. row' \in Row
    BY <1>1, <1>3, <1>5, BandAssumption DEF Row
  <1>7. clip' \in Clips /\ tpc' \in {"row", "done"}
    BY <1>1, <1>3, <1>4
  <1>8. TypeOK'
    BY <1>1, <1>3, <1>4, <1>6, <1>7 DEF TypeOK
  <1>9. Plan(todo)' /\ Setting' /\ Ready'
    <2>1. DrawBandsDone' \in Int
      BY <1>1, BandAssumption DEF IInv, TypeOK
    <2>2. UNCHANGED <<todo, lifeVars, cpuVars, seen, DrawJobActive, DrawVRAM, DrawCmdSnapshot,
                      DrawThreadQuit>>
      BY <1>1
    <2>3. DrawBandsDone' = DrawBandsDone
      BY <1>1
    <2> QED
      BY <2>1, <2>2, <2>3, MainKeeps
  <1>10. Thread'
    <2>1. DrawThreadSem = 0 /\ DrawBandsDone = band
      BY <1>1, <1>2 DEF Drawing, Resting
    <2> QED
      BY <1>1, <1>2, <1>7, <2>1 DEF Thread, Drawing, Resting, Doing
  <1>11. Pass' /\ Copies'
    <2>1. row \in Nat
      BY <1>3 DEF Row
    <2>2. Pass'
      BY <1>1, <1>3, <1>5, <2>1 DEF Pass
    <2> QED
      BY <1>1, <2>2 DEF IInv, Copies
  <1> QED
    BY <1>8, <1>9, <1>10, <1>11 DEF IInv

LEMMA BandDoneKeeps == IInv /\ BandDone => IInv'
  <1> SUFFICES ASSUME IInv, BandDone PROVE IInv'
    OBVIOUS
  <1>1. /\ tpc = "done" /\ DrawBandsDone' = band + 1
        /\ \/ /\ band + 1 < DrawNumBands /\ tpc' = "band" /\ band' = band + 1
              /\ UNCHANGED <<regs, row>>
           \/ /\ ~(band + 1 < DrawNumBands)
              /\ tpc' = "wait" /\ regs' = "none" /\ band' = 0 /\ row' = 0
        /\ UNCHANGED <<todo, lifeVars, jobVars, DrawThreadSem, DrawThreadQuit, cpuVars, FB, clip, seen>>
    BY DEF BandDone
  <1>2. DrawThread /\ ~DrawThreadQuit /\ Drawing /\ DrawJobActive /\ ~Doing({"publish", "post"})
    BY <1>1, AwakeIs
  <1>3. DrawThreadSem = 0 /\ DrawBandsDone = band
    BY <1>1, <1>2 DEF Drawing, Resting
  <1>4. /\ TypeOK /\ band \in Nat /\ band < DrawNumBands /\ regs \in Clips
        /\ DrawNumBands \in Nat \ {0}
    BY <1>1, BandAssumption DEF IInv, TypeOK, Pass, Bands
  <1>5. 0 \in Row
    <2>1. 0 \in Bands
      BY <1>4 DEF Bands
    <2> QED
      BY <2>1, RowsOfBand, BandAssumption
  <1>6. /\ band' \in Bands /\ DrawBandsDone' \in 0 .. DrawNumBands
        /\ ~(band + 1 < DrawNumBands) => band + 1 = DrawNumBands
    BY <1>1, <1>4 DEF Bands
  <1>7. /\ tpc' \in {"band", "wait"} /\ regs' \in Clips \union {"none"} /\ row' \in Row
    BY <1>1, <1>4, <1>5 DEF TypeOK
  <1>8. TypeOK'
    BY <1>1, <1>4, <1>6, <1>7 DEF TypeOK
  <1>9. Plan(todo)' /\ Setting' /\ Ready'
    <2>1. DrawBandsDone' \in Int /\ DrawBandsDone' > DrawBandsDone
      BY <1>1, <1>3, <1>4
    <2> QED
      BY <1>1, <1>2, <2>1, MainKeeps
  <1>10. Thread'
    BY <1>1, <1>2, <1>3, <1>6 DEF Thread, Drawing, Resting, Doing
  <1>11. Pass' /\ Copies'
    BY <1>1, <1>4 DEF IInv, Pass, Copies
  <1> QED
    BY <1>8, <1>9, <1>10, <1>11 DEF IInv

LEMMA InitIInv == InitDraw => IInv
  <1> SUFFICES ASSUME InitDraw PROVE IInv
    OBVIOUS
  <1>1. 0 \in Bands /\ 0 \in Row /\ 0 \in 0 .. 1
    <2>1. 0 \in Bands
      BY BandAssumption DEF Bands
    <2> QED
      BY <2>1, RowsOfBand, BandAssumption
  <1>2. FB \in [{0, 1} -> [Row -> Seq(Paint)]]
    <2>1. <<>> \in Seq(Paint)
      BY EmptySeq
    <2>2. Filled \in [Row -> Seq(Paint)]
      BY <2>1 DEF Filled
    <2> QED
      BY <2>2 DEF InitDraw, Init
  <1>3. DrawBandsDone \in 0 .. DrawNumBands
    BY BandAssumption DEF InitDraw
  <1>4. TypeOK
    BY <1>1, <1>2, <1>3 DEF InitDraw, Init, TypeOK
  <1>5. todo = <<>> /\ Len(<<>>) = 0 /\ <<>> \in Seq(Instructions) /\ \A i \in 1 .. 0 : FALSE
    BY EmptySeq DEF InitDraw
  <1>6. Plan(todo)
    <2>1. \A i \in 1 .. 0 - 1 : FALSE
      OBVIOUS
    <2> QED
      BY <1>5, <2>1 DEF Plan, Chain, Ends
  <1>7. Setting
    BY <1>5 DEF InitDraw, Setting, Primed
  <1>8. Ready /\ Thread /\ Pass /\ Copies
    BY <1>5 DEF InitDraw, Init, Ready, Thread, Pass, Copies, Doing
  <1> QED
    BY <1>4, <1>6, <1>7, <1>8 DEF IInv

LEMMA NextIInv == IInv /\ [NextDraw]_allVars => IInv'
  <1> SUFFICES ASSUME IInv, [NextDraw]_allVars PROVE IInv'
    OBVIOUS
  <1>1. CASE UNCHANGED allVars
    <2>1. UNCHANGED <<todo, lifeVars, jobVars, syncVars, threadVars, cpuVars, FB, clip, seen>>
      BY <1>1 DEF allVars
    <2>2. TypeOK'
      BY <2>1 DEF IInv, TypeOK
    <2>3. Plan(todo)' /\ Setting' /\ Ready'
      <3>1. DrawBandsDone' \in Int
        BY <2>1, BandAssumption DEF IInv, TypeOK
      <3>2. UNCHANGED <<todo, lifeVars, cpuVars, seen, DrawJobActive, DrawVRAM, DrawCmdSnapshot,
                        DrawThreadQuit>>
        BY <2>1
      <3>3. DrawBandsDone' = DrawBandsDone
        BY <2>1
      <3> QED
        BY <3>1, <3>2, <3>3, MainKeeps
    <2>4. Thread'
      BY <2>1 DEF IInv, Thread, Resting, Stopping, Drawing, Doing
    <2>5. Pass' /\ Copies'
      BY <2>1 DEF IInv, Pass, Copies
    <2> QED
      BY <2>2, <2>3, <2>4, <2>5 DEF IInv
  <1>2. CASE Spin
    <2>1. UNCHANGED allVars
      BY <1>2 DEF Spin
    <2> QED
      BY <1>1, <2>1
  <1>3. CASE MainCall
    BY <1>3, CallsKeep DEF Called
  <1>4. CASE \/ WaitDrawThreadBands \/ FreezeVRAM \/ Arm \/ Publish \/ Post \/ Access \/ Register
             \/ Quit \/ Join \/ SetThreaded
    BY <1>4, WaitKeeps, FreezeKeeps, ArmKeeps, PublishKeeps, PostKeeps, AccessKeeps, RegisterKeeps,
       QuitKeeps, JoinKeeps, SetThreadedKeeps
  <1>5. CASE ThreadStep
    BY <1>5, SemWaitKeeps, WokenKeeps, BandPassKeeps, ListPassKeeps, BandDoneKeeps DEF ThreadStep
  <1> QED
    BY <1>1, <1>2, <1>3, <1>4, <1>5 DEF NextDraw, MainStep

LEMMA DrawInvariance == SpecDraw => []IInv
  BY InitIInv, NextIInv, PTL DEF SpecDraw

\* Every variable has its type.
THEOREM DrawTypes == SpecDraw => []TypeOK
  <1>1. IInv => TypeOK
    BY DEF IInv
  <1> QED
    BY <1>1, DrawInvariance, PTL

\* Main and the drawing thread never use the framebuffer, the registers or the copies at
\* the same time (WaitDrawThread), for any bands, lists and registers.
THEOREM ExclusiveHolds == SpecDraw => []Exclusive
  <1>1. IInv => Exclusive
    <2> SUFFICES ASSUME IInv,
                        Doing({"freeze", "draw", "swap", "fill", "poke", "peek", "all", "clip", "save",
                               "load", "reset"}), Busy
                 PROVE  FALSE
      BY DEF Exclusive
    <2>1. DrawJobActive \/ Doing({"join"})
      BY AwakeIs DEF Busy
    <2>2. ~DrawJobActive
      BY DEF IInv, Ready, Doing, Waits
    <2> QED
      BY <2>1, <2>2 DEF Doing
  <1> QED
    BY <1>1, DrawInvariance, PTL

----------------------------------------------------------------------------
(* The refinement.                                                         *)

\* The framebuffers as they will be once the list under way is drawn.
Shown == [w \in {0, 1} |-> [r \in Row |-> FinalRow(w, r)]]

LEMMA AtRest ==
    ASSUME IInv, ~DrawJobActive
    PROVE  Shown = FB /\ FinalClip = clip
  <1>1. Unpainted = {}
    BY DEF Unpainted
  <1>2. tpc \notin {"band", "row", "done"}
    BY AwakeIs
  <1>3. ASSUME NEW w \in {0, 1}, NEW r \in Row PROVE FinalRow(w, r) = FB[w][r]
    BY <1>1 DEF FinalRow
  <1>4. FB \in [{0, 1} -> [Row -> Seq(Paint)]]
    BY DEF IInv, TypeOK
  <1>5. FB = [w \in {0, 1} |-> [r \in Row |-> FB[w][r]]]
    BY <1>4
  <1>6. Shown = FB
    BY <1>3, <1>5 DEF Shown
  <1>7. FinalClip = clip
    BY <1>1, <1>2 DEF FinalClip, Underway
  <1> QED
    BY <1>6, <1>7

LEMMA AtRestThen == IInv' /\ ~DrawJobActive' => (Shown = FB /\ FinalClip = clip)'
  <1>1. IInv /\ ~DrawJobActive => Shown = FB /\ FinalClip = clip
    BY AtRest
  <1> QED
    BY <1>1, PTL

LEMMA SameUnpainted ==
    ASSUME ~Doing({"publish", "post"}), ~Doing({"publish", "post"})',
           UNCHANGED <<DrawJobActive, DrawBandsDone, threadVars>>
    PROVE  Unpainted' = Unpainted
  BY DEF Unpainted

LEMMA SameShown ==
    ASSUME UNCHANGED <<FB, FBDrawWhich, DrawCmdSnapshot, DrawVRAM>>,
           Unpainted' = Unpainted, Started' = Started,
           DrawTVMR' = DrawTVMR \/ Unpainted = {}
    PROVE  Shown' = Shown
  <1>1. ASSUME NEW w \in {0, 1}, NEW r \in Row PROVE FinalRow(w, r)' = FinalRow(w, r)
    BY DEF FinalRow
  <1> QED
    BY <1>1 DEF Shown

\* A step of main that leaves what the thread draws alone.
LEMMA CalmShown ==
    ASSUME ~Doing({"publish", "post"}), ~Doing({"publish", "post"})',
           UNCHANGED <<DrawJobActive, syncVars, threadVars, DrawVRAM, DrawCmdSnapshot, FBDrawWhich,
                       FB, clip>>,
           DrawTVMR' = DrawTVMR \/ ~DrawJobActive
    PROVE  Shown' = Shown /\ FinalClip' = FinalClip
  <1>1. Unpainted' = Unpainted
    BY SameUnpainted
  <1>2. Started' = Started
    BY DEF Started
  <1>3. DrawTVMR' = DrawTVMR \/ Unpainted = {}
    BY DEF Unpainted
  <1>4. Shown' = Shown
    BY <1>1, <1>2, <1>3, SameShown
  <1>5. FinalClip' = FinalClip
    BY <1>1, <1>2 DEF FinalClip, Underway
  <1> QED
    BY <1>4, <1>5

\* What the specification of the draw in one go is about.
Seen == <<Shown, FBDrawWhich, VRAM, VRAMCmdSnapshot, TVMR, FinalClip, DrawingActive, seen>>

LEMMA CallMaps ==
    ASSUME IInv, Called', NEW p, Call(p)
    PROVE  Instant!Other
  <1>1. /\ todo = <<>> /\ seen' = Nothing
        /\ UNCHANGED <<lifeVars, jobVars, syncVars, threadVars, cpuVars, FB, clip>>
    BY DEF Call
  <1>2. ~Doing({"publish", "post"}) /\ ~Doing({"publish", "post"})'
    BY <1>1 DEF Doing, Called
  <1>3. Shown' = Shown /\ FinalClip' = FinalClip
    BY <1>1, <1>2, CalmShown
  <1> QED
    BY <1>1, <1>3 DEF Instant!Other, Instant!Nothing, Nothing, Shown

LEMMA BandsNonempty == 0 \in Bands /\ 0 \in Row /\ Row # {} /\ DrawBands[0] = 0
  <1>1. 0 \in Bands
    BY BandAssumption DEF Bands
  <1> QED
    BY <1>1, RowsOfBand, BandAssumption

\* A stuttering step of the draw in one go.
Stutters == UNCHANGED Seen

LEMMA WaitStutters == IInv /\ IInv' /\ WaitDrawThreadBands => Stutters
  <1> SUFFICES ASSUME IInv, IInv', WaitDrawThreadBands PROVE Stutters
    OBVIOUS
  <1>1. /\ Executes("wait")
        /\ UNCHANGED <<lifeVars, DrawVRAM, DrawCmdSnapshot, syncVars, threadVars, cpuVars, FB, clip,
                       seen>>
        /\ \/ UNCHANGED <<DrawJobActive, DrawTVMR>>
           \/ /\ DrawJobActive /\ DrawBandsDone >= arg /\ arg >= DrawNumBands
              /\ DrawJobActive' = FALSE
    BY DEF WaitDrawThreadBands, CaughtUp
  <1>2. todo # <<>> /\ todo' = Tail(todo) /\ Head(todo).do = "wait"
    BY <1>1 DEF Executes
  <1>3. /\ todo' # <<>> => Head(todo)' = todo'[1] /\ Follows(Head(todo), todo'[1])
        /\ Wanting(Head(todo))
    BY <1>2, Then
  <1>4. ~Doing({"publish", "post"}) /\ ~Doing({"publish", "post"})'
    BY <1>2, <1>3 DEF Doing, Follows, Waits
  <1>5. Shown' = Shown /\ FinalClip' = FinalClip
    <2>1. CASE UNCHANGED <<DrawJobActive, DrawTVMR>>
      BY <1>1, <1>4, <2>1, CalmShown
    <2>2. CASE /\ DrawJobActive /\ DrawBandsDone >= arg /\ arg >= DrawNumBands
               /\ DrawJobActive' = FALSE
      <3>1. arg \in Nat /\ DrawNumBands \in Nat \ {0} /\ DrawBandsDone \in Nat
            /\ DrawBandsDone <= DrawNumBands
        BY SMTT(30), <1>2, <1>3, BandAssumption DEF IInv, TypeOK, Wanting, arg
      <3>2. DrawBandsDone = DrawNumBands
        BY <2>2, <3>1
      <3>3. tpc = "wait"
        <4>1. Drawing \/ Resting
          BY <1>2, <2>2 DEF IInv, Thread, Doing, Stopping
        <4>2. band \in Nat /\ band < DrawNumBands
          BY <3>1 DEF IInv, TypeOK, Bands
        <4> QED
          BY <3>1, <3>2, <4>1, <4>2 DEF Drawing, Resting
      <3>4. Unpainted = {}
        BY <1>4, <3>2, <3>3 DEF Unpainted
      <3>5. FinalClip = clip
        BY <3>3, <3>4 DEF FinalClip, Underway
      <3>6. Shown = FB
        <4>1. ASSUME NEW w \in {0, 1}, NEW r \in Row PROVE FinalRow(w, r) = FB[w][r]
          BY <3>4 DEF FinalRow
        <4>2. FB = [w \in {0, 1} |-> [r \in Row |-> FB[w][r]]]
          BY DEF IInv, TypeOK
        <4> QED
          BY <4>1, <4>2 DEF Shown
      <3>7. (Shown = FB /\ FinalClip = clip)'
        BY <2>2, AtRestThen
      <3> QED
        BY <1>1, <3>5, <3>6, <3>7
    <2> QED
      BY <1>1, <2>1, <2>2
  <1> QED
    BY <1>1, <1>5 DEF Stutters, Seen

\* What a step of main leaves alone while there is no list under way.
LEMMA RestStutters ==
    ASSUME IInv, IInv', ~DrawJobActive, ~DrawJobActive',
           UNCHANGED <<FB, clip, cpuVars, seen>>
    PROVE  Stutters
  <1>1. Shown = FB /\ FinalClip = clip
    BY AtRest
  <1>2. (Shown = FB /\ FinalClip = clip)'
    BY AtRestThen
  <1> QED
    BY <1>1, <1>2 DEF Stutters, Seen

LEMMA FreezeStutters ==
    IInv /\ IInv' /\ (FreezeVRAM \/ Quit \/ Join \/ SetThreaded) => Stutters
  <1> SUFFICES ASSUME IInv, IInv', FreezeVRAM \/ Quit \/ Join \/ SetThreaded PROVE Stutters
    OBVIOUS
  <1>1. /\ Executes("freeze") \/ Executes("quit") \/ Executes("join") \/ Executes("want")
        /\ UNCHANGED <<DrawJobActive, FB, clip, cpuVars, seen>>
    BY DEF FreezeVRAM, Quit, Join, SetThreaded
  <1>2. ~DrawJobActive
    BY <1>1 DEF IInv, Ready, Doing, Executes, Waits
  <1> QED
    BY <1>1, <1>2, RestStutters

\* Of the three steps of the hand-over the first is the draw in one go.
LEMMA ArmDraws == IInv /\ IInv' /\ Arm => Instant!DoDrawing
  <1> SUFFICES ASSUME IInv, IInv', Arm PROVE Instant!DoDrawing
    OBVIOUS
  <1>1. /\ Executes("arm") /\ DrawingActive' = FALSE /\ DrawJobActive' = TRUE
        /\ UNCHANGED <<lifeVars, DrawTVMR, DrawVRAM, DrawCmdSnapshot, syncVars, threadVars,
                       FBDrawWhich, VRAM, VRAMCmdSnapshot, TVMR, FB, clip, seen>>
    BY DEF Arm
  <1>2. todo # <<>> /\ todo' = Tail(todo) /\ Head(todo).do = "arm"
    BY <1>1 DEF Executes
  <1>3. ~DrawJobActive /\ DrawVRAM = VRAM /\ DrawCmdSnapshot = VRAMCmdSnapshot
    BY <1>2 DEF IInv, Ready, Doing
  <1>4. DrawTVMR = TVMR
    BY <1>3 DEF IInv, Copies
  <1>5. seen = Nothing
    BY <1>2, Then
  <1>6. DrawingActive
    <2>1. 1 \in 1 .. Len(todo) /\ todo[1].do = "arm"
      <3>1. Plan(todo)
        BY DEF IInv
      <3>2. Len(todo) \in Nat \ {0} /\ Head(todo) = todo[1]
        BY <1>2, <3>1, Rest
      <3> QED
        BY <1>2, <3>2
    <2>2. ~\E j \in 1 .. 1 - 1 : todo[j].do = "start"
      OBVIOUS
    <2> QED
      BY <2>1, <2>2 DEF IInv, Setting, Primed
  <1>7. Doing({"publish", "post"})'
    <2>1. todo' # <<>> /\ Head(todo)' = todo'[1] /\ Follows(Head(todo), todo'[1])
      BY <1>2, Then
    <2> QED
      BY <1>2, <2>1 DEF Follows, Doing
  <1>8. Unpainted' = Row
    BY <1>1, <1>7 DEF Unpainted
  <1>9. tpc \notin {"band", "row", "done"}
    BY <1>3, AwakeIs
  <1>10. Started' = clip
    BY <1>1, <1>9 DEF Started
  <1>11. Shown = FB /\ FinalClip = clip
    BY <1>3, AtRest
  <1>12. FB \in [{0, 1} -> [Row -> Seq(Paint)]] /\ FBDrawWhich \in {0, 1}
    BY DEF IInv, TypeOK
  <1> DEFINE P == [cmds |-> VRAMCmdSnapshot, tex |-> VRAM, mode |-> TVMR, clip |-> clip]
  <1>13. ASSUME NEW w \in {0, 1}, NEW r \in Row
         PROVE  FinalRow(w, r)' = IF w = FBDrawWhich THEN Append(FB[w][r], P) ELSE FB[w][r]
    BY <1>1, <1>3, <1>4, <1>8, <1>10 DEF FinalRow
  <1>14. Shown' = [FB EXCEPT ![FBDrawWhich] = [r \in Row |-> Append(@[r], P)]]
    <2>1. Shown' = [w \in {0, 1} |-> [r \in Row |-> FinalRow(w, r)']]
      BY DEF Shown
    <2> HIDE DEF P
    <2>2. ASSUME NEW w \in {0, 1}
          PROVE  Shown'[w] = [FB EXCEPT ![FBDrawWhich] = [r \in Row |-> Append(@[r], P)]][w]
      <3>1. FB[w] = [r \in Row |-> FB[w][r]]
        BY <1>12
      <3>2. Shown'[w] = [r \in Row |-> FinalRow(w, r)']
        BY <2>1
      <3>3. CASE w = FBDrawWhich
        <4>1. [r \in Row |-> FinalRow(w, r)'] = [r \in Row |-> Append(FB[w][r], P)]
          BY <1>13, <3>3
        <4> QED
          BY <1>12, <3>2, <3>3, <4>1
      <3>4. CASE w # FBDrawWhich
        <4>1. [r \in Row |-> FinalRow(w, r)'] = [r \in Row |-> FB[w][r]]
          BY <1>13, <3>4
        <4> QED
          BY <1>12, <3>1, <3>2, <3>4, <4>1
      <3> QED
        BY <3>3, <3>4
    <2>3. /\ DOMAIN [FB EXCEPT ![FBDrawWhich] = [r \in Row |-> Append(@[r], P)]] = {0, 1}
          /\ [FB EXCEPT ![FBDrawWhich] = [r \in Row |-> Append(@[r], P)]]
             = [w \in {0, 1} |-> [FB EXCEPT ![FBDrawWhich] = [r \in Row |-> Append(@[r], P)]][w]]
      BY <1>12
    <2> QED
      BY <2>1, <2>2, <2>3
  <1>15. FinalClip' = ClipAfter[VRAMCmdSnapshot][clip]
    <2>1. Row # {}
      BY BandsNonempty
    <2> QED
      BY <1>1, <1>3, <1>8, <1>10, <2>1 DEF FinalClip, Underway
  <1> QED
    BY <1>1, <1>5, <1>6, <1>11, <1>14, <1>15
       DEF Instant!DoDrawing, Instant!Nothing, Nothing, Instant!Row, Row, Shown

LEMMA PublishStutters == IInv /\ IInv' /\ (Publish \/ Post) => Stutters
  <1> SUFFICES ASSUME IInv, IInv', Publish \/ Post PROVE Stutters
    OBVIOUS
  <1>1. /\ \/ Executes("publish") /\ UNCHANGED DrawThreadSem
           \/ Executes("post") /\ UNCHANGED DrawBandsDone
        /\ UNCHANGED <<lifeVars, jobVars, DrawThreadQuit, threadVars, cpuVars, FB, clip, seen>>
    BY DEF Publish, Post
  <1>2. /\ todo # <<>> /\ todo' = Tail(todo) /\ Head(todo).do \in {"publish", "post"}
        /\ Doing({"publish", "post"})
    BY <1>1 DEF Executes, Doing
  <1>3. DrawJobActive /\ DrawJobActive'
    BY <1>1, <1>2 DEF IInv, Ready
  <1>4. tpc = "wait" /\ tpc' = "wait"
    BY <1>1, <1>2, <1>3 DEF IInv, Thread, Resting, Doing
  <1>5. Unpainted = Row
    BY <1>2, <1>3 DEF Unpainted
  <1>6. Unpainted' = Row
    <2>1. CASE Executes("publish")
      <3>1. todo' # <<>> /\ Head(todo)' = todo'[1] /\ Follows(Head(todo), todo'[1])
        BY <1>2, <2>1, Then DEF Executes
      <3>2. Doing({"publish", "post"})'
        BY <2>1, <3>1 DEF Follows, Doing, Executes
      <3> QED
        BY <1>3, <3>2 DEF Unpainted
    <2>2. CASE Executes("post") /\ UNCHANGED DrawBandsDone
      <3>1. DrawBandsDone = 0 /\ DrawNumBands # 0
        BY <2>2, BandAssumption DEF IInv, Ready, Doing, Executes
      <3>2. DrawBandsDone' # DrawNumBands'
        BY <2>2, <3>1
      <3> QED
        BY <1>3, <1>4, <3>2 DEF Unpainted
    <2> QED
      BY <1>1, <2>1, <2>2
  <1>7. Started' = Started
    BY <1>1 DEF Started
  <1>8. Shown' = Shown
    BY <1>1, <1>5, <1>6, <1>7, SameShown
  <1>9. FinalClip' = FinalClip
    BY <1>1, <1>5, <1>6, <1>7 DEF FinalClip, Underway
  <1> QED
    BY <1>1, <1>8, <1>9 DEF Stutters, Seen

\* What main does without waiting is done while the list is drawn, too.
LEMMA RegisterMaps ==
    IInv /\ IInv' /\ Register
      => Instant!WriteTVMR \/ Instant!WriteVRAM \/ Instant!Freeze \/ Instant!StartDrawing
  <1> SUFFICES ASSUME IInv, IInv', Register
               PROVE  Instant!WriteTVMR \/ Instant!WriteVRAM \/ Instant!Freeze \/ Instant!StartDrawing
    OBVIOUS
  <1>1. /\ \/ /\ Executes("TVMR") /\ DrawTVMR' = Synced(arg)
              /\ UNCHANGED <<VRAM, VRAMCmdSnapshot, DrawingActive>>
           \/ Executes("VRAM") /\ UNCHANGED <<TVMR, DrawTVMR, VRAMCmdSnapshot, DrawingActive>>
           \/ /\ Executes("snapshot") /\ VRAMCmdSnapshot' = VRAM
              /\ UNCHANGED <<TVMR, DrawTVMR, VRAM, DrawingActive>>
           \/ /\ Executes("start") \/ Executes("stop")
              /\ UNCHANGED <<TVMR, DrawTVMR, VRAM, VRAMCmdSnapshot>>
        /\ UNCHANGED <<lifeVars, DrawJobActive, DVRAM, DrawVRAM, DrawCmdSnapshot, syncVars, threadVars,
                       FBDrawWhich, FB, clip, seen>>
    BY DEF Register
  <1>2. /\ todo # <<>> /\ todo' = Tail(todo)
        /\ Head(todo).do \in {"TVMR", "VRAM", "snapshot", "start", "stop"}
    BY <1>1 DEF Executes
  <1>3. /\ todo' # <<>> => Head(todo)' = todo'[1] /\ Follows(Head(todo), todo'[1])
        /\ seen = Nothing
    BY <1>2, Then
  <1>4. ~Doing({"publish", "post"}) /\ ~Doing({"publish", "post"})'
    BY <1>2, <1>3 DEF Doing, Follows, Waits
  <1>5. DrawTVMR' = DrawTVMR \/ ~DrawJobActive
    BY <1>1 DEF Synced
  <1>6. Shown' = Shown /\ FinalClip' = FinalClip
    BY <1>1, <1>4, <1>5, CalmShown
  <1>7. VRAM' \in Contents /\ TVMR' \in Modes /\ DrawingActive' \in BOOLEAN
    BY DEF IInv, TypeOK
  <1>8. seen' = Nothing
    BY <1>1, <1>3
  <1>9. CASE Executes("TVMR") /\ UNCHANGED <<VRAM, VRAMCmdSnapshot, DrawingActive>>
    BY <1>1, <1>6, <1>7, <1>8, <1>9 DEF Instant!WriteTVMR, Instant!Nothing, Nothing, Shown
  <1>10. CASE Executes("VRAM") /\ UNCHANGED <<TVMR, DrawTVMR, VRAMCmdSnapshot, DrawingActive>>
    BY <1>1, <1>6, <1>7, <1>8, <1>10 DEF Instant!WriteVRAM, Instant!Nothing, Nothing, Shown
  <1>11. CASE VRAMCmdSnapshot' = VRAM /\ UNCHANGED <<TVMR, DrawTVMR, VRAM, DrawingActive>>
    BY <1>1, <1>6, <1>8, <1>11 DEF Instant!Freeze, Instant!Nothing, Nothing, Shown
  <1>12. CASE /\ Executes("start") \/ Executes("stop")
              /\ UNCHANGED <<TVMR, DrawTVMR, VRAM, VRAMCmdSnapshot>>
    BY <1>1, <1>6, <1>7, <1>8, <1>12 DEF Instant!StartDrawing, Instant!Nothing, Nothing, Shown
  <1> QED
    BY <1>1, <1>9, <1>10, <1>11, <1>12

\* The bands follow one another.
LEMMA BandsGrow ==
    ASSUME NEW a \in 0 .. DrawNumBands, NEW b \in 0 .. DrawNumBands, a <= b
    PROVE  DrawBands[a] <= DrawBands[b]
  <1> DEFINE N == DrawNumBands
             B == {k \in 0 .. N : a <= k /\ ~(DrawBands[a] <= DrawBands[k])}
  <1>0. /\ N \in Nat \ {0} /\ a \in Nat
        /\ \A k \in 0 .. N : DrawBands[k] \in Nat
        /\ \A k \in 0 .. N - 1 : DrawBands[k] < DrawBands[k + 1]
    BY BandAssumption
  <1>1. B \in SUBSET Nat
    BY <1>0
  <1>2. B = {}
    <2> SUFFICES ASSUME B # {} PROVE FALSE
      OBVIOUS
    <2>1. PICK k \in B : \A y \in B : k <= y
      <3> HIDE DEF B
      <3> QED
        BY <1>1, LeastIs
    <2> HIDE DEF N
    <2>2. k \in 0 .. N /\ a <= k /\ ~(DrawBands[a] <= DrawBands[k])
      BY <2>1
    <2>3. k # a
      BY <1>0, <2>2
    <2>4. k - 1 \in 0 .. N - 1 /\ k - 1 \in 0 .. N /\ (k - 1) + 1 = k /\ a <= k - 1
      BY <1>0, <2>2, <2>3
    <2>5. DrawBands[k - 1] < DrawBands[k]
      BY <1>0, <2>4
    <2>6. ~(DrawBands[a] <= DrawBands[k - 1])
      BY <1>0, <2>2, <2>4, <2>5
    <2>7. k - 1 \in B
      BY <2>4, <2>6
    <2> HIDE DEF B
    <2>8. k <= k - 1
      BY <2>1, <2>7
    <2> QED
      BY <1>0, <2>2, <2>8
  <1> QED
    BY <1>2

\* A row whose band was waited for is painted.
LEMMA LineIsPainted ==
    ASSUME IInv, Doing({"line"}), arg \in Row
    PROVE  arg \notin Unpainted
  <1> DEFINE b == RowBand(arg)
             N == DrawNumBands
  <1>1. CASE ~DrawJobActive
    BY <1>1 DEF Unpainted
  <1>2. CASE DrawJobActive
    <2>1. b \in Bands /\ (b = N - 1 \/ arg < DrawBands[b + 1])
      BY RowBandType
    <2>2. DrawBandsDone >= b + 1
      BY <1>2 DEF IInv, Ready
    <2>3. ~Doing({"publish", "post"}) /\ ~Doing({"join"})
      BY DEF Doing
    <2>4. Drawing
      BY <1>2, <2>3 DEF IInv, Thread
    <2>5. N \in Nat \ {0} /\ Rows \in Nat /\ DrawBands[N] = Rows /\ band \in Bands
          /\ DrawBandsDone \in 0 .. N /\ row \in Row
      BY BandAssumption DEF IInv, TypeOK
    <2> HIDE DEF b, N
    <2>6. b \in Nat /\ b + 1 \in 0 .. N /\ (b = N - 1 => b + 1 = N) /\ arg \in Nat /\ arg < Rows
      BY <2>1, <2>5 DEF Bands, N, Row
    <2>7. arg < DrawBands[b + 1] /\ DrawBands[b + 1] \in Nat
      BY <2>1, <2>5, <2>6, BandAssumption DEF N
    <2>8. CASE tpc \in {"band", "row", "done"} /\ DrawBandsDone = band
      <3>1. band \in 0 .. N /\ band + 1 \in 0 .. N /\ b + 1 <= band /\ b + 1 <= band + 1
        BY <2>2, <2>5, <2>6, <2>8 DEF Bands, N
      <3>2. DrawBands[b + 1] <= DrawBands[band] /\ DrawBands[b + 1] <= DrawBands[band + 1]
            /\ DrawBands[band] \in Nat /\ DrawBands[band + 1] \in Nat
        BY <2>6, <3>1, BandsGrow, BandAssumption DEF N
      <3>3. ~(arg >= DrawBands[band]) /\ ~(arg >= DrawBands[band + 1])
        BY <2>6, <2>7, <3>2
      <3>4. tpc = "row" => ~(arg >= row)
        <4>1. tpc = "row" => DrawBands[band] <= row
          BY DEF IInv, Pass
        <4>2. row \in Nat
          BY <2>5 DEF Row
        <4> QED
          BY <2>6, <3>2, <3>3, <4>1, <4>2
      <3> QED
        BY <2>3, <2>8, <3>3, <3>4 DEF Unpainted
    <2>9. CASE tpc = "wait" /\ DrawBandsDone = N
      BY <2>3, <2>9 DEF Unpainted, N
    <2>10. DrawBandsDone # 0
      BY <2>2, <2>5, <2>6
    <2> QED
      BY <2>4, <2>8, <2>9, <2>10 DEF Drawing, Resting, N
  <1> QED
    BY <1>1, <1>2

\* VDP2 reads a row.
LEMMA LineMaps ==
    ASSUME IInv, IInv', Access, Executes("line")
    PROVE  Instant!GetLine
  <1>1. /\ todo # <<>> /\ todo' = Tail(todo) /\ Head(todo).do = "line"
    BY DEF Executes
  <1>2. /\ seen' = [line |-> <<FB[0][arg], FB[1][arg]>>]
        /\ UNCHANGED <<cpuVars, DrawTVMR, FB, clip, lifeVars, DrawJobActive, DVRAM, DrawVRAM,
                       DrawCmdSnapshot, syncVars, threadVars>>
    BY <1>1 DEF Access, Executes
  <1>3. /\ todo' # <<>> => Head(todo)' = todo'[1] /\ Follows(Head(todo), todo'[1])
        /\ Wanting(Head(todo))
    BY <1>1, Then
  <1>4. ~Doing({"publish", "post"}) /\ ~Doing({"publish", "post"})' /\ Doing({"line"})
    BY <1>1, <1>3 DEF Doing, Follows, Waits
  <1>5. Shown' = Shown /\ FinalClip' = FinalClip
    BY <1>2, <1>4, CalmShown
  <1>6. arg \in Row
    BY <1>1, <1>3 DEF Wanting, arg
  <1>7. FinalRow(0, arg) = FB[0][arg] /\ FinalRow(1, arg) = FB[1][arg]
    BY <1>4, <1>6, LineIsPainted DEF FinalRow
  <1>8. Shown[0][arg] = FB[0][arg] /\ Shown[1][arg] = FB[1][arg]
    BY <1>6, <1>7 DEF Shown
  <1>9. \E r \in Row : seen' = [line |-> <<Shown[0][r], Shown[1][r]>>]
    BY <1>2, <1>6, <1>8
  <1> QED
    BY <1>2, <1>5, <1>9 DEF Instant!GetLine, Instant!Row, Row, Shown

\* The other accesses find the list drawn.
LEMMA AccessMaps ==
    ASSUME IInv, IInv', Access
    PROVE  Instant!Next
  <1> DEFINE k == Head(todo).do
  <1>1. /\ todo # <<>> /\ todo' = Tail(todo)
        /\ k \in {"draw", "swap", "fill", "poke", "peek", "line", "all", "save", "clip", "reset", "load"}
        /\ UNCHANGED <<lifeVars, DrawJobActive, DVRAM, DrawVRAM, DrawCmdSnapshot, syncVars, threadVars>>
    BY DEF Access, Executes
  <1>2. Wanting(Head(todo)) /\ Suits(Head(todo)) /\ seen = Nothing
    BY <1>1, Then
  <1>3. CASE k = "line"
    <2>1. Executes("line")
      BY <1>1, <1>3 DEF Executes
    <2> QED
      BY <2>1, LineMaps DEF Instant!Next
  <1> SUFFICES ASSUME k # "line" PROVE Instant!Next
    BY <1>3
  <1>4. ~DrawJobActive /\ ~DrawJobActive'
    BY <1>1 DEF IInv, Ready, Doing, Waits
  <1>5. (Shown = FB /\ FinalClip = clip) /\ (Shown = FB /\ FinalClip = clip)'
    BY <1>4, AtRest, AtRestThen
  <1>6. /\ FBDrawWhich' \in {0, 1} /\ VRAM' \in Contents /\ VRAMCmdSnapshot' \in Contents
        /\ TVMR' \in Modes /\ clip' \in Clips /\ DrawingActive' \in BOOLEAN
    BY DEF IInv, TypeOK
  <1>7. CASE k = "draw"
    <2>1. /\ FB' = [FB EXCEPT ![FBDrawWhich] = [r \in Row |-> Append(@[r], Brush(VRAMCmdSnapshot))]]
          /\ clip' = ClipAfter[VRAMCmdSnapshot][clip]
          /\ DrawingActive' = FALSE
          /\ UNCHANGED <<FBDrawWhich, VRAM, VRAMCmdSnapshot, TVMR, DrawTVMR, seen>>
      BY <1>7 DEF Access, Executes
    <2>2. Brush(VRAMCmdSnapshot) = [cmds |-> VRAMCmdSnapshot, tex |-> VRAM, mode |-> TVMR,
                                    clip |-> clip]
      BY <1>4 DEF IInv, Copies, Brush
    <2>3. DrawingActive
      <3>1. Plan(todo) /\ Primed(todo)
        BY DEF IInv, Setting
      <3>2. Len(todo) \in Nat \ {0} /\ Head(todo) = todo[1]
        BY <1>1, <3>1, Rest
      <3>3. 1 \in 1 .. Len(todo) /\ todo[1].do = "draw"
        BY <1>7, <3>2
      <3>4. ~\E j \in 1 .. 1 - 1 : todo[j].do = "start"
        OBVIOUS
      <3> QED
        BY <3>1, <3>3, <3>4 DEF Primed
    <2>4. Instant!DoDrawing
      BY ZenonT(60), <1>2, <1>5, <2>1, <2>2, <2>3
         DEF Instant!DoDrawing, Instant!Nothing, Nothing, Instant!Row, Row, Shown
    <2> QED
      BY <2>4 DEF Instant!Next
  <1>8. CASE k = "swap"
    <2>1. /\ FBDrawWhich' = 1 - FBDrawWhich
          /\ FB' = [FB EXCEPT ![FBDrawWhich'] = Filled]
          /\ VRAMCmdSnapshot' \in {VRAM, VRAMCmdSnapshot}
          /\ DrawingActive' = FALSE
          /\ UNCHANGED <<VRAM, TVMR, DrawTVMR, clip, seen>>
      BY <1>8 DEF Access, Executes
    <2>2. Instant!Fill
      BY <1>2, <1>5, <1>6, <2>1
         DEF Instant!Fill, Instant!Nothing, Nothing, Instant!Filled, Filled, Instant!Row, Row, Shown
    <2> QED
      BY <2>2 DEF Instant!Next
  <1>9. CASE k = "fill"
    <2>1. /\ FB' = [FB EXCEPT ![FBDrawWhich] = Filled]
          /\ UNCHANGED <<cpuVars, DrawTVMR, clip, seen>>
      BY <1>9 DEF Access, Executes
    <2>2. Instant!Fill
      BY <1>2, <1>5, <1>6, <2>1
         DEF Instant!Fill, Instant!Nothing, Nothing, Instant!Filled, Filled, Instant!Row, Row, Shown
    <2> QED
      BY <2>2 DEF Instant!Next
  <1>10. CASE k = "poke"
    <2>1. /\ FB' = [FB EXCEPT ![FBDrawWhich][arg] = <<>>]
          /\ UNCHANGED <<cpuVars, DrawTVMR, clip, seen>>
      BY <1>10 DEF Access, Executes
    <2>2. arg \in Row
      BY <1>2, <1>10 DEF Wanting, arg
    <2>3. Instant!WriteFB
      BY <1>2, <1>5, <2>1, <2>2
         DEF Instant!WriteFB, Instant!Nothing, Nothing, Instant!Row, Row, Shown
    <2> QED
      BY <2>3 DEF Instant!Next
  <1>11. CASE k \in {"peek", "all", "save"}
    <2>1. /\ k = "peek" => seen' = [word |-> FB[FBDrawWhich][arg]]
          /\ k = "all" => seen' = [all |-> FB]
          /\ k = "save" => seen' = [clip |-> clip]
          /\ UNCHANGED <<cpuVars, DrawTVMR, FB, clip>>
      BY <1>11 DEF Access, Executes
    <2>2. k = "peek" => arg \in Row
      BY <1>2 DEF Wanting, arg
    <2>3. k = "all" => TVMR \in Rotating
      BY <1>2 DEF Suits
    <2>4. k = "peek" => Instant!ReadFB
      BY <1>5, <2>1, <2>2 DEF Instant!ReadFB, Instant!Row, Row, Shown
    <2>5. k = "all" => Instant!GetLine
      BY <1>5, <2>1, <2>3 DEF Instant!GetLine, Instant!Row, Row, Shown
    <2>6. k = "save" => Instant!ReadRegisters
      BY <1>5, <2>1 DEF Instant!ReadRegisters, Shown
    <2> QED
      BY <1>11, <2>4, <2>5, <2>6 DEF Instant!Next
  <1>12. CASE k = "clip"
    <2>1. UNCHANGED <<cpuVars, DrawTVMR, FB, seen>>
      BY <1>12 DEF Access, Executes
    <2>2. Instant!WriteRegisters
      BY <1>2, <1>5, <1>6, <2>1 DEF Instant!WriteRegisters, Instant!Nothing, Nothing, Shown
    <2> QED
      BY <2>2 DEF Instant!Next
  <1>13. CASE k = "reset"
    <2>1. /\ FBDrawWhich' = 0 /\ DrawingActive' = FALSE /\ TVMR' \in Modes \ Rotating
          /\ UNCHANGED <<VRAM, VRAMCmdSnapshot, FB, clip, seen>>
      BY <1>13 DEF Access, Executes
    <2>2. Instant!Reset
      BY <1>2, <1>5, <2>1 DEF Instant!Reset, Instant!Nothing, Nothing, Shown
    <2> QED
      BY <2>2 DEF Instant!Next
  <1>14. CASE k = "load"
    <2>1. FB' = [w \in {0, 1} |-> Filled] /\ seen' = seen
      BY <1>14 DEF Access, Executes
    <2>2. Instant!Load
      BY <1>2, <1>5, <1>6, <2>1
         DEF Instant!Load, Instant!Nothing, Nothing, Instant!Filled, Filled, Instant!Row, Row, Shown
    <2> QED
      BY <2>2 DEF Instant!Next
  <1> QED
    BY <1>1, <1>7, <1>8, <1>9, <1>10, <1>11, <1>12, <1>13, <1>14

\* A step of the thread with the same rows left to paint with the same registers.
LEMMA ThreadShown ==
    ASSUME UNCHANGED <<FB, FBDrawWhich, jobVars>>, Unpainted' = Unpainted, Started' = Started,
           Underway, Underway'
    PROVE  Shown' = Shown /\ FinalClip' = FinalClip
  <1>1. Shown' = Shown
    BY SameShown
  <1> QED
    BY <1>1 DEF FinalClip

\* A thread that was told to stop has no list.
LEMMA StopStutters ==
    ASSUME IInv, IInv', DrawThreadQuit, tpc = "woken" \/ DrawThreadSem > 0,
           UNCHANGED <<DrawJobActive, FB, clip, cpuVars, seen>>
    PROVE  Stutters
  <1>1. ~DrawJobActive
    BY AwakeIs
  <1> QED
    BY <1>1, RestStutters

LEMMA WakeStutters == IInv /\ IInv' /\ (SemWait \/ Woken) => Stutters
  <1> SUFFICES ASSUME IInv, IInv', SemWait \/ Woken PROVE Stutters
    OBVIOUS
  <1>1. /\ tpc = "woken" \/ DrawThreadSem > 0
        /\ UNCHANGED <<todo, lifeVars, jobVars, DrawBandsDone, DrawThreadQuit, row, cpuVars, FB, clip,
                       seen>>
        /\ \/ tpc = "wait" /\ tpc' = "woken" /\ UNCHANGED <<regs, band>>
           \/ /\ tpc = "woken"
              /\ ~DrawThreadQuit => tpc' = "band" /\ regs' = clip /\ band' = 0
    BY DEF SemWait, Woken
  <1>2. CASE DrawThreadQuit
    BY <1>1, <1>2, StopStutters
  <1>3. CASE ~DrawThreadQuit
    <2>1. Drawing /\ DrawJobActive /\ ~Doing({"publish", "post"})
      BY <1>1, <1>3, AwakeIs
    <2>2. DrawBandsDone # DrawNumBands
      <3>1. 0 # DrawNumBands
        BY BandAssumption
      <3> QED
        BY <1>1, <2>1, <3>1 DEF Drawing, Resting
    <2>3. ~Doing({"publish", "post"})' /\ DrawJobActive'
      BY <1>1, <2>1 DEF Doing
    <2>4. Unpainted = Row /\ Row # {}
      BY <1>1, <2>1, <2>2, BandsNonempty DEF Unpainted
    <2>5. Unpainted' = Row
      <3>1. CASE tpc' = "woken"
        BY <1>1, <2>2, <2>3, <3>1 DEF Unpainted
      <3>2. CASE tpc' = "band" /\ band' = 0
        <4>1. \A r \in Row : r >= DrawBands[0]
          BY BandsNonempty, BandAssumption DEF Row
        <4> QED
          BY <2>3, <3>2, <4>1 DEF Unpainted
      <3> QED
        BY <1>1, <1>3, <3>1, <3>2
    <2>6. Started' = Started
      BY <1>1, <1>3 DEF Started
    <2>7. Underway /\ Underway'
      BY <2>4, <2>5 DEF Underway
    <2>8. Shown' = Shown /\ FinalClip' = FinalClip
      BY <1>1, <2>4, <2>5, <2>6, <2>7, ThreadShown
    <2> QED
      BY <1>1, <2>8 DEF Stutters, Seen
  <1> QED
    BY <1>2, <1>3

LEMMA BandStutters == IInv /\ IInv' /\ BandPass => Stutters
  <1> SUFFICES ASSUME IInv, IInv', BandPass PROVE Stutters
    OBVIOUS
  <1>1. /\ tpc = "band" /\ tpc' = "row" /\ row' = DrawBands[band]
        /\ UNCHANGED <<todo, lifeVars, jobVars, syncVars, regs, band, cpuVars, FB, seen>>
    BY DEF BandPass, StartBand
  <1>2. ~Doing({"publish", "post"}) /\ DrawJobActive
    BY <1>1, AwakeIs
  <1>3. ~Doing({"publish", "post"})' /\ DrawJobActive'
    BY <1>1, <1>2 DEF Doing
  <1>4. Unpainted = {r \in Row : r >= DrawBands[band]}
    BY <1>1, <1>2 DEF Unpainted
  <1>5. Unpainted' = {r \in Row : r >= DrawBands[band]}
    BY <1>1, <1>3 DEF Unpainted
  <1>6. Started' = Started /\ Underway /\ Underway'
    BY <1>1 DEF Started, Underway
  <1>7. Shown' = Shown /\ FinalClip' = FinalClip
    BY <1>1, <1>4, <1>5, <1>6, ThreadShown
  <1> QED
    BY <1>1, <1>7 DEF Stutters, Seen

\* A row is painted as the list that was handed over says.
LEMMA RowStutters == IInv /\ IInv' /\ DrawListPass => Stutters
  <1> SUFFICES ASSUME IInv, IInv', DrawListPass PROVE Stutters
    OBVIOUS
  <1>1. /\ tpc = "row"
        /\ FB' = [FB EXCEPT ![FBDrawWhich][row] = Append(@, Brush(DrawCmdSnapshot))]
        /\ \/ row + 1 < DrawBands[band + 1] /\ row' = row + 1 /\ tpc' = "row"
           \/ ~(row + 1 < DrawBands[band + 1]) /\ tpc' = "done"
        /\ UNCHANGED <<todo, lifeVars, jobVars, syncVars, regs, band, cpuVars, seen>>
    BY DEF DrawListPass
  <1>2. ~Doing({"publish", "post"}) /\ DrawJobActive
    BY <1>1, AwakeIs
  <1>3. ~Doing({"publish", "post"})' /\ DrawJobActive'
    BY <1>1, <1>2 DEF Doing
  <1>4. /\ row \in Row /\ band \in Bands /\ clip = regs /\ row < DrawBands[band + 1]
        /\ FBDrawWhich \in {0, 1} /\ FB \in [{0, 1} -> [Row -> Seq(Paint)]]
    BY <1>1 DEF IInv, TypeOK, Pass
  <1>5. DrawBands[band + 1] \in Nat
    BY <1>4, RowsOfBand
  <1>6. Unpainted = {r \in Row : r >= row}
    BY <1>1, <1>2 DEF Unpainted
  <1>7. Unpainted' = {r \in Row : r >= row + 1}
    <2>1. CASE row' = row + 1 /\ tpc' = "row"
      BY <1>3, <2>1 DEF Unpainted
    <2>2. CASE ~(row + 1 < DrawBands[band + 1]) /\ tpc' = "done"
      <3>1. DrawBands[band + 1] = row + 1
        BY <1>4, <1>5, <2>2 DEF Row
      <3>2. band' = band
        BY <1>1
      <3> QED
        BY <1>3, <2>2, <3>1, <3>2 DEF Unpainted
    <2> QED
      BY <1>1, <2>1, <2>2
  <1>8. Started = regs /\ Started' = regs /\ Underway /\ Underway'
    BY <1>1 DEF Started, Underway
  <1> DEFINE P == [cmds |-> DrawCmdSnapshot, tex |-> DrawVRAM, mode |-> DrawTVMR, clip |-> regs]
  <1>9. Brush(DrawCmdSnapshot) = P
    BY <1>2, <1>4 DEF IInv, Copies, Brush
  <1>10. ASSUME NEW w \in {0, 1}, NEW r \in Row PROVE FinalRow(w, r)' = FinalRow(w, r)
    <2>1. FinalRow(w, r) = IF w = FBDrawWhich /\ r \in Unpainted THEN Append(FB[w][r], P) ELSE FB[w][r]
      BY <1>8 DEF FinalRow
    <2>2. FinalRow(w, r)' = IF w = FBDrawWhich /\ r \in Unpainted' THEN Append(FB'[w][r], P) ELSE FB'[w][r]
      BY <1>1, <1>8 DEF FinalRow
    <2> HIDE DEF P
    <2>3. FB'[w][r] = IF w = FBDrawWhich /\ r = row THEN Append(FB[w][r], P) ELSE FB[w][r]
      BY <1>1, <1>4, <1>9
    <2>4. r = row => r \in Unpainted /\ r \notin Unpainted'
      BY <1>4, <1>6, <1>7 DEF Row
    <2>5. r # row => (r \in Unpainted <=> r \in Unpainted')
      BY <1>4, <1>6, <1>7 DEF Row
    <2> QED
      BY <2>1, <2>2, <2>3, <2>4, <2>5
  <1>11. Shown' = Shown
    BY <1>10 DEF Shown
  <1>12. FinalClip' = FinalClip
    BY <1>1, <1>8 DEF FinalClip
  <1> QED
    BY <1>1, <1>11, <1>12 DEF Stutters, Seen

LEMMA DoneStutters == IInv /\ IInv' /\ BandDone => Stutters
  <1> SUFFICES ASSUME IInv, IInv', BandDone PROVE Stutters
    OBVIOUS
  <1>1. /\ tpc = "done" /\ DrawBandsDone' = band + 1
        /\ \/ tpc' = "band" /\ band' = band + 1 /\ UNCHANGED regs
           \/ ~(band + 1 < DrawNumBands) /\ tpc' = "wait"
        /\ UNCHANGED <<todo, lifeVars, jobVars, DrawThreadSem, DrawThreadQuit, cpuVars, FB, clip, seen>>
    BY DEF BandDone
  <1>2. ~Doing({"publish", "post"}) /\ DrawJobActive
    BY <1>1, AwakeIs
  <1>3. ~Doing({"publish", "post"})' /\ DrawJobActive'
    BY <1>1, <1>2 DEF Doing
  <1>4. Unpainted = {r \in Row : r >= DrawBands[band + 1]}
    BY <1>1, <1>2 DEF Unpainted
  <1>5. CASE tpc' = "band" /\ band' = band + 1 /\ UNCHANGED regs
    <2>1. Unpainted' = {r \in Row : r >= DrawBands[band + 1]}
      BY <1>3, <1>5 DEF Unpainted
    <2>2. Started' = Started /\ Underway /\ Underway'
      BY <1>1, <1>5 DEF Started, Underway
    <2>3. Shown' = Shown /\ FinalClip' = FinalClip
      BY <1>1, <1>4, <2>1, <2>2, ThreadShown
    <2> QED
      BY <1>1, <2>3 DEF Stutters, Seen
  <1>6. CASE ~(band + 1 < DrawNumBands) /\ tpc' = "wait"
    <2>1. band \in Nat /\ band < DrawNumBands /\ DrawNumBands \in Nat \ {0}
      BY BandAssumption DEF IInv, TypeOK, Bands
    <2>2. band + 1 = DrawNumBands
      BY <1>6, <2>1
    <2>3. Unpainted = {}
      <3>1. \A r \in Row : ~(r >= Rows)
        BY BandAssumption DEF Row
      <3> QED
        BY <1>4, <2>2, <3>1, BandAssumption
    <2>4. Unpainted' = {}
      <3>1. DrawBandsDone' = DrawNumBands
        BY <1>1, <2>2
      <3> QED
        BY <1>3, <1>6, <3>1 DEF Unpainted
    <2>5. Shown' = Shown
      <3>1. ASSUME NEW w \in {0, 1}, NEW r \in Row PROVE FinalRow(w, r)' = FinalRow(w, r)
        BY <1>1, <2>3, <2>4 DEF FinalRow
      <3> QED
        BY <3>1 DEF Shown
    <2>6. FinalClip = ClipAfter[DrawCmdSnapshot][regs]
      BY <1>1 DEF FinalClip, Underway, Started
    <2>7. FinalClip' = clip
      BY <1>1, <1>6, <2>4 DEF FinalClip, Underway
    <2>8. clip = ClipAfter[DrawCmdSnapshot][regs]
      BY <1>1 DEF IInv, Pass
    <2> QED
      BY <1>1, <2>5, <2>6, <2>7, <2>8 DEF Stutters, Seen
  <1> QED
    BY <1>1, <1>5, <1>6

LEMMA InitMaps == InitDraw => Instant!Init
  <1> SUFFICES ASSUME InitDraw PROVE Instant!Init
    OBVIOUS
  <1>1. IInv /\ ~DrawJobActive
    BY InitIInv DEF InitDraw
  <1>2. Shown = FB /\ FinalClip = clip
    BY <1>1, AtRest
  <1> QED
    BY <1>2 DEF InitDraw, Init, Instant!Init, Instant!Filled, Filled, Instant!Row, Row,
                Instant!Nothing, Nothing, Shown

LEMMA StepMaps == IInv /\ [NextDraw]_allVars => [Instant!Next]_(Instant!vars)
  <1> SUFFICES ASSUME IInv, [NextDraw]_allVars PROVE [Instant!Next]_(Instant!vars)
    OBVIOUS
  <1>0. IInv'
    BY NextIInv
  <1>a. Stutters => UNCHANGED Instant!vars
    BY DEF Stutters, Seen, Instant!vars, Shown
  <1>1. CASE UNCHANGED allVars
    <2>1. Stutters
      BY <1>1 DEF allVars, jobVars, threadVars, syncVars, lifeVars, cpuVars, Stutters, Seen, Shown,
                  FinalRow, FinalClip, Underway, Started, Unpainted, Doing
    <2> QED
      BY <1>a, <2>1
  <1>2. CASE Spin
    <2>1. UNCHANGED allVars
      BY <1>2 DEF Spin
    <2> QED
      BY <1>1, <2>1
  <1>3. CASE MainCall
    <2>1. Called'
      BY <1>3, CallsKeep
    <2>2. \E p : Call(p)
      BY <1>3 DEF MainCall, Update, SetHBVB, WriteReg, WriteVRAM_DB, IdleScanline, AccessFB, ReadLine,
                  SetRegister, StateReset, Kill
    <2> QED
      BY <2>1, <2>2, CallMaps DEF Instant!Next
  <1>4. CASE WaitDrawThreadBands \/ FreezeVRAM \/ Publish \/ Post \/ Quit \/ Join \/ SetThreaded
    BY <1>0, <1>a, <1>4, WaitStutters, FreezeStutters, PublishStutters
  <1>5. CASE Arm \/ Access \/ Register
    BY <1>0, <1>5, ArmDraws, AccessMaps, RegisterMaps DEF Instant!Next
  <1>6. CASE ThreadStep
    BY <1>0, <1>a, <1>6, WakeStutters, BandStutters, RowStutters, DoneStutters DEF ThreadStep
  <1> QED
    BY <1>1, <1>2, <1>3, <1>4, <1>5, <1>6 DEF NextDraw, MainStep

\* A list drawn on the thread, band by band, shows the CPU, VDP2 and a saved state what
\* one drawn in one go would (ThreadedInstantDraw, DrawThreadEntry), for any bands,
\* lists and registers and whatever main writes meanwhile.
THEOREM DrawsInOneGo == SpecDraw => InstantDraw
  <1>1. InitDraw => Instant!Init
    BY InitMaps
  <1>2. IInv /\ [NextDraw]_allVars => [Instant!Next]_(Instant!vars)
    BY StepMaps
  <1> QED
    BY <1>1, <1>2, DrawInvariance, PTL DEF SpecDraw, InstantDraw, Instant!Spec

=============================================================================
