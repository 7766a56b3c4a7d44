--------------------------- MODULE ConsoleProofs ---------------------------
(***************************************************************************)
(* For a screen of any size, buffers of any length, any tables of          *)
(* characters and whatever commands print: what is seen is what is held,   *)
(* and the two buffers implement line editing, until the up time counter   *)
(* carries into the length of the line.                                    *)
(***************************************************************************)
EXTENDS UpTime, Recursion, SequenceTheorems

Shown   == Glyph \cup {NewLine}
Screens == [cells : [Cells -> Glyph], x : 0 .. SCREEN_WIDTH - 1, y : 0 .. SCREEN_HEIGHT - 1]
(* While a command runs the cursor may be below the last row.              *)
Wide    == [cells : [Cells -> Glyph], x : 0 .. SCREEN_WIDTH - 1, y : 0 .. SCREEN_HEIGHT]

LEMMA IsSequence ==
  ASSUME NEW m \in Nat, NEW S, NEW f \in [1 .. m -> S]
  PROVE  f \in Seq(S) /\ Len(f) = m
OBVIOUS

(***************************************************************************)
(* The screen.                                                             *)
(***************************************************************************)
LEMMA Sizes ==
  /\ SCREEN_WIDTH \in Nat /\ SCREEN_WIDTH > 1
  /\ SCREEN_HEIGHT \in Nat /\ SCREEN_HEIGHT > 1
BY ConsoleAssumption

LEMMA ScreenRecord ==
  ASSUME NEW a, NEW b, NEW c, NEW s \in [cells : {a}, x : {b}, y : {c}]
  PROVE  s = [cells |-> a, x |-> b, y |-> c]
OBVIOUS

LEMMA SettledScreen ==
  ASSUME NEW s \in [cells : [Cells -> Glyph], x : Nat, y : Nat], s.x <= SCREEN_WIDTH
  PROVE  Settled(s) \in Screens
<1>. DEFINE wrapped == IF s.x >= SCREEN_WIDTH THEN [s EXCEPT !.x = 0, !.y = @ + 1] ELSE s
<1>1. /\ wrapped \in [cells : [Cells -> Glyph], x : Nat, y : Nat]
      /\ wrapped.x \in 0 .. SCREEN_WIDTH - 1
  <2>1. s.x \in Nat /\ s.y \in Nat /\ s.y + 1 \in Nat
    OBVIOUS
  <2>2. [s EXCEPT !.x = 0, !.y = @ + 1] = [cells |-> s.cells, x |-> 0, y |-> s.y + 1]
    <3>1. [s EXCEPT !.x = 0, !.y = @ + 1] \in [cells : {s.cells}, x : {0}, y : {s.y + 1}]
      OBVIOUS
    <3>. QED
      BY <3>1, ScreenRecord
  <2>. QED
    BY <2>1, <2>2, Sizes
<1>2. Blank \in Glyph
  BY TextAssumption
<1>3. Settled(s) = IF wrapped.y >= SCREEN_HEIGHT THEN Scrolled(wrapped) ELSE wrapped
  BY DEF Settled
<1>. HIDE DEF wrapped
<1>4. Scrolled(wrapped) \in Screens
  BY <1>1, <1>2, Sizes DEF Scrolled, Screens
<1>5. ~(wrapped.y >= SCREEN_HEIGHT) => wrapped \in Screens
  BY <1>1, Sizes DEF Screens
<1>. QED
  BY <1>3, <1>4, <1>5

(* putchar leaves the cursor on the screen.                                *)
LEMMA PutScreen ==
  ASSUME NEW s \in Wide, NEW c \in Shown
  PROVE  Put(s, c) \in Screens
<1>1. CASE c = NewLine
  <2>1. NextLine(s) \in [cells : [Cells -> Glyph], x : Nat, y : Nat] /\ NextLine(s).x = 0
    <3>1. s.y \in Nat /\ s.y + 1 \in Nat
      BY Sizes DEF Wide
    <3>2. NextLine(s) = [cells |-> s.cells, x |-> 0, y |-> s.y + 1]
      <4>1. NextLine(s) \in [cells : {s.cells}, x : {0}, y : {s.y + 1}]
        BY DEF NextLine, Wide
      <4>. QED
        BY <4>1, ScreenRecord
    <3>. QED
      BY <3>1, <3>2 DEF Wide
  <2>. QED
    BY <1>1, <2>1, Sizes, SettledScreen DEF Put
<1>2. CASE c # NewLine
  <2>. DEFINE t == [s EXCEPT !.cells = Drawn(s, c), !.x = @ + 1]
  <2>1. Drawn(s, c) \in [Cells -> Glyph]
    BY <1>2 DEF Drawn, Wide, Shown
  <2>2. t \in [cells : [Cells -> Glyph], x : Nat, y : Nat] /\ t.x <= SCREEN_WIDTH
    <3>1. s.x \in Nat /\ s.y \in Nat /\ s.x + 1 \in Nat /\ s.x + 1 <= SCREEN_WIDTH
      BY Sizes DEF Wide
    <3>2. t = [cells |-> Drawn(s, c), x |-> s.x + 1, y |-> s.y]
      <4>1. t \in [cells : {Drawn(s, c)}, x : {s.x + 1}, y : {s.y}]
        BY DEF Wide
      <4>. HIDE DEF t
      <4>. QED
        BY <4>1, ScreenRecord
    <3>. QED
      BY <2>1, <3>1, <3>2
  <2>. HIDE DEF t
  <2>3. Settled(t) \in Screens
    BY <2>2, SettledScreen
  <2>. QED
    BY <1>2, <2>3 DEF Put, t
<1>. QED
  BY <1>1, <1>2

LEMMA ScreensWide == Screens \subseteq Wide
BY Sizes DEF Screens, Wide

(* printf's loop, for screens of a kind S that putchar keeps.              *)
LEMMA PrintfLoop ==
  ASSUME NEW S, NEW s \in S, NEW string \in Seq(Shown),
         \A t \in S : \A c \in Shown : Put(t, c) \in S
  PROVE  \E f \in [0 .. Len(string) -> S] :
           /\ f[0] = s
           /\ \A i \in 1 .. Len(string) : f[i] = Put(f[i - 1], string[i])
           /\ Printf(s, string) = f[Len(string)]
<1>. DEFINE n == Len(string)
            g == [x \in (1 .. n) \X S |-> Put(x[2], string[x[1]])]
            Round(f, i) == IF i = 0 THEN s ELSE Put(f[i - 1], string[i])
            Table(f) == [i \in 0 .. Len(string) |-> Round(f, i)]
            shown[i \in 0 .. Len(string)] == IF i = 0 THEN s ELSE Put(shown[i - 1], string[i])
<1>1. n \in Nat /\ \A i \in 1 .. n : string[i] \in Shown
  BY ElementOfSeq
<1>2. ASSUME NEW i \in 1 .. n, NEW v \in S
      PROVE  g[<<i, v>>] = Put(v, string[i]) /\ g[<<i, v>>] \in S
  <2>1. g[<<i, v>>] = Put(v, string[i])
    OBVIOUS
  <2>. QED
    BY <1>1, <2>1
<1>3. g \in LoopBodies(n, S)
  <2>1. \A x \in (1 .. n) \X S : g[x] \in S
    BY <1>2
  <2>. QED
    BY <2>1 DEF LoopBodies
<1>. HIDE DEF g
<1>4. PICK f : LoopValues(f, n, S, s, g)
  BY <1>1, <1>3, LoopFunction
<1>5. \A i \in 0 .. n : f[i] = Round(f, i)
  <2>1. ASSUME NEW i \in 1 .. n
        PROVE  f[i] = Put(f[i - 1], string[i])
    <3>1. i - 1 \in 0 .. n /\ f[i - 1] \in S
      BY <1>1, <1>4 DEF LoopValues
    <3>. QED
      BY <1>2, <1>4, <3>1 DEF LoopValues
  <2>2. f[0] = s
    BY <1>4 DEF LoopValues
  <2>3. \A i \in 0 .. n : i # 0 => i \in 1 .. n
    BY <1>1
  <2>. QED
    BY <2>1, <2>2, <2>3
<1>6. f = Table(f)
  BY <1>4, <1>5 DEF LoopValues
<1>7. shown = Table(shown)
  BY <1>6, Zenon
<1>8. Printf(s, string) = shown[n]
  BY Zenon DEF Printf
<1>. HIDE DEF Round, shown
<1>9. DOMAIN shown = 0 .. n /\ \A i \in 0 .. n : shown[i] = Round(shown, i)
  BY <1>7
<1>10. shown[0] = s /\ \A i \in 1 .. n : shown[i] = Put(shown[i - 1], string[i])
  <2>1. 0 \in 0 .. n /\ \A i \in 1 .. n : i \in 0 .. n /\ i # 0
    BY <1>1
  <2>. QED
    BY <1>9, <2>1 DEF Round
<1>11. \A i \in 0 .. n : shown[i] \in S
  <2>. DEFINE T == {i \in 0 .. n : shown[i] \in S}
  <2>1. 0 \in T
    BY <1>1, <1>10
  <2>2. ASSUME NEW i \in 0 .. n - 1, i \in T
        PROVE  i + 1 \in T
    <3>1. i + 1 \in 1 .. n /\ i + 1 \in 0 .. n /\ (i + 1) - 1 = i
      BY <1>1
    <3>. QED
      BY <1>1, <1>10, <2>2, <3>1
  <2>. HIDE DEF T
  <2>3. \A i \in 0 .. n : i \in T
    BY <1>1, <2>1, <2>2, RoundInduction
  <2>. QED
    BY <2>3 DEF T
<1>12. shown \in [0 .. n -> S]
  <2>1. shown = [i \in 0 .. n |-> shown[i]]
    BY <1>7
  <2>. QED
    BY <1>11, <2>1
<1>. QED
  BY <1>8, <1>10, <1>12

LEMMA PrintfScreen ==
  ASSUME NEW s \in Screens, NEW string \in Seq(Shown)
  PROVE  Printf(s, string) \in Screens
<1>1. \A t \in Screens : \A c \in Shown : Put(t, c) \in Screens
  BY PutScreen, ScreensWide
<1>2. PICK f \in [0 .. Len(string) -> Screens] : Printf(s, string) = f[Len(string)]
  BY <1>1, PrintfLoop
<1>3. Len(string) \in 0 .. Len(string)
  OBVIOUS
<1>. QED
  BY <1>2, <1>3

(* A string that is not empty ends with its last character.                *)
LEMMA PrintfWide ==
  ASSUME NEW s \in Wide, NEW string \in Seq(Shown)
  PROVE  /\ Printf(s, string) \in Wide
         /\ string # << >> => \E t \in Wide : Printf(s, string) = Put(t, string[Len(string)])
<1>1. \A t \in Wide : \A c \in Shown : Put(t, c) \in Wide
  BY PutScreen, ScreensWide
<1>2. PICK f \in [0 .. Len(string) -> Wide] :
             /\ f[0] = s
             /\ \A i \in 1 .. Len(string) : f[i] = Put(f[i - 1], string[i])
             /\ Printf(s, string) = f[Len(string)]
  BY <1>1, PrintfLoop
<1>3. Len(string) \in 0 .. Len(string)
  OBVIOUS
<1>4. ASSUME string # << >>
      PROVE  Len(string) \in 1 .. Len(string) /\ Len(string) - 1 \in 0 .. Len(string)
  BY <1>4
<1>. QED
  BY <1>2, <1>3, <1>4

(* Position counts row by row.                                             *)
LEMMA Rows ==
  ASSUME NEW w \in Nat, NEW h \in Nat, NEW i \in Nat, i + 1 <= h
  PROVE  (i + 1) * w = i * w + w /\ i * w + w <= h * w
BY SMT

LEMMA OnScreen ==
  ASSUME NEW s \in Screens
  PROVE  Position(s) \in Cells
<1>1. /\ s.x \in Nat /\ s.y \in Nat /\ s.x + 1 <= SCREEN_WIDTH /\ s.y + 1 <= SCREEN_HEIGHT
  BY Sizes DEF Screens
<1>2. s.y * SCREEN_WIDTH + SCREEN_WIDTH <= SCREEN_HEIGHT * SCREEN_WIDTH
  BY <1>1, Sizes, Rows
<1>3. SCREEN_HEIGHT * SCREEN_WIDTH = SCREEN_WIDTH * SCREEN_HEIGHT
  BY Sizes
<1>4. s.y * SCREEN_WIDTH \in Nat /\ SCREEN_WIDTH * SCREEN_HEIGHT \in Nat
  BY <1>1, Sizes
<1>. QED
  BY <1>1, <1>2, <1>3, <1>4, Sizes DEF Position, Cells

(* putchar puts a character at the cursor and moves it on by one; when the *)
(* screen scrolls both move up together.                                   *)
LEMMA PutMoves ==
  ASSUME NEW s \in Screens, NEW c \in Glyph, c # NewLine
  PROVE  /\ Put(s, c).x <= s.x + 1
         /\ \E d \in Nat :
              /\ Position(Put(s, c)) = Position(s) + 1 - d
              /\ \A q \in Cells : q <= Position(s) - d =>
                   /\ q + d \in Cells
                   /\ Put(s, c).cells[q] = IF q + d = Position(s) THEN c ELSE s.cells[q + d]
<1>. DEFINE t == [cells |-> Drawn(s, c), x |-> s.x + 1, y |-> s.y]
            P == Position(s)
<1>1. /\ s.x \in Nat /\ s.y \in Nat /\ s.x + 1 <= SCREEN_WIDTH /\ s.y + 1 <= SCREEN_HEIGHT
  BY Sizes DEF Screens
<1>2. Put(s, c) = Settled(t)
  <2>1. [s EXCEPT !.cells = Drawn(s, c), !.x = @ + 1]
           \in [cells : {Drawn(s, c)}, x : {s.x + 1}, y : {s.y}]
    BY DEF Screens
  <2>2. [s EXCEPT !.cells = Drawn(s, c), !.x = @ + 1] = t
    BY <2>1, ScreenRecord
  <2>. QED
    BY <2>2 DEF Put
<1>3. P \in Cells /\ P = s.y * SCREEN_WIDTH + s.x /\ P \in Nat
  BY OnScreen DEF Position, Cells
<1>4. \A q \in Cells : Drawn(s, c)[q] = IF q = P THEN c ELSE s.cells[q]
  BY DEF Drawn
<1>5. s.y * SCREEN_WIDTH \in Nat
  BY <1>1, Sizes
<1>6. CASE s.x + 1 < SCREEN_WIDTH
  <2>1. Settled(t) = t
    BY <1>1, <1>6, Sizes DEF Settled
  <2>2. Position(t) = P + 1 - 0
    BY <1>1, <1>3, <1>5 DEF Position
  <2>3. \A q \in Cells : q <= P - 0 =>
          /\ q + 0 \in Cells
          /\ t.cells[q] = IF q + 0 = P THEN c ELSE s.cells[q + 0]
    <3>1. \A q \in Cells : q + 0 = q
      BY DEF Cells
    <3>. QED
      BY <1>4, <3>1
  <2>. QED
    BY <1>1, <1>2, <2>1, <2>2, <2>3
<1>. DEFINE u == [cells |-> Drawn(s, c), x |-> 0, y |-> s.y + 1]
<1>7. s.x + 1 >= SCREEN_WIDTH =>
        /\ s.x + 1 = SCREEN_WIDTH
        /\ Settled(t) = IF s.y + 1 >= SCREEN_HEIGHT THEN Scrolled(u) ELSE u
  <2>1. [t EXCEPT !.x = 0, !.y = @ + 1] \in [cells : {Drawn(s, c)}, x : {0}, y : {s.y + 1}]
    OBVIOUS
  <2>2. [t EXCEPT !.x = 0, !.y = @ + 1] = u
    BY <2>1, ScreenRecord
  <2>. HIDE DEF u
  <2>3. u.y = s.y + 1
    BY DEF u
  <2>. QED
    BY <1>1, <2>2, <2>3, Sizes DEF Settled
<1>8. CASE s.x + 1 >= SCREEN_WIDTH /\ ~(s.y + 1 >= SCREEN_HEIGHT)
  <2>1. Settled(t) = u
    BY <1>7, <1>8
  <2>2. Position(u) = P + 1 - 0
    <3>1. (s.y + 1) * SCREEN_WIDTH = s.y * SCREEN_WIDTH + SCREEN_WIDTH
      BY <1>1, Sizes, Rows
    <3>2. Position(u) = (s.y + 1) * SCREEN_WIDTH + 0
      BY DEF Position
    <3>. QED
      BY <1>1, <1>3, <1>5, <1>7, <1>8, <3>1, <3>2, Sizes
  <2>3. \A q \in Cells : q <= P - 0 =>
          /\ q + 0 \in Cells
          /\ u.cells[q] = IF q + 0 = P THEN c ELSE s.cells[q + 0]
    <3>1. \A q \in Cells : q + 0 = q
      BY DEF Cells
    <3>. QED
      BY <1>4, <3>1
  <2>. QED
    BY <1>1, <1>2, <2>1, <2>2, <2>3
<1>9. CASE s.x + 1 >= SCREEN_WIDTH /\ s.y + 1 >= SCREEN_HEIGHT
  <2>. DEFINE v == [cells |-> [p \in Cells |-> IF p + SCREEN_WIDTH \in Cells
                                              THEN Drawn(s, c)[p + SCREEN_WIDTH] ELSE Blank],
                    x |-> 0, y |-> SCREEN_HEIGHT - 1]
  <2>1. Settled(t) = v
    BY <1>7, <1>9 DEF Scrolled
  <2>2. Position(v) = P + 1 - SCREEN_WIDTH
    <3>1. s.y = SCREEN_HEIGHT - 1 /\ s.x = SCREEN_WIDTH - 1
      BY <1>1, <1>9, Sizes
    <3>2. Position(v) = s.y * SCREEN_WIDTH + 0
      BY <3>1 DEF Position
    <3>. QED
      BY <1>3, <1>5, <3>1, <3>2, Sizes
  <2>3. ASSUME NEW q \in Cells, q <= P - SCREEN_WIDTH
        PROVE  /\ q + SCREEN_WIDTH \in Cells
               /\ v.cells[q] = IF q + SCREEN_WIDTH = P THEN c ELSE s.cells[q + SCREEN_WIDTH]
    <3>1. q + SCREEN_WIDTH \in Cells
      BY <1>3, <2>3, Sizes DEF Cells
    <3>2. v.cells[q] = Drawn(s, c)[q + SCREEN_WIDTH]
      BY <3>1
    <3>. QED
      BY <1>4, <3>1, <3>2
  <2>. HIDE DEF v
  <2>4. v.x = 0
    BY DEF v
  <2>. QED
    BY <1>1, <1>2, <2>1, <2>2, <2>3, <2>4, Sizes
<1>. QED
  BY <1>1, <1>6, <1>8, <1>9, Sizes

(***************************************************************************)
(* The loop of Write() that leaves out the zeros of the data.              *)
(***************************************************************************)
Buffers(n, S) == [1 .. n -> S]
Texts(S) == Seq(S \ {NUL})

IsStored(d, b, m, c) == d = [b EXCEPT ![m + 1] = c]

LEMMA KeptLoop ==
  ASSUME NEW S, NEW n \in Nat, NEW b \in Buffers(n, S)
  PROVE  /\ KeptUpTo(b)[0] = << >>
         /\ \A i \in 1 .. n :
              KeptUpTo(b)[i] = IF b[i] # NUL THEN Append(KeptUpTo(b)[i - 1], b[i])
                                             ELSE KeptUpTo(b)[i - 1]
         /\ \A i \in 0 .. n : KeptUpTo(b)[i] \in Texts(S)
         /\ Compacted(b) = KeptUpTo(b)[n]
<1>. DEFINE V == Seq(S \ {NUL})
            g == [x \in (1 .. n) \X V |-> IF b[x[1]] # NUL THEN Append(x[2], b[x[1]]) ELSE x[2]]
            Round(f, i) == IF i = 0 THEN << >>
                           ELSE IF b[i] # NUL THEN Append(f[i - 1], b[i]) ELSE f[i - 1]
            Table(f) == [i \in 0 .. Len(b) |-> Round(f, i)]
            kept[i \in 0 .. Len(b)] ==
              IF i = 0 THEN << >>
              ELSE IF b[i] # NUL THEN Append(kept[i - 1], b[i]) ELSE kept[i - 1]
<1>1. Len(b) = n
  BY IsSequence DEF Buffers
<1>2. ASSUME NEW i \in 1 .. n, NEW v \in V
      PROVE  /\ g[<<i, v>>] = (IF b[i] # NUL THEN Append(v, b[i]) ELSE v)
             /\ (IF b[i] # NUL THEN Append(v, b[i]) ELSE v) \in V
  <2>1. b[i] \in S
    BY DEF Buffers
  <2>2. b[i] # NUL => b[i] \in S \ {NUL}
    BY <2>1
  <2>3. b[i] # NUL => Append(v, b[i]) \in V
    BY <2>2, AppendProperties
  <2>. QED
    BY <2>3
<1>. HIDE DEF V
<1>3. g \in LoopBodies(n, V)
  <2>1. \A x \in (1 .. n) \X V : g[x] \in V
    BY <1>2
  <2>. QED
    BY <2>1 DEF LoopBodies
<1>. HIDE DEF g
<1>0. << >> \in V
  BY DEF V
<1>4. PICK f : LoopValues(f, n, V, << >>, g)
  BY <1>0, <1>3, LoopFunction
<1>5. \A i \in 0 .. n : f[i] = Round(f, i)
  <2>1. ASSUME NEW i \in 1 .. n
        PROVE  f[i] = IF b[i] # NUL THEN Append(f[i - 1], b[i]) ELSE f[i - 1]
    <3>1. i - 1 \in 0 .. n /\ f[i - 1] \in V
      BY <1>4 DEF LoopValues
    <3>2. f[i] = g[<<i, f[i - 1]>>]
      BY <1>4 DEF LoopValues
    <3>. QED
      BY <1>2, <3>1, <3>2
  <2>2. f[0] = << >>
    BY <1>4 DEF LoopValues
  <2>3. \A i \in 0 .. n : i # 0 => i \in 1 .. n
    OBVIOUS
  <2>. QED
    BY <2>1, <2>2, <2>3
<1>6. f = Table(f)
  BY <1>1, <1>4, <1>5 DEF LoopValues
<1>7. kept = Table(kept)
  BY <1>6, Zenon
<1>8. KeptUpTo(b) = kept
  BY Zenon DEF KeptUpTo
<1>. HIDE DEF Round, kept
<1>9. \A i \in 0 .. n : kept[i] = Round(kept, i)
  BY <1>1, <1>7
<1>10. /\ kept[0] = << >>
       /\ \A i \in 1 .. n : kept[i] = IF b[i] # NUL THEN Append(kept[i - 1], b[i]) ELSE kept[i - 1]
  <2>1. 0 \in 0 .. n /\ \A i \in 1 .. n : i \in 0 .. n /\ i # 0
    OBVIOUS
  <2>. QED
    BY <1>9, <2>1 DEF Round
<1>11. \A i \in 0 .. n : kept[i] \in V
  <2>. DEFINE T == {i \in 0 .. n : kept[i] \in V}
  <2>1. 0 \in T
    BY <1>0, <1>10
  <2>2. ASSUME NEW i \in 0 .. n - 1, i \in T
        PROVE  i + 1 \in T
    <3>1. i + 1 \in 1 .. n /\ i + 1 \in 0 .. n /\ (i + 1) - 1 = i
      OBVIOUS
    <3>2. kept[i] \in V
      BY <2>2
    <3>3. kept[i + 1] = IF b[i + 1] # NUL THEN Append(kept[i], b[i + 1]) ELSE kept[i]
      BY <1>10, <3>1
    <3>. QED
      BY <1>2, <3>1, <3>2, <3>3
  <2>. HIDE DEF T
  <2>3. \A i \in 0 .. n : i \in T
    BY <2>1, <2>2, RoundInduction
  <2>. QED
    BY <2>3 DEF T
<1>12. Compacted(b) = kept[n]
  BY <1>1, <1>8 DEF Compacted
<1>. QED
  BY <1>8, <1>10, <1>11, <1>12 DEF V, Texts

(* The result depends on what the loop has looked at only.                 *)
LEMMA KeptAgrees ==
  ASSUME NEW S, NEW n \in Nat, NEW b \in Buffers(n, S), NEW d \in Buffers(n, S),
         NEW m \in 0 .. n, \A i \in 1 .. m : b[i] = d[i]
  PROVE  KeptUpTo(b)[m] = KeptUpTo(d)[m]
<1>. DEFINE T == {i \in 0 .. m : KeptUpTo(b)[i] = KeptUpTo(d)[i]}
<1>1. 0 \in T
  BY KeptLoop
<1>2. ASSUME NEW i \in 0 .. m - 1, i \in T
      PROVE  i + 1 \in T
  <2>1. i + 1 \in 1 .. n /\ i + 1 \in 1 .. m /\ (i + 1) - 1 = i
    OBVIOUS
  <2>2. KeptUpTo(b)[i] = KeptUpTo(d)[i] /\ b[i + 1] = d[i + 1]
    BY <1>2, <2>1
  <2>3. /\ KeptUpTo(b)[i + 1] = IF b[i + 1] # NUL THEN Append(KeptUpTo(b)[i], b[i + 1]) ELSE KeptUpTo(b)[i]
        /\ KeptUpTo(d)[i + 1] = IF d[i + 1] # NUL THEN Append(KeptUpTo(d)[i], d[i + 1]) ELSE KeptUpTo(d)[i]
    BY <2>1, KeptLoop
  <2>. QED
    BY <2>1, <2>2, <2>3
<1>. HIDE DEF T
<1>3. \A i \in 0 .. m : i \in T
  BY <1>1, <1>2, RoundInduction
<1>4. m \in T
  BY <1>3
<1>. QED
  BY <1>4 DEF T

(* Zeros at the end add nothing.                                           *)
LEMMA KeptBefore ==
  ASSUME NEW S, NEW n \in Nat, NEW b \in Buffers(n, S),
         NEW m \in 0 .. n, \A i \in m + 1 .. n : b[i] = NUL
  PROVE  Compacted(b) = KeptUpTo(b)[m]
<1>. DEFINE T == {i \in 0 .. n - m : KeptUpTo(b)[m + i] = KeptUpTo(b)[m]}
<1>1. 0 \in T
  OBVIOUS
<1>2. ASSUME NEW i \in 0 .. (n - m) - 1, i \in T
      PROVE  i + 1 \in T
  <2>1. m + (i + 1) \in 1 .. n /\ m + (i + 1) \in m + 1 .. n /\ (m + (i + 1)) - 1 = m + i
    OBVIOUS
  <2>2. b[m + (i + 1)] = NUL
    BY <2>1
  <2>3. KeptUpTo(b)[m + (i + 1)] = KeptUpTo(b)[m + i]
    BY <2>1, <2>2, KeptLoop
  <2>. QED
    BY <1>2, <2>3
<1>. HIDE DEF T
<1>3. n - m \in Nat
  OBVIOUS
<1>4. \A i \in 0 .. n - m : i \in T
  BY <1>1, <1>2, <1>3, RoundInduction
<1>5. n - m \in T
  BY <1>3, <1>4
<1>6. KeptUpTo(b)[m + (n - m)] = KeptUpTo(b)[m]
  BY <1>5 DEF T
<1>7. m + (n - m) = n
  OBVIOUS
<1>. QED
  BY <1>6, <1>7, KeptLoop

LEMMA CompactedText ==
  ASSUME NEW S, NEW n \in Nat, NEW b \in Buffers(n, S)
  PROVE  Compacted(b) \in Seq(S)
<1>1. Compacted(b) \in Texts(S)
  BY KeptLoop
<1>2. Texts(S) \subseteq Seq(S)
  BY DEF Texts
<1>. QED
  BY <1>1, <1>2

LEMMA CompactedZeros ==
  ASSUME NEW n \in Nat
  PROVE  Zeros(n) \in Buffers(n, {NUL}) /\ Compacted(Zeros(n)) = << >>
<1>1. Zeros(n) \in Buffers(n, {NUL}) /\ \A i \in 1 .. n : Zeros(n)[i] = NUL
  BY DEF Zeros, Buffers
<1>2. 0 \in 0 .. n /\ \A i \in 0 + 1 .. n : Zeros(n)[i] = NUL
  BY <1>1
<1>3. Compacted(Zeros(n)) = KeptUpTo(Zeros(n))[0]
  BY <1>1, <1>2, KeptBefore
<1>. QED
  BY <1>1, <1>3, KeptLoop

(* A character stored behind everything else comes at the end of the text. *)
LEMMA CompactedStored ==
  ASSUME NEW S, NEW n \in Nat, NEW b \in Buffers(n, S), NEW m \in 0 .. n - 1,
         \A i \in m + 1 .. n : b[i] = NUL, NEW c \in S,
         NEW d, IsStored(d, b, m, c)
  PROVE  /\ d \in Buffers(n, S)
         /\ \A i \in (m + 1) + 1 .. n : d[i] = NUL
         /\ Compacted(d) = IF c # NUL THEN Append(Compacted(b), c) ELSE Compacted(b)
<1>1. /\ m + 1 \in 1 .. n /\ m \in 0 .. n /\ m + 1 \in 0 .. n /\ (m + 1) - 1 = m
      /\ (m + 1) + 1 \in Nat
  OBVIOUS
<1>2. d \in Buffers(n, S) /\ d[m + 1] = c /\ \A i \in 1 .. n : i # m + 1 => d[i] = b[i]
  BY <1>1 DEF Buffers, IsStored
<1>3. \A i \in 1 .. m : b[i] = d[i]
  BY <1>1, <1>2
<1>4. \A i \in (m + 1) + 1 .. n : d[i] = NUL
  BY <1>1, <1>2
<1>5. Compacted(d) = KeptUpTo(d)[m + 1]
  BY <1>1, <1>2, <1>4, KeptBefore
<1>6. KeptUpTo(d)[m + 1] = IF c # NUL THEN Append(KeptUpTo(d)[m], c) ELSE KeptUpTo(d)[m]
  BY <1>1, <1>2, KeptLoop
<1>7. KeptUpTo(d)[m] = KeptUpTo(b)[m]
  BY <1>1, <1>2, <1>3, KeptAgrees
<1>8. KeptUpTo(b)[m] = Compacted(b)
  BY <1>1, KeptBefore
<1>. QED
  BY <1>2, <1>4, <1>5, <1>6, <1>7, <1>8

(* Backspace takes the last character off the text.                        *)
LEMMA CompactedCleared ==
  ASSUME NEW S, NEW n \in Nat, NEW b \in Buffers(n, S), NUL \in S, Compacted(b) # << >>
  PROVE  /\ LastCleared(b) \in Buffers(n, S)
         /\ \A m \in 1 .. n : (\A i \in m + 1 .. n : b[i] = NUL) =>
              \A i \in m .. n : LastCleared(b)[i] = NUL
         /\ Compacted(LastCleared(b)) = SubSeq(Compacted(b), 1, Len(Compacted(b)) - 1)
<1>. DEFINE d == LastCleared(b)
            T == {m \in 0 .. n : \A i \in m + 1 .. n : b[i] = NUL}
<1>0. DOMAIN b = 1 .. n /\ Len(b) = n
  BY IsSequence DEF Buffers
<1>1. PICK m \in T : \A k \in T : m <= k
  <2>1. T \subseteq Nat /\ n \in T
    OBVIOUS
  <2>. HIDE DEF T
  <2>. QED
    BY <2>1, LeastNumber
<1>2. m \in 0 .. n /\ \A i \in m + 1 .. n : b[i] = NUL
  BY <1>1
<1>3. m # 0
  <2>1. Compacted(b) = KeptUpTo(b)[m]
    BY <1>2, KeptBefore
  <2>. QED
    BY <2>1, KeptLoop
<1>4. m \in 1 .. n /\ m - 1 \in 0 .. n /\ b[m] # NUL
  <2>1. m \in 1 .. n /\ m - 1 \in 0 .. n /\ m - 1 \notin T
    BY <1>1, <1>2, <1>3
  <2>2. PICK i \in (m - 1) + 1 .. n : b[i] # NUL
    BY <2>1
  <2>3. i = m
    BY <1>2, <2>1, <2>2
  <2>. QED
    BY <2>1, <2>2, <2>3
<1>. HIDE DEF T
<1>5. \A i \in 1 .. n : d[i] = IF i >= m THEN NUL ELSE b[i]
  <2>1. \A i \in 1 .. n : d[i] = IF \A j \in i + 1 .. n : b[j] = NUL THEN NUL ELSE b[i]
    BY <1>0 DEF LastCleared
  <2>2. \A i \in 1 .. n : (\A j \in i + 1 .. n : b[j] = NUL) <=> i >= m
    BY <1>2, <1>4
  <2>. QED
    BY <2>1, <2>2
<1>6. d \in Buffers(n, S)
  <2>1. d = [i \in 1 .. n |-> d[i]]
    BY <1>0 DEF LastCleared
  <2>2. \A i \in 1 .. n : d[i] \in S
    BY <1>5 DEF Buffers
  <2>. HIDE DEF d
  <2>. QED
    BY <2>1, <2>2 DEF Buffers
<1>. HIDE DEF d
<1>7. ASSUME NEW k \in 1 .. n, \A i \in k + 1 .. n : b[i] = NUL
      PROVE  \A i \in k .. n : d[i] = NUL
  <2>1. k >= m
    BY <1>4, <1>7
  <2>. QED
    BY <1>4, <1>5, <2>1
<1>8. KeptUpTo(d)[m - 1] = KeptUpTo(b)[m - 1]
  <2>1. \A i \in 1 .. m - 1 : b[i] = d[i]
    BY <1>4, <1>5
  <2>. QED
    BY <1>4, <1>6, <2>1, KeptAgrees
<1>9. Compacted(d) = KeptUpTo(d)[m - 1]
  <2>1. \A i \in (m - 1) + 1 .. n : d[i] = NUL
    BY <1>4, <1>5
  <2>. QED
    BY <1>4, <1>6, <2>1, KeptBefore
<1>10. Compacted(b) = Append(KeptUpTo(b)[m - 1], b[m])
  <2>1. Compacted(b) = KeptUpTo(b)[m]
    BY <1>2, KeptBefore
  <2>. QED
    BY <1>4, <2>1, KeptLoop
<1>11. KeptUpTo(b)[m - 1] \in Seq(S) /\ b[m] \in S
  <2>1. KeptUpTo(b)[m - 1] \in Texts(S)
    BY <1>4, KeptLoop
  <2>. QED
    BY <1>4, <2>1 DEF Texts, Buffers
<1>12. SubSeq(Append(KeptUpTo(b)[m - 1], b[m]), 1, Len(Append(KeptUpTo(b)[m - 1], b[m])) - 1)
         = KeptUpTo(b)[m - 1]
  <2>1. \A q \in Seq(S) : \A e \in S : SubSeq(Append(q, e), 1, Len(Append(q, e)) - 1) = q
    OBVIOUS
  <2>. QED
    BY <1>11, <2>1
<1>. QED
  BY <1>6, <1>7, <1>8, <1>9, <1>10, <1>12 DEF d

(***************************************************************************)
(* The line in front of its terminator.                                    *)
(***************************************************************************)
LEMMA Prefix ==
  ASSUME NEW S, NEW n \in Nat, NEW b \in Buffers(n, S), NEW m \in 0 .. n
  PROVE  /\ SubSeq(b, 1, m) \in Seq(S) /\ Len(SubSeq(b, 1, m)) = m
         /\ \A i \in 1 .. m : SubSeq(b, 1, m)[i] = b[i]
<1>1. b \in Seq(S) /\ Len(b) = n
  BY IsSequence DEF Buffers
<1>. QED
  BY <1>1

LEMMA PrefixTyped ==
  ASSUME NEW S, NEW n \in Nat, NEW b \in Buffers(n, S), NEW m \in 0 .. n - 1, NEW c \in S,
         NEW d, IsStored(d, b, m, c)
  PROVE  SubSeq(d, 1, m + 1) = Append(SubSeq(b, 1, m), c)
<1>1. m \in 0 .. n /\ m + 1 \in 0 .. n /\ m + 1 \in 1 .. n
  OBVIOUS
<1>2. d \in Buffers(n, S) /\ d[m + 1] = c /\ \A i \in 1 .. n : i # m + 1 => d[i] = b[i]
  BY <1>1 DEF Buffers, IsStored
<1>3. /\ SubSeq(d, 1, m + 1) \in Seq(S) /\ Len(SubSeq(d, 1, m + 1)) = m + 1
      /\ \A i \in 1 .. m + 1 : SubSeq(d, 1, m + 1)[i] = d[i]
  BY <1>1, <1>2, Prefix
<1>4. /\ SubSeq(b, 1, m) \in Seq(S) /\ Len(SubSeq(b, 1, m)) = m
      /\ \A i \in 1 .. m : SubSeq(b, 1, m)[i] = b[i]
  BY <1>1, Prefix
<1>. QED
  BY <1>1, <1>2, <1>3, <1>4

LEMMA PrefixErased ==
  ASSUME NEW S, NEW n \in Nat, NEW b \in Buffers(n, S), NEW m \in 1 .. n, NEW c \in S
  PROVE  SubSeq([b EXCEPT ![m] = c], 1, m - 1)
           = SubSeq(SubSeq(b, 1, m), 1, Len(SubSeq(b, 1, m)) - 1)
<1>. DEFINE d == [b EXCEPT ![m] = c]
<1>1. m \in 0 .. n /\ m - 1 \in 0 .. n
  OBVIOUS
<1>2. d \in Buffers(n, S) /\ \A i \in 1 .. n : i # m => d[i] = b[i]
  BY DEF Buffers
<1>. HIDE DEF d
<1>3. /\ SubSeq(d, 1, m - 1) \in Seq(S) /\ Len(SubSeq(d, 1, m - 1)) = m - 1
      /\ \A i \in 1 .. m - 1 : SubSeq(d, 1, m - 1)[i] = d[i]
  BY <1>1, <1>2, Prefix
<1>4. /\ SubSeq(b, 1, m) \in Seq(S) /\ Len(SubSeq(b, 1, m)) = m
      /\ \A i \in 1 .. m : SubSeq(b, 1, m)[i] = b[i]
  BY <1>1, Prefix
<1>. QED
  BY <1>1, <1>2, <1>3, <1>4 DEF d

(* A C string ends before its first zero.                                  *)
LEMMA StringEnds ==
  ASSUME NEW S, NEW n \in Nat, NEW b \in Buffers(n, S),
         NEW i \in Nat \ {0}, NEW m \in 0 .. n - 1, i <= m + 1,
         b[m + 1] = NUL, \A j \in i .. m : b[j] # NUL
  PROVE  StringAt(b, i) = SubSeq(b, i, m)
<1>. DEFINE ends == {j \in i .. Len(b) : b[j] = NUL}
            least(e) == \A f \in ends : e <= f
<1>1. Len(b) = n
  BY IsSequence DEF Buffers
<1>2. m + 1 \in ends /\ \A f \in ends : f \in Nat /\ m + 1 <= f
  BY <1>1
<1>. HIDE DEF ends
<1>3. (CHOOSE e \in ends : least(e)) = m + 1
  <2>1. \E e \in ends : least(e)
    BY <1>2
  <2>. HIDE DEF least
  <2>2. (CHOOSE e \in ends : least(e)) \in ends /\ least(CHOOSE e \in ends : least(e))
    BY <2>1, Zenon
  <2>3. \A e \in ends : least(e) => e = m + 1
    BY <1>2 DEF least
  <2>. QED
    BY <2>2, <2>3
<1>4. ends # {}
  BY <1>2
<1>5. StringAt(b, i) = IF ends = {} THEN SubSeq(b, i, Len(b))
                       ELSE SubSeq(b, i, (CHOOSE e \in ends : least(e)) - 1)
  BY Zenon DEF StringAt, ends
<1>6. (m + 1) - 1 = m
  OBVIOUS
<1>. QED
  BY <1>3, <1>4, <1>5, <1>6

(***************************************************************************)
(* The invariant that holds whatever the timer does.                       *)
(***************************************************************************)
DataChar == Char \cup {NUL, NewLine}

(* The index and the buffer of the data are at rest outside write mode; in *)
(* it there is a character of the data for every column left of the cursor.*)
TextKept ==
  /\ write_state = 0 => write_file_buffer_index = 0 /\ write_file_buffer = Zeros(DataLength)
  /\ write_state = 1 => screen.x <= Len(Text)

CInv == TypeOK /\ IndexAboveText /\ TextKept

LEMMA Chars ==
  /\ \A key \in Key : Plain[key] \in Char /\ Shifted[key] \in Char
  /\ NUL \notin Char /\ NewLine \notin Char /\ NUL # NewLine
  /\ Char \subseteq Glyph /\ Blank \in Glyph /\ ">" \in Glyph
<1>1. \A key \in Key : Plain[key] \in Char /\ Shifted[key] \in Char
  BY DEF Char
<1>2. NUL # NewLine
  BY DEF NUL, NewLine
<1>. QED
  BY <1>1, <1>2, ConsoleAssumption, TextAssumption

LEMMA Types ==
  ASSUME TypeOK
  PROVE  /\ screen \in Screens /\ screen.x \in Nat
         /\ command_buffer \in Buffers(MAX_COMMAND_LENGTH, Char \cup {NUL})
         /\ command_length \in 0 .. MAX_COMMAND_LENGTH - 1
         /\ write_state \in {0, 1}
         /\ write_file_buffer \in Buffers(DataLength, DataChar)
         /\ write_file_buffer_index \in 0 .. DataLength
         /\ MAX_COMMAND_LENGTH \in Nat /\ DataLength \in Nat
         /\ Text \in Seq(DataChar)
<1>1. MAX_COMMAND_LENGTH \in Nat /\ DataLength \in Nat
  BY ConsoleAssumption
<1>2. screen \in Screens /\ screen.x \in Nat
  BY Sizes DEF TypeOK, Screens
<1>3. /\ write_file_buffer \in Buffers(DataLength, DataChar)
      /\ command_buffer \in Buffers(MAX_COMMAND_LENGTH, Char \cup {NUL})
  BY DEF TypeOK, Buffers, DataChar
<1>4. Text \in Seq(DataChar)
  BY <1>1, <1>3, CompactedText DEF Text
<1>. QED
  BY <1>1, <1>2, <1>3, <1>4 DEF TypeOK

(* The converse, for the next state.                                       *)
LEMMA TypesNext ==
  ASSUME screen' \in Screens,
         command_buffer' \in Buffers(MAX_COMMAND_LENGTH, Char \cup {NUL}),
         command_length' \in 0 .. MAX_COMMAND_LENGTH - 1,
         shift_pressed' \in {0, 1},
         write_state' \in {0, 1},
         write_file_buffer' \in Buffers(DataLength, DataChar),
         write_file_buffer_index' \in 0 .. DataLength
  PROVE  TypeOK'
BY DEF TypeOK, Screens, Buffers, DataChar

(***************************************************************************)
(* What the keys do to the two buffers.                                    *)
(***************************************************************************)
(* Storing a character of the data.                                        *)
LEMMA Stored ==
  ASSUME CInv, NEW c \in DataChar, write_state = 1, write_file_buffer_index < DataLength,
         write_file_buffer' = [write_file_buffer EXCEPT ![write_file_buffer_index + 1] = c],
         write_file_buffer_index' = write_file_buffer_index + 1
  PROVE  /\ write_file_buffer' \in Buffers(DataLength, DataChar)
         /\ write_file_buffer_index' \in 1 .. DataLength
         /\ \A i \in write_file_buffer_index' + 1 .. DataLength : write_file_buffer'[i] = NUL
         /\ Text' = IF c # NUL THEN Append(Text, c) ELSE Text
<1>1. write_file_buffer_index \in 0 .. DataLength - 1
  BY Types DEF CInv
<1>2. \A i \in write_file_buffer_index + 1 .. DataLength : write_file_buffer[i] = NUL
  BY DEF CInv, IndexAboveText
<1>3. write_file_buffer \in Buffers(DataLength, DataChar) /\ DataLength \in Nat
  BY Types DEF CInv
<1>4. /\ write_file_buffer' \in Buffers(DataLength, DataChar)
      /\ \A i \in (write_file_buffer_index + 1) + 1 .. DataLength : write_file_buffer'[i] = NUL
      /\ Compacted(write_file_buffer')
           = IF c # NUL THEN Append(Compacted(write_file_buffer), c) ELSE Compacted(write_file_buffer)
  <2>. DEFINE d == write_file_buffer'
  <2>1. IsStored(d, write_file_buffer, write_file_buffer_index, c)
    BY DEF IsStored
  <2>. HIDE DEF d
  <2>2. /\ d \in Buffers(DataLength, DataChar)
        /\ \A i \in (write_file_buffer_index + 1) + 1 .. DataLength : d[i] = NUL
        /\ Compacted(d) = IF c # NUL THEN Append(Compacted(write_file_buffer), c)
                                     ELSE Compacted(write_file_buffer)
    BY <1>1, <1>2, <1>3, <2>1, CompactedStored
  <2>. QED
    BY <2>2 DEF d
<1>. QED
  BY <1>1, <1>3, <1>4 DEF Text

LEMMA CharacterAdds ==
  ASSUME CInv, NEW key \in Key, Character(key)
  PROVE  \E c \in Char :
           /\ screen' = Put(screen, c) /\ screen' \in Screens /\ screen'.x <= screen.x + 1
           /\ \/ /\ write_state = 0
                 /\ command_length' = command_length + 1
                 /\ command_buffer' = [command_buffer EXCEPT ![command_length + 1] = c]
                 /\ command_length' \in 0 .. MAX_COMMAND_LENGTH - 1
                 /\ command_buffer' \in Buffers(MAX_COMMAND_LENGTH, Char \cup {NUL})
                 /\ Line' = Append(Line, c) /\ UNCHANGED entry /\ Text' = Text
              \/ /\ write_state = 1 /\ write_state' = 1
                 /\ write_file_buffer' \in Buffers(DataLength, DataChar)
                 /\ write_file_buffer_index' = write_file_buffer_index + 1
                 /\ write_file_buffer_index' \in 1 .. DataLength
                 /\ \A i \in write_file_buffer_index' + 1 .. DataLength : write_file_buffer'[i] = NUL
                 /\ Text' = Append(Text, c) /\ UNCHANGED command /\ Line' = Line
<1>. DEFINE c == IF shift_pressed = 1 THEN Shifted[key] ELSE Plain[key]
<1>1. c \in Char /\ c # NUL /\ c # NewLine /\ c \in Glyph /\ c \in DataChar
  BY Chars DEF DataChar
<1>2. screen' = Put(screen, c)
  BY DEF Character
<1>3. \/ /\ write_state = 0
         /\ command_length < MAX_COMMAND_LENGTH - 1
         /\ command_buffer' = [command_buffer EXCEPT ![command_length + 1] = c]
         /\ command_length' = command_length + 1
         /\ UNCHANGED entry
      \/ /\ write_state = 1
         /\ Store(c)
         /\ UNCHANGED <<write_state, command>>
  BY DEF Character
<1>. HIDE DEF c
<1>4. screen' \in Screens /\ screen'.x <= screen.x + 1
  <2>1. screen \in Screens
    BY Types DEF CInv
  <2>. QED
    BY <1>1, <1>2, <2>1, PutScreen, PutMoves, ScreensWide DEF Shown
<1>5. CASE write_state = 0
  <2>1. /\ command_length \in 0 .. MAX_COMMAND_LENGTH - 1 /\ command_length + 1 \in 0 .. MAX_COMMAND_LENGTH - 1
        /\ MAX_COMMAND_LENGTH \in Nat
        /\ command_buffer \in Buffers(MAX_COMMAND_LENGTH, Char \cup {NUL})
    BY <1>3, <1>5, Types DEF CInv
  <2>2. command_buffer' \in Buffers(MAX_COMMAND_LENGTH, Char \cup {NUL})
    BY <1>1, <1>3, <1>5, <2>1 DEF Buffers
  <2>3. Line' = Append(Line, c)
    <3>1. c \in Char \cup {NUL} /\ command_length \in 0 .. MAX_COMMAND_LENGTH - 1
      BY <1>1, <2>1
    <3>2. /\ command_buffer' = [command_buffer EXCEPT ![command_length + 1] = c]
          /\ command_length' = command_length + 1
      BY <1>3, <1>5
    <3>3. SubSeq(command_buffer', 1, command_length + 1) = Append(SubSeq(command_buffer, 1, command_length), c)
      <4>. DEFINE d == command_buffer'
      <4>1. IsStored(d, command_buffer, command_length, c)
        BY <3>2 DEF IsStored
      <4>. HIDE DEF d
      <4>2. SubSeq(d, 1, command_length + 1) = Append(SubSeq(command_buffer, 1, command_length), c)
        BY <2>1, <3>1, <4>1, PrefixTyped
      <4>. QED
        BY <4>2 DEF d
    <3>. QED
      BY <3>2, <3>3 DEF Line
  <2>4. Text' = Text
    BY <1>3, <1>5 DEF Text, entry
  <2>. QED
    BY <1>1, <1>2, <1>3, <1>4, <1>5, <2>1, <2>2, <2>3, <2>4
<1>6. CASE write_state = 1
  <2>1. Store(c) /\ UNCHANGED <<write_state, command>>
    BY <1>3, <1>6
  <2>2. /\ write_file_buffer' \in Buffers(DataLength, DataChar)
        /\ write_file_buffer_index' \in 1 .. DataLength
        /\ \A i \in write_file_buffer_index' + 1 .. DataLength : write_file_buffer'[i] = NUL
        /\ Text' = Append(Text, c)
    BY <1>1, <1>6, <2>1, Stored DEF Store
  <2>3. Line' = Line
    BY <2>1 DEF Line, command
  <2>. QED
    BY <1>1, <1>2, <1>4, <1>6, <2>1, <2>2, <2>3 DEF Store
<1>. QED
  BY <1>5, <1>6, Types DEF CInv

LEMMA SilentAdds ==
  ASSUME CInv, Silent
  PROVE  /\ write_file_buffer' \in Buffers(DataLength, DataChar)
         /\ write_file_buffer_index' = write_file_buffer_index + 1
         /\ write_file_buffer_index' \in 1 .. DataLength
         /\ \A i \in write_file_buffer_index' + 1 .. DataLength : write_file_buffer'[i] = NUL
         /\ Text' = Text /\ Line' = Line
<1>1. NUL \in DataChar
  BY DEF DataChar
<1>2. Line' = Line
  BY DEF Silent, Line, command
<1>. QED
  BY <1>1, <1>2, Stored DEF Silent, Store

LEMMA BackspaceTakes ==
  ASSUME CInv, Backspace
  PROVE  /\ screen.x >= 1
         /\ screen' = [cells |-> [q \in Cells |-> IF q = Position(screen) - 1 THEN Blank
                                                  ELSE screen.cells[q]],
                       x |-> screen.x - 1, y |-> screen.y]
         /\ screen' \in Screens
         /\ \/ /\ write_state = 0
               /\ command_length \in 1 .. MAX_COMMAND_LENGTH - 1
               /\ command_length' = command_length - 1
               /\ command_buffer' = [command_buffer EXCEPT ![command_length] = NUL]
               /\ command_buffer' \in Buffers(MAX_COMMAND_LENGTH, Char \cup {NUL})
               /\ Line # << >> /\ Line' = SubSeq(Line, 1, Len(Line) - 1)
               /\ UNCHANGED entry /\ Text' = Text
            \/ /\ write_state = 1 /\ write_state' = 1
               /\ write_file_buffer' \in Buffers(DataLength, DataChar)
               /\ write_file_buffer_index' = write_file_buffer_index - 1
               /\ write_file_buffer_index' \in 0 .. DataLength
               /\ \A i \in write_file_buffer_index' + 1 .. DataLength : write_file_buffer'[i] = NUL
               /\ Text # << >> /\ Text' = SubSeq(Text, 1, Len(Text) - 1)
               /\ UNCHANGED command /\ Line' = Line
<1>0. /\ screen \in Screens /\ screen.x \in Nat
      /\ command_buffer \in Buffers(MAX_COMMAND_LENGTH, Char \cup {NUL})
      /\ command_length \in 0 .. MAX_COMMAND_LENGTH - 1
      /\ write_file_buffer \in Buffers(DataLength, DataChar)
      /\ write_file_buffer_index \in 0 .. DataLength
      /\ MAX_COMMAND_LENGTH \in Nat /\ DataLength \in Nat
      /\ Text \in Seq(DataChar)
  BY Types DEF CInv
<1>1. screen.x >= 1
  BY <1>0 DEF Backspace, Erasable
<1>2. /\ screen' = [cells |-> [q \in Cells |-> IF q = Position(screen) - 1 THEN Blank
                                               ELSE screen.cells[q]],
                    x |-> screen.x - 1, y |-> screen.y]
  <2>. DEFINE back == [screen EXCEPT !.x = @ - 1]
              cleared == [q \in Cells |-> IF q = Position(screen) - 1 THEN Blank
                                          ELSE screen.cells[q]]
  <2>1. back = [cells |-> screen.cells, x |-> screen.x - 1, y |-> screen.y]
    <3>1. back \in [cells : {screen.cells}, x : {screen.x - 1}, y : {screen.y}]
      BY <1>0 DEF Screens
    <3>. HIDE DEF back
    <3>. QED
      BY <3>1, ScreenRecord
  <2>2. screen' = [back EXCEPT !.cells = Drawn(back, Blank)]
    BY DEF Backspace
  <2>. HIDE DEF back
  <2>3. back.cells = screen.cells /\ back.x = screen.x - 1 /\ back.y = screen.y
    BY <2>1
  <2>4. Position(back) = Position(screen) - 1
    <3>1. screen.y \in Nat /\ screen.y * SCREEN_WIDTH \in Nat
      BY <1>0, Sizes DEF Screens
    <3>. QED
      BY <1>0, <2>3, <3>1 DEF Position
  <2>5. Drawn(back, Blank) = cleared
    BY <2>3, <2>4 DEF Drawn
  <2>. HIDE DEF cleared
  <2>6. [back EXCEPT !.cells = cleared] \in [cells : {cleared}, x : {screen.x - 1}, y : {screen.y}]
    BY <2>1
  <2>7. screen' \in [cells : {cleared}, x : {screen.x - 1}, y : {screen.y}]
    BY <2>2, <2>5, <2>6
  <2>. QED
    BY <2>7, ScreenRecord DEF cleared
<1>3. screen' \in Screens
  <2>1. screen.x - 1 \in 0 .. SCREEN_WIDTH - 1
    BY <1>0, <1>1, Sizes DEF Screens
  <2>2. [q \in Cells |-> IF q = Position(screen) - 1 THEN Blank ELSE screen.cells[q]] \in [Cells -> Glyph]
    BY <1>0, Chars DEF Screens
  <2>. QED
    BY <1>0, <1>2, <2>1, <2>2 DEF Screens
<1>4. CASE write_state = 0
  <2>1. /\ command_length' = command_length - 1
        /\ command_buffer' = [command_buffer EXCEPT ![command_length] = NUL]
        /\ UNCHANGED entry
    BY <1>4 DEF Backspace
  <2>2. command_length \in 1 .. MAX_COMMAND_LENGTH - 1
    <3>1. write_file_buffer_index = 0
      BY <1>4 DEF CInv, TextKept
    <3>. QED
      BY <1>0, <3>1 DEF Backspace, Erasable
  <2>3. command_buffer' \in Buffers(MAX_COMMAND_LENGTH, Char \cup {NUL})
    BY <1>0, <2>1, <2>2 DEF Buffers
  <2>4. Line' = SubSeq(Line, 1, Len(Line) - 1)
    <3>1. command_length \in 1 .. MAX_COMMAND_LENGTH /\ NUL \in Char \cup {NUL}
      BY <1>0, <2>2
    <3>. QED
      BY <1>0, <2>1, <3>1, PrefixErased DEF Line
  <2>5. Line # << >>
    <3>1. command_length \in 0 .. MAX_COMMAND_LENGTH
      BY <1>0
    <3>2. Len(Line) = command_length
      BY <1>0, <3>1, Prefix DEF Line
    <3>. QED
      BY <2>2, <3>2
  <2>6. Text' = Text
    BY <2>1 DEF Text, entry
  <2>. QED
    BY <1>1, <1>2, <1>3, <1>4, <2>1, <2>2, <2>3, <2>4, <2>5, <2>6
<1>5. CASE write_state = 1
  <2>1. /\ write_file_buffer' = LastCleared(write_file_buffer)
        /\ write_file_buffer_index' = write_file_buffer_index - 1
        /\ UNCHANGED <<write_state, command>>
    BY <1>5 DEF Backspace
  <2>2. write_file_buffer_index \in 1 .. DataLength
    BY <1>0, <1>1, <1>5 DEF CInv, IndexAboveText
  <2>3. Text # << >>
    <3>1. screen.x <= Len(Text)
      BY <1>5 DEF CInv, TextKept
    <3>. QED
      BY <1>0, <1>1, <3>1
  <2>4. NUL \in DataChar /\ Compacted(write_file_buffer) # << >>
    BY <2>3 DEF DataChar, Text
  <2>5. write_file_buffer' \in Buffers(DataLength, DataChar)
    BY <1>0, <2>1, <2>4, CompactedCleared
  <2>6. Text' = SubSeq(Text, 1, Len(Text) - 1)
    BY <1>0, <2>1, <2>4, CompactedCleared DEF Text
  <2>7. \A i \in write_file_buffer_index .. DataLength : write_file_buffer'[i] = NUL
    <3>1. \A i \in write_file_buffer_index + 1 .. DataLength : write_file_buffer[i] = NUL
      BY <1>5 DEF CInv, IndexAboveText
    <3>. QED
      BY <1>0, <2>1, <2>2, <2>4, <3>1, CompactedCleared
  <2>8. /\ write_file_buffer_index' + 1 = write_file_buffer_index
        /\ write_file_buffer_index' \in 0 .. DataLength
    BY <1>0, <2>1, <2>2
  <2>9. Line' = Line
    BY <2>1 DEF Line, command
  <2>. QED
    BY <1>1, <1>2, <1>3, <1>5, <2>1, <2>3, <2>5, <2>6, <2>7, <2>8, <2>9
<1>. QED
  BY <1>4, <1>5, Types DEF CInv

(***************************************************************************)
(* What Enter does.                                                        *)
(***************************************************************************)
LEMMA SettledZero ==
  ASSUME NEW s, s.x = 0
  PROVE  Settled(s).x = 0
<1>1. ~(s.x >= SCREEN_WIDTH)
  BY Sizes
<1>2. Settled(s) = IF s.y >= SCREEN_HEIGHT THEN Scrolled(s) ELSE s
  BY <1>1 DEF Settled
<1>3. Scrolled(s).x = 0
  BY DEF Scrolled
<1>. QED
  BY <1>2, <1>3

LEMMA WideSettles ==
  ASSUME NEW s \in Wide
  PROVE  Settled(s) \in Screens
<1>1. s \in [cells : [Cells -> Glyph], x : Nat, y : Nat] /\ s.x <= SCREEN_WIDTH
  BY Sizes DEF Wide
<1>. QED
  BY <1>1, SettledScreen

LEMMA NextLineWide ==
  ASSUME NEW s \in Screens
  PROVE  NextLine(s) \in Wide /\ NextLine(s).x = 0
<1>1. s.y \in Nat /\ s.y + 1 \in 0 .. SCREEN_HEIGHT /\ 0 \in 0 .. SCREEN_WIDTH - 1
  BY Sizes DEF Screens
<1>2. NextLine(s) \in [cells : {s.cells}, x : {0}, y : {s.y + 1}]
  BY DEF NextLine, Screens
<1>3. NextLine(s) = [cells |-> s.cells, x |-> 0, y |-> s.y + 1]
  BY <1>2, ScreenRecord
<1>. QED
  BY <1>1, <1>3 DEF Wide, Screens

LEMMA Strings ==
  /\ Welcome \in Seq(Shown) /\ EnterData \in Seq(Shown) /\ NoSpace \in Seq(Shown)
  /\ Prompt \in Seq(Shown) /\ << >> \in Seq(Shown)
<1>1. Prompt \in Seq(Shown)
  <2>1. ">" \in Shown
    BY Chars DEF Shown
  <2>. QED
    BY <2>1 DEF Prompt
<1>2. {Welcome, EnterData, NoSpace} \subseteq Seq(Shown)
  BY TextAssumption DEF Shown
<1>. QED
  BY <1>1, <1>2

LEMMA EmptyScreenType == EmptyScreen \in Screens
<1>1. [p \in Cells |-> Blank] \in [Cells -> Glyph]
  BY Chars
<1>2. 0 \in 0 .. SCREEN_WIDTH - 1 /\ 0 \in 0 .. SCREEN_HEIGHT - 1
  BY Sizes
<1>. QED
  BY <1>1, <1>2 DEF EmptyScreen, Screens

(* The line that is looked at ends at the first zero of the buffer.        *)
LEMMA FirstString ==
  ASSUME NEW n \in Nat, NEW S, NEW b \in Buffers(n, S), NEW m \in 0 .. n - 1, b[m + 1] = NUL
  PROVE  \E k \in 0 .. m : /\ StringAt(b, 1) = SubSeq(b, 1, k)
                           /\ \A j \in 1 .. k : b[j] # NUL
<1>. DEFINE T == {k \in 0 .. m : b[k + 1] = NUL}
<1>1. PICK k \in T : \A i \in T : k <= i
  <2>1. T \subseteq Nat /\ m \in T
    OBVIOUS
  <2>. HIDE DEF T
  <2>. QED
    BY <2>1, LeastNumber
<1>2. k \in 0 .. m /\ b[k + 1] = NUL
  BY <1>1
<1>3. \A j \in 1 .. k : b[j] # NUL
  <2>1. \A j \in 1 .. k : j - 1 \in 0 .. m /\ (j - 1) + 1 = j /\ ~(k <= j - 1)
    BY <1>2
  <2>. QED
    BY <1>1, <2>1
<1>. HIDE DEF T
<1>4. k \in 0 .. n - 1 /\ 1 <= k + 1 /\ 1 \in Nat \ {0}
  BY <1>2
<1>5. StringAt(b, 1) = SubSeq(b, 1, k)
  BY <1>2, <1>3, <1>4, StringEnds
<1>. QED
  BY <1>2, <1>3, <1>5

LEMMA TerminatedBuffer ==
  ASSUME TypeOK
  PROVE  /\ Terminated \in Buffers(MAX_COMMAND_LENGTH, Char \cup {NUL})
         /\ Terminated[command_length + 1] = NUL
         /\ \A i \in 1 .. MAX_COMMAND_LENGTH : i # command_length + 1 => Terminated[i] = command_buffer[i]
<1>1. /\ command_buffer \in Buffers(MAX_COMMAND_LENGTH, Char \cup {NUL})
      /\ command_length + 1 \in 1 .. MAX_COMMAND_LENGTH
      /\ NUL \in Char \cup {NUL}
  BY Types
<1>. QED
  BY <1>1 DEF Terminated, Buffers

(* What a command may print is a string.                                   *)
LEMMA OutputStrings ==
  ASSUME TypeOK, NEW m \in Output(StringAt(Terminated, 1))
  PROVE  m \in Seq(Shown)
<1>. DEFINE b == Terminated
            line == StringAt(Terminated, 1)
<1>0. /\ b \in Buffers(MAX_COMMAND_LENGTH, Char \cup {NUL})
      /\ b[command_length + 1] = NUL
      /\ command_length \in 0 .. MAX_COMMAND_LENGTH - 1 /\ MAX_COMMAND_LENGTH \in Nat
  BY Types, TerminatedBuffer
<1>. HIDE DEF b
<1>1. PICK k \in 0 .. command_length :
        /\ StringAt(b, 1) = SubSeq(b, 1, k)
        /\ \A j \in 1 .. k : b[j] # NUL
  BY <1>0, FirstString
<1>2. k \in 0 .. MAX_COMMAND_LENGTH - 1 /\ k \in 0 .. MAX_COMMAND_LENGTH
  BY <1>0
<1>3. SubSeq(b, 1, k) \in [1 .. k -> Char]
  <2>1. \A j \in 1 .. k : b[j] \in Char
    BY <1>0, <1>1, <1>2 DEF Buffers
  <2>2. SubSeq(b, 1, k) = [j \in 1 .. k |-> b[j]]
    <3>1. b \in Seq(Char \cup {NUL}) /\ Len(b) = MAX_COMMAND_LENGTH
      BY <1>0, IsSequence DEF Buffers
    <3>. QED
      BY <1>0, <1>2, <3>1
  <2>. QED
    BY <2>1, <2>2
<1>4. line \in [1 .. k -> Char]
  BY <1>1, <1>3 DEF b
<1>. HIDE DEF line
<1>5. Output(line) \subseteq Seq(Glyph \cup {NewLine})
  BY <1>2, <1>4, TextAssumption
<1>. QED
  BY <1>5 DEF line, Shown

LEMMA EnterShows ==
  ASSUME CInv, EnterCommand
  PROVE  /\ screen' \in Screens
         /\ write_state' = 1 => screen'.x = 0
<1>. DEFINE line == StringAt(Terminated, 1)
<1>1. screen \in Screens /\ NextLine(screen) \in Wide
  BY Types, NextLineWide DEF CInv
<1>2. CASE check_partial(WriteWord, line)
  <2>. DEFINE p == Printf(NextLine(screen), EnterData)
  <2>1. screen' = Settled(p)
    BY <1>2 DEF EnterCommand
  <2>2. p \in Wide /\ \E t \in Wide : p = Put(t, NewLine)
    <3>1. EnterData \in Seq(Shown) /\ EnterData # << >> /\ EnterData[Len(EnterData)] = NewLine
      BY Strings, TextAssumption
    <3>. QED
      BY <1>1, <3>1, PrintfWide
  <2>. HIDE DEF p
  <2>3. p.x = 0
    <3>1. PICK t \in Wide : p = Put(t, NewLine)
      BY <2>2
    <3>2. p = Settled(NextLine(t))
      BY <3>1 DEF Put
    <3>3. NextLine(t).x = 0
      BY DEF NextLine, Wide
    <3>. QED
      BY <3>2, <3>3, SettledZero
  <2>. QED
    BY <2>1, <2>2, <2>3, WideSettles, SettledZero
<1>3. CASE ~check_partial(WriteWord, line)
  <2>1. write_state' = 0
    BY <1>3 DEF EnterCommand, entry
  <2>2. CASE line = ClearLine
    <3>1. screen' = Printf(EmptyScreen, Prompt)
      BY <1>3, <2>2 DEF EnterCommand
    <3>. QED
      BY <2>1, <3>1, EmptyScreenType, Strings, PrintfScreen
  <2>3. CASE line # ClearLine
    <3>1. PICK m \in Output(line) : screen' = Settled(Printf(NextLine(screen), m))
      BY <1>3, <2>3 DEF EnterCommand
    <3>2. m \in Seq(Shown)
      BY <3>1, OutputStrings DEF CInv
    <3>3. Printf(NextLine(screen), m) \in Wide
      BY <1>1, <3>2, PrintfWide
    <3>. QED
      BY <2>1, <3>1, <3>3, WideSettles
  <2>. QED
    BY <2>2, <2>3
<1>. QED
  BY <1>2, <1>3

LEMMA EndShows ==
  ASSUME CInv, EndOfData
  PROVE  screen' \in Screens
<1>1. PICK m \in {<< >>, NoSpace} : screen' = Printf(Printf(Put(screen, NewLine), m), Prompt)
  BY DEF EndOfData
<1>2. m \in Seq(Shown)
  BY Strings
<1>3. Put(screen, NewLine) \in Screens
  <2>1. screen \in Wide /\ NewLine \in Shown
    BY Types, ScreensWide DEF CInv, Shown
  <2>. QED
    BY <2>1, PutScreen
<1>4. Printf(Put(screen, NewLine), m) \in Screens
  BY <1>2, <1>3, PrintfScreen
<1>. QED
  BY <1>1, <1>4, Strings, PrintfScreen

(***************************************************************************)
(* Every step keeps the invariant.                                         *)
(***************************************************************************)
LEMMA InitConsole == Init => CInv
<1>. SUFFICES ASSUME Init
              PROVE  CInv
  OBVIOUS
<1>1. screen \in Screens
  <2>1. screen = Printf(Printf(Printf(EmptyScreen, Prompt), Welcome), Prompt)
    BY DEF Init
  <2>2. Printf(EmptyScreen, Prompt) \in Screens
    BY EmptyScreenType, Strings, PrintfScreen
  <2>3. Printf(Printf(EmptyScreen, Prompt), Welcome) \in Screens
    BY <2>2, Strings, PrintfScreen
  <2>. QED
    BY <2>1, <2>3, Strings, PrintfScreen
<1>2. TypeOK
  <2>1. /\ command_buffer \in [1 .. MAX_COMMAND_LENGTH -> Char \cup {NUL}]
        /\ write_file_buffer \in [1 .. DataLength -> Char \cup {NUL, NewLine}]
    BY DEF Init, Zeros
  <2>2. command_length \in 0 .. MAX_COMMAND_LENGTH - 1 /\ write_file_buffer_index \in 0 .. DataLength
    BY ConsoleAssumption DEF Init
  <2>. QED
    BY <1>1, <2>1, <2>2 DEF Init, TypeOK, Screens
<1>3. IndexAboveText /\ TextKept
  BY DEF Init, IndexAboveText, TextKept
<1>. QED
  BY <1>2, <1>3 DEF CInv

LEMMA AtRest ==
  /\ Zeros(DataLength) \in Buffers(DataLength, DataChar)
  /\ \A i \in 1 .. DataLength : Zeros(DataLength)[i] = NUL
  /\ 0 \in 0 .. DataLength /\ 0 \in 0 .. MAX_COMMAND_LENGTH - 1
  /\ Compacted(Zeros(DataLength)) = << >>
<1>1. DataLength \in Nat /\ MAX_COMMAND_LENGTH \in Nat /\ MAX_COMMAND_LENGTH > 0
  BY ConsoleAssumption
<1>2. NUL \in DataChar
  BY DEF DataChar
<1>. QED
  BY <1>1, <1>2, CompactedZeros DEF Zeros, Buffers

LEMMA ShiftKeeps ==
  ASSUME CInv, NEW pressed \in {0, 1}, Shift(pressed)
  PROVE  CInv'
<1>1. TypeOK'
  BY DEF CInv, TypeOK, Shift, command, entry
<1>2. IndexAboveText'
  BY DEF CInv, IndexAboveText, Shift, entry
<1>3. TextKept'
  BY DEF CInv, TextKept, Text, Shift, entry
<1>. QED
  BY <1>1, <1>2, <1>3 DEF CInv

LEMMA CharacterKeeps ==
  ASSUME CInv, NEW key \in Key, Character(key)
  PROVE  CInv'
<1>1. PICK c \in Char :
           /\ screen' = Put(screen, c) /\ screen' \in Screens /\ screen'.x <= screen.x + 1
           /\ \/ /\ write_state = 0
                 /\ command_length' = command_length + 1
                 /\ command_length' \in 0 .. MAX_COMMAND_LENGTH - 1
                 /\ command_buffer' \in Buffers(MAX_COMMAND_LENGTH, Char \cup {NUL})
                 /\ UNCHANGED entry
              \/ /\ write_state = 1 /\ write_state' = 1
                 /\ write_file_buffer' \in Buffers(DataLength, DataChar)
                 /\ write_file_buffer_index' = write_file_buffer_index + 1
                 /\ write_file_buffer_index' \in 1 .. DataLength
                 /\ \A i \in write_file_buffer_index' + 1 .. DataLength : write_file_buffer'[i] = NUL
                 /\ Text' = Append(Text, c) /\ UNCHANGED command
  BY CharacterAdds
<1>2. /\ screen.x \in Nat /\ Text \in Seq(DataChar) /\ write_file_buffer_index \in 0 .. DataLength
      /\ DataLength \in Nat
      /\ command_buffer \in Buffers(MAX_COMMAND_LENGTH, Char \cup {NUL})
      /\ command_length \in 0 .. MAX_COMMAND_LENGTH - 1
      /\ write_file_buffer \in Buffers(DataLength, DataChar)
      /\ write_state \in {0, 1}
  BY Types DEF CInv
<1>3. shift_pressed' \in {0, 1}
  BY DEF CInv, TypeOK, Character
<1>4. screen'.x \in Nat
  BY <1>1, Sizes DEF Screens
<1>5. CASE write_state = 0
  <2>1. UNCHANGED entry
    BY <1>1, <1>5
  <2>2. TypeOK'
    BY <1>1, <1>2, <1>3, <1>5, <2>1, TypesNext DEF entry
  <2>. QED
    BY <1>5, <2>1, <2>2 DEF CInv, IndexAboveText, TextKept, entry
<1>6. CASE write_state = 1
  <2>1. TypeOK'
    BY <1>1, <1>2, <1>3, <1>6, TypesNext DEF command
  <2>2. screen.x <= write_file_buffer_index /\ screen.x <= Len(Text)
    BY <1>6 DEF CInv, IndexAboveText, TextKept
  <2>3. Len(Text') = Len(Text) + 1
    BY <1>1, <1>2, <1>6
  <2>4. screen'.x <= write_file_buffer_index' /\ screen'.x <= Len(Text')
    BY <1>1, <1>2, <1>4, <1>6, <2>2, <2>3
  <2>. QED
    BY <1>1, <1>6, <2>1, <2>4 DEF CInv, IndexAboveText, TextKept
<1>. QED
  BY <1>2, <1>5, <1>6

LEMMA SilentKeeps ==
  ASSUME CInv, Silent
  PROVE  CInv'
<1>1. /\ write_file_buffer' \in Buffers(DataLength, DataChar)
      /\ write_file_buffer_index' = write_file_buffer_index + 1
      /\ write_file_buffer_index' \in 1 .. DataLength
      /\ \A i \in write_file_buffer_index' + 1 .. DataLength : write_file_buffer'[i] = NUL
      /\ Text' = Text
  BY SilentAdds
<1>2. write_state = 1 /\ write_state' = 1 /\ UNCHANGED <<screen, command, shift_pressed>>
  BY DEF Silent
<1>3. /\ screen \in Screens /\ screen.x \in Nat /\ write_file_buffer_index \in 0 .. DataLength
      /\ DataLength \in Nat
      /\ command_buffer \in Buffers(MAX_COMMAND_LENGTH, Char \cup {NUL})
      /\ command_length \in 0 .. MAX_COMMAND_LENGTH - 1
  BY Types DEF CInv
<1>4. TypeOK'
  <2>1. shift_pressed' \in {0, 1}
    BY <1>2 DEF CInv, TypeOK
  <2>. QED
    BY <1>1, <1>2, <1>3, <2>1, TypesNext DEF command
<1>5. screen'.x <= write_file_buffer_index' /\ screen'.x <= Len(Text')
  <2>1. screen.x <= write_file_buffer_index /\ screen.x <= Len(Text)
    BY <1>2 DEF CInv, IndexAboveText, TextKept
  <2>. QED
    BY <1>1, <1>2, <1>3, <2>1
<1>. QED
  BY <1>1, <1>2, <1>4, <1>5 DEF CInv, IndexAboveText, TextKept

LEMMA BackspaceKeeps ==
  ASSUME CInv, Backspace
  PROVE  CInv'
<1>1. /\ screen.x >= 1 /\ screen' \in Screens /\ screen'.x = screen.x - 1
      /\ \/ /\ write_state = 0
            /\ command_length \in 1 .. MAX_COMMAND_LENGTH - 1
            /\ command_length' = command_length - 1
            /\ command_buffer' \in Buffers(MAX_COMMAND_LENGTH, Char \cup {NUL})
            /\ UNCHANGED entry
         \/ /\ write_state = 1 /\ write_state' = 1
            /\ write_file_buffer' \in Buffers(DataLength, DataChar)
            /\ write_file_buffer_index' = write_file_buffer_index - 1
            /\ write_file_buffer_index' \in 0 .. DataLength
            /\ \A i \in write_file_buffer_index' + 1 .. DataLength : write_file_buffer'[i] = NUL
            /\ Text # << >> /\ Text' = SubSeq(Text, 1, Len(Text) - 1)
            /\ UNCHANGED command
  BY BackspaceTakes
<1>2. /\ screen.x \in Nat /\ Text \in Seq(DataChar) /\ write_file_buffer_index \in 0 .. DataLength
      /\ DataLength \in Nat /\ MAX_COMMAND_LENGTH \in Nat
      /\ command_buffer \in Buffers(MAX_COMMAND_LENGTH, Char \cup {NUL})
      /\ command_length \in 0 .. MAX_COMMAND_LENGTH - 1
      /\ write_file_buffer \in Buffers(DataLength, DataChar)
      /\ write_state \in {0, 1}
  BY Types DEF CInv
<1>3. shift_pressed' \in {0, 1}
  BY DEF CInv, TypeOK, Backspace
<1>5. CASE write_state = 0
  <2>1. UNCHANGED entry /\ command_length' \in 0 .. MAX_COMMAND_LENGTH - 1
    BY <1>1, <1>2, <1>5
  <2>2. TypeOK'
    BY <1>1, <1>2, <1>3, <1>5, <2>1, TypesNext DEF entry
  <2>. QED
    BY <1>5, <2>1, <2>2 DEF CInv, IndexAboveText, TextKept, entry
<1>6. CASE write_state = 1
  <2>1. TypeOK'
    BY <1>1, <1>2, <1>3, <1>6, TypesNext DEF command
  <2>2. screen.x <= write_file_buffer_index /\ screen.x <= Len(Text)
    BY <1>6 DEF CInv, IndexAboveText, TextKept
  <2>3. Len(Text') = Len(Text) - 1
    BY <1>1, <1>2, <1>6
  <2>4. screen'.x <= write_file_buffer_index' /\ screen'.x <= Len(Text')
    BY <1>1, <1>2, <1>6, <2>2, <2>3
  <2>. QED
    BY <1>1, <1>6, <2>1, <2>4 DEF CInv, IndexAboveText, TextKept
<1>. QED
  BY <1>2, <1>5, <1>6

LEMMA EnterKeeps ==
  ASSUME CInv, EnterCommand
  PROVE  CInv'
<1>1. screen' \in Screens /\ (write_state' = 1 => screen'.x = 0)
  BY EnterShows
<1>2. /\ command_length \in 0 .. MAX_COMMAND_LENGTH - 1
      /\ write_file_buffer \in Buffers(DataLength, DataChar)
      /\ write_file_buffer_index \in 0 .. DataLength
  BY Types DEF CInv
<1>3. /\ write_state = 0 /\ shift_pressed' \in {0, 1}
      /\ command_buffer' \in Buffers(MAX_COMMAND_LENGTH, Char \cup {NUL})
  BY TerminatedBuffer DEF EnterCommand, CInv, TypeOK
<1>4. \/ /\ write_state' = 1
         /\ write_file_buffer' = Zeros(DataLength)
         /\ write_file_buffer_index' = 0
         /\ UNCHANGED command_length
      \/ command_length' = 0 /\ UNCHANGED entry
  BY DEF EnterCommand
<1>5. CASE command_length' = 0 /\ UNCHANGED entry
  <2>1. TypeOK'
    BY <1>1, <1>2, <1>3, <1>5, AtRest, TypesNext DEF entry
  <2>. QED
    BY <1>3, <1>5, <2>1 DEF CInv, IndexAboveText, TextKept, entry
<1>6. CASE /\ write_state' = 1
           /\ write_file_buffer' = Zeros(DataLength)
           /\ write_file_buffer_index' = 0
           /\ UNCHANGED command_length
  <2>1. TypeOK'
    BY <1>1, <1>2, <1>3, <1>6, AtRest, TypesNext
  <2>2. Text' = << >>
    BY <1>6, AtRest DEF Text
  <2>. QED
    BY <1>1, <1>6, <2>1, <2>2, AtRest DEF CInv, IndexAboveText, TextKept
<1>. QED
  BY <1>4, <1>5, <1>6

LEMMA EndKeeps ==
  ASSUME CInv, EndOfData
  PROVE  CInv'
<1>1. screen' \in Screens
  BY EndShows
<1>2. /\ write_state' = 0 /\ command_length' = 0 /\ shift_pressed' \in {0, 1}
      /\ write_file_buffer' = Zeros(DataLength) /\ write_file_buffer_index' = 0
      /\ command_buffer' = command_buffer
  BY DEF EndOfData, CInv, TypeOK
<1>3. command_buffer \in Buffers(MAX_COMMAND_LENGTH, Char \cup {NUL})
  BY Types DEF CInv
<1>4. TypeOK'
  BY <1>1, <1>2, <1>3, AtRest, TypesNext
<1>. QED
  BY <1>2, <1>4 DEF CInv, IndexAboveText, TextKept

LEMMA NextKeeps == CInv /\ [Next]_vars => CInv'
<1>. SUFFICES ASSUME CInv, [Next]_vars
              PROVE  CInv'
  OBVIOUS
<1>1. CASE \E pressed \in {0, 1} : Shift(pressed)
  BY <1>1, ShiftKeeps
<1>2. CASE \E key \in Key : Character(key)
  BY <1>2, CharacterKeeps
<1>3. CASE Silent
  BY <1>3, SilentKeeps
<1>4. CASE Backspace
  BY <1>4, BackspaceKeeps
<1>5. CASE EnterCommand
  BY <1>5, EnterKeeps
<1>6. CASE EndOfData
  BY <1>6, EndKeeps
<1>7. CASE UNCHANGED vars
  BY <1>7 DEF CInv, TypeOK, IndexAboveText, TextKept, Text, vars, command, entry
<1>. QED
  BY <1>1, <1>2, <1>3, <1>4, <1>5, <1>6, <1>7 DEF Next
(* The console on its own: whatever is typed, types are kept, the index of *)
(* the data covers its text, and TextKept holds.                           *)
THEOREM ConsoleInvariance == Spec => []CInv
<1>. QED
  BY InitConsole, NextKeeps, PTL DEF Spec

(***************************************************************************)
(* Next to the timer.  A tick may lengthen the line, but none of this      *)
(* depends on the line's length.                                           *)
(***************************************************************************)
ClockOK ==
  /\ up_time \in 0 .. Byte - 1
  /\ padding \in 0 .. Byte - 1
  /\ ticks \in 0 .. MaxTicks

LEMMA InitClock == UInit => ClockOK
BY ByteAssumption DEF UInit, ClockOK

LEMMA Remainder ==
  ASSUME NEW n \in Nat
  PROVE  n % Byte \in 0 .. Byte - 1
BY ByteAssumption

LEMMA TickClock ==
  ASSUME ClockOK, Tick
  PROVE  ClockOK'
<1>1. up_time + 1 \in Nat /\ padding \in Nat /\ ticks + 1 \in 0 .. MaxTicks
  BY ByteAssumption DEF ClockOK, Tick
<1>2. Carry(padding, up_time') \in Nat
  BY <1>1 DEF Carry
<1>3. /\ up_time' = (up_time + 1) % Byte
      /\ padding' = Carry(padding, up_time') % Byte
      /\ ticks' = ticks + 1
  BY DEF Tick
<1>. QED
  BY <1>1, <1>2, <1>3, Remainder DEF ClockOK

LEMMA TickKeeps ==
  ASSUME CInv, Tick
  PROVE  CInv'
<1>1. /\ UNCHANGED <<screen, command_buffer, shift_pressed, entry, saved>>
      /\ command_length' < MAX_COMMAND_LENGTH
      /\ command_length' = command_length \/ command_length' = command_length + 1
  BY DEF Tick, Carry
<1>2. command_length' \in 0 .. MAX_COMMAND_LENGTH - 1
  BY <1>1, Types DEF CInv
<1>3. TypeOK'
  BY <1>1, <1>2 DEF CInv, TypeOK, entry
<1>. QED
  BY <1>1, <1>3 DEF CInv, IndexAboveText, TextKept, Text, entry

(* The same holds next to the timer, whenever it ticks.                    *)
THEOREM UpTimeInvariance == USpec => [](CInv /\ ClockOK)
<1>1. UInit => CInv /\ ClockOK
  BY InitConsole, InitClock DEF UInit
<1>2. CInv /\ ClockOK /\ [UNext]_<<vars, clock>> => (CInv /\ ClockOK)'
  <2>. SUFFICES ASSUME CInv, ClockOK, [UNext]_<<vars, clock>>
                PROVE  CInv' /\ ClockOK'
    OBVIOUS
  <2>1. CASE [Next]_vars /\ UNCHANGED clock
    <3>1. ClockOK'
      BY <2>1 DEF ClockOK, clock
    <3>. QED
      BY <2>1, <3>1, NextKeeps
  <2>2. CASE Tick
    BY <2>2, TickKeeps, TickClock
  <2>. QED
    BY <2>1, <2>2 DEF UNext
<1>. QED
  BY <1>1, <1>2, PTL DEF USpec

(* Every variable keeps its type, whatever is typed and whenever the timer *)
(* ticks, up_time and padding in a byte each.                              *)
THEOREM UpTimeTypes == USpec => []UTypeOK
<1>1. CInv /\ ClockOK => UTypeOK
  BY DEF CInv, ClockOK, UTypeOK
<1>. QED
  BY <1>1, UpTimeInvariance, PTL

(* Write mode never takes its index below zero, and nothing of the data    *)
(* lies above it: Backspace, which tests the column and not the index,     *)
(* never moves the index in front of the data buffer.                      *)
THEOREM IndexStaysAbove == USpec => []IndexAboveText
<1>1. CInv => IndexAboveText
  BY DEF CInv
<1>. QED
  BY <1>1, UpTimeInvariance, PTL

LEMMA Shorter ==
  ASSUME NEW S, NEW t \in Seq(S), t # << >>
  PROVE  /\ Len(t) \in Nat \ {0}
         /\ SubSeq(t, 1, Len(t) - 1) \in Seq(S) /\ Len(SubSeq(t, 1, Len(t) - 1)) = Len(t) - 1
         /\ \A i \in 1 .. Len(t) - 1 : SubSeq(t, 1, Len(t) - 1)[i] = t[i]
<1>. DEFINE n == Len(t)
            m == n - 1
<1>1. n \in Nat \ {0}
  OBVIOUS
<1>2. m \in 0 .. n /\ n \in Nat
  BY <1>1
<1>3. t \in Buffers(n, S)
  BY DEF Buffers
<1>. HIDE DEF n, m
<1>4. /\ SubSeq(t, 1, m) \in Seq(S) /\ Len(SubSeq(t, 1, m)) = m
      /\ \A i \in 1 .. m : SubSeq(t, 1, m)[i] = t[i]
  BY <1>2, <1>3, Prefix
<1>. QED
  BY <1>1, <1>4 DEF n, m

LEMMA ErasesEntered ==
  ASSUME CInv, Backspace
  PROVE  Len(Entered') = Len(Entered) - 1
<1>1. \/ /\ write_state = 0 /\ UNCHANGED entry
         /\ Line # << >> /\ Line' = SubSeq(Line, 1, Len(Line) - 1)
      \/ /\ write_state = 1 /\ write_state' = 1
         /\ Text # << >> /\ Text' = SubSeq(Text, 1, Len(Text) - 1)
  BY BackspaceTakes
<1>2. Line \in Seq(Char \cup {NUL}) /\ Text \in Seq(DataChar)
  <2>1. command_length \in 0 .. MAX_COMMAND_LENGTH
    BY Types DEF CInv
  <2>. QED
    BY <2>1, Types, Prefix DEF CInv, Line
<1>3. CASE write_state = 0 /\ UNCHANGED entry
  <2>1. Entered = Line /\ Entered' = Line'
    BY <1>3 DEF Entered, entry
  <2>2. Line # << >> /\ Line' = SubSeq(Line, 1, Len(Line) - 1)
    BY <1>1, <1>3
  <2>. QED
    BY <1>2, <2>1, <2>2, Shorter
<1>4. CASE write_state = 1
  <2>1. write_state' = 1 /\ Text # << >> /\ Text' = SubSeq(Text, 1, Len(Text) - 1)
    BY <1>1, <1>4
  <2>2. Entered = Text /\ Entered' = Text'
    BY <1>4, <2>1 DEF Entered
  <2>. QED
    BY <1>2, <2>1, <2>2, Shorter
<1>. QED
  BY <1>1, <1>3, <1>4

(* Backspace takes a character off the screen exactly when it takes one    *)
(* off what was entered, even after the timer has lengthened the line.     *)
THEOREM ErasureIsExact == USpec => OnlyEnteredErased
<1>1. CInv /\ [UNext]_<<vars, clock>> => [Backspace => Len(Entered') = Len(Entered) - 1]_vars
  BY ErasesEntered
<1>. QED
  BY <1>1, UpTimeInvariance, PTL DEF USpec, OnlyEnteredErased
(***************************************************************************)
(* The line and the screen, as long as no carry reaches the line's length. *)
(***************************************************************************)
(* No zero inside the line, and one behind it while "write" asks for data. *)
LineKept ==
  /\ \A i \in 1 .. command_length : command_buffer[i] # NUL
  /\ write_state = 1 => command_buffer[command_length + 1] = NUL

LInv == CInv /\ LineKept /\ ScreenShowsEntered

(* ScreenShowsEntered, of any screen s and string e.                       *)
InFront(s, e) ==
  \A j \in 1 .. Len(e) :
    Position(s) - j >= 0 => s.cells[Position(s) - j] = e[Len(e) - j + 1]

LEMMA Lines ==
  ASSUME TypeOK
  PROVE  /\ Line \in Seq(Char \cup {NUL}) /\ Len(Line) = command_length
         /\ \A i \in 1 .. command_length : Line[i] = command_buffer[i]
         /\ Entered \in Seq(Char \cup {NUL, NewLine})
<1>1. command_length \in 0 .. MAX_COMMAND_LENGTH
  BY Types
<1>2. /\ Line \in Seq(Char \cup {NUL}) /\ Len(Line) = command_length
      /\ \A i \in 1 .. command_length : Line[i] = command_buffer[i]
  BY <1>1, Types, Prefix DEF Line
<1>3. Line \in Seq(Char \cup {NUL, NewLine})
  BY <1>2
<1>. QED
  BY <1>2, <1>3, Types DEF Entered, DataChar

LEMMA NoLine == SubSeq(command_buffer, 1, 0) = << >>
OBVIOUS

LEMMA InitLine == Init => LInv
<1>. SUFFICES ASSUME Init
              PROVE  LInv
  OBVIOUS
<1>1. Line = << >> /\ Entered = Line
  BY NoLine DEF Init, Line, Entered
<1>2. ScreenShowsEntered
  BY <1>1 DEF ScreenShowsEntered
<1>3. LineKept
  BY DEF Init, LineKept
<1>. QED
  BY <1>2, <1>3, InitConsole DEF LInv

(* A character is put in front of the cursor as it is added to the text.   *)
LEMMA ShowsAdded ==
  ASSUME NEW S, NEW e \in Seq(S), NEW c \in Glyph, c \in S, c # NewLine,
         NEW s \in Screens,
         InFront(s, e),
         Put(s, c) \in Screens, NEW f, f = Append(e, c)
  PROVE  InFront(Put(s, c), f)
<1>. DEFINE P == Position(s)
            t == Put(s, c)
            Q == Position(t)
            n == Len(e)
<1>1. P \in Cells /\ Q \in Cells
  BY OnScreen
<1>2. PICK d \in Nat : /\ Q = P + 1 - d
                       /\ \A q \in Cells : q <= P - d =>
                            /\ q + d \in Cells
                            /\ t.cells[q] = IF q + d = P THEN c ELSE s.cells[q + d]
  BY PutMoves
<1>3. /\ n \in Nat /\ Len(f) = n + 1 /\ f[n + 1] = c
      /\ \A i \in 1 .. n : f[i] = e[i]
  OBVIOUS
<1>4. P \in Nat /\ Q \in Nat /\ \A q \in Nat : q <= Q => q \in Cells
  BY <1>1, Sizes DEF Cells
<1>5. \A j \in 1 .. n : P - j >= 0 => s.cells[P - j] = e[n - j + 1]
  BY DEF InFront
<1>. HIDE DEF P, t, Q, n
<1>6. ASSUME NEW j \in 1 .. n + 1, Q - j >= 0
      PROVE  t.cells[Q - j] = f[(n + 1) - j + 1]
  <2>1. Q - j \in Nat /\ Q - j \in Cells /\ Q - j <= P - d /\ (Q - j) + d = P + 1 - j
    BY <1>2, <1>3, <1>4, <1>6
  <2>2. t.cells[Q - j] = IF P + 1 - j = P THEN c ELSE s.cells[P + 1 - j]
    BY <1>2, <2>1
  <2>3. CASE j = 1
    <3>1. t.cells[Q - j] = c /\ (n + 1) - j + 1 = n + 1
      BY <1>3, <1>4, <2>2, <2>3
    <3>. QED
      BY <1>3, <3>1
  <2>4. CASE j # 1
    <3>. DEFINE k == j - 1
    <3>1. /\ k \in 1 .. n /\ P + 1 - j = P - k /\ P + 1 - j # P
          /\ (n + 1) - j + 1 = n - k + 1 /\ n - k + 1 \in 1 .. n
      BY <1>3, <1>4, <2>4
    <3>2. P - k >= 0
      BY <1>4, <2>1, <3>1
    <3>. HIDE DEF k
    <3>3. s.cells[P - k] = e[n - k + 1]
      BY <1>5, <3>1, <3>2
    <3>. QED
      BY <1>3, <2>2, <3>1, <3>3
  <2>. QED
    BY <2>3, <2>4
<1>. QED
  BY <1>3, <1>6 DEF P, t, Q, n, InFront
(* Backspace moves the cursor back onto the last character.                *)
Erased(s) ==
  [cells |-> [q \in Cells |-> IF q = Position(s) - 1 THEN Blank ELSE s.cells[q]],
   x |-> s.x - 1, y |-> s.y]

LEMMA ShowsErased ==
  ASSUME NEW S, NEW e \in Seq(S), e # << >>, NEW s \in Screens, s.x >= 1,
         InFront(s, e),
         NEW t, t = Erased(s),
         NEW f, f = SubSeq(e, 1, Len(e) - 1)
  PROVE  InFront(t, f)
<1>. DEFINE P == Position(s)
            n == Len(e)
<1>1. P \in Cells /\ \A q \in Nat : q <= P => q \in Cells
  BY OnScreen, Sizes DEF Cells
<1>2. Position(t) = P - 1
  <2>1. s.x \in Nat /\ s.y \in Nat /\ s.y * SCREEN_WIDTH \in Nat
    BY Sizes DEF Screens
  <2>2. t.x = s.x - 1 /\ t.y = s.y
    BY DEF Erased
  <2>. QED
    BY <2>1, <2>2 DEF Position
<1>3. \A q \in Cells : q # P - 1 => t.cells[q] = s.cells[q]
  BY DEF Erased
<1>4. n \in Nat \ {0} /\ Len(f) = n - 1 /\ \A i \in 1 .. n - 1 : f[i] = e[i]
  BY Shorter
<1>5. \A j \in 1 .. n : P - j >= 0 => s.cells[P - j] = e[n - j + 1]
  BY DEF InFront
<1>6. P \in Nat
  BY <1>1, Sizes DEF Cells
<1>. HIDE DEF P, n
<1>7. ASSUME NEW j \in 1 .. n - 1, (P - 1) - j >= 0
      PROVE  t.cells[(P - 1) - j] = f[(n - 1) - j + 1]
  <2>. DEFINE k == j + 1
  <2>1. /\ k \in 1 .. n /\ (P - 1) - j = P - k /\ P - k >= 0 /\ P - k \in Nat /\ P - k <= P
        /\ P - k # P - 1 /\ (n - 1) - j + 1 = n - k + 1 /\ n - k + 1 \in 1 .. n - 1
    BY <1>4, <1>6, <1>7
  <2>. HIDE DEF k
  <2>. QED
    BY <1>1, <1>3, <1>4, <1>5, <2>1
<1>. QED
  BY <1>2, <1>4, <1>7 DEF P, n, InFront

(* The line a command is looked up with is the line typed.                 *)
LEMMA LineLooked ==
  ASSUME CInv, LineKept
  PROVE  /\ StringAt(Terminated, 1) = Line
         /\ SubSeq(Terminated, 1, command_length) = Line
<1>. DEFINE b == Terminated
            n == command_length
<1>1. /\ b \in Buffers(MAX_COMMAND_LENGTH, Char \cup {NUL})
      /\ b[n + 1] = NUL
      /\ \A i \in 1 .. MAX_COMMAND_LENGTH : i # n + 1 => b[i] = command_buffer[i]
  BY TerminatedBuffer DEF CInv
<1>2. n \in 0 .. MAX_COMMAND_LENGTH - 1 /\ MAX_COMMAND_LENGTH \in Nat
  BY Types DEF CInv
<1>. HIDE DEF b, n
<1>3. /\ n \in 0 .. MAX_COMMAND_LENGTH /\ 1 <= n + 1 /\ 1 \in Nat \ {0}
      /\ \A i \in 1 .. n : i \in 1 .. MAX_COMMAND_LENGTH /\ i # n + 1
  BY <1>2
<1>4. \A i \in 1 .. n : b[i] = command_buffer[i] /\ b[i] # NUL
  BY <1>1, <1>3 DEF LineKept, n
<1>5. StringAt(b, 1) = SubSeq(b, 1, n)
  BY <1>1, <1>2, <1>3, <1>4, StringEnds
<1>6. SubSeq(b, 1, n) = Line
  <2>1. /\ SubSeq(b, 1, n) \in Seq(Char \cup {NUL}) /\ Len(SubSeq(b, 1, n)) = n
        /\ \A i \in 1 .. n : SubSeq(b, 1, n)[i] = b[i]
    BY <1>1, <1>2, <1>3, Prefix
  <2>2. /\ Line \in Seq(Char \cup {NUL}) /\ Len(Line) = n
        /\ \A i \in 1 .. n : Line[i] = command_buffer[i]
    BY Lines DEF CInv, n
  <2>. QED
    BY <1>4, <2>1, <2>2
<1>. QED
  BY <1>5, <1>6 DEF b, n

(***************************************************************************)
(* The steps keep both.                                                    *)
(***************************************************************************)
LEMMA LineKeeps ==
  ASSUME CInv, LineKept, [Next]_vars
  PROVE  LineKept'
<1>0. /\ command_length \in 0 .. MAX_COMMAND_LENGTH - 1 /\ MAX_COMMAND_LENGTH \in Nat
      /\ command_buffer \in Buffers(MAX_COMMAND_LENGTH, Char \cup {NUL})
      /\ write_state \in {0, 1}
  BY Types DEF CInv
<1>1. ASSUME NEW pressed \in {0, 1}, Shift(pressed)
      PROVE  LineKept'
  BY <1>1 DEF LineKept, Shift, command, entry
<1>2. ASSUME NEW key \in Key, Character(key)
      PROVE  LineKept'
  <2>1. PICK c \in Char :
          \/ /\ write_state = 0
             /\ command_length' = command_length + 1
             /\ command_buffer' = [command_buffer EXCEPT ![command_length + 1] = c]
             /\ command_length' \in 0 .. MAX_COMMAND_LENGTH - 1
             /\ UNCHANGED entry
          \/ /\ write_state = 1 /\ write_state' = 1
             /\ UNCHANGED command
    BY <1>2, CharacterAdds
  <2>2. CASE write_state = 0
    <3>1. /\ command_length' = command_length + 1
          /\ command_buffer' = [command_buffer EXCEPT ![command_length + 1] = c]
          /\ write_state' = 0
      BY <2>1, <2>2 DEF entry
    <3>2. c # NUL
      BY Chars
    <3>3. \A i \in 1 .. command_length + 1 : command_buffer'[i] # NUL
      BY <1>0, <3>1, <3>2 DEF LineKept, Buffers
    <3>. QED
      BY <3>1, <3>3 DEF LineKept
  <2>3. CASE write_state = 1
    BY <2>1, <2>3 DEF LineKept, command
  <2>. QED
    BY <1>0, <2>2, <2>3
<1>3. CASE Silent
  BY <1>3 DEF LineKept, Silent, command
<1>4. CASE Backspace
  <2>1. \/ /\ write_state = 0
           /\ command_length \in 1 .. MAX_COMMAND_LENGTH - 1
           /\ command_length' = command_length - 1
           /\ command_buffer' = [command_buffer EXCEPT ![command_length] = NUL]
           /\ UNCHANGED entry
        \/ /\ write_state = 1 /\ write_state' = 1
           /\ UNCHANGED command
    BY <1>4, BackspaceTakes
  <2>2. CASE write_state = 0
    <3>1. /\ command_length \in 1 .. MAX_COMMAND_LENGTH - 1
          /\ command_length' = command_length - 1
          /\ command_buffer' = [command_buffer EXCEPT ![command_length] = NUL]
          /\ write_state' = 0
      BY <2>1, <2>2 DEF entry
    <3>2. \A i \in 1 .. command_length - 1 : command_buffer'[i] # NUL
      BY <1>0, <3>1 DEF LineKept, Buffers
    <3>. QED
      BY <3>1, <3>2 DEF LineKept
  <2>3. CASE write_state = 1
    BY <2>1, <2>3 DEF LineKept, command
  <2>. QED
    BY <1>0, <2>2, <2>3
<1>5. CASE EnterCommand
  <2>1. /\ write_state = 0 /\ command_buffer' = Terminated
        /\ \/ command_length' = command_length
           \/ command_length' = 0 /\ UNCHANGED entry
    BY <1>5 DEF EnterCommand
  <2>2. CASE command_length' = command_length
    <3>1. /\ Terminated[command_length + 1] = NUL
          /\ \A i \in 1 .. command_length : Terminated[i] = command_buffer[i]
      BY <1>0, TerminatedBuffer DEF CInv
    <3>. QED
      BY <2>1, <2>2, <3>1 DEF LineKept
  <2>3. CASE command_length' = 0 /\ UNCHANGED entry
    BY <2>1, <2>3 DEF LineKept, entry
  <2>. QED
    BY <2>1, <2>2, <2>3
<1>6. CASE EndOfData
  BY <1>6 DEF LineKept, EndOfData
<1>7. CASE UNCHANGED vars
  BY <1>7 DEF LineKept, vars, command, entry
<1>. QED
  BY <1>1, <1>2, <1>3, <1>4, <1>5, <1>6, <1>7 DEF Next
LEMMA ScreenKeeps ==
  ASSUME CInv, ScreenShowsEntered, [Next]_vars
  PROVE  ScreenShowsEntered'
<1>0. /\ screen \in Screens /\ write_state \in {0, 1} /\ Entered \in Seq(Char \cup {NUL, NewLine})
      /\ InFront(screen, Entered)
  BY Types, Lines DEF CInv, ScreenShowsEntered, InFront
<1>1. ASSUME NEW pressed \in {0, 1}, Shift(pressed)
      PROVE  ScreenShowsEntered'
  BY <1>1 DEF ScreenShowsEntered, Entered, Line, Text, Shift, command, entry
<1>2. ASSUME NEW key \in Key, Character(key)
      PROVE  ScreenShowsEntered'
  <2>1. PICK c \in Char :
          /\ screen' = Put(screen, c) /\ screen' \in Screens
          /\ \/ /\ write_state = 0
                /\ Line' = Append(Line, c) /\ UNCHANGED entry
             \/ /\ write_state = 1 /\ write_state' = 1
                /\ Text' = Append(Text, c)
    BY <1>2, CharacterAdds
  <2>2. c \in Glyph /\ c # NewLine /\ c \in Char \cup {NUL, NewLine}
    BY Chars
  <2>3. Entered' = Append(Entered, c)
    <3>1. CASE write_state = 0
      BY <2>1, <3>1 DEF Entered, entry
    <3>2. CASE write_state = 1
      BY <2>1, <3>2 DEF Entered
    <3>. QED
      BY <1>0, <3>1, <3>2
  <2>4. Put(screen, c) \in Screens
    BY <2>1
  <2>. DEFINE f == Entered'
  <2>5. f = Append(Entered, c)
    BY <2>3
  <2>. HIDE DEF f
  <2>6. InFront(Put(screen, c), f)
    BY <1>0, <2>2, <2>4, <2>5, ShowsAdded
  <2>7. Position(screen') = Position(Put(screen, c))
    BY <2>1 DEF Position
  <2>. QED
    BY <2>1, <2>6, <2>7 DEF ScreenShowsEntered, InFront, f, Position
<1>3. CASE Silent
  <2>1. Entered' = Entered /\ screen' = screen
    BY <1>3, SilentAdds DEF Entered, Silent
  <2>. QED
    BY <2>1 DEF ScreenShowsEntered, Position
<1>4. CASE Backspace
  <2>1. /\ screen.x >= 1
        /\ screen' = [cells |-> [q \in Cells |-> IF q = Position(screen) - 1 THEN Blank
                                                 ELSE screen.cells[q]],
                      x |-> screen.x - 1, y |-> screen.y]
        /\ \/ /\ write_state = 0
              /\ Line # << >> /\ Line' = SubSeq(Line, 1, Len(Line) - 1)
              /\ UNCHANGED entry
           \/ /\ write_state = 1 /\ write_state' = 1
              /\ Text # << >> /\ Text' = SubSeq(Text, 1, Len(Text) - 1)
    BY <1>4, BackspaceTakes
  <2>2. Entered # << >> /\ Entered' = SubSeq(Entered, 1, Len(Entered) - 1)
    <3>1. CASE write_state = 0
      BY <2>1, <3>1 DEF Entered, entry
    <3>2. CASE write_state = 1
      BY <2>1, <3>2 DEF Entered
    <3>. QED
      BY <1>0, <3>1, <3>2
  <2>. DEFINE f == Entered'
              t == screen'
  <2>3. /\ f = SubSeq(Entered, 1, Len(Entered) - 1)
        /\ t = Erased(screen)
    BY <2>1, <2>2 DEF Erased
  <2>. HIDE DEF f, t
  <2>4. InFront(t, f)
    BY <1>0, <2>1, <2>2, <2>3, ShowsErased
  <2>. QED
    BY <2>4 DEF ScreenShowsEntered, InFront, f, t, Position
<1>5. CASE EnterCommand
  <2>1. Entered' = << >>
    <3>1. CASE write_state' = 1 /\ write_file_buffer' = Zeros(DataLength)
      BY <3>1, AtRest DEF Entered, Text
    <3>2. CASE command_length' = 0 /\ UNCHANGED entry
      <4>1. Line' = << >> /\ write_state' = 0
        BY <1>5, <3>2 DEF Line, EnterCommand, entry
      <4>. QED
        BY <4>1 DEF Entered
    <3>. QED
      BY <1>5, <3>1, <3>2 DEF EnterCommand
  <2>2. Len(Entered') = 0 /\ 1 .. 0 = {}
    BY <2>1
  <2>. QED
    BY <2>2 DEF ScreenShowsEntered
<1>6. CASE EndOfData
  <2>1. Line' = << >> /\ write_state' = 0
    BY <1>6 DEF Line, EndOfData
  <2>. QED
    BY <2>1 DEF ScreenShowsEntered, Entered
<1>7. CASE UNCHANGED vars
  BY <1>7 DEF ScreenShowsEntered, Entered, Line, Text, vars, command, entry
<1>. QED
  BY <1>1, <1>2, <1>3, <1>4, <1>5, <1>6, <1>7 DEF Next

LEMMA NextKeepsLine == LInv /\ [Next]_vars => LInv'
BY NextKeeps, LineKeeps, ScreenKeeps DEF LInv

(* The line holds no zero and what is entered stands in front of the       *)
(* cursor, at every key.                                                   *)
THEOREM LineInvariance == Spec => []LInv
BY InitLine, NextKeepsLine, PTL DEF Spec
(* What you see is what the kernel has, on a screen of any size, for any   *)
(* commands: across wrapped lines, scrolling and erasing, the characters   *)
(* in front of the cursor are those of the line or of the data.            *)
THEOREM ScreenIsFaithful == Spec => []ScreenShowsEntered
<1>1. LInv => ScreenShowsEntered
  BY DEF LInv
<1>. QED
  BY <1>1, LineInvariance, PTL

(***************************************************************************)
(* The counter.  Its two low bytes count the ticks, so for that many the   *)
(* carry stays in them and the timer leaves the console alone.             *)
(***************************************************************************)
Counted == ClockOK /\ ticks = up_time + (Byte * padding)

LEMMA TickCounts ==
  ASSUME Counted, Tick, MaxTicks < Byte * Byte
  PROVE  Counted' /\ UNCHANGED vars
<1>0. ClockOK'
  BY TickClock DEF Counted
<1>1. /\ Byte \in Nat /\ Byte > 1 /\ MaxTicks \in Nat
      /\ up_time \in Nat /\ up_time < Byte /\ padding \in Nat /\ padding < Byte
      /\ ticks = up_time + (Byte * padding) /\ ticks < MaxTicks /\ ticks' = ticks + 1
  BY ByteAssumption DEF Counted, ClockOK, Tick
<1>2. /\ up_time' = (up_time + 1) % Byte
      /\ padding' = (IF up_time' = 0 THEN padding + 1 ELSE padding) % Byte
      /\ command_length' = IF up_time' = 0 THEN Carry(command_length, padding') ELSE command_length
      /\ UNCHANGED <<screen, command_buffer, shift_pressed, entry, saved>>
  BY DEF Tick, Carry
<1>3. \A n \in Nat : n < Byte => n % Byte = n
  BY <1>1, SMT
<1>4. CASE up_time + 1 < Byte
  <2>1. up_time' = up_time + 1 /\ up_time' # 0
    BY <1>1, <1>2, <1>3, <1>4
  <2>2. padding' = padding
    BY <1>1, <1>2, <1>3, <2>1
  <2>3. ticks' = up_time' + (Byte * padding')
    BY <1>1, <2>1, <2>2
  <2>4. command_length' = command_length
    BY <1>2, <2>1
  <2>. QED
    BY <1>0, <1>2, <2>3, <2>4 DEF Counted, vars, command
<1>5. CASE ~(up_time + 1 < Byte)
  <2>1. up_time + 1 = Byte /\ up_time' = 0
    <3>1. up_time + 1 = Byte
      BY <1>1, <1>5
    <3>2. Byte % Byte = 0
      BY <1>1, SMT
    <3>. QED
      BY <1>2, <3>1, <3>2
  <2>2. Byte * (padding + 1) = Byte + (Byte * padding)
    BY <1>1
  <2>3. Byte * (padding + 1) < Byte * Byte
    <3>1. ticks' = Byte * (padding + 1)
      BY <1>1, <2>1, <2>2
    <3>2. Byte * Byte \in Nat /\ ticks \in Nat
      BY <1>1
    <3>. QED
      BY <1>1, <3>1, <3>2
  <2>4. padding + 1 < Byte
    <3>1. SUFFICES ASSUME padding + 1 = Byte PROVE FALSE
      BY <1>1
    <3>. QED
      BY <1>1, <2>3, <3>1
  <2>5. padding' = padding + 1 /\ padding' # 0
    BY <1>1, <1>2, <1>3, <2>1, <2>4
  <2>6. ticks' = up_time' + (Byte * padding')
    BY <1>1, <2>1, <2>2, <2>5
  <2>7. command_length' = command_length
    BY <1>2, <2>1, <2>5 DEF Carry
  <2>. QED
    BY <1>0, <1>2, <2>6, <2>7 DEF Counted, vars, command
<1>. QED
  BY <1>4, <1>5

(* Until the counter has used up the byte after it, fewer than 256 * 256   *)
(* ticks from the start, the console next to the timer is the console on   *)
(* its own.                                                                *)
THEOREM TimerLeavesConsole ==
  ASSUME MaxTicks < Byte * Byte
  PROVE  USpec => Spec
<1>1. UInit => Init /\ Counted
  <2>1. UInit => up_time + (Byte * padding) = 0
    BY ByteAssumption DEF UInit
  <2>. QED
    BY <2>1, InitClock DEF UInit, Counted
<1>2. Counted /\ [UNext]_<<vars, clock>> => [Next]_vars /\ Counted'
  <2>. SUFFICES ASSUME Counted, [UNext]_<<vars, clock>>
                PROVE  [Next]_vars /\ Counted'
    OBVIOUS
  <2>1. CASE [Next]_vars /\ UNCHANGED clock
    BY <2>1 DEF Counted, ClockOK, clock
  <2>2. CASE Tick
    BY <2>2, TickCounts
  <2>. QED
    BY <2>1, <2>2 DEF UNext
<1>. QED
  BY <1>1, <1>2, PTL DEF USpec, Spec

(* What you see is what the kernel has next to the timer too, as long as   *)
(* it has ticked fewer than 256 * 256 times.                               *)
THEOREM ScreenIsFaithfulNextToTimer ==
  ASSUME MaxTicks < Byte * Byte
  PROVE  USpec => []ScreenShowsEntered
BY TimerLeavesConsole, ScreenIsFaithful, PTL
(***************************************************************************)
(* The buffers implement line editing.                                     *)
(***************************************************************************)
LEMMA InitEditor == Init => Editor!Init
<1>. SUFFICES ASSUME Init
              PROVE  Editor!Init
  OBVIOUS
<1>1. Line = << >>
  BY NoLine DEF Init, Line
<1>2. Text = << >>
  BY AtRest DEF Init, Text
<1>. QED
  BY <1>1, <1>2 DEF Init, Editor!Init

LEMMA CharacterTypes ==
  ASSUME CInv, NEW key \in Key, Character(key)
  PROVE  \E c \in Char : Editor!Type(c)
<1>1. PICK c \in Char :
        \/ /\ write_state = 0
           /\ Line' = Append(Line, c) /\ UNCHANGED entry /\ Text' = Text
        \/ /\ write_state = 1 /\ write_state' = 1
           /\ Text' = Append(Text, c) /\ Line' = Line
  BY CharacterAdds
<1>2. saved' = NoFile
  BY DEF Character
<1>3. CASE write_state = 0
  <2>1. write_state' = 0 /\ Line' = Append(Line, c) /\ Text' = Text
    BY <1>1, <1>3 DEF entry
  <2>2. Editor!Type(c)
    BY <1>2, <1>3, <2>1 DEF Editor!Type
  <2>. QED
    BY <2>2
<1>4. CASE write_state = 1
  <2>1. write_state' = 1 /\ Text' = Append(Text, c) /\ Line' = Line
    BY <1>1, <1>4
  <2>2. Editor!Type(c)
    BY <1>2, <1>4, <2>1 DEF Editor!Type
  <2>. QED
    BY <2>2
<1>. QED
  BY <1>1, <1>3, <1>4

LEMMA BackspaceErases ==
  ASSUME CInv, Backspace
  PROVE  Editor!Erase
<1>1. \/ /\ write_state = 0
         /\ Line # << >> /\ Line' = SubSeq(Line, 1, Len(Line) - 1)
         /\ UNCHANGED entry /\ Text' = Text
      \/ /\ write_state = 1 /\ write_state' = 1
         /\ Text # << >> /\ Text' = SubSeq(Text, 1, Len(Text) - 1)
         /\ Line' = Line
  BY BackspaceTakes
<1>2. saved' = NoFile
  BY DEF Backspace
<1>3. CASE write_state = 0
  <2>1. /\ write_state' = 0 /\ Text' = Text
        /\ Line # << >> /\ Line' = SubSeq(Line, 1, Len(Line) - 1)
    BY <1>1, <1>3 DEF entry
  <2>. QED
    BY <1>2, <1>3, <2>1 DEF Editor!Erase, Editor!WithoutLast
<1>4. CASE write_state = 1
  <2>1. /\ write_state' = 1 /\ Line' = Line
        /\ Text # << >> /\ Text' = SubSeq(Text, 1, Len(Text) - 1)
    BY <1>1, <1>4
  <2>. QED
    BY <1>2, <1>4, <2>1 DEF Editor!Erase, Editor!WithoutLast
<1>. QED
  BY <1>1, <1>3, <1>4

(* check_partial compares character by character.                          *)
LEMMA PartialBegins ==
  ASSUME NEW S, NEW k \in Seq(S), NEW l \in Seq(S)
  PROVE  check_partial(k, l) <=> Editor!Begins(k, l)
<1>. DEFINE n == Len(k)
            p == SubSeq(l, 1, n)
<1>1. CASE n <= Len(l)
  <2>1. n \in 0 .. Len(l) /\ Len(l) \in Nat /\ l \in Buffers(Len(l), S)
    BY <1>1 DEF Buffers
  <2>2. p \in Seq(S) /\ Len(p) = n /\ \A i \in 1 .. n : p[i] = l[i]
    BY <2>1, Prefix
  <2>. HIDE DEF p
  <2>3. p = k <=> \A i \in 1 .. n : k[i] = l[i]
    BY <2>2
  <2>. QED
    BY <1>1, <2>3 DEF check_partial, Editor!Begins, p
<1>. QED
  BY <1>1 DEF check_partial, Editor!Begins

LEMMA EnterCommands ==
  ASSUME CInv, LineKept, EnterCommand
  PROVE  Editor!Command
<1>1. StringAt(Terminated, 1) = Line /\ SubSeq(Terminated, 1, command_length) = Line
  BY LineLooked
<1>2. check_partial(WriteWord, Line) <=> Editor!Begins(WriteWord, Line)
  <2>1. Line \in Seq(Char \cup {NUL}) /\ WriteWord \in Seq(Char \cup {NUL})
    BY Lines, TextAssumption DEF CInv
  <2>. QED
    BY <2>1, PartialBegins
<1>3. /\ write_state = 0 /\ command_buffer' = Terminated /\ saved' = NoFile
      /\ Text = << >>
  <2>1. write_state = 0 /\ command_buffer' = Terminated /\ saved' = NoFile
    BY DEF EnterCommand
  <2>2. write_file_buffer = Zeros(DataLength)
    BY <2>1 DEF CInv, TextKept
  <2>. QED
    BY <2>1, <2>2, AtRest DEF Text
<1>4. CASE check_partial(WriteWord, Line)
  <2>1. /\ write_state' = 1 /\ command_length' = command_length
        /\ write_file_buffer' = Zeros(DataLength)
    BY <1>1, <1>4 DEF EnterCommand
  <2>2. Line' = Line /\ Text' = Text
    BY <1>1, <1>3, <2>1, AtRest DEF Line, Text
  <2>. QED
    BY <1>2, <1>3, <1>4, <2>1, <2>2 DEF Editor!Command
<1>5. CASE ~check_partial(WriteWord, Line)
  <2>1. command_length' = 0 /\ UNCHANGED entry
    BY <1>1, <1>5 DEF EnterCommand
  <2>2. Line' = << >>
    BY <2>1 DEF Line
  <2>3. Text' = Text /\ write_state' = 0
    BY <1>3, <2>1 DEF Text, entry
  <2>. QED
    BY <1>2, <1>3, <1>5, <2>2, <2>3 DEF Editor!Command
<1>. QED
  BY <1>4, <1>5

(* The name on the line, behind the word and one character.                *)
LEMMA NameTyped ==
  ASSUME CInv, LineKept, write_state = 1, Len(Line) > Len(WriteWord)
  PROVE  StringAt(command_buffer, Len(WriteWord) + 2)
           = SubSeq(Line, Len(WriteWord) + 2, Len(Line))
<1>. DEFINE b == command_buffer
            n == command_length
            i == Len(WriteWord) + 2
<1>1. /\ b \in Buffers(MAX_COMMAND_LENGTH, Char \cup {NUL})
      /\ n \in 0 .. MAX_COMMAND_LENGTH - 1 /\ MAX_COMMAND_LENGTH \in Nat
  BY Types DEF CInv
<1>2. Len(Line) = n /\ \A k \in 1 .. n : Line[k] = b[k]
  BY Lines DEF CInv
<1>3. i \in Nat \ {0} /\ i <= n + 1
  BY <1>1, <1>2, TextAssumption
<1>4. b[n + 1] = NUL /\ \A k \in i .. n : b[k] # NUL
  <2>1. \A k \in i .. n : k \in 1 .. n
    BY <1>1, <1>3
  <2>. QED
    BY <2>1 DEF LineKept
<1>5. Line = SubSeq(b, 1, n)
  BY DEF Line
<1>. HIDE DEF b, n, i
<1>6. StringAt(b, i) = SubSeq(b, i, n)
  BY <1>1, <1>3, <1>4, StringEnds
<1>7. SubSeq(b, i, n) = SubSeq(SubSeq(b, 1, n), i, n)
  <2>1. b \in Seq(Char \cup {NUL}) /\ Len(b) = MAX_COMMAND_LENGTH
    BY <1>1, IsSequence DEF Buffers
  <2>. QED
    BY <1>1, <1>3, <2>1
<1>. QED
  BY <1>2, <1>5, <1>6, <1>7 DEF b, n, i

LEMMA EndSaves ==
  ASSUME CInv, LineKept, EndOfData
  PROVE  Editor!Save
<1>. DEFINE d == [write_file_buffer EXCEPT ![write_file_buffer_index + 1] = NewLine]
            name == StringAt(command_buffer, Len(WriteWord) + 2)
<1>1. /\ write_state = 1 /\ write_state' = 0
      /\ write_file_buffer' = Zeros(DataLength) /\ command_length' = 0
      /\ saved' = [name |-> name, text |-> Compacted(d)]
      /\ write_file_buffer_index < DataLength
  BY DEF EndOfData
<1>2. Line' = << >> /\ Text' = << >>
  BY <1>1, AtRest DEF Line, Text
<1>3. Compacted(d) = Append(Text, NewLine)
  <2>1. /\ write_file_buffer \in Buffers(DataLength, DataChar) /\ DataLength \in Nat
        /\ write_file_buffer_index \in 0 .. DataLength - 1
        /\ NewLine \in DataChar /\ NewLine # NUL
    BY <1>1, Types, Chars DEF CInv, DataChar
  <2>2. \A i \in write_file_buffer_index + 1 .. DataLength : write_file_buffer[i] = NUL
    BY <1>1 DEF CInv, IndexAboveText
  <2>3. IsStored(d, write_file_buffer, write_file_buffer_index, NewLine)
    BY DEF IsStored
  <2>. HIDE DEF d
  <2>4. Compacted(d) = Append(Compacted(write_file_buffer), NewLine)
    BY <2>1, <2>2, <2>3, CompactedStored
  <2>. QED
    BY <2>4 DEF Text
<1>4. Len(Line) > Len(WriteWord) => name = SubSeq(Line, Len(WriteWord) + 2, Len(Line))
  BY <1>1, NameTyped
<1>. HIDE DEF d, name
<1>5. saved'.name = name
  BY <1>1
<1>6. saved' = [name |-> IF Len(Line) > Len(WriteWord)
                         THEN SubSeq(Line, Len(WriteWord) + 2, Len(Line))
                         ELSE saved'.name,
                text |-> Append(Text, NewLine)]
  BY <1>1, <1>3, <1>4, <1>5
<1>. QED
  BY <1>1, <1>2, <1>6 DEF Editor!Save

(* Every step is a step of the editor, or leaves what it shows alone.      *)
LEMMA NextEdits ==
  ASSUME LInv, [Next]_vars
  PROVE  [Editor!Next]_(Editor!evars)
<1>0. CInv /\ LineKept
  BY DEF LInv
<1>1. ASSUME NEW pressed \in {0, 1}, Shift(pressed)
      PROVE  UNCHANGED Editor!evars
  BY <1>1 DEF Shift, Editor!evars, Line, Text, command, entry
<1>2. ASSUME NEW key \in Key, Character(key)
      PROVE  Editor!Next
  BY <1>0, <1>2, CharacterTypes DEF Editor!Next
<1>3. CASE Silent
  BY <1>0, <1>3, SilentAdds DEF Silent, Editor!evars
<1>4. CASE Backspace
  BY <1>0, <1>4, BackspaceErases DEF Editor!Next
<1>5. CASE EnterCommand
  BY <1>0, <1>5, EnterCommands DEF Editor!Next
<1>6. CASE EndOfData
  BY <1>0, <1>6, EndSaves DEF Editor!Next
<1>7. CASE UNCHANGED vars
  BY <1>7 DEF vars, Editor!evars, Line, Text, command, entry
<1>. QED
  BY <1>1, <1>2, <1>3, <1>4, <1>5, <1>6, <1>7 DEF Next

(* The two fixed buffers of the kernel implement plain line editing: what  *)
(* is typed is what is executed, or saved under the name on its line,      *)
(* whatever earlier lines and key releases left in the buffers.            *)
THEOREM BuffersEditLines == Spec => EditsLines
<1>1. Init => Editor!Init
  BY InitEditor
<1>2. LInv /\ [Next]_vars => [Editor!Next]_(Editor!evars)
  BY NextEdits
<1>. QED
  BY <1>1, <1>2, LineInvariance, PTL DEF Spec, EditsLines, Editor!Spec

(* They do so next to the timer for fewer than 256 * 256 of its ticks; at  *)
(* that one the line grows by a character nobody typed.                    *)
THEOREM BuffersEditLinesNextToTimer ==
  ASSUME MaxTicks < Byte * Byte
  PROVE  USpec => EditsLines
BY TimerLeavesConsole, BuffersEditLines, PTL
=============================================================================
