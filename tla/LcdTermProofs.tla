--------------------------- MODULE LcdTermProofs ---------------------------
(***************************************************************************)
(* Theorems about LcdTerm, for a display and a line of any size, and       *)
(* whatever commands and packets print.                                    *)
(***************************************************************************)
EXTENDS LcdTerm, SequenceTheorems, TLAPS

---------------------------------------------------------------------------
(* The inductive invariant, and its parts for a terminal t. *)

At(t) == <<t.x, t.y>>

Clean(t) == \A c \in Cells : t.screen[c] \notin CursorTiles

(* The one cursor there may be is where the next character goes. *)
OnlyAt(t) == \A c \in Cells : t.screen[c] \in CursorTiles => c = At(t)

Single(t, tile) ==
    \A c \in Cells : t.screen[c] \in CursorTiles => c = At(t) /\ t.screen[c] = tile

Bottom(t) ==
    IF t.atBottom THEN t.y = (t.addr + Rows - 1) % Rows ELSE t.addr = 0

(* The row shows the prompt and the line. *)
Shown(t, row, line) ==
    /\ t.screen[<<0, row>>] = TileOf(Prompt)
    /\ \A i \in 1..Len(line) : t.screen[<<i, row>>] = TileOf(line[i])

Above(t) == IF t.y = 0 THEN Rows - 1 ELSE t.y - 1

(* A line that has ended is executed before the keyboard is polled again. *)
Ended == got_eol => pc \in {"console_tick", "shell_exec"}

(* A prompt comes at the beginning of a row; lines are printed in between. *)
Margin ==
    /\ printing => pc \in {"banner", "shell_exec", "packet"}
    /\ pc \in {"banner", "packet"} => ~plain
    /\ pc = "shell_exec" => got_eol
    /\ active /\ ~printing /\ (got_eol \/ pc = "banner") => term.x = 0

(* The cursor stands behind the line, or at the start of the next row when
   prompt and line fill theirs. *)
Behind ==
    active /\ plain /\ ~got_eol =>
        \/ /\ linebuf_tail + 1 < Cols /\ term.x = linebuf_tail + 1
           /\ Shown(term, term.y, linebuf)
        \/ /\ linebuf_tail + 1 = Cols /\ term.x = 0
           /\ Shown(term, Above(term), linebuf)

Stopped == ~active => term.screen = [c \in Cells |-> "blank"]

TermInv ==
    /\ TypeOK
    /\ active => Single(term, CursorTile(capslock, alt)) /\ Bottom(term)
    /\ Ended /\ Margin /\ Behind /\ Stopped
---------------------------------------------------------------------------
(* Arithmetic: x and addr wrap. *)

LEMMA Sizes == Cols \in Nat /\ Cols >= 1 /\ Rows \in Nat /\ Rows >= 2
BY SizeAssumption

Chars == {Letter, Digit, Space}

LEMMA Lengths ==
    ASSUME TypeOK
    PROVE  /\ linebuf \in Seq(Chars) /\ linebuf_tail \in Nat /\ LINEBUF_MAX \in Nat
           /\ linebuf_tail + 1 <= Cols
BY LineAssumption, Sizes DEF TypeOK, linebuf_tail, Chars

LEMMA Remainder ==
    ASSUME NEW n \in Nat, NEW d \in Nat, d > 0,
           NEW q \in Nat, NEW r \in Nat, r < d, n = d * q + r
    PROVE  n % d = r
OBVIOUS

(* The remainder of what is less than twice the divisor. *)
LEMMA Wrapped ==
    ASSUME NEW n \in Nat, NEW d \in Nat, d > 0, n < 2 * d
    PROVE  n % d = IF n < d THEN n ELSE n - d
<1>1. n < d => n % d = n
  OBVIOUS
<1>2. n >= d => n % d = n - d
  OBVIOUS
<1> QED BY <1>1, <1>2

(* Columns: what one character more or less makes of cursorx, a byte. *)
LEMMA StepX ==
    ASSUME NEW x \in 0..(2 * Cols - 1)
    PROVE  /\ (x + 1) % (2 * Cols) = IF x + 1 < 2 * Cols THEN x + 1 ELSE 0
           /\ (x + 2 * Cols - 1) % (2 * Cols) = IF x > 0 THEN x - 1 ELSE 2 * Cols - 1
<1> DEFINE d == 2 * Cols
<1>1. d \in Nat /\ d > 0 /\ x \in Nat /\ x < d
  BY Sizes
<1> HIDE DEF d
<1>2. x + 1 \in Nat /\ x + 1 < 2 * d /\ x + d - 1 \in Nat /\ x + d - 1 < 2 * d
  BY <1>1
<1>3. (x + 1) % d = IF x + 1 < d THEN x + 1 ELSE x + 1 - d
  BY <1>1, <1>2, Wrapped
<1>4. (x + d - 1) % d = IF x + d - 1 < d THEN x + d - 1 ELSE x + d - 1 - d
  BY <1>1, <1>2, Wrapped
<1>5. (x + 1) % d = IF x + 1 < d THEN x + 1 ELSE 0
  BY <1>1, <1>3
<1>6. (x + d - 1) % d = IF x > 0 THEN x - 1 ELSE d - 1
  BY <1>1, <1>4
<1> QED BY <1>5, <1>6 DEF d

(* The row written and the first row shown go on together, though the one wraps
   after Rows and the other after 4 * Rows. *)
LEMMA StepY ==
    ASSUME NEW y \in 0..(Rows - 1), NEW a \in 0..(4 * Rows - 1),
           y = (a + Rows - 1) % Rows
    PROVE  (IF y + 1 >= Rows THEN 0 ELSE y + 1)
               = (((a + 1) % (4 * Rows)) + Rows - 1) % Rows
<1> DEFINE R == Rows
<1>1. R \in Nat /\ R >= 1 /\ y \in Nat /\ y < R /\ a \in Nat /\ a < 4 * R
  BY Sizes
<1>0. y = (a + R - 1) % R
  OBVIOUS
<1> SUFFICES (IF y + 1 >= R THEN 0 ELSE y + 1) = (((a + 1) % (4 * R)) + R - 1) % R
  OBVIOUS
<1> HIDE DEF R
<1>2. PICK q \in Nat : a + R - 1 = R * q + y
  <2>1. a + R - 1 \in Nat
    BY <1>1
  <2>2. \A n \in Nat : n = R * (n \div R) + (n % R) /\ n \div R \in Nat
    BY <1>1
  <2> QED BY <1>0, <2>1, <2>2
<1>3. CASE a + 1 < 4 * R
  <2>1. (a + 1) % (4 * R) = a + 1
    <3>1. a + 1 \in Nat /\ 4 * R \in Nat /\ 4 * R > 0 /\ a + 1 < 2 * (4 * R)
      BY <1>1
    <3> QED BY <1>3, <3>1, Wrapped
  <2>2. CASE y + 1 < R
    <3>1. a + 1 + R - 1 = R * q + (y + 1)
      BY <1>1, <1>2
    <3> QED BY <1>1, <2>1, <2>2, <3>1, Remainder
  <2>3. CASE y + 1 = R
    <3>1. a + 1 + R - 1 = R * (q + 1) + 0
      BY <1>1, <1>2, <2>3
    <3> QED BY <1>1, <2>1, <2>3, <3>1, Remainder
  <2> QED BY <1>1, <2>2, <2>3
<1>4. CASE a + 1 = 4 * R
  <2>1. (a + 1) % (4 * R) = 0
    <3>1. a + 1 \in Nat /\ 4 * R \in Nat /\ 4 * R > 0 /\ a + 1 < 2 * (4 * R)
      BY <1>1, <1>4
    <3> QED BY <1>4, <3>1, Wrapped
  <2>2. (0 + R - 1) % R = R - 1
    <3>1. 0 + R - 1 = R * 0 + (R - 1)
      BY <1>1
    <3> QED BY <1>1, <3>1, Remainder
  <2>3. (IF y + 1 >= R THEN 0 ELSE y + 1) = R - 1
    <3>1. CASE R = 1
      BY <1>1, <3>1
    <3>2. CASE R >= 2
      <4>1. a + R - 1 = R * 4 + (R - 2)
        BY <1>1, <1>4
      <4>2. y = R - 2
        BY <1>0, <1>1, <3>2, <4>1, Remainder
      <4> QED BY <1>1, <3>2, <4>2
    <3> QED BY <1>1, <3>1, <3>2
  <2> QED BY <1>1, <2>1, <2>2, <2>3
<1> QED BY <1>1, <1>3, <1>4

---------------------------------------------------------------------------
(* What the drawing operators make of a terminal. *)

(* The cursors and what is drawn over them are different tiles. *)
LEMMA TilesKnown ==
    /\ CursorTile(capslock, alt) \in Tiles /\ CursorTile(capslock, alt) \in CursorTiles
    /\ "blank" \in Tiles \ CursorTiles /\ "text" \in Tiles \ CursorTiles
    /\ \A ch : TileOf(ch) \in Tiles \ CursorTiles
BY DEF CursorTile, CursorTiles, Tiles, TileOf

(* lcdterm_plotchar changes the cell under the cursor, and no other. *)
LEMMA PlotDraws ==
    ASSUME NEW t \in Terminals, NEW what \in Tiles
    PROVE  /\ Plot(t, what) \in Terminals
           /\ Plot(t, what).x = t.x /\ Plot(t, what).y = t.y
           /\ Plot(t, what).atBottom = t.atBottom /\ Plot(t, what).addr = t.addr
           /\ \A c \in Cells :
                  Plot(t, what).screen[c] = IF c = At(t) THEN what ELSE t.screen[c]
<1>1. /\ t.x \in Nat /\ t.y \in 0..(Rows - 1)
      /\ t.screen \in [Cells -> Tiles]
  BY Sizes DEF Terminals
<1>2. CASE t.x < Cols
  <2>1. At(t) \in Cells
    BY <1>1, <1>2, Sizes DEF At, Cells
  <2>2. Plot(t, what) = [t EXCEPT !.screen = [t.screen EXCEPT ![At(t)] = what]]
    BY <1>2 DEF Plot, At
  <2>3. [t.screen EXCEPT ![At(t)] = what] \in [Cells -> Tiles]
    BY <1>1
  <2> QED BY <1>1, <2>1, <2>2, <2>3 DEF Terminals
<1>3. CASE ~(t.x < Cols)
  <2>1. At(t) \notin Cells
    BY <1>1, <1>3, Sizes DEF At, Cells
  <2> QED BY <1>3, <2>1 DEF Plot
<1> QED BY <1>2, <1>3

(* One step of the cursor, with what is drawn before it. *)
Moved(t, what, x) == [Plot(t, what) EXCEPT !.x = x]

(* What is drawn over the one cursor leaves a display without any. *)
LEMMA MovesOn ==
    ASSUME NEW t \in Terminals, NEW what \in Tiles \ CursorTiles, OnlyAt(t),
           NEW x \in 0..(2 * Cols - 1)
    PROVE  /\ Moved(t, what, x) \in Terminals /\ Clean(Moved(t, what, x))
           /\ Bottom(t) => Bottom(Moved(t, what, x))
           /\ Moved(t, what, x).x = x /\ Moved(t, what, x).y = t.y
           /\ \A c \in Cells : Moved(t, what, x).screen[c] =
                                   IF c = At(t) THEN what ELSE t.screen[c]
<1> DEFINE p == Plot(t, what)  u == Moved(t, what, x)
<1>1. /\ p \in Terminals /\ p.y = t.y /\ p.atBottom = t.atBottom /\ p.addr = t.addr
      /\ \A c \in Cells : p.screen[c] = IF c = At(t) THEN what ELSE t.screen[c]
  BY PlotDraws
<1>2. u = [p EXCEPT !.x = x]
  BY DEF Moved
<1> HIDE DEF p, u
<1>3. /\ u \in Terminals /\ u.x = x /\ u.y = p.y /\ u.atBottom = p.atBottom
      /\ u.addr = p.addr /\ u.screen = p.screen
  BY <1>1, <1>2 DEF Terminals
<1>4. Clean(u)
  BY <1>1, <1>3 DEF Clean, OnlyAt
<1>5. Bottom(t) => Bottom(u)
  BY <1>1, <1>3 DEF Bottom
<1> QED BY <1>1, <1>3, <1>4, <1>5 DEF u

(* Where there is no cursor, drawing it makes it the only one. *)
LEMMA CursorDraws ==
    ASSUME NEW t \in Terminals, Clean(t)
    PROVE  /\ Cursor(t) \in Terminals /\ Single(Cursor(t), CursorTile(capslock, alt))
           /\ Bottom(t) => Bottom(Cursor(t))
           /\ Cursor(t).x = t.x /\ Cursor(t).y = t.y
           /\ \A c \in Cells : c # At(t) => Cursor(t).screen[c] = t.screen[c]
<1> DEFINE tile == CursorTile(capslock, alt)  u == Cursor(t)
<1>1. /\ u \in Terminals /\ u.x = t.x /\ u.y = t.y
      /\ u.atBottom = t.atBottom /\ u.addr = t.addr
      /\ \A c \in Cells : u.screen[c] = IF c = At(t) THEN tile ELSE t.screen[c]
  BY TilesKnown, PlotDraws DEF Cursor
<1> HIDE DEF u, tile
<1>2. Single(u, tile)
  BY <1>1 DEF Single, Clean, At
<1>3. Bottom(t) => Bottom(u)
  BY <1>1 DEF Bottom
<1> QED BY <1>1, <1>2, <1>3 DEF u, tile

(* lcdterm_newline goes from the lowest row to the lowest row. *)
LEMMA NewlineGoesOn ==
    ASSUME NEW t \in Terminals, active, OnlyAt(t), Bottom(t)
    PROVE  /\ Newline(t) \in Terminals /\ Clean(Newline(t)) /\ Bottom(Newline(t))
           /\ Newline(t).x = 0 /\ Newline(t).y # t.y /\ Above(Newline(t)) = t.y
           /\ \A i \in 0..(Cols - 1) : i # t.x
                  => Newline(t).screen[<<i, t.y>>] = t.screen[<<i, t.y>>]
<1> DEFINE p == Plot(t, "blank")  r == NextRow(p)  s == Scrolled(r)
           y == IF t.y + 1 >= Rows THEN 0 ELSE t.y + 1
<1>1. /\ p \in Terminals /\ p.x = t.x /\ p.y = t.y
      /\ p.atBottom = t.atBottom /\ p.addr = t.addr
      /\ \A c \in Cells : p.screen[c] = IF c = At(t) THEN "blank" ELSE t.screen[c]
  BY TilesKnown, PlotDraws
<1>2. Clean(p)
  BY <1>1, TilesKnown DEF Clean, OnlyAt
<1>3. s = Newline(t)
  BY DEF Newline
<1>4. /\ t.y \in 0..(Rows - 1) /\ t.addr \in 0..(4 * Rows - 1) /\ t.atBottom \in BOOLEAN
      /\ y \in 0..(Rows - 1)
  BY Sizes DEF Terminals
<1>5. r = [p EXCEPT !.x = 0, !.y = y, !.atBottom = t.atBottom \/ t.y + 1 >= Rows]
  BY <1>1 DEF NextRow
<1> HIDE DEF p
<1>6. 0 \in 0..(2 * Cols - 1)
  BY Sizes
<1> DEFINE at == t.atBottom \/ t.y + 1 >= Rows
<1>7. at \in BOOLEAN
  OBVIOUS
<1>0. y # t.y /\ y \in Nat /\ (IF y = 0 THEN Rows - 1 ELSE y - 1) = t.y
  BY <1>4, Sizes
<1>20. ASSUME NEW i \in 0..(Cols - 1), i # t.x
       PROVE  /\ <<i, t.y>> \in Cells
              /\ p.screen[<<i, t.y>>] = t.screen[<<i, t.y>>]
  BY <1>1, <1>4, <1>20, Sizes DEF Cells, At
<1> HIDE DEF at, y
<1>8. /\ r \in Terminals /\ r.x = 0 /\ r.y = y /\ r.atBottom = at
      /\ r.addr = t.addr /\ r.screen = p.screen
  BY <1>1, <1>4, <1>5, <1>6, <1>7 DEF Terminals, at
<1>9. Clean(r)
  BY <1>2, <1>8 DEF Clean
<1> HIDE DEF r
<1>10. CASE at
  <2> DEFINE a == (t.addr + 1) % (4 * Rows)
             screen == [c \in Cells |-> IF c[2] = y THEN "blank" ELSE r.screen[c]]
  <2>1. s = [r EXCEPT !.addr = a, !.screen = screen]
    BY <1>8, <1>10 DEF Scrolled
  <2>2. a \in 0..(4 * Rows - 1)
    <3> DEFINE d == 4 * Rows
    <3>1. d \in Nat /\ d > 0 /\ t.addr + 1 \in Nat
      BY <1>4, Sizes
    <3> HIDE DEF d
    <3>2. (t.addr + 1) % d \in 0..(d - 1)
      BY <3>1
    <3> QED BY <3>2 DEF d
  <2>3. screen \in [Cells -> Tiles]
    BY <1>8, TilesKnown DEF Terminals
  <2>4. \A c \in Cells : screen[c] \notin CursorTiles
    BY <1>9, TilesKnown DEF Clean
  <2>5. y = (a + Rows - 1) % Rows
    <3>1. CASE t.atBottom
      BY <1>4, <3>1, StepY DEF Bottom, y
    <3>2. CASE ~t.atBottom
      <4>1. t.addr = 0 /\ y = 0
        BY <1>4, <1>10, <3>2 DEF Bottom, at, y
      <4>2. a = 1
        <5>1. /\ 1 \in Nat /\ 4 * Rows \in Nat /\ 4 * Rows > 0
             /\ 1 < 4 * Rows /\ 1 < 2 * (4 * Rows)
          BY Sizes
        <5> QED BY <4>1, <5>1, Wrapped
      <4>3. (1 + Rows - 1) % Rows = 0
        <5>1. 1 + Rows - 1 = Rows * 1 + 0
          BY Sizes
        <5> QED BY <5>1, Sizes, Remainder
      <4> QED BY <4>1, <4>2, <4>3
    <3> QED BY <3>1, <3>2
  <2> HIDE DEF a, screen, s
  <2>6. s \in Terminals /\ s.x = 0 /\ s.y = y /\ s.atBottom /\ s.addr = a /\ s.screen = screen
    BY <1>8, <1>10, <2>1, <2>2, <2>3 DEF Terminals
  <2>7. ASSUME NEW i \in 0..(Cols - 1), i # t.x
        PROVE  s.screen[<<i, t.y>>] = t.screen[<<i, t.y>>]
    <3>1. screen[<<i, t.y>>] = r.screen[<<i, t.y>>]
      BY <1>0, <1>20, <2>7 DEF screen
    <3> QED BY <1>8, <1>20, <2>6, <2>7, <3>1
  <2>8. Above(s) = t.y /\ s.y # t.y
    BY <1>0, <2>6 DEF Above
  <2> QED BY <1>3, <2>4, <2>5, <2>6, <2>7, <2>8 DEF Clean, Bottom
<1>11. CASE ~at
  <2>1. s = r
    BY <1>8, <1>11 DEF Scrolled
  <2>2. r.addr = 0
    BY <1>8, <1>11 DEF Bottom, at
  <2>3. Above(r) = t.y /\ r.y # t.y
    BY <1>0, <1>8 DEF Above
  <2> QED BY <1>3, <1>8, <1>9, <1>11, <1>20, <2>1, <2>2, <2>3 DEF Bottom
<1> QED BY <1>10, <1>11

Ready(t) == t \in Terminals /\ Single(t, CursorTile(capslock, alt)) /\ Bottom(t)

(* What one character does to column, row and cells of the row; one cursor
   remains. *)
LEMMA PutcDraws ==
    ASSUME NEW t, Ready(t), active, NEW ch
    PROVE  /\ Ready(Putc(t, ch))
           /\ ch = BS /\ t.x > 0 => Putc(t, ch).x = t.x - 1 /\ Putc(t, ch).y = t.y
           /\ ch \notin {Bell, BS} /\ t.x < Cols =>
                  /\ Putc(t, ch).screen[At(t)] = TileOf(ch)
                  /\ IF t.x + 1 < Cols
                     THEN Putc(t, ch).x = t.x + 1 /\ Putc(t, ch).y = t.y
                     ELSE Putc(t, ch).x = 0 /\ Above(Putc(t, ch)) = t.y
           /\ (ch = BS /\ t.x > 0) \/ (ch \notin {Bell, BS} /\ t.x < Cols)
              => \A i \in 0..(Cols - 1) : i # t.x /\ <<i, t.y>> # At(Putc(t, ch))
                     => Putc(t, ch).screen[<<i, t.y>>] = t.screen[<<i, t.y>>]
<1>1. /\ t \in Terminals /\ OnlyAt(t) /\ Bottom(t) /\ t.x \in 0..(2 * Cols - 1)
      /\ t.y \in 0..(Rows - 1)
  BY DEF Ready, Single, OnlyAt, Terminals
<1>0. \A i \in 0..(Cols - 1) : <<i, t.y>> \in Cells /\ (i # t.x => <<i, t.y>> # At(t))
  BY <1>1 DEF Cells, At
<1>2. CASE ch = Bell
  BY <1>2 DEF Putc, Bell, BS
<1>3. CASE ch = BS
  <2> DEFINE x == (t.x + 2 * Cols - 1) % (2 * Cols)
             u == Moved(t, "blank", x)
  <2>0. t.x \in 0..(2 * Cols - 1)
    BY <1>1
  <2>1. x = (IF t.x > 0 THEN t.x - 1 ELSE 2 * Cols - 1) /\ x \in 0..(2 * Cols - 1)
    BY <2>0, StepX, Sizes
  <2>2. Putc(t, ch) = Cursor(u)
    <3>1. Plot(t, "blank").x = t.x
      BY <1>1, TilesKnown, PlotDraws
    <3>2. Plot(t, "blank") \in Terminals
      BY <1>1, TilesKnown, PlotDraws
    <3>3. Putc(t, ch) = Cursor([Plot(t, "blank") EXCEPT !.x = (@ + 2 * Cols - 1) % (2 * Cols)])
      BY <1>3 DEF Putc, Backspace, Bell, BS
    <3> QED BY <3>1, <3>2, <3>3 DEF Terminals, Moved
  <2> HIDE DEF x
  <2>3. /\ u \in Terminals /\ Clean(u) /\ Bottom(u) /\ u.x = x /\ u.y = t.y
        /\ \A c \in Cells : u.screen[c] = IF c = At(t) THEN "blank" ELSE t.screen[c]
    BY <1>1, <2>1, TilesKnown, MovesOn
  <2> HIDE DEF u
  <2>4. /\ Ready(Cursor(u)) /\ Cursor(u).x = x /\ Cursor(u).y = t.y
        /\ \A c \in Cells : c # At(u) => Cursor(u).screen[c] = u.screen[c]
    BY <2>3, CursorDraws DEF Ready
  <2>5. At(u) = At(Cursor(u))
    BY <2>3, <2>4 DEF At
  <2>6. \A i \in 0..(Cols - 1) : i # t.x /\ <<i, t.y>> # At(Cursor(u))
            => Cursor(u).screen[<<i, t.y>>] = t.screen[<<i, t.y>>]
    BY <1>0, <2>3, <2>4, <2>5
  <2> QED BY <1>3, <2>1, <2>2, <2>3, <2>4, <2>6 DEF Bell, BS
<1>4. CASE ch \notin {Bell, BS}
  <2> DEFINE x == (t.x + 1) % (2 * Cols)
             u == Moved(t, TileOf(ch), x)
             v == IF x >= Cols THEN Newline(u) ELSE u
  <2>1. x = (IF t.x + 1 < 2 * Cols THEN t.x + 1 ELSE 0) /\ x \in 0..(2 * Cols - 1)
    BY <1>1, StepX, Sizes
  <2>2. u.x = x
    <3>1. Plot(t, TileOf(ch)) \in Terminals
      BY <1>1, TilesKnown, PlotDraws
    <3> HIDE DEF x
    <3> QED BY <3>1 DEF Terminals, Moved
  <2>3. Putc(t, ch) = Cursor(v)
    <3>1. Plot(t, TileOf(ch)).x = t.x
      BY <1>1, TilesKnown, PlotDraws
    <3>2. Plot(t, TileOf(ch)) \in Terminals
      BY <1>1, TilesKnown, PlotDraws
    <3>3. u = [Plot(t, TileOf(ch)) EXCEPT !.x = (@ + 1) % (2 * Cols)]
      BY <3>1, <3>2 DEF Terminals, Moved
    <3>4. Putc(t, ch) = Char(t, ch)
      BY <1>4 DEF Putc
    <3> HIDE DEF u
    <3> QED BY <2>2, <3>3, <3>4 DEF Char
  <2> HIDE DEF x
  <2>4. /\ u \in Terminals /\ Clean(u) /\ Bottom(u) /\ u.y = t.y
        /\ \A c \in Cells : u.screen[c] = IF c = At(t) THEN TileOf(ch) ELSE t.screen[c]
    <3>1. TileOf(ch) \in Tiles \ CursorTiles
      BY TilesKnown
    <3> QED BY <1>1, <2>1, <3>1, MovesOn
  <2> HIDE DEF u
  <2>5. /\ v \in Terminals /\ Clean(v) /\ Bottom(v)
        /\ v.x = IF x >= Cols THEN 0 ELSE x
        /\ x < Cols => v = u
        /\ x >= Cols => /\ v.y # t.y /\ Above(v) = t.y
                       /\ \A i \in 0..(Cols - 1) : v.screen[<<i, t.y>>] = u.screen[<<i, t.y>>]
    <3>1. OnlyAt(u)
      BY <2>4 DEF Clean, OnlyAt
    <3>2. CASE x >= Cols
      <4>1. /\ Newline(u) \in Terminals /\ Clean(Newline(u)) /\ Bottom(Newline(u))
            /\ Newline(u).x = 0 /\ Newline(u).y # t.y /\ Above(Newline(u)) = t.y
            /\ \A i \in 0..(Cols - 1) : i # u.x
                   => Newline(u).screen[<<i, t.y>>] = u.screen[<<i, t.y>>]
        BY <2>4, <3>1, NewlineGoesOn
      <4>2. \A i \in 0..(Cols - 1) : i # u.x
        BY <2>1, <2>2, <3>2, Sizes
      <4> QED BY <2>1, <3>2, <4>1, <4>2, Sizes
    <3>3. CASE ~(x >= Cols)
      BY <2>2, <2>4, <3>3
    <3> QED BY <2>1, <3>2, <3>3, Sizes
  <2> HIDE DEF v
  <2>6. /\ Ready(Cursor(v)) /\ Cursor(v).x = v.x /\ Cursor(v).y = v.y
        /\ \A c \in Cells : c # At(v) => Cursor(v).screen[c] = v.screen[c]
    BY <2>5, CursorDraws DEF Ready
  <2>7. At(v) = At(Cursor(v)) /\ Above(v) = Above(Cursor(v))
    BY <2>6 DEF At, Above
  <2>8. \A i \in 0..(Cols - 1) : v.screen[<<i, t.y>>] = u.screen[<<i, t.y>>]
    BY <2>1, <2>5, Sizes
  <2>9. ASSUME t.x < Cols
        PROVE  IF t.x + 1 < Cols THEN v.x = t.x + 1 /\ v.y = t.y
                                 ELSE v.x = 0 /\ Above(v) = t.y /\ v.y # t.y
    BY <1>1, <2>1, <2>4, <2>5, <2>9, Sizes
  <2>10. ASSUME t.x < Cols
         PROVE  Cursor(v).screen[At(t)] = TileOf(ch)
    <3>1. t.x \in 0..(Cols - 1) /\ At(t) = <<t.x, t.y>> /\ At(t) \in Cells
      BY <1>1, <2>10, Sizes DEF At, Cells
    <3>2. At(t) # At(v)
      BY <1>1, <2>9, <2>10 DEF At
    <3>3. u.screen[At(t)] = TileOf(ch)
      BY <2>4, <3>1
    <3> QED BY <2>6, <2>8, <3>1, <3>2, <3>3
  <2>11. \A i \in 0..(Cols - 1) : i # t.x /\ <<i, t.y>> # At(Cursor(v))
             => Cursor(v).screen[<<i, t.y>>] = t.screen[<<i, t.y>>]
    BY <1>0, <2>4, <2>6, <2>7, <2>8
  <2> QED BY <1>4, <2>3, <2>6, <2>7, <2>9, <2>10, <2>11
<1> QED BY <1>2, <1>3, <1>4

(* What is left of a line when its last character is rubbed out. *)
LEMMA Shortened ==
    ASSUME NEW line \in Seq(Chars), Len(line) > 0
    PROVE  LET short == SubSeq(line, 1, Len(line) - 1)
           IN  /\ short \in Seq(Chars) /\ Len(short) = Len(line) - 1
               /\ \A i \in 1..(Len(line) - 1) : short[i] = line[i]
<1>1. Len(line) - 1 \in Int /\ 1 \in Int /\ 1..(Len(line) - 1) \subseteq 1..Len(line)
  OBVIOUS
<1>2. \A i \in 1..(Len(line) - 1) : line[i] \in Chars
  BY <1>1
<1> DEFINE m == Len(line) - 1
<1>3. /\ SubSeq(line, 1, m) \in Seq(Chars)
      /\ Len(SubSeq(line, 1, m)) = IF 1 <= m THEN m - 1 + 1 ELSE 0
      /\ \A i \in 1..(m - 1 + 1) : SubSeq(line, 1, m)[i] = line[1 + i - 1]
  <2> HIDE DEF Chars, m
  <2>1. m \in Int /\ 1 \in Int /\ \A i \in 1..m : line[i] \in Chars
    BY <1>1, <1>2 DEF m
  <2> QED BY <2>1, SubSeqProperties
<1>4. m - 1 + 1 = m /\ \A i \in 1..m : 1 + i - 1 = i
  BY <1>1
<1>5. (IF 1 <= m THEN m - 1 + 1 ELSE 0) = m
  BY <1>1, <1>4
<1> QED BY <1>3, <1>4, <1>5

(* A character typed behind the line stands behind it. *)
LEMMA CharDraws ==
    ASSUME NEW t, Ready(t), active, NEW line \in Seq(Chars), NEW ch \in Chars,
           t.x = Len(line) + 1, t.x < Cols, Shown(t, t.y, line)
    PROVE  /\ Ready(Putc(t, ch)) /\ Shown(Putc(t, ch), t.y, Append(line, ch))
           /\ IF t.x + 1 < Cols THEN Putc(t, ch).x = t.x + 1 /\ Putc(t, ch).y = t.y
                                ELSE Putc(t, ch).x = 0 /\ Above(Putc(t, ch)) = t.y
<1> DEFINE u == Putc(t, ch)
<1>1. ch \notin {Bell, BS}
  BY DEF Chars, Letter, Digit, Space, Bell, BS
<1>2. /\ Ready(u) /\ u.screen[At(t)] = TileOf(ch)
      /\ IF t.x + 1 < Cols THEN u.x = t.x + 1 /\ u.y = t.y ELSE u.x = 0 /\ Above(u) = t.y
      /\ \A i \in 0..(Cols - 1) : i # t.x /\ <<i, t.y>> # At(u)
             => u.screen[<<i, t.y>>] = t.screen[<<i, t.y>>]
  BY <1>1, PutcDraws
<1> HIDE DEF u
<1>3. /\ Len(line) \in Nat /\ t.y \in 0..(Rows - 1) /\ u.y \in 0..(Rows - 1)
      /\ Len(Append(line, ch)) = Len(line) + 1
      /\ \A i \in 1..(Len(line) + 1) :
             Append(line, ch)[i] = IF i = Len(line) + 1 THEN ch ELSE line[i]
  BY <1>2 DEF Ready, Terminals
<1>4. \A i \in 0..Len(line) : <<i, t.y>> # At(u)
  BY <1>2, <1>3, Sizes DEF At, Above
<1>5. \A i \in 0..Len(line) : u.screen[<<i, t.y>>] = t.screen[<<i, t.y>>]
  <2>1. \A i \in 0..Len(line) : i \in 0..(Cols - 1) /\ i # t.x
    BY <1>3, Sizes
  <2> QED BY <1>2, <1>4, <2>1
<1>6. u.screen[<<Len(line) + 1, t.y>>] = TileOf(ch)
  BY <1>2 DEF At
<1>7. Shown(u, t.y, Append(line, ch))
  <2>1. \A i \in 1..(Len(line) + 1) : i = Len(line) + 1 \/ i \in 1..Len(line)
    BY <1>3
  <2>2. 0 \in 0..Len(line) /\ \A i \in 1..Len(line) : i \in 0..Len(line) /\ i # Len(line) + 1
    BY <1>3
  <2> QED BY <1>3, <1>5, <1>6, <2>1, <2>2 DEF Shown
<1> QED BY <1>2, <1>7 DEF u

(* A character rubbed out leaves the others. *)
LEMMA RuboutDraws ==
    ASSUME NEW t, Ready(t), active, NEW line \in Seq(Chars), Len(line) > 0,
           t.x = Len(line) + 1, t.x < Cols, Shown(t, t.y, line)
    PROVE  /\ Ready(Rubout(t)) /\ Rubout(t).x = Len(line) /\ Rubout(t).y = t.y
           /\ Shown(Rubout(t), t.y, SubSeq(line, 1, Len(line) - 1))
<1> DEFINE n == Len(line)  u == Putc(t, BS)  v == Putc(u, Space)  w == Putc(v, BS)
<1>0. BS \notin {Bell, Space} /\ Space # Bell /\ n \in Nat
  BY DEF BS, Bell, Space
<1> HIDE DEF n
<1>1. /\ Ready(u) /\ u.x = n /\ u.y = t.y
      /\ \A i \in 0..(Cols - 1) : i # n + 1 /\ <<i, t.y>> # At(u)
             => u.screen[<<i, t.y>>] = t.screen[<<i, t.y>>]
  BY <1>0, PutcDraws DEF n
<1> HIDE DEF u
<1>2. /\ Ready(v) /\ v.x = n + 1 /\ v.y = t.y
      /\ \A i \in 0..(Cols - 1) : i # n /\ <<i, t.y>> # At(v)
             => v.screen[<<i, t.y>>] = u.screen[<<i, t.y>>]
  <2>1. Space \notin {Bell, BS} /\ u.x < Cols /\ u.x + 1 < Cols
    BY <1>0, <1>1, Sizes DEF n
  <2> QED BY <1>1, <2>1, PutcDraws
<1> HIDE DEF v
<1>3. /\ Ready(w) /\ w.x = n /\ w.y = t.y
      /\ \A i \in 0..(Cols - 1) : i # n + 1 /\ <<i, t.y>> # At(w)
             => w.screen[<<i, t.y>>] = v.screen[<<i, t.y>>]
  <2>1. v.x > 0 /\ v.x - 1 = n
    BY <1>0, <1>2
  <2> QED BY <1>2, <2>1, PutcDraws
<1> HIDE DEF w
<1>4. ASSUME NEW i \in 0..(n - 1)
      PROVE  w.screen[<<i, t.y>>] = t.screen[<<i, t.y>>]
  <2>1. i \in 0..(Cols - 1) /\ i # n /\ i # n + 1
    BY <1>0, Sizes DEF n
  <2>2. <<i, t.y>> \notin {At(u), At(v), At(w)}
    BY <1>1, <1>2, <1>3, <2>1 DEF At
  <2> QED BY <1>1, <1>2, <1>3, <2>1, <2>2
<1>5. LET short == SubSeq(line, 1, n - 1)
      IN  Len(short) = n - 1 /\ \A i \in 1..(n - 1) : short[i] = line[i]
  BY Shortened DEF n
<1>6. Shown(w, t.y, SubSeq(line, 1, n - 1))
  <2>1. 0 \in 0..(n - 1) /\ \A i \in 1..(n - 1) : i \in 0..(n - 1) /\ i \in 1..n
    BY <1>0 DEF n
  <2> QED BY <1>4, <1>5, <2>1 DEF Shown, n
<1> QED BY <1>3, <1>6 DEF Rubout, u, v, w, n

---------------------------------------------------------------------------
(* The steps. *)

(* TermInv, said of what an action changes. *)
LEMMA TermInvIs ==
    TermInv <=> /\ TypeOK
                /\ active => Ready(term)
                /\ Ended /\ Margin /\ Behind /\ Stopped
BY DEF TermInv, TypeOK, Ready

(* The same for a step that prints one, which draws nothing in graphics mode. *)
LEMMA PutcStep ==
    ASSUME TypeOK, active => Ready(term), NEW ch, term' = Putc(term, ch),
           UNCHANGED <<active, modes>>
    PROVE  term' \in Terminals /\ (active => Ready(term))' /\ (~active => UNCHANGED term)
<1>1. CASE active
  <2>1. Ready(term')
    BY <1>1, PutcDraws
  <2> QED BY <1>1, <2>1 DEF Ready, modes
<1>2. CASE ~active
  BY <1>2 DEF Putc, TypeOK
<1> QED BY <1>1, <1>2

LEMMA NewlineStep ==
    ASSUME TypeOK, active => Ready(term), term' = Newline(term), UNCHANGED <<active, modes>>
    PROVE  /\ term' \in Terminals /\ (active => Ready(term))' /\ (~active => UNCHANGED term)
           /\ active => term'.x = 0
<1>1. CASE active
  <2>1. OnlyAt(term) /\ term \in Terminals /\ Bottom(term)
    BY <1>1 DEF Ready, Single, OnlyAt
  <2>2. term' \in Terminals /\ Clean(term') /\ Bottom(term') /\ term'.x = 0
    BY <1>1, <2>1, NewlineGoesOn
  <2>3. Single(term', CursorTile(capslock, alt))
    BY <2>2 DEF Single, Clean
  <2> QED BY <1>1, <2>2, <2>3 DEF Ready, modes
<1>2. CASE ~active
  BY <1>2 DEF Newline, TypeOK
<1> QED BY <1>1, <1>2

(* A key that is typed into the line. *)
LEMMA RxStep ==
    ASSUME TermInv, pc = "lcdterm_tick", NEW k, active, RxCallback(k),
           k \in {"cr", "rub", "letter", "space", "KSPK"},
           pc' = "console_tick", UNCHANGED <<active, modes, printing>>, lastkey' \in Keys
    PROVE  TermInv'
<1>1. TypeOK /\ Ready(term) /\ ~got_eol /\ ~printing /\ Behind /\ Stopped
  BY TermInvIs DEF Ended, Margin
<1>2. /\ linebuf \in Seq(Chars) /\ linebuf_tail \in Nat /\ LINEBUF_MAX \in Nat
      /\ linebuf_tail + 1 <= Cols
  BY <1>1, Lengths
<1> DEFINE Fits == linebuf' \in Seq(Chars) /\ Len(linebuf') < LINEBUF_MAX
<1> SUFFICES /\ Fits /\ {got_eol', plain'} \subseteq BOOLEAN
             /\ Ready(term)'
             /\ got_eol' => term'.x = 0
             /\ Behind'
  <2> SUFFICES ASSUME Fits, {got_eol', plain'} \subseteq BOOLEAN,
                      Ready(term)', got_eol' => term'.x = 0, Behind'
               PROVE  TermInv'
    OBVIOUS
  <2>1. TypeOK'
    BY <1>1 DEF TypeOK, Ready, modes, linebuf_tail, Chars
  <2>2. Ended' /\ Margin' /\ Stopped'
    BY <1>1 DEF Ended, Margin, Stopped
  <2> QED BY <2>1, <2>2 DEF TermInv, Ready
<1>3. CASE k = "cr"
  <2>1. RxEndOfLine
    BY <1>3 DEF RxCallback
  <2>2. got_eol' = TRUE /\ UNCHANGED <<linebuf, plain>> /\ term' = Newline(term)
    BY <2>1 DEF RxEndOfLine
  <2>3. Ready(term)' /\ term'.x = 0
    BY <1>1, <2>2, NewlineStep
  <2>4. Behind'
    BY <2>2 DEF Behind
  <2>5. Fits
    BY <1>1, <1>2, <2>2 DEF TypeOK, linebuf_tail
  <2> QED BY <1>1, <2>2, <2>3, <2>4, <2>5 DEF TypeOK
<1>4. CASE k = "rub"
  <2>1. RxRub
    BY <1>4 DEF RxCallback
  <2>2. UNCHANGED got_eol
    BY <2>1 DEF RxRub
  <2>3. CASE linebuf_tail > 0
    <3>1. linebuf' = Shorter /\ term' = Rubout(term) /\ plain' = (plain /\ term.x > 0)
      BY <2>1, <2>3 DEF RxRub
    <3>2. Ready(term')
      <4>1. Ready(Putc(term, BS))
        BY <1>1, PutcDraws
      <4>2. Ready(Putc(Putc(term, BS), Space))
        BY <4>1, PutcDraws
      <4> QED BY <3>1, <4>2, PutcDraws DEF Rubout
    <3>3. Ready(term)'
      BY <3>2 DEF Ready, modes
    <3>4. Fits /\ Len(linebuf') = linebuf_tail - 1
      <4>1. Shorter \in Seq(Chars) /\ Len(Shorter) = linebuf_tail - 1
        BY <1>2, <2>3, Shortened DEF Shorter, linebuf_tail
      <4>2. linebuf_tail < LINEBUF_MAX
        BY <1>1 DEF TypeOK
      <4> QED BY <1>2, <3>1, <4>1, <4>2
    <3>5. Behind'
      <4> SUFFICES ASSUME plain, term.x > 0
                   PROVE  /\ Len(linebuf') + 1 < Cols /\ term'.x = Len(linebuf') + 1
                          /\ Shown(term', term'.y, linebuf')
        BY <2>2, <3>1 DEF Behind, linebuf_tail
      <4>1. /\ term.x = Len(linebuf) + 1 /\ term.x < Cols /\ Len(linebuf) > 0
            /\ Shown(term, term.y, linebuf)
        BY <1>1, <1>2, <2>3 DEF Behind, linebuf_tail
      <4>2. /\ Rubout(term).x = Len(linebuf) /\ Rubout(term).y = term.y
            /\ Shown(Rubout(term), term.y, SubSeq(linebuf, 1, Len(linebuf) - 1))
        BY <1>1, <1>2, <4>1, RuboutDraws
      <4> QED BY <1>2, <3>1, <3>4, <4>1, <4>2, Sizes DEF Shorter, linebuf_tail
    <3>6. plain' \in BOOLEAN
      BY <3>1, Zenon
    <3> QED BY <1>1, <2>2, <3>3, <3>4, <3>5, <3>6 DEF TypeOK
  <2>4. CASE ~(linebuf_tail > 0)
    <3>1. UNCHANGED <<linebuf, term, plain>>
      BY <2>1, <2>4 DEF RxRub
    <3>2. Ready(term)' /\ Behind'
      BY <1>1, <2>2, <3>1 DEF Ready, Behind, Shown, Above, Single, At, Bottom, modes, linebuf_tail
    <3> QED BY <1>1, <1>2, <2>2, <3>1, <3>2 DEF TypeOK, linebuf_tail
  <2> QED BY <2>3, <2>4
<1>5. CASE k \in {"letter", "space", "KSPK"}
  <2>1. PICK ch \in Chars : RxChar(ch)
    BY <1>5 DEF RxCallback, Chars
  <2>2. UNCHANGED <<got_eol, plain>>
    BY <2>1 DEF RxChar
  <2>3. CASE linebuf_tail < LINEBUF_MAX - 1
    <3>1. linebuf' = Append(linebuf, ch) /\ term' = Putc(term, ch)
      BY <2>1, <2>3 DEF RxChar
    <3>2. Ready(term)'
      BY <1>1, <3>1, PutcStep
    <3>3. Fits /\ Len(linebuf') = Len(linebuf) + 1 /\ Len(linebuf') + 1 <= Cols
      BY <1>2, <2>3, <3>1, LineAssumption, Sizes DEF linebuf_tail
    <3>4. Behind'
      <4> SUFFICES ASSUME plain
                   PROVE  \/ /\ Len(linebuf') + 1 < Cols /\ term'.x = Len(linebuf') + 1
                             /\ Shown(term', term'.y, linebuf')
                          \/ /\ Len(linebuf') + 1 = Cols /\ term'.x = 0
                             /\ Shown(term', Above(term'), linebuf')
        BY <2>2 DEF Behind, linebuf_tail, Above
      <4>1. /\ term.x = Len(linebuf) + 1 /\ term.x < Cols /\ Shown(term, term.y, linebuf)
        BY <1>1, <1>2, <3>3, Sizes DEF Behind, linebuf_tail
      <4>2. /\ Shown(term', term.y, linebuf')
            /\ IF term.x + 1 < Cols THEN term'.x = term.x + 1 /\ term'.y = term.y
                                    ELSE term'.x = 0 /\ Above(term') = term.y
        BY <1>1, <1>2, <3>1, <4>1, CharDraws
      <4>3. Len(linebuf') = term.x /\ term.x \in Nat
        BY <1>2, <3>3, <4>1 DEF linebuf_tail
      <4> QED BY <3>3, <4>2, <4>3, Sizes
    <3> QED BY <1>1, <2>2, <3>2, <3>3, <3>4 DEF TypeOK
  <2>4. CASE ~(linebuf_tail < LINEBUF_MAX - 1)
    <3>1. UNCHANGED <<linebuf, term>>
      BY <2>1, <2>4 DEF RxChar
    <3>2. Ready(term)' /\ Behind'
      BY <1>1, <2>2, <3>1 DEF Ready, Behind, Shown, Above, Single, At, Bottom, modes, linebuf_tail
    <3> QED BY <1>1, <1>2, <2>2, <3>1, <3>2 DEF TypeOK, linebuf_tail
  <2> QED BY <2>3, <2>4
<1> QED BY <1>3, <1>4, <1>5

LEMMA ModeKeyStep ==
    ASSUME TermInv, pc = "lcdterm_tick", NEW k, active, ModeKey(k),
           pc' = "console_tick", UNCHANGED <<active, printing>>, lastkey' \in Keys
    PROVE  TermInv'
<1>1. TypeOK /\ Ready(term) /\ ~got_eol /\ ~printing /\ Behind
  BY TermInvIs DEF Ended, Margin
<1> DEFINE tile == CursorTile(capslock', alt')
<1>2. /\ capslock' \in BOOLEAN /\ alt' \in BOOLEAN /\ UNCHANGED <<linebuf, got_eol, plain>>
      /\ term' = Plot(term, tile)
  BY <1>1 DEF ModeKey, console, TypeOK
<1>3. tile \in Tiles /\ tile \in CursorTiles
  BY DEF CursorTile, Tiles, CursorTiles
<1> HIDE DEF tile
<1>4. /\ term' \in Terminals /\ term'.x = term.x /\ term'.y = term.y
      /\ term'.atBottom = term.atBottom /\ term'.addr = term.addr
      /\ \A c \in Cells : term'.screen[c] = IF c = At(term) THEN tile ELSE term.screen[c]
  BY <1>1, <1>2, <1>3, PlotDraws DEF Ready
<1>5. TypeOK'
  BY <1>1, <1>2, <1>4 DEF TypeOK, linebuf_tail
<1>6. Ready(term)'
  <2>1. Single(term', tile)
    BY <1>1, <1>4 DEF Ready, Single, At
  <2>2. Bottom(term')
    BY <1>1, <1>4 DEF Ready, Bottom
  <2> QED BY <1>4, <2>1, <2>2 DEF Ready, tile
<1>7. Behind'
  <2>1. term.y \in 0..(Rows - 1) /\ linebuf_tail \in Nat /\ Len(linebuf) = linebuf_tail
    BY <1>1, Lengths DEF Ready, Terminals, linebuf_tail
  <2>2. ASSUME NEW row \in 0..(Rows - 1), Shown(term, row, linebuf), linebuf_tail + 1 <= Cols,
               row = term.y => term.x = linebuf_tail + 1
        PROVE  Shown(term', row, linebuf)
    <3>1. \A i \in 0..linebuf_tail : <<i, row>> \in Cells /\ <<i, row>> # At(term)
      BY <2>1, <2>2, Sizes DEF Cells, At
    <3>2. \A i \in 0..linebuf_tail : term'.screen[<<i, row>>] = term.screen[<<i, row>>]
      BY <1>4, <3>1
    <3>3. 0 \in 0..linebuf_tail /\ \A i \in 1..linebuf_tail : i \in 0..linebuf_tail
      BY <2>1
    <3> QED BY <2>1, <2>2, <3>2, <3>3 DEF Shown
  <2>3. Above(term) \in 0..(Rows - 1) /\ Above(term) # term.y
    BY <2>1, Sizes DEF Above
  <2>4. Above(term') = Above(term)
    BY <1>4 DEF Above
  <2> SUFFICES ASSUME active, plain
               PROVE  \/ /\ linebuf_tail + 1 < Cols /\ term'.x = linebuf_tail + 1
                         /\ Shown(term', term'.y, linebuf)
                      \/ /\ linebuf_tail + 1 = Cols /\ term'.x = 0
                         /\ Shown(term', Above(term'), linebuf)
    BY <1>2 DEF Behind, linebuf_tail, Above
  <2>5. CASE /\ linebuf_tail + 1 < Cols /\ term.x = linebuf_tail + 1
             /\ Shown(term, term.y, linebuf)
    BY <1>4, <2>1, <2>2, <2>5, Sizes
  <2>6. CASE /\ linebuf_tail + 1 = Cols /\ term.x = 0
             /\ Shown(term, Above(term), linebuf)
    BY <1>4, <2>1, <2>2, <2>3, <2>4, <2>6, Sizes
  <2> QED BY <1>1, <2>5, <2>6 DEF Behind
<1>8. Ended' /\ Margin' /\ Stopped'
  BY <1>1, <1>2 DEF Ended, Margin, Stopped
<1> QED BY <1>5, <1>6, <1>7, <1>8 DEF TermInv, Ready

LEMMA LcdtermTickStep == TermInv /\ LcdtermTick => TermInv'
<1> SUFFICES ASSUME TermInv, LcdtermTick PROVE TermInv'
  OBVIOUS
<1>1. pc = "lcdterm_tick" /\ pc' = "console_tick" /\ UNCHANGED <<active, printing>>
  BY DEF LcdtermTick, Goto
<1>2. CASE UNCHANGED <<term, modes, lastkey, console, plain>>
  <2>1. Ready(term) = Ready(term)'
    BY <1>2 DEF Ready, Single, At, Bottom, modes
  <2>2. TypeOK' /\ Ended' /\ Margin' /\ Behind' /\ Stopped'
    BY <1>1, <1>2, TermInvIs DEF modes, console, TypeOK, Ended, Margin, Behind, Shown, Above, linebuf_tail, Stopped
  <2> QED BY <1>1, <2>1, <2>2, TermInvIs DEF TermInv, Ready
<1>3. CASE NewKey
  <2>1. PICK k \in Keys : /\ active /\ lastkey' = k
                          /\ IF k \in {"KCAP", "KALT"} THEN ModeKey(k) ELSE FeedConsole(k)
    BY <1>3 DEF NewKey
  <2>2. CASE k \in {"KCAP", "KALT"}
    BY <1>1, <2>1, <2>2, ModeKeyStep
  <2>3. CASE k \notin {"KCAP", "KALT"} /\ ~(Ignored(k) \/ got_eol)
    <3>1. RxCallback(k) /\ UNCHANGED modes
      BY <2>1, <2>3 DEF FeedConsole
    <3>2. k \in {"cr", "rub", "letter", "space", "KSPK"}
      BY <2>3 DEF Ignored, Keys
    <3> QED BY <1>1, <2>1, <3>1, <3>2, RxStep
  <2>4. CASE k \notin {"KCAP", "KALT"} /\ (Ignored(k) \/ got_eol)
    <3>1. UNCHANGED <<term, modes, console, plain>>
      BY <2>1, <2>4 DEF FeedConsole
    <3>2. Ready(term) = Ready(term)'
      BY <3>1 DEF Ready, Single, At, Bottom, modes
    <3>3. TypeOK' /\ Ended' /\ Margin' /\ Behind' /\ Stopped'
      BY <1>1, <2>1, <3>1, TermInvIs DEF modes, console, TypeOK, Ended, Margin, Behind, Shown, Above, linebuf_tail, Stopped
    <3> QED BY <1>1, <3>2, <3>3, TermInvIs DEF TermInv, Ready
  <2> QED BY <2>2, <2>3, <2>4
<1> QED BY <1>2, <1>3 DEF LcdtermTick

LEMMA ConsoleTickStep == TermInv /\ ConsoleTick => TermInv'
<1> SUFFICES ASSUME TermInv, ConsoleTick PROVE TermInv'
  OBVIOUS
<1>1. /\ pc = "console_tick" /\ pc' = (IF got_eol THEN "shell_exec" ELSE "radio_tick")
      /\ UNCHANGED <<term, active, capslock, alt, lastkey, linebuf, got_eol, printing, plain>>
  BY DEF ConsoleTick, modes, console
<1>2. Ready(term) = Ready(term)'
  BY <1>1 DEF Ready, Single, At, Bottom
<1>3. TypeOK' /\ Behind' /\ Stopped'
  BY <1>1, TermInvIs DEF TypeOK, Behind, Shown, Above, linebuf_tail, Stopped
<1>4. Ended' /\ Margin'
  BY <1>1, TermInvIs DEF TypeOK, Ended, Margin
<1> QED BY <1>1, <1>2, <1>3, <1>4, TermInvIs DEF TermInv, Ready

(* What commands, packets and the banner print. *)
LEMMA PrintStep ==
    ASSUME TermInv, NEW ch, ConsolePutc(ch) \/ ConsoleNewline
    PROVE  TermInv'
<1>1. /\ TypeOK /\ (active => Ready(term)) /\ Ended /\ Margin /\ Behind /\ Stopped
      /\ UNCHANGED <<active, modes, lastkey, linebuf, got_eol, plain>>
  BY TermInvIs DEF ConsolePutc, ConsoleNewline, console
<1>2. CASE ConsolePutc(ch)
  <2>1. MayPrint /\ term' = Putc(term, ch) /\ printing' = TRUE /\ pc' = pc
    BY <1>2 DEF ConsolePutc
  <2>2. term' \in Terminals /\ (active => Ready(term))' /\ (~active => UNCHANGED term)
    BY <1>1, <2>1, PutcStep
  <2>3. Ended' /\ Margin' /\ Behind' /\ Stopped'
    BY <1>1, <2>1, <2>2 DEF MayPrint, Ended, Margin, Behind, Stopped
  <2> QED BY <1>1, <2>1, <2>2, <2>3 DEF TermInv, Ready, TypeOK, modes, linebuf_tail
<1>3. CASE ConsoleNewline
  <2>1. /\ printing /\ term' = Newline(term) /\ printing' = FALSE
        /\ pc' = IF pc = "packet" THEN "lcdterm_tick" ELSE pc
    BY <1>3 DEF ConsoleNewline
  <2>2. /\ term' \in Terminals /\ (active => Ready(term))' /\ (~active => UNCHANGED term)
        /\ active => term'.x = 0
    BY <1>1, <2>1, NewlineStep
  <2>3. Ended' /\ Margin' /\ Behind' /\ Stopped'
    BY <1>1, <2>1, <2>2 DEF Ended, Margin, Behind, Stopped
  <2> QED BY <1>1, <2>1, <2>2, <2>3 DEF TermInv, Ready, TypeOK, modes, linebuf_tail
<1> QED BY <1>2, <1>3

LEMMA PromptStep == TermInv /\ ConsolePrompt => TermInv'
<1> SUFFICES ASSUME TermInv, ConsolePrompt PROVE TermInv'
  OBVIOUS
<1>1. /\ TypeOK /\ (active => Ready(term)) /\ Margin /\ Stopped
      /\ pc \in {"banner", "shell_exec"} /\ ~printing
      /\ term' = Putc(term, Prompt)
      /\ linebuf' = <<>> /\ got_eol' = FALSE /\ plain' = TRUE
      /\ pc' \in {"lcdterm_tick", "radio_tick"}
      /\ UNCHANGED <<active, modes, lastkey, printing>>
  BY TermInvIs DEF ConsolePrompt
<1>2. term' \in Terminals /\ (active => Ready(term))' /\ (~active => UNCHANGED term)
  BY <1>1, PutcStep
<1>3. Behind'
  <2> SUFFICES ASSUME active
               PROVE  \/ 1 < Cols /\ term'.x = 1 /\ Shown(term', term'.y, <<>>)
                      \/ 1 = Cols /\ term'.x = 0 /\ Shown(term', Above(term'), <<>>)
    BY <1>1 DEF Behind, Shown, Above, linebuf_tail
  <2>1. term.x = 0 /\ Ready(term)
    BY <1>1 DEF Margin
  <2>2. /\ term'.screen[<<0, term.y>>] = TileOf(Prompt)
        /\ IF 1 < Cols THEN term'.x = 1 /\ term'.y = term.y
                       ELSE term'.x = 0 /\ Above(term') = term.y
    BY <1>1, <2>1, PutcDraws, Sizes DEF Prompt, Bell, BS, At
  <2> QED BY <2>2, Sizes DEF Shown
<1>4. Ended' /\ Margin' /\ Stopped'
  BY <1>1, <1>2 DEF Ended, Margin, Stopped
<1>5. TypeOK'
  <2>1. <<>> \in Seq(Chars) /\ Len(<<>>) < LINEBUF_MAX
    BY LineAssumption, Sizes
  <2> QED BY <1>1, <1>2, <2>1 DEF TypeOK, modes, Chars, linebuf_tail
<1> QED BY <1>1, <1>2, <1>3, <1>4, <1>5 DEF TermInv, Ready

LEMMA RadioTickStep == TermInv /\ RadioTick => TermInv'
<1> SUFFICES ASSUME TermInv, RadioTick PROVE TermInv'
  OBVIOUS
<1>1. /\ TypeOK /\ (active => Ready(term)) /\ Ended /\ Margin /\ Behind /\ Stopped
      /\ pc = "radio_tick" /\ pc' \in {"lcdterm_tick", "packet"}
      /\ UNCHANGED <<modes, lastkey, linebuf, got_eol, printing>>
  BY TermInvIs DEF RadioTick, console
<1>2. ~got_eol /\ ~printing
  BY <1>1 DEF Ended, Margin
<1>3. CASE UNCHANGED <<term, active>> /\ ((plain' = plain /\ pc' = "lcdterm_tick") \/ plain' = FALSE)
  <2>1. Ready(term) = Ready(term)'
    BY <1>1, <1>3 DEF Ready, Single, At, Bottom, modes
  <2>2. TypeOK'
    BY <1>1, <1>3 DEF modes, TypeOK, linebuf_tail
  <2>3. Ended' /\ Margin' /\ Stopped'
    BY <1>1, <1>2, <1>3 DEF Ended, Margin, Stopped
  <2>4. Behind'
    BY <1>1, <1>2, <1>3 DEF Behind, Shown, Above, linebuf_tail
  <2> QED BY <1>1, <1>3, <2>1, <2>2, <2>3, <2>4 DEF TermInv, Ready
<1>4. CASE LcdtermStop /\ UNCHANGED plain /\ pc' = "lcdterm_tick"
  <2>1. /\ active' = FALSE /\ term' \in Terminals
        /\ term'.screen = [c \in Cells |-> "blank"]
    BY <1>1, <1>4, TilesKnown DEF LcdtermStop, TypeOK, Terminals
  <2>2. TypeOK' /\ Ended' /\ Margin' /\ Behind' /\ Stopped'
    BY <1>1, <1>2, <1>4, <2>1 DEF modes, TypeOK, linebuf_tail, Ended, Margin, Behind,
                                  Stopped
  <2> QED BY <2>1, <2>2 DEF TermInv
<1> QED BY <1>3, <1>4 DEF RadioTick

LEMMA TermInvInit == Init => TermInv
<1> SUFFICES ASSUME Init PROVE TermInv
  OBVIOUS
<1> DEFINE screen == [c \in Cells |-> IF c = <<0, 0>> THEN "_" ELSE "blank"]
<1>1. /\ screen \in [Cells -> Tiles]
      /\ \A c \in Cells : screen[c] \in CursorTiles => c = <<0, 0>> /\ screen[c] = "_"
  BY DEF Tiles, CursorTiles
<1>2. term = [x |-> 0, y |-> 0, atBottom |-> FALSE, addr |-> 0, screen |-> screen]
  BY DEF Init
<1> HIDE DEF screen
<1>3. 0 \in 0..(2 * Cols - 1) /\ 0 \in 0..(Rows - 1) /\ 0 \in 0..(4 * Rows - 1)
  BY Sizes
<1>4. term \in Terminals /\ Bottom(term)
  BY <1>1, <1>2, <1>3 DEF Terminals, Bottom
<1>5. TypeOK
  <2>1. <<>> \in Seq(Chars) /\ Len(<<>>) < LINEBUF_MAX
    BY LineAssumption, Sizes
  <2> QED BY <1>4, <2>1 DEF Init, TypeOK, Keys, Chars, linebuf_tail
<1>6. Single(term, CursorTile(capslock, alt))
  <2>1. CursorTile(capslock, alt) = "_"
    BY DEF Init, CursorTile
  <2>2. At(term) = <<0, 0>> /\ term.screen = screen
    BY <1>2 DEF At
  <2> QED BY <1>1, <2>1, <2>2 DEF Single
<1>7. Ended /\ Margin /\ Behind /\ Stopped
  <2>0. term.x = 0
    BY <1>2
  <2>1. active /\ ~got_eol /\ ~printing /\ ~plain /\ pc = "banner"
    BY DEF Init
  <2>2. Ended /\ Margin
    BY <2>0, <2>1 DEF Ended, Margin
  <2>3. Behind
    BY <2>0, <2>1 DEF Behind
  <2>4. Stopped
    BY <2>0, <2>1 DEF Stopped
  <2> QED BY <2>2, <2>3, <2>4
<1> QED BY <1>4, <1>5, <1>6, <1>7 DEF TermInv

LEMMA TermInvStep == TermInv /\ [Next]_vars => TermInv'
<1> SUFFICES ASSUME TermInv, [Next]_vars PROVE TermInv'
  OBVIOUS
<1>1. CASE UNCHANGED vars
  <2>1. Ready(term) = Ready(term)'
    BY <1>1 DEF vars, modes, Ready, Single, At, Bottom
  <2>2. TypeOK' /\ Ended' /\ Margin' /\ Behind' /\ Stopped'
    BY <1>1, TermInvIs DEF vars, modes, console, TypeOK, Ended, Margin, Behind, Shown, Above, linebuf_tail, Stopped
  <2> QED BY <1>1, <2>1, <2>2, TermInvIs DEF vars, TermInv, Ready
<1>2. ASSUME NEW ch \in Codes, ConsolePutc(ch) PROVE TermInv'
  BY <1>2, PrintStep
<1>3. CASE ConsoleNewline
  BY <1>3, PrintStep
<1> QED BY <1>1, <1>2, <1>3, LcdtermTickStep, ConsoleTickStep, PromptStep, RadioTickStep DEF Next

LEMMA TermAlways == Spec => []TermInv
BY TermInvInit, TermInvStep, PTL DEF Spec

---------------------------------------------------------------------------
(* The theorems. *)

(* The terminal stays on its display and the line in linebuf, on a display *)
(* of any size: whatever lcdterm_putc draws, whatever backspaces commands  *)
(* and packets print, which take cursorx off to the left and around.       *)
THEOREM TermTyped == Spec => []TypeOK
BY TermAlways, PTL DEF TermInv

(* lcdterm_putc, lcdterm_newline and the mode keys leave no cursor behind, *)
(* also where it is off the display, and what shows tells the mode.        *)
THEOREM CursorIsAlone == Spec => []OneCursor
<1>1. TermInv => OneCursor
  <2> SUFFICES ASSUME TermInv, active, NEW c \in Cursors
               PROVE  c = <<term.x, term.y>> /\ term.screen[c] = CursorTile(capslock, alt)
    BY DEF OneCursor
  <2> QED BY DEF TermInv, Single, At, Cursors
<1> QED BY <1>1, TermAlways, PTL

(* cursory and addr go on together, though the one wraps after the rows of *)
(* the display and the other after those of its memory.                    *)
THEOREM RowIsBottom == Spec => []BottomRow
<1>1. TermInv => BottomRow
  BY DEF TermInv, Bottom, BottomRow
<1> QED BY <1>1, TermAlways, PTL

(* Prompt and line stand before the cursor as console.c has them in        *)
(* linebuf, character by character, the last one that fits the row         *)
(* included, until the wrapped cursor is taken back by a backspace.        *)
THEOREM LineIsShown == Spec => []LineShown
<1>1. TermInv => LineShown
  <2> SUFFICES ASSUME TermInv PROVE LineShown
    OBVIOUS
  <2>1. Behind /\ linebuf_tail \in Nat /\ Len(linebuf) = linebuf_tail
    BY Lengths DEF TermInv, linebuf_tail
  <2>2. Above(term) = RowAbove
    BY DEF Above, RowAbove
  <2>3. CASE linebuf_tail + 1 < Cols
    <3>1. active /\ plain /\ ~got_eol
              => term.x = linebuf_tail + 1 /\ Shown(term, term.y, linebuf)
      BY <2>1, <2>3, Sizes DEF Behind
    <3>2. ~(linebuf_tail + 1 = Cols)
      BY <2>1, <2>3, Sizes
    <3> HIDE <2>3
    <3> QED BY <2>1, <3>1, <3>2 DEF LineShown, Shown
  <2>4. CASE linebuf_tail + 1 = Cols
    <3>1. active /\ plain /\ ~got_eol => term.x = 0 /\ Shown(term, RowAbove, linebuf)
      BY <2>1, <2>2, <2>4, Sizes DEF Behind
    <3> QED BY <2>1, <2>4, <3>1, Sizes DEF LineShown, Shown
  <2>5. CASE ~(active /\ plain /\ ~got_eol)
    BY <2>5 DEF LineShown
  <2> QED BY <2>1, <2>3, <2>4, <2>5 DEF Behind
<1> QED BY <1>1, TermAlways, PTL

(* No line is pending when lcdterm_tick polls the keyboard. *)
THEOREM KeysAreTaken == Spec => []EveryKeyTaken
<1>1. TermInv => EveryKeyTaken
  BY DEF TermInv, Ended, EveryKeyTaken
<1> QED BY <1>1, TermAlways, PTL

(* In graphics mode neither keys nor commands nor packets draw; stopping   *)
(* once more clears a display that is clear.                               *)
THEOREM TextStaysSuspended == Spec => TextSuspended
<1>1. TermInv /\ [Next]_vars => [~active => UNCHANGED term]_vars
  <2> SUFFICES ASSUME TermInv, Next, ~active PROVE UNCHANGED term
    OBVIOUS
  <2>1. CASE LcdtermTick
    BY <2>1 DEF LcdtermTick, NewKey
  <2>2. CASE ConsoleTick
    BY <2>2 DEF ConsoleTick
  <2>3. CASE ConsolePrompt \/ ConsoleNewline \/ \E ch \in Codes : ConsolePutc(ch)
    BY <2>3 DEF ConsolePrompt, ConsoleNewline, ConsolePutc, Putc, Newline
  <2>4. CASE RadioTick
    <3>1. term' = [term EXCEPT !.screen = [c \in Cells |-> "blank"]] \/ UNCHANGED term
      BY <2>4 DEF RadioTick, LcdtermStop
    <3>2. term \in Terminals /\ term.screen = [c \in Cells |-> "blank"]
      BY DEF TermInv, TypeOK, Stopped
    <3> QED BY <3>1, <3>2 DEF Terminals
  <2> QED BY <2>1, <2>2, <2>3, <2>4 DEF Next
<1> QED BY <1>1, TermAlways, PTL DEF Spec, TextSuspended
=============================================================================
