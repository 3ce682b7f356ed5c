---------------------------- MODULE ScreenProofs ----------------------------
(***************************************************************************)
(* Proofs about Screen for every size of screen, page and line, every set  *)
(* of terminals and every keyboard.                                        *)
(***************************************************************************)
EXTENDS Screen, TLAPS

Screens == [vid : Pages, x : Nat, y : Nat, screen_x : Nat, screen_y : Nat, fault : BOOLEAN]

\* Where x, y and printf's position are, and whose the characters on the page are.
\* Unless a character was written behind the page, the next one is at most there.
InPlace(s) ==
    /\ s.y <= TERMINAL_HEIGHT /\ (s.y < TERMINAL_HEIGHT => s.x < TERMINAL_WIDTH)
    /\ s.screen_x < TERMINAL_WIDTH

Owns(t, v) == \A i \in Page : v[i] = Blank \/ v[i][1] = t

Good(s) ==
    /\ s \in Screens /\ InPlace(s) /\ Owns(buffer_flag, s.vid)
    /\ s.fault \/ Cell(s.x, s.y) <= PAGE_CELLS

LEMMA Sizes ==
    /\ TERMINAL_WIDTH \in Nat /\ TERMINAL_WIDTH >= 2
    /\ TERMINAL_HEIGHT \in Nat /\ TERMINAL_HEIGHT >= 1
    /\ NUM_ROWS = TERMINAL_HEIGHT + 1 /\ NUM_COLS = TERMINAL_WIDTH
    /\ PAGE_CELLS \in Nat /\ BUFFER_SIZE \in Nat
BY SizeAssumption DEF NUM_ROWS, NUM_COLS

LEMMA Products ==
    ASSUME NEW a \in Nat, NEW w \in Nat
    PROVE  a * w \in Nat /\ (a + 1) * w = a * w + w
OBVIOUS

LEMMA VisibleCells ==
    /\ TERMINAL_HEIGHT * TERMINAL_WIDTH \in Nat
    /\ Visible = TERMINAL_HEIGHT * TERMINAL_WIDTH + TERMINAL_WIDTH
    /\ Visible < PAGE_CELLS
BY Sizes, SizeAssumption, Products DEF Visible, NUM_ROWS, NUM_COLS

LEMMA CellNat == ASSUME NEW px \in Nat, NEW py \in Nat PROVE Cell(px, py) \in Nat
<1>1. py * TERMINAL_WIDTH \in Nat
  BY Sizes, Products
<1> QED BY <1>1 DEF Cell

\* Cells follow each other along a row and from the end of a row to the next one.
LEMMA CellSteps ==
    ASSUME NEW px \in Nat, NEW py \in Nat
    PROVE  /\ Cell(px + 1, py) = Cell(px, py) + 1
           /\ Cell(0, py + 1) = Cell(TERMINAL_WIDTH - 1, py) + 1
<1>1. py * TERMINAL_WIDTH \in Nat /\ (py + 1) * TERMINAL_WIDTH = py * TERMINAL_WIDTH + TERMINAL_WIDTH
  BY Sizes, Products
<1> QED BY <1>1, Sizes DEF Cell

LEMMA RowStarts == ASSUME NEW py \in Nat, py <= TERMINAL_HEIGHT PROVE Cell(0, py) <= PAGE_CELLS
<1>1. \A a, b, w \in Nat : a <= b => a * w <= b * w
  OBVIOUS
<1>2. py * TERMINAL_WIDTH <= TERMINAL_HEIGHT * TERMINAL_WIDTH
  BY <1>1, Sizes
<1> QED BY <1>2, CellNat, Sizes, VisibleCells DEF Cell

\* Page positions keep their cells but one.
LEMMA PutCellGood ==
    ASSUME NEW s \in Screens, Owns(buffer_flag, s.vid),
           NEW c \in Cells, c = Blank \/ c[1] = buffer_flag, NEW where
    PROVE  /\ PutCell(s, c, where) \in Screens
           /\ PutCell(s, c, where).x = s.x /\ PutCell(s, c, where).y = s.y
           /\ PutCell(s, c, where).screen_x = s.screen_x
           /\ PutCell(s, c, where).screen_y = s.screen_y
           /\ Owns(buffer_flag, PutCell(s, c, where).vid)
           /\ PutCell(s, c, where).vid = [i \in Page |-> IF i = where THEN c ELSE s.vid[i]]
           /\ PutCell(s, c, where).fault <=> s.fault \/ where >= PAGE_CELLS
<1>1. PICK v \in Pages : v = [i \in Page |-> IF i = where THEN c ELSE s.vid[i]]
  BY DEF Screens, Pages
<1>2. PICK f \in BOOLEAN : f = (s.fault \/ where >= PAGE_CELLS)
  BY Zenon
<1>3. PutCell(s, c, where) = [s EXCEPT !.vid = v, !.fault = f]
  BY <1>1, <1>2, Zenon DEF PutCell
<1>4. Owns(buffer_flag, v)
  BY <1>1 DEF Owns
<1>5. [s EXCEPT !.vid = v, !.fault = f] \in Screens
  BY DEF Screens
<1>6. /\ [s EXCEPT !.vid = v, !.fault = f].x = s.x /\ [s EXCEPT !.vid = v, !.fault = f].y = s.y
      /\ [s EXCEPT !.vid = v, !.fault = f].screen_x = s.screen_x
      /\ [s EXCEPT !.vid = v, !.fault = f].screen_y = s.screen_y
      /\ [s EXCEPT !.vid = v, !.fault = f].vid = v
      /\ [s EXCEPT !.vid = v, !.fault = f].fault = f
  BY DEF Screens
<1>7. PutCell(s, c, where).fault <=> s.fault \/ where >= PAGE_CELLS
  BY <1>2, <1>3, <1>6, Zenon
<1> QED BY <1>1, <1>3, <1>4, <1>5, <1>6, <1>7

\* The position alone changes.
MoveTo(s, px, py) == [s EXCEPT !.x = px, !.y = py]
MoveInRow(s, px) == [s EXCEPT !.x = px]

LEMMA Moved ==
    ASSUME NEW s \in Screens, NEW px \in Nat, NEW py \in Nat
    PROVE  /\ MoveTo(s, px, py) \in Screens
           /\ MoveTo(s, px, py).x = px /\ MoveTo(s, px, py).y = py
           /\ MoveTo(s, px, py).vid = s.vid /\ MoveTo(s, px, py).fault = s.fault
           /\ MoveTo(s, px, py).screen_x = s.screen_x /\ MoveTo(s, px, py).screen_y = s.screen_y
BY DEF Screens, MoveTo

LEMMA MovedInRow ==
    ASSUME NEW s \in Screens, NEW px \in Nat
    PROVE  /\ MoveInRow(s, px) \in Screens
           /\ MoveInRow(s, px).x = px /\ MoveInRow(s, px).y = s.y
           /\ MoveInRow(s, px).vid = s.vid /\ MoveInRow(s, px).fault = s.fault
           /\ MoveInRow(s, px).screen_x = s.screen_x /\ MoveInRow(s, px).screen_y = s.screen_y
BY DEF Screens, MoveInRow

LEMMA ScrollGood ==
    ASSUME NEW s \in Screens, s.y = TERMINAL_HEIGHT + 1, Owns(buffer_flag, s.vid)
    PROVE  /\ scroll(s) \in Screens
           /\ scroll(s).x = s.x /\ scroll(s).y = TERMINAL_HEIGHT
           /\ scroll(s).screen_x = s.screen_x /\ scroll(s).screen_y = s.screen_y
           /\ Owns(buffer_flag, scroll(s).vid)
<1> DEFINE v == [i \in Page |->
                    IF i < TERMINAL_HEIGHT * TERMINAL_WIDTH THEN s.vid[i + TERMINAL_WIDTH]
                    ELSE IF i < Visible THEN Blank ELSE s.vid[i]]
<1>0. s.vid \in Pages
  BY DEF Screens
<1>1. \A i \in Page : i < TERMINAL_HEIGHT * TERMINAL_WIDTH => i + TERMINAL_WIDTH \in Page
  BY Sizes, VisibleCells DEF Page
<1>2. \A i \in Page : v[i] = Blank \/ \E j \in Page : v[i] = s.vid[j]
  BY <1>1
<1>3. v \in [Page -> Cells]
  BY <1>0, <1>2 DEF Pages, Cells
<1>4. Owns(buffer_flag, v)
  BY <1>2 DEF Owns
<1>5. scroll(s) = [s EXCEPT !.vid = v, !.y = s.y - 1]
  BY DEF scroll
<1> HIDE DEF v
<1>6. s.y - 1 = TERMINAL_HEIGHT /\ TERMINAL_HEIGHT \in Nat
  BY Sizes
<1>7. PICK u \in Pages : u = v
  BY <1>3 DEF Pages
<1>8. scroll(s) = [s EXCEPT !.vid = u, !.y = TERMINAL_HEIGHT]
  BY <1>5, <1>6, <1>7, Zenon
<1>9. LET n == [s EXCEPT !.vid = u, !.y = TERMINAL_HEIGHT]
      IN  /\ n \in Screens /\ n.vid = u /\ n.x = s.x /\ n.y = TERMINAL_HEIGHT
          /\ n.screen_x = s.screen_x /\ n.screen_y = s.screen_y
  BY <1>6 DEF Screens
<1> QED BY <1>4, <1>7, <1>8, <1>9

\* A new line, with or without scrolling.
LEMMA NewLineGood == ASSUME NEW s \in Screens, Good(s) PROVE Good(NewLine(s))
<1>1. s.y \in Nat /\ 0 \in Nat /\ s.y + 1 \in Nat
  BY DEF Screens
<1>2. PICK m \in Screens : /\ m = MoveTo(s, 0, s.y + 1)
                           /\ m.x = 0 /\ m.y = s.y + 1 /\ m.vid = s.vid
                           /\ m.screen_x = s.screen_x /\ m.screen_y = s.screen_y
  <2>1. /\ MoveTo(s, 0, s.y + 1) \in Screens
        /\ MoveTo(s, 0, s.y + 1).x = 0 /\ MoveTo(s, 0, s.y + 1).y = s.y + 1
        /\ MoveTo(s, 0, s.y + 1).vid = s.vid /\ MoveTo(s, 0, s.y + 1).fault = s.fault
        /\ MoveTo(s, 0, s.y + 1).screen_x = s.screen_x /\ MoveTo(s, 0, s.y + 1).screen_y = s.screen_y
    BY <1>1, Moved, Zenon
  <2> QED BY <2>1, Zenon
<1>3. NewLine(s) = IF m.y = TERMINAL_HEIGHT + 1 THEN scroll(m) ELSE m
  BY <1>2, Zenon DEF NewLine, ScrollPastEnd, MoveTo
<1>4. CASE m.y = TERMINAL_HEIGHT + 1
  <2>1. Owns(buffer_flag, m.vid)
    BY <1>2 DEF Good
  <2>2. /\ scroll(m) \in Screens
        /\ scroll(m).x = 0 /\ scroll(m).y = TERMINAL_HEIGHT
        /\ scroll(m).screen_x = s.screen_x /\ scroll(m).screen_y = s.screen_y
        /\ Owns(buffer_flag, scroll(m).vid)
    BY <1>2, <1>4, <2>1, ScrollGood
  <2>3. Cell(scroll(m).x, scroll(m).y) <= PAGE_CELLS
    BY <2>2, RowStarts, Sizes
  <2>4. InPlace(scroll(m))
    BY <2>2, Sizes DEF Good, InPlace
  <2> QED BY <1>3, <1>4, <2>2, <2>3, <2>4 DEF Good
<1>5. CASE m.y # TERMINAL_HEIGHT + 1
  <2>1. m.y <= TERMINAL_HEIGHT
    BY <1>1, <1>2, <1>5, Sizes DEF Good, InPlace
  <2>2. InPlace(m)
    BY <1>2, <2>1, Sizes DEF Good, InPlace
  <2>3. Cell(m.x, m.y) <= PAGE_CELLS
    BY <1>1, <1>2, <2>1, RowStarts
  <2> QED BY <1>2, <1>3, <1>5, <2>2, <2>3 DEF Good
<1> QED BY <1>4, <1>5

LEMMA TextCell ==
    ASSUME NEW c \in Chars, buffer_flag \in Terminals
    PROVE  Text(c) \in Cells /\ Text(c)[1] = buffer_flag
BY DEF Text, Cells

\* A typed character takes the next cell, at the end of a row too.
LEMMA EchoGood ==
    ASSUME NEW s \in Screens, Good(s), NEW c \in Chars, buffer_flag \in Terminals
    PROVE  /\ Good(Echo(s, c))
           /\ Echo(s, c).vid = [i \in Page |-> IF i = Cell(s.x, s.y) THEN Text(c) ELSE s.vid[i]]
           /\ Cell(Echo(s, c).x, Echo(s, c).y) = Cell(s.x, s.y) + 1
           /\ Echo(s, c).fault <=> s.fault \/ Cell(s.x, s.y) >= PAGE_CELLS
<1>1. s.x \in Nat /\ s.y \in Nat /\ Cell(s.x, s.y) \in Nat /\ Owns(buffer_flag, s.vid) /\ InPlace(s)
  BY CellNat DEF Screens, Good
<1>2. PICK w \in Screens :
         /\ w = WriteCharacter(s, Text(c), s.x, s.y)
         /\ w.x = s.x /\ w.y = s.y /\ w.screen_x = s.screen_x /\ w.screen_y = s.screen_y
         /\ Owns(buffer_flag, w.vid)
         /\ w.vid = [i \in Page |-> IF i = Cell(s.x, s.y) THEN Text(c) ELSE s.vid[i]]
         /\ w.fault <=> s.fault \/ Cell(s.x, s.y) >= PAGE_CELLS
  BY <1>1, PutCellGood, TextCell DEF WriteCharacter
<1>3. PICK px \in Nat, py \in Nat :
         /\ Echo(s, c) = MoveTo(w, px, py) \/ (Echo(s, c) = MoveInRow(w, px) /\ py = s.y)
         /\ py <= TERMINAL_HEIGHT /\ (py < TERMINAL_HEIGHT => px < TERMINAL_WIDTH)
         /\ Cell(px, py) = Cell(s.x, s.y) + 1
  <2>1. CASE s.x + 1 = TERMINAL_WIDTH /\ s.y < TERMINAL_HEIGHT
    <3>1. Echo(s, c) = MoveTo(w, 0, s.y + 1)
      BY <1>2, <2>1 DEF Echo, MoveTo
    <3>2. Cell(0, s.y + 1) = Cell(s.x, s.y) + 1
      <4>1. s.x = TERMINAL_WIDTH - 1
        BY <1>1, <2>1, Sizes
      <4> QED BY <1>1, <4>1, CellSteps
    <3>3. 0 \in Nat /\ s.y + 1 \in Nat /\ s.y + 1 <= TERMINAL_HEIGHT /\ 0 < TERMINAL_WIDTH
      BY <1>1, <2>1, Sizes
    <3> QED BY <3>1, <3>2, <3>3
  <2>2. CASE ~(s.x + 1 = TERMINAL_WIDTH /\ s.y < TERMINAL_HEIGHT)
    <3>1. Echo(s, c) = MoveInRow(w, s.x + 1)
      BY <1>2, <2>2 DEF Echo, MoveInRow
    <3>2. Cell(s.x + 1, s.y) = Cell(s.x, s.y) + 1
      BY <1>1, CellSteps
    <3>3. /\ s.x + 1 \in Nat /\ s.y <= TERMINAL_HEIGHT
          /\ s.y < TERMINAL_HEIGHT => s.x + 1 < TERMINAL_WIDTH
      BY <1>1, <2>2, Sizes DEF InPlace
    <3> QED BY <1>1, <3>1, <3>2, <3>3
  <2> QED BY <2>1, <2>2
<1>4. PICK n \in Screens :
         /\ n = Echo(s, c)
         /\ n.x = px /\ n.y = py /\ n.vid = w.vid
         /\ n.screen_x = s.screen_x /\ n.screen_y = s.screen_y
         /\ n.fault = w.fault
  <2>1. /\ MoveTo(w, px, py) \in Screens
        /\ MoveTo(w, px, py).x = px /\ MoveTo(w, px, py).y = py
        /\ MoveTo(w, px, py).vid = w.vid /\ MoveTo(w, px, py).fault = w.fault
        /\ MoveTo(w, px, py).screen_x = w.screen_x /\ MoveTo(w, px, py).screen_y = w.screen_y
    BY Moved, Zenon
  <2>2. /\ MoveInRow(w, px) \in Screens
        /\ MoveInRow(w, px).x = px /\ MoveInRow(w, px).y = w.y
        /\ MoveInRow(w, px).vid = w.vid /\ MoveInRow(w, px).fault = w.fault
        /\ MoveInRow(w, px).screen_x = w.screen_x /\ MoveInRow(w, px).screen_y = w.screen_y
    BY MovedInRow, Zenon
  <2>3. w.y = s.y /\ w.screen_x = s.screen_x /\ w.screen_y = s.screen_y
    BY <1>2, Zenon
  <2>4. CASE Echo(s, c) = MoveTo(w, px, py)
    BY <2>1, <2>3, <2>4, Zenon
  <2>5. CASE Echo(s, c) = MoveInRow(w, px) /\ py = s.y
    BY <2>2, <2>3, <2>5, Zenon
  <2> QED BY <1>3, <2>4, <2>5, Zenon
<1>5. InPlace(n)
  BY <1>1, <1>3, <1>4 DEF InPlace
<1>6. n.fault \/ Cell(n.x, n.y) <= PAGE_CELLS
  BY <1>1, <1>2, <1>3, <1>4, Sizes
<1>7. Good(n)
  BY <1>2, <1>4, <1>5, <1>6 DEF Good
<1> QED BY <1>2, <1>3, <1>4, <1>7

\* A position in place needs no scrolling before a write.
LEMMA OnScreenSame == ASSUME NEW s \in Screens, Good(s) PROVE OnScreen(s) = s
<1>1. s.y \in Nat /\ s.y <= TERMINAL_HEIGHT
  BY DEF Good, InPlace, Screens
<1>2. s.y # TERMINAL_HEIGHT + 1 /\ s.y # TERMINAL_HEIGHT + 2
  BY <1>1, Sizes
<1> QED BY <1>2, Zenon DEF OnScreen, ScrollPastEnd

LEMMA WriteNewLineGood == ASSUME NEW s \in Screens, Good(s) PROVE Good(WriteNewLine(s))
BY OnScreenSame, NewLineGood DEF WriteNewLine

LEMMA WriteByteGood ==
    ASSUME NEW s \in Screens, Good(s), NEW c \in Chars, buffer_flag \in Terminals
    PROVE  Good(WriteByte(s, c))
<1>1. s.x \in Nat /\ s.y \in Nat /\ Cell(s.x, s.y) \in Nat /\ Owns(buffer_flag, s.vid) /\ InPlace(s)
  BY CellNat DEF Screens, Good
<1>2. PICK w \in Screens :
         /\ w = WriteCharacter(s, Text(c), s.x, s.y)
         /\ w.x = s.x /\ w.y = s.y /\ w.screen_x = s.screen_x /\ w.screen_y = s.screen_y
         /\ Owns(buffer_flag, w.vid)
         /\ w.fault <=> s.fault \/ Cell(s.x, s.y) >= PAGE_CELLS
  BY <1>1, PutCellGood, TextCell DEF WriteCharacter
<1>3. WriteByte(s, c) = IF s.x + 1 = TERMINAL_WIDTH /\ s.y < TERMINAL_HEIGHT + 1
                        THEN ScrollPastEnd(MoveTo(w, 0, s.y + 1))
                        ELSE MoveInRow(w, s.x + 1)
  BY <1>2, OnScreenSame DEF WriteByte, MoveTo, MoveInRow
<1>4. CASE s.x + 1 = TERMINAL_WIDTH
  <2>1. WriteByte(s, c) = ScrollPastEnd(MoveTo(w, 0, s.y + 1))
    BY <1>1, <1>3, <1>4, Sizes DEF InPlace
  <2>2. PICK m \in Screens : /\ m = MoveTo(w, 0, s.y + 1)
                             /\ m.x = 0 /\ m.y = s.y + 1 /\ m.vid = w.vid
                             /\ m.screen_x = s.screen_x /\ m.screen_y = s.screen_y
    <3>1. 0 \in Nat /\ s.y + 1 \in Nat
      BY <1>1
    <3>2. /\ MoveTo(w, 0, s.y + 1) \in Screens
          /\ MoveTo(w, 0, s.y + 1).x = 0 /\ MoveTo(w, 0, s.y + 1).y = s.y + 1
          /\ MoveTo(w, 0, s.y + 1).vid = w.vid /\ MoveTo(w, 0, s.y + 1).fault = w.fault
          /\ MoveTo(w, 0, s.y + 1).screen_x = w.screen_x /\ MoveTo(w, 0, s.y + 1).screen_y = w.screen_y
      BY <3>1, Moved, Zenon
    <3> QED BY <1>2, <3>2, Zenon
  <2>3. CASE m.y = TERMINAL_HEIGHT + 1
    <3>1. /\ scroll(m) \in Screens
          /\ scroll(m).x = 0 /\ scroll(m).y = TERMINAL_HEIGHT
          /\ scroll(m).screen_x = s.screen_x /\ scroll(m).screen_y = s.screen_y
          /\ Owns(buffer_flag, scroll(m).vid)
      BY <1>2, <2>2, <2>3, ScrollGood
    <3>2. Cell(scroll(m).x, scroll(m).y) <= PAGE_CELLS
      BY <3>1, RowStarts, Sizes
    <3>3. InPlace(scroll(m))
      BY <1>1, <3>1, Sizes DEF InPlace
    <3> QED BY <2>1, <2>2, <2>3, <3>1, <3>2, <3>3 DEF Good, ScrollPastEnd
  <2>4. CASE m.y # TERMINAL_HEIGHT + 1
    <3>1. m.y <= TERMINAL_HEIGHT
      BY <1>1, <2>2, <2>4, Sizes DEF InPlace
    <3>2. InPlace(m)
      BY <1>1, <2>2, <3>1, Sizes DEF InPlace
    <3>3. Cell(m.x, m.y) <= PAGE_CELLS
      BY <1>1, <2>2, <3>1, RowStarts
    <3> QED BY <1>2, <2>1, <2>2, <2>4, <3>2, <3>3 DEF Good, ScrollPastEnd
  <2> QED BY <2>3, <2>4
<1>5. CASE s.x + 1 # TERMINAL_WIDTH
  <2>1. PICK n \in Screens : /\ n = WriteByte(s, c)
                             /\ n.x = s.x + 1 /\ n.y = s.y /\ n.vid = w.vid /\ n.fault = w.fault
                             /\ n.screen_x = s.screen_x /\ n.screen_y = s.screen_y
    <3>1. s.x + 1 \in Nat /\ WriteByte(s, c) = MoveInRow(w, s.x + 1)
      BY <1>1, <1>3, <1>5
    <3>2. /\ MoveInRow(w, s.x + 1) \in Screens
          /\ MoveInRow(w, s.x + 1).x = s.x + 1 /\ MoveInRow(w, s.x + 1).y = w.y
          /\ MoveInRow(w, s.x + 1).vid = w.vid /\ MoveInRow(w, s.x + 1).fault = w.fault
          /\ MoveInRow(w, s.x + 1).screen_x = w.screen_x /\ MoveInRow(w, s.x + 1).screen_y = w.screen_y
      BY <3>1, MovedInRow, Zenon
    <3> QED BY <1>2, <3>1, <3>2, Zenon
  <2>2. InPlace(n)
    BY <1>1, <1>5, <2>1, Sizes DEF InPlace
  <2>3. n.fault \/ Cell(n.x, n.y) <= PAGE_CELLS
    BY <1>1, <1>2, <2>1, CellSteps, Sizes
  <2> QED BY <1>2, <2>1, <2>2, <2>3 DEF Good
<1> QED BY <1>4, <1>5

\* Backspace goes back one cell, at the beginning of a row too.
LEMMA RuboutGood ==
    ASSUME NEW s \in Screens, Good(s), ~s.fault, ~(s.x = 0 /\ s.y = 0)
    PROVE  /\ Good(Rubout(s))
           /\ Cell(s.x, s.y) >= 1
           /\ Rubout(s).vid = [i \in Page |-> IF i = Cell(s.x, s.y) - 1 THEN Blank ELSE s.vid[i]]
           /\ Cell(Rubout(s).x, Rubout(s).y) = Cell(s.x, s.y) - 1
<1>1. s.x \in Nat /\ s.y \in Nat /\ Cell(s.x, s.y) \in Nat /\ Owns(buffer_flag, s.vid) /\ InPlace(s)
  BY CellNat DEF Screens, Good
<1>2. PICK px \in Nat, py \in Nat :
         /\ py <= TERMINAL_HEIGHT /\ (py < TERMINAL_HEIGHT => px < TERMINAL_WIDTH)
         /\ Cell(s.x, s.y) = Cell(px, py) + 1
         /\ \/ Rubout(s) = MoveTo(WriteCharacter(s, Blank, px, py), px, py)
            \/ Rubout(s) = MoveInRow(WriteCharacter(s, Blank, px, py), px) /\ py = s.y
  <2>1. CASE s.x > 0
    <3>1. PICK px \in Nat : px = s.x - 1
      BY <1>1, <2>1
    <3>2. Cell(px + 1, s.y) = Cell(px, s.y) + 1 /\ px + 1 = s.x
      BY <1>1, <3>1, CellSteps
    <3>3. Rubout(s) = MoveInRow(WriteCharacter(s, Blank, px, s.y), px)
      BY <2>1, <3>1 DEF Rubout, MoveInRow
    <3>4. s.y <= TERMINAL_HEIGHT /\ (s.y < TERMINAL_HEIGHT => px < TERMINAL_WIDTH)
      BY <1>1, <3>1, Sizes DEF InPlace
    <3> QED BY <1>1, <3>2, <3>3, <3>4
  <2>2. CASE ~(s.x > 0)
    <3>1. PICK px \in Nat, py \in Nat : px = TERMINAL_WIDTH - 1 /\ py = s.y - 1
      <4>1. s.x = 0
        BY <1>1, <2>2
      <4>2. s.y # 0
        BY <4>1
      <4>3. TERMINAL_WIDTH - 1 \in Nat /\ s.y - 1 \in Nat
        BY <1>1, <4>2, Sizes
      <4> QED BY <4>3, Zenon
    <3>2. Cell(0, py + 1) = Cell(TERMINAL_WIDTH - 1, py) + 1
      BY CellSteps
    <3>3. Cell(0, py + 1) = Cell(px, py) + 1 /\ py + 1 = s.y /\ s.x = 0
      BY <1>1, <2>2, <3>1, <3>2
    <3>4. Rubout(s) = MoveTo(WriteCharacter(s, Blank, px, py), px, py)
      BY <2>2, <3>1 DEF Rubout, MoveTo
    <3>5. py <= TERMINAL_HEIGHT /\ px < TERMINAL_WIDTH
      BY <1>1, <3>1, Sizes DEF InPlace
    <3> QED BY <3>3, <3>4, <3>5
  <2> QED BY <2>1, <2>2
<1>3. Cell(px, py) \in Nat /\ Cell(px, py) = Cell(s.x, s.y) - 1 /\ Cell(px, py) < PAGE_CELLS
  <2>1. Cell(px, py) \in Nat
    BY CellNat
  <2>2. Cell(s.x, s.y) <= PAGE_CELLS
    BY DEF Good
  <2> QED BY <1>1, <1>2, <2>1, <2>2, Sizes
<1>4. PICK w \in Screens :
         /\ w = WriteCharacter(s, Blank, px, py)
         /\ w.x = s.x /\ w.y = s.y /\ w.screen_x = s.screen_x /\ w.screen_y = s.screen_y
         /\ Owns(buffer_flag, w.vid)
         /\ w.vid = [i \in Page |-> IF i = Cell(px, py) THEN Blank ELSE s.vid[i]]
  <2>1. Blank \in Cells
    BY DEF Cells
  <2> QED BY <1>1, <2>1, PutCellGood DEF WriteCharacter
<1>5. PICK n \in Screens :
         /\ n = Rubout(s)
         /\ n.x = px /\ n.y = py /\ n.vid = w.vid
         /\ n.screen_x = s.screen_x /\ n.screen_y = s.screen_y
  <2>1. /\ MoveTo(w, px, py) \in Screens
        /\ MoveTo(w, px, py).x = px /\ MoveTo(w, px, py).y = py
        /\ MoveTo(w, px, py).vid = w.vid
        /\ MoveTo(w, px, py).screen_x = w.screen_x /\ MoveTo(w, px, py).screen_y = w.screen_y
    BY Moved, Zenon
  <2>2. /\ MoveInRow(w, px) \in Screens
        /\ MoveInRow(w, px).x = px /\ MoveInRow(w, px).y = w.y
        /\ MoveInRow(w, px).vid = w.vid
        /\ MoveInRow(w, px).screen_x = w.screen_x /\ MoveInRow(w, px).screen_y = w.screen_y
    BY MovedInRow, Zenon
  <2>3. /\ w = WriteCharacter(s, Blank, px, py)
        /\ w.y = s.y /\ w.screen_x = s.screen_x /\ w.screen_y = s.screen_y
    BY <1>4, Zenon
  <2>4. CASE Rubout(s) = MoveTo(WriteCharacter(s, Blank, px, py), px, py)
    BY <2>1, <2>3, <2>4, Zenon
  <2>5. CASE Rubout(s) = MoveInRow(WriteCharacter(s, Blank, px, py), px) /\ py = s.y
    BY <2>2, <2>3, <2>5, Zenon
  <2> QED BY <1>2, <2>4, <2>5, Zenon
<1>6. InPlace(n)
  BY <1>1, <1>2, <1>5 DEF InPlace
<1>7. Cell(n.x, n.y) <= PAGE_CELLS
  BY <1>3, <1>5, Sizes
<1>8. Good(n)
  BY <1>4, <1>5, <1>6, <1>7 DEF Good
<1>9. Cell(s.x, s.y) >= 1
  BY <1>1, <1>3
<1>10. n.vid = [i \in Page |-> IF i = Cell(s.x, s.y) - 1 THEN Blank ELSE s.vid[i]]
  BY <1>3, <1>4, <1>5
<1> QED BY <1>3, <1>5, <1>8, <1>9, <1>10

\* printf keeps its own position; a character brings it back on the screen.
LEMMA PutcGood ==
    ASSUME NEW s \in Screens, Good(s), NEW c \in Chars, buffer_flag \in Terminals
    PROVE  /\ Good(putc(s, c))
           /\ putc(s, c).x = s.x /\ putc(s, c).y = s.y
<1>1. Owns(buffer_flag, s.vid) /\ InPlace(s) /\ s.screen_x \in Nat /\ s.screen_y \in Nat
  BY DEF Screens, Good
<1>2. PICK w \in Screens :
         /\ w = PutCell(s, Text(c), NUM_COLS * s.screen_y + s.screen_x)
         /\ w.x = s.x /\ w.y = s.y /\ Owns(buffer_flag, w.vid)
         /\ w.fault <=> s.fault \/ NUM_COLS * s.screen_y + s.screen_x >= PAGE_CELLS
  BY <1>1, PutCellGood, TextCell
<1>3. PICK sx \in Nat, sy \in Nat :
         /\ sx = (s.screen_x + 1) % NUM_COLS /\ sy = s.screen_y % NUM_ROWS
         /\ sx < TERMINAL_WIDTH /\ sy <= TERMINAL_HEIGHT
  <2>1. \A a \in Nat, b \in Nat \ {0} : a % b \in Nat /\ a % b < b
    OBVIOUS
  <2>2. NUM_COLS \in Nat \ {0} /\ NUM_ROWS \in Nat \ {0} /\ s.screen_x + 1 \in Nat
    BY <1>1, Sizes
  <2>3. /\ (s.screen_x + 1) % NUM_COLS \in Nat /\ (s.screen_x + 1) % NUM_COLS < NUM_COLS
        /\ s.screen_y % NUM_ROWS \in Nat /\ s.screen_y % NUM_ROWS < NUM_ROWS
    BY <1>1, <2>1, <2>2
  <2> QED BY <2>3, Sizes
<1>4. putc(s, c) = [w EXCEPT !.screen_x = sx, !.screen_y = sy]
  BY <1>2, <1>3, Zenon DEF putc
<1>5. LET n == [w EXCEPT !.screen_x = sx, !.screen_y = sy]
      IN  /\ n \in Screens /\ n.vid = w.vid /\ n.x = w.x /\ n.y = w.y
          /\ n.screen_x = sx /\ n.screen_y = sy /\ n.fault = w.fault
  BY DEF Screens
<1>6. PICK n \in Screens :
         /\ n = putc(s, c) /\ n.vid = w.vid /\ n.x = s.x /\ n.y = s.y
         /\ n.screen_x = sx /\ n.screen_y = sy /\ n.fault = w.fault
  BY <1>2, <1>4, <1>5
<1>7. InPlace(n)
  BY <1>1, <1>3, <1>6, Sizes DEF InPlace
<1>8. n.fault \/ Cell(n.x, n.y) <= PAGE_CELLS
  BY <1>2, <1>6, Zenon DEF Good
<1> QED BY <1>2, <1>3, <1>6, <1>7, <1>8 DEF Good

LEMMA PutcNewlineGood ==
    ASSUME NEW s \in Screens, Good(s)
    PROVE  /\ Good(putc_newline(s)) /\ putc_newline(s).vid = s.vid
           /\ putc_newline(s).x = s.x /\ putc_newline(s).y = s.y
           /\ putc_newline(s).fault = s.fault
<1>1. PICK sy \in Nat : sy = s.screen_y + 1
  BY Sizes DEF Screens
<1>2. putc_newline(s) = [s EXCEPT !.screen_x = 0, !.screen_y = sy]
  BY <1>1, Zenon DEF putc_newline
<1>3. LET n == [s EXCEPT !.screen_x = 0, !.screen_y = sy]
      IN  /\ n \in Screens /\ n.vid = s.vid /\ n.x = s.x /\ n.y = s.y
          /\ n.screen_x = 0 /\ n.screen_y = sy /\ n.fault = s.fault
  BY DEF Screens
<1>4. PICK n \in Screens :
         /\ n = putc_newline(s) /\ n.vid = s.vid /\ n.x = s.x /\ n.y = s.y
         /\ n.screen_x = 0 /\ n.screen_y = sy /\ n.fault = s.fault
  BY <1>2, <1>3
<1>5. InPlace(n)
  BY <1>1, <1>4, Sizes DEF Good, InPlace
<1>6. n.fault \/ Cell(n.x, n.y) <= PAGE_CELLS
  BY <1>4, Zenon DEF Good
<1> QED BY <1>4, <1>5, <1>6 DEF Good

Home(s) == [s EXCEPT !.vid = clear(s.vid), !.x = 0, !.y = 0]

LEMMA HomeGood == ASSUME NEW s \in Screens, Good(s) PROVE Good(Home(s))
<1>1. PICK v \in Pages : v = clear(s.vid)
  BY DEF clear, Pages, Cells, Screens
<1>2. Owns(buffer_flag, v)
  BY <1>1 DEF clear, Owns, Good
<1>3. LET n == [s EXCEPT !.vid = v, !.x = 0, !.y = 0]
      IN  /\ n \in Screens /\ n.vid = v /\ n.x = 0 /\ n.y = 0
          /\ n.screen_x = s.screen_x /\ n.screen_y = s.screen_y
  BY DEF Screens
<1>4. PICK n \in Screens :
         /\ n = Home(s) /\ n.vid = v /\ n.x = 0 /\ n.y = 0
         /\ n.screen_x = s.screen_x /\ n.screen_y = s.screen_y
  BY <1>1, <1>3 DEF Home
<1>5. InPlace(n)
  BY <1>4, Sizes DEF Good, InPlace
<1>6. Cell(n.x, n.y) <= PAGE_CELLS
  BY <1>4, RowStarts, Sizes
<1> QED BY <1>2, <1>4, <1>5, <1>6 DEF Good

-----------------------------------------------------------------------------
(***************************************************************************)
(* The echo of a line: the last n characters of ln, those behind the c     *)
(* cleared bytes, are in the n cells before pos, written on terminal t;    *)
(* unless (e) the buffer was emptied behind them.                          *)
(***************************************************************************)
Ends(t, n, c, ln, v, pos) ==
    /\ n <= Len(ln) /\ n <= pos
    /\ \A j \in 0 .. n - 1 : Len(ln) - j > c => v[pos - 1 - j] = <<t, ln[Len(ln) - j]>>

Matches(t, n, e, c, ln, v, pos) == e \/ Ends(t, n, c, ln, v, pos)

LEMMA MatchesNone ==
    ASSUME NEW t, NEW e, NEW c, NEW ln \in Seq(Bytes), NEW v, NEW pos \in Nat
    PROVE  Matches(t, 0, e, c, ln, v, pos)
<1>1. Len(ln) \in Nat
  OBVIOUS
<1>2. Ends(t, 0, c, ln, v, pos)
  BY <1>1 DEF Ends
<1> QED BY <1>2, Zenon DEF Matches

\* One more character on the line and on the screen.
LEMMA TailTyped ==
    ASSUME NEW t, NEW n \in Nat, NEW e, NEW ln \in Seq(Bytes), NEW v \in Pages, NEW pos \in Nat,
           pos < PAGE_CELLS, Ends(t, n, e, ln, v, pos), NEW c \in Bytes,
           NEW u, u = [i \in Page |-> IF i = pos THEN <<t, c>> ELSE v[i]]
    PROVE  Ends(t, n + 1, e, Append(ln, c), u, pos + 1)
<1>1. PICK l \in Nat : l = Len(ln) /\ n <= l /\ n <= pos
  BY DEF Ends
<1>2. PICK k \in Seq(Bytes) : k = Append(ln, c) /\ Len(k) = l + 1 /\ k[l + 1] = c
                             /\ \A i \in 1 .. l : k[i] = ln[i]
  <2>1. PICK k : k = Append(ln, c)
    OBVIOUS
  <2>2. k \in Seq(Bytes) /\ Len(k) = l + 1
    BY <1>1, <2>1
  <2>3. k[l + 1] = c
    BY <1>1, <2>1
  <2>4. \A i \in 1 .. l : k[i] = ln[i]
    BY <1>1, <2>1
  <2> QED BY <2>1, <2>2, <2>3, <2>4, Zenon
<1>3. ASSUME NEW j \in 0 .. n PROVE l + 1 - j > e => u[pos - j] = <<t, k[l + 1 - j]>>
  <2>1. pos - j \in Page
    BY <1>1, Sizes DEF Page
  <2>2. CASE j = 0
    BY <1>2, <2>1, <2>2
  <2>3. CASE j # 0
    <3>1. PICK m \in 0 .. n - 1 : m = j - 1
      BY <2>3
    <3>2. l - m > e => v[pos - 1 - m] = <<t, ln[l - m]>>
      BY <1>1 DEF Ends
    <3>3. pos - 1 - m = pos - j /\ l - m = l + 1 - j /\ l - m \in 1 .. l /\ pos - j # pos
      BY <1>1, <2>3, <3>1
    <3>4. k[l + 1 - j] = ln[l - m]
      BY <1>2, <3>3
    <3>5. u[pos - j] = v[pos - j]
      BY <2>1, <3>3
    <3> QED BY <3>2, <3>3, <3>4, <3>5
  <2> QED BY <2>2, <2>3
<1>4. \A j \in 0 .. (n + 1) - 1 : Len(k) - j > e => u[(pos + 1) - 1 - j] = <<t, k[Len(k) - j]>>
  <2> SUFFICES ASSUME NEW j \in 0 .. (n + 1) - 1, Len(k) - j > e
               PROVE  u[(pos + 1) - 1 - j] = <<t, k[Len(k) - j]>>
    OBVIOUS
  <2>1. j \in 0 .. n /\ (pos + 1) - 1 - j = pos - j /\ Len(k) - j = l + 1 - j
    BY <1>2
  <2> QED BY <1>3, <2>1
<1>5. n + 1 <= Len(k) /\ n + 1 <= pos + 1
  BY <1>1, <1>2
<1>6. Ends(t, n + 1, e, k, u, pos + 1)
  BY <1>4, <1>5 DEF Ends
<1> QED BY <1>2, <1>6

\* One character less.
LEMMA TailRubbed ==
    ASSUME NEW t, NEW n \in Nat, n > 0, NEW e, NEW ln \in Seq(Bytes), NEW v \in Pages, NEW pos \in Nat,
           pos <= PAGE_CELLS, Ends(t, n, e, ln, v, pos),
           NEW u, u = [i \in Page |-> IF i = pos - 1 THEN Blank ELSE v[i]]
    PROVE  Ends(t, n - 1, e, SubSeq(ln, 1, Len(ln) - 1), u, pos - 1)
<1>1. PICK l \in Nat : l = Len(ln) /\ n <= l /\ n <= pos /\ l >= 1
  BY DEF Ends
<1>2. PICK k \in Seq(Bytes) : k = SubSeq(ln, 1, Len(ln) - 1) /\ Len(k) = l - 1
                             /\ \A i \in 1 .. l - 1 : k[i] = ln[i]
  <2>1. PICK k : k = SubSeq(ln, 1, Len(ln) - 1)
    OBVIOUS
  <2>2. k \in Seq(Bytes) /\ Len(k) = l - 1
    BY <1>1, <2>1
  <2>3. \A i \in 1 .. l - 1 : k[i] = ln[i]
    BY <1>1, <2>1
  <2> QED BY <2>1, <2>2, <2>3, Zenon
<1>3. ASSUME NEW j \in 0 .. (n - 1) - 1, Len(k) - j > e PROVE u[(pos - 1) - 1 - j] = <<t, k[Len(k) - j]>>
  <2>1. PICK m \in 0 .. n - 1 : m = j + 1
    OBVIOUS
  <2>2. l - m > e => v[pos - 1 - m] = <<t, ln[l - m]>>
    BY <1>1 DEF Ends
  <2>3. /\ (pos - 1) - 1 - j = pos - 1 - m /\ pos - 1 - m \in Page /\ pos - 1 - m # pos - 1
        /\ Len(k) - j = l - m /\ l - m \in 1 .. l - 1
    BY <1>1, <1>2, <2>1, Sizes DEF Page
  <2>4. k[Len(k) - j] = ln[l - m]
    BY <1>2, <2>3
  <2>5. u[(pos - 1) - 1 - j] = v[pos - 1 - m]
    BY <2>3
  <2>6. l - m > e
    BY <1>3, <2>3
  <2> QED BY <2>2, <2>4, <2>5, <2>6
<1>4. n - 1 <= Len(k) /\ n - 1 <= pos - 1
  BY <1>1, <1>2
<1>5. Ends(t, n - 1, e, k, u, pos - 1)
  BY <1>3, <1>4 DEF Ends
<1> QED BY <1>2, <1>5

LEMMA MatchesTyped ==
    ASSUME NEW t, NEW n \in Nat, NEW e, NEW f, NEW ln \in Seq(Bytes), NEW v \in Pages, NEW pos \in Nat,
           pos < PAGE_CELLS, Matches(t, n, e, f, ln, v, pos), NEW c \in Bytes,
           NEW u, u = [i \in Page |-> IF i = pos THEN <<t, c>> ELSE v[i]]
    PROVE  Matches(t, n + 1, e, f, Append(ln, c), u, pos + 1)
<1>1. Ends(t, n, f, ln, v, pos) => Ends(t, n + 1, f, Append(ln, c), u, pos + 1)
  BY TailTyped
<1> QED BY <1>1, Zenon DEF Matches

LEMMA MatchesRubbed ==
    ASSUME NEW t, NEW n \in Nat, n > 0, NEW e, NEW f, NEW ln \in Seq(Bytes), NEW v \in Pages,
           NEW pos \in Nat, pos <= PAGE_CELLS, Matches(t, n, e, f, ln, v, pos),
           NEW u, u = [i \in Page |-> IF i = pos - 1 THEN Blank ELSE v[i]]
    PROVE  Matches(t, n - 1, e, f, SubSeq(ln, 1, Len(ln) - 1), u, pos - 1)
<1>1. Ends(t, n, f, ln, v, pos) => Ends(t, n - 1, f, SubSeq(ln, 1, Len(ln) - 1), u, pos - 1)
  BY TailRubbed
<1> QED BY <1>1, Zenon DEF Matches

\* One more byte cleared: nothing is said of it any more.
LEMMA MatchesCleared ==
    ASSUME NEW t, NEW n \in Nat, NEW e, NEW c \in Nat, NEW ln \in Seq(Bytes), c < Len(ln),
           NEW v, NEW pos \in Nat, Matches(t, n, e, c, ln, v, pos),
           NEW k, k = [ln EXCEPT ![c + 1] = NUL]
    PROVE  Matches(t, n, e, c + 1, k, v, pos)
<1>1. PICK l \in Nat : l = Len(ln) /\ c < l
  OBVIOUS
<1>2. Len(k) = l /\ \A i \in 1 .. l : i # c + 1 => k[i] = ln[i]
  BY <1>1
<1>3. ASSUME Ends(t, n, c, ln, v, pos) PROVE Ends(t, n, c + 1, k, v, pos)
  <2>1. n <= l /\ n <= pos
    BY <1>1, <1>3 DEF Ends
  <2>2. ASSUME NEW j \in 0 .. n - 1, l - j > c + 1 PROVE v[pos - 1 - j] = <<t, k[l - j]>>
    <3>1. l - j > c /\ l - j \in 1 .. l /\ l - j # c + 1
      BY <1>1, <2>1, <2>2
    <3>2. v[pos - 1 - j] = <<t, ln[l - j]>>
      BY <1>1, <1>3, <3>1 DEF Ends
    <3> QED BY <1>2, <3>1, <3>2
  <2> QED BY <1>2, <2>1, <2>2 DEF Ends
<1> QED BY <1>3, Zenon DEF Matches

-----------------------------------------------------------------------------
(***************************************************************************)
(* The inductive invariant.                                                *)
(***************************************************************************)
ScreenOK ==
    /\ vid \in Pages /\ x \in Nat /\ y \in Nat /\ screen_x \in Nat /\ screen_y \in Nat
    /\ y <= TERMINAL_HEIGHT /\ (y < TERMINAL_HEIGHT => x < TERMINAL_WIDTH)
    /\ screen_x < TERMINAL_WIDTH
    /\ Owns(buffer_flag, vid)
    /\ fault \in BOOLEAN
    /\ fault \/ Cell(x, y) <= PAGE_CELLS

InputOK ==
    /\ line \in Seq(Bytes) /\ Len(line) <= BUFFER_SIZE
    /\ enter_flag \in {0, 1} /\ buffer_flag \in Terminals
    /\ capsLockFlag \in {0, 1} /\ shiftKeyHoldDown \in {0, 1}
    /\ ctrlKeyHoldDown \in {0, 1} /\ altKeyFlag \in {0, 1}

SavedTerminals == [video_mem_hist : Pages, pos_x : Nat, pos_y : Nat, line : Seq(Bytes)]

SavedGood(t, r) ==
    /\ r.pos_y <= TERMINAL_HEIGHT /\ (r.pos_y < TERMINAL_HEIGHT => r.pos_x < TERMINAL_WIDTH)
    /\ Owns(t, r.video_mem_hist) /\ Len(r.line) <= BUFFER_SIZE
    /\ Cell(r.pos_x, r.pos_y) <= PAGE_CELLS

SavedOK ==
    /\ saved \in [Terminals -> SavedTerminals]
    /\ \A t \in Terminals : SavedGood(t, saved[t])

ProgramOK ==
    /\ reading \in [Terminals -> BOOLEAN] /\ printing \in [Terminals -> BOOLEAN]
    /\ cleared \in [Terminals -> Nat]

SavedMatches(t) ==
    Matches(t, echoed[t], emptied[t], cleared[t], saved[t].line, saved[t].video_mem_hist,
            Cell(saved[t].pos_x, saved[t].pos_y))

EchoOK ==
    /\ echoed \in [Terminals -> Nat] /\ emptied \in [Terminals -> BOOLEAN]
    /\ fault \/ Matches(buffer_flag, echoed[buffer_flag], emptied[buffer_flag], cleared[buffer_flag],
                        line, vid, Cell(x, y))
    /\ \A t \in Terminals \ {buffer_flag} : SavedMatches(t)

CursorOK ==
    /\ cursor \in Nat /\ restarted \in BOOLEAN
    /\ restarted \/ cursor = Cell(x, y)

SInv == ScreenOK /\ InputOK /\ SavedOK /\ ProgramOK /\ EchoOK /\ CursorOK

LEMMA ScrGood ==
    ASSUME ScreenOK
    PROVE  /\ Scr \in Screens /\ Good(Scr)
           /\ Scr.vid = vid /\ Scr.x = x /\ Scr.y = y /\ Scr.fault = fault
<1>1. /\ Scr.vid = vid /\ Scr.x = x /\ Scr.y = y /\ Scr.fault = fault
      /\ Scr.screen_x = screen_x /\ Scr.screen_y = screen_y
  BY DEF Scr
<1>2. Scr \in Screens
  BY DEF Scr, Screens, ScreenOK
<1>3. InPlace(Scr)
  BY <1>1 DEF InPlace, ScreenOK
<1>4. Owns(buffer_flag, Scr.vid)
  BY <1>1 DEF ScreenOK
<1>5. Scr.fault \/ Cell(Scr.x, Scr.y) <= PAGE_CELLS
  BY <1>1, Zenon DEF ScreenOK
<1> QED BY <1>1, <1>2, <1>3, <1>4, <1>5 DEF Good

LEMMA ShownOK ==
    ASSUME NEW s \in Screens, Good(s), Shows(s), buffer_flag' = buffer_flag
    PROVE  ScreenOK'
<1>1. /\ vid' = s.vid /\ x' = s.x /\ y' = s.y /\ fault' = s.fault
      /\ screen_x' = s.screen_x /\ screen_y' = s.screen_y
  BY Zenon DEF Shows
<1>2. /\ s.vid \in Pages /\ s.x \in Nat /\ s.y \in Nat /\ s.screen_x \in Nat /\ s.screen_y \in Nat
      /\ s.fault \in BOOLEAN
  BY DEF Screens
<1>3. InPlace(s) /\ Owns(buffer_flag, s.vid) /\ (s.fault \/ Cell(s.x, s.y) <= PAGE_CELLS)
  BY Zenon DEF Good
<1> QED BY <1>1, <1>2, <1>3, Zenon DEF ScreenOK, InPlace

\* What is changed on the terminal on screen leaves the others' echo alone.
LEMMA FrontEcho ==
    ASSUME SavedOK, EchoOK, buffer_flag \in Terminals, UNCHANGED <<saved, buffer_flag>>,
           cleared \in [Terminals -> Nat], NEW c, cleared' = Set(cleared, c),
           NEW n \in Nat, echoed' = Set(echoed, n), NEW e \in BOOLEAN, emptied' = Set(emptied, e),
           fault' \/ Matches(buffer_flag, n, e, c, line', vid', Cell(x', y'))
    PROVE  SavedOK' /\ EchoOK'
<1>1. /\ echoed' \in [Terminals -> Nat] /\ echoed'[buffer_flag] = n
      /\ \A t \in Terminals \ {buffer_flag} : echoed'[t] = echoed[t]
  BY DEF EchoOK, Set
<1>2. /\ emptied' \in [Terminals -> BOOLEAN] /\ emptied'[buffer_flag] = e
      /\ \A t \in Terminals \ {buffer_flag} : emptied'[t] = emptied[t]
  BY DEF EchoOK, Set
<1>3. /\ cleared'[buffer_flag] = c
      /\ \A t \in Terminals \ {buffer_flag} : cleared'[t] = cleared[t]
  BY DEF Set
<1>4. SavedOK'
  BY Zenon DEF SavedOK
<1>5. ASSUME NEW t \in Terminals \ {buffer_flag'} PROVE SavedMatches(t)'
  <2>1. /\ SavedMatches(t) /\ echoed'[t] = echoed[t] /\ emptied'[t] = emptied[t]
        /\ cleared'[t] = cleared[t] /\ saved' = saved
    BY <1>1, <1>2, <1>3, Zenon DEF EchoOK
  <2> QED BY <2>1, Zenon DEF SavedMatches
<1>6. fault' \/ Matches(buffer_flag', echoed'[buffer_flag'], emptied'[buffer_flag'],
                        cleared'[buffer_flag'], line', vid', Cell(x', y'))
  BY <1>1, <1>2, <1>3, Zenon
<1> QED BY <1>1, <1>2, <1>4, <1>5, <1>6, Zenon DEF EchoOK

LEMMA SetSame ==
    ASSUME NEW S, NEW f \in [Terminals -> S], buffer_flag \in Terminals
    PROVE  f = Set(f, f[buffer_flag]) /\ f[buffer_flag] \in S
BY DEF Set

\* An action that ends the echo.
LEMMA FrontSilent ==
    ASSUME SInv, UNCHANGED <<saved, buffer_flag, cleared>>, EchoEnds, ScreenOK', line' \in Seq(Bytes)
    PROVE  SavedOK' /\ EchoOK'
<1>1. Cell(x', y') \in Nat
  BY CellNat DEF ScreenOK
<1>2. PICK c : c = cleared[buffer_flag]
  OBVIOUS
<1>3. Matches(buffer_flag, 0, FALSE, c, line', vid', Cell(x', y'))
  BY <1>1, MatchesNone
<1>4. SavedOK /\ EchoOK /\ buffer_flag \in Terminals /\ cleared \in [Terminals -> Nat]
  BY Zenon DEF SInv, InputOK, ProgramOK
<1>5. cleared' = Set(cleared, c)
  BY <1>2, <1>4, SetSame
<1>6. /\ echoed' = Set(echoed, 0) /\ emptied' = Set(emptied, FALSE)
      /\ UNCHANGED <<saved, buffer_flag>>
  BY Zenon DEF EchoEnds
<1>7. 0 \in Nat /\ FALSE \in BOOLEAN
  OBVIOUS
<1> QED BY <1>3, <1>4, <1>5, <1>6, <1>7, FrontEcho, Zenon

LEMMA CursorMoved ==
    ASSUME ScreenOK', fb_move_cursor
    PROVE  CursorOK'
<1>1. Cell(x', y') \in Nat
  BY CellNat DEF ScreenOK
<1> QED BY <1>1, Zenon DEF CursorOK, fb_move_cursor

-----------------------------------------------------------------------------
LEMMA InitInv == Init => SInv
<1> SUFFICES ASSUME Init PROVE SInv OBVIOUS
<1>1. [i \in Page |-> Blank] \in Pages /\ \A t : Owns(t, [i \in Page |-> Blank])
  BY DEF Pages, Cells, Owns
<1>2. Cell(0, 0) \in Nat /\ Cell(0, 0) <= PAGE_CELLS /\ Cell(0, 0) = 0
  BY Sizes, RowStarts, CellNat DEF Cell
<1>3. <<>> \in Seq(Bytes) /\ Len(<<>>) = 0
  OBVIOUS
<1>4. ScreenOK
  <2>1. /\ vid \in Pages /\ Owns(buffer_flag, vid)
    BY <1>1, Zenon DEF Init
  <2>2. fault \in BOOLEAN /\ (fault \/ Cell(x, y) <= PAGE_CELLS)
    BY <1>2, Zenon DEF Init
  <2>3. /\ x \in Nat /\ y \in Nat /\ screen_x \in Nat /\ screen_y \in Nat
        /\ y <= TERMINAL_HEIGHT /\ (y < TERMINAL_HEIGHT => x < TERMINAL_WIDTH)
        /\ screen_x < TERMINAL_WIDTH
    BY Sizes DEF Init
  <2> QED BY <2>1, <2>2, <2>3, Zenon DEF ScreenOK
<1>5. InputOK
  BY <1>3, Sizes, TerminalAssumption DEF Init, InputOK
<1>6. SavedOK
  <2>1. PICK v \in Pages : v = [i \in Page |-> Blank] /\ \A t : Owns(t, v)
    BY <1>1, Zenon
  <2>2. saved = [t \in Terminals |-> [video_mem_hist |-> v, pos_x |-> 0, pos_y |-> 0, line |-> <<>>]]
    BY <2>1, Zenon DEF Init
  <2>3. PICK r : r = [video_mem_hist |-> v, pos_x |-> 0, pos_y |-> 0, line |-> <<>>]
    OBVIOUS
  <2>4. /\ r \in SavedTerminals /\ r.video_mem_hist = v /\ r.pos_x = 0 /\ r.pos_y = 0
        /\ r.line = <<>>
    BY <1>3, <2>3 DEF SavedTerminals
  <2>5. \A t : SavedGood(t, r)
    BY <1>2, <1>3, <2>1, <2>4, Sizes DEF SavedGood
  <2>6. saved \in [Terminals -> SavedTerminals] /\ \A t \in Terminals : saved[t] = r
    BY <2>2, <2>3, <2>4
  <2> QED BY <2>5, <2>6, Zenon DEF SavedOK
<1>7. EchoOK
  <2>1. echoed \in [Terminals -> Nat] /\ \A t \in Terminals : echoed[t] = 0
    BY DEF Init
  <2>5. emptied \in [Terminals -> BOOLEAN]
    BY DEF Init
  <2>2. \A t \in Terminals : SavedMatches(t)
    <3> SUFFICES ASSUME NEW t \in Terminals
                 PROVE  Matches(t, 0, emptied[t], cleared[t], saved[t].line, saved[t].video_mem_hist,
                                Cell(saved[t].pos_x, saved[t].pos_y))
      BY <2>1, Zenon DEF SavedMatches
    <3>1. saved[t].line \in Seq(Bytes) /\ saved[t].pos_x \in Nat /\ saved[t].pos_y \in Nat
      BY <1>6 DEF SavedOK, SavedTerminals
    <3>2. Cell(saved[t].pos_x, saved[t].pos_y) \in Nat
      BY <3>1, CellNat
    <3> QED BY <3>1, <3>2, MatchesNone
  <2>3. Matches(buffer_flag, 0, emptied[buffer_flag], cleared[buffer_flag], line, vid, Cell(x, y))
    <3>1. line \in Seq(Bytes) /\ Cell(x, y) \in Nat
      BY <1>4, <1>5, CellNat DEF ScreenOK, InputOK
    <3> QED BY <3>1, MatchesNone
  <2>4. echoed[buffer_flag] = 0
    BY <1>5, <2>1 DEF InputOK
  <2> QED BY <2>1, <2>2, <2>3, <2>4, <2>5, Zenon DEF EchoOK
<1>8. CursorOK
  BY <1>2, Zenon DEF Init, CursorOK
<1>9. ProgramOK
  BY DEF Init, ProgramOK
<1> QED BY <1>4, <1>5, <1>6, <1>7, <1>8, <1>9, Zenon DEF SInv

LEMMA ModifierInv == SInv /\ (CapsLock \/ Shift \/ Ctrl \/ Alt) => SInv'
<1> SUFFICES ASSUME SInv, CapsLock \/ Shift \/ Ctrl \/ Alt PROVE SInv' OBVIOUS
<1>0. ScreenOK /\ InputOK /\ SavedOK /\ ProgramOK /\ EchoOK /\ CursorOK
  BY Zenon DEF SInv
<1>1. UNCHANGED <<screen, cursor, line, enter_flag, buffer_flag, saved, program, echo, restarted>>
  BY Zenon DEF CapsLock, Shift, Ctrl, Alt, Modifier
<1>2. UNCHANGED <<vid, x, y, screen_x, screen_y, fault, reading, cleared, printing, echoed, emptied>>
  BY <1>1, Zenon DEF screen, program, echo
<1>3. /\ capsLockFlag' \in {0, 1} /\ shiftKeyHoldDown' \in {0, 1}
      /\ ctrlKeyHoldDown' \in {0, 1} /\ altKeyFlag' \in {0, 1}
  BY <1>0 DEF CapsLock, Shift, Ctrl, Alt, InputOK
<1>4. InputOK'
  BY <1>0, <1>1, <1>3, Zenon DEF InputOK
<1>5. ScreenOK' /\ CursorOK'
  BY <1>0, <1>1, <1>2, Zenon DEF ScreenOK, CursorOK
<1>6. SavedOK' /\ ProgramOK' /\ EchoOK'
  BY <1>0, <1>1, <1>2, Zenon DEF SavedOK, ProgramOK, EchoOK, SavedMatches
<1> QED BY <1>4, <1>5, <1>6, Zenon DEF SInv

\* Output and the keys that end the echo: what is shown is good, the cursor moves.
LEMMA SilentInv ==
    ASSUME SInv, NEW s \in Screens, Good(s), Shows(s), fb_move_cursor, EchoEnds,
           UNCHANGED <<buffer_flag, modifiers, saved, program>>,
           enter_flag' \in {0, 1}, line' = line \/ line' = <<>>
    PROVE  SInv'
<1>0. ScreenOK /\ InputOK /\ SavedOK /\ ProgramOK /\ EchoOK /\ CursorOK
  BY Zenon DEF SInv
<1>1. ScreenOK'
  <2>1. buffer_flag' = buffer_flag
    BY Zenon
  <2> QED BY <2>1, ShownOK, Zenon
<1>2. line' \in Seq(Bytes) /\ Len(line') <= BUFFER_SIZE
  <2>1. CASE line' = line
    BY <1>0, <2>1, Zenon DEF InputOK
  <2>2. CASE line' = <<>>
    <3>1. <<>> \in Seq(Bytes) /\ Len(<<>>) = 0 /\ 0 <= BUFFER_SIZE
      BY Sizes
    <3> QED BY <2>2, <3>1, Zenon
  <2> QED BY <2>1, <2>2, Zenon
<1>3. UNCHANGED <<capsLockFlag, shiftKeyHoldDown, ctrlKeyHoldDown, altKeyFlag>>
  BY Zenon DEF modifiers
<1>4. InputOK'
  BY <1>0, <1>2, <1>3, Zenon DEF InputOK
<1>5. UNCHANGED <<reading, cleared, printing>>
  BY Zenon DEF program
<1>6. SavedOK' /\ EchoOK'
  BY <1>1, <1>2, <1>5, FrontSilent
<1>7. ProgramOK'
  BY <1>0, <1>5, Zenon DEF ProgramOK
<1>8. CursorOK'
  BY <1>1, CursorMoved
<1> QED BY <1>1, <1>4, <1>6, <1>7, <1>8, Zenon DEF SInv

LEMMA OutputChar == <<"output">> \in Chars
BY DEF Chars

LEMMA KeysInv ==
    SInv /\ (Enter \/ CtrlL \/ \E n \in Terminals : TableFull(n)) => SInv'
<1> SUFFICES ASSUME SInv, Enter \/ CtrlL \/ \E n \in Terminals : TableFull(n) PROVE SInv' OBVIOUS
<1>0. ScreenOK /\ InputOK
  BY Zenon DEF SInv
<1>1. Scr \in Screens /\ Good(Scr) /\ Scr.vid = vid
  BY <1>0, ScrGood
<1>2. buffer_flag \in Terminals /\ enter_flag \in {0, 1}
  BY <1>0, Zenon DEF InputOK
<1>3. CASE Enter
  <2>1. Good(NewLine(Scr)) /\ NewLine(Scr) \in Screens
    BY <1>1, NewLineGood DEF Good
  <2> QED BY <1>3, <2>1, SilentInv DEF Enter
<1>4. CASE CtrlL
  <2>1. Good(Home(Scr)) /\ Home(Scr) \in Screens
    BY <1>1, HomeGood DEF Good
  <2>2. Shows(Home(Scr))
    BY <1>1, <1>4, Zenon DEF CtrlL, Home
  <2>3. /\ fb_move_cursor /\ EchoEnds /\ line' = <<>>
        /\ UNCHANGED <<enter_flag, buffer_flag, modifiers, saved, program>>
    BY <1>4, Zenon DEF CtrlL
  <2> QED BY <1>2, <2>1, <2>2, <2>3, SilentInv
<1>5. CASE \E n \in Terminals : TableFull(n)
  <2>1. PICK m \in Screens : m = WriteNewLine(Scr) /\ Good(m)
    BY <1>1, WriteNewLineGood DEF Good
  <2>2. PICK s \in Screens : s = WriteByte(m, <<"output">>) /\ Good(s)
    BY <1>2, <2>1, OutputChar, WriteByteGood DEF Good
  <2>3. Shows(s)
    BY <1>5, <2>1, <2>2, Zenon DEF TableFull
  <2>4. /\ fb_move_cursor /\ EchoEnds
        /\ UNCHANGED <<line, enter_flag, buffer_flag, modifiers, saved, program>>
    BY <1>5, Zenon DEF TableFull
  <2> QED BY <1>2, <2>2, <2>3, <2>4, SilentInv
<1> QED BY <1>3, <1>4, <1>5

\* A character on the line and on the screen.
LEMMA TypedInv == ASSUME NEW c \in Chars, SInv, ~fault, Typed(c) PROVE SInv'
<1>0. ScreenOK /\ InputOK /\ SavedOK /\ ProgramOK /\ EchoOK
  BY Zenon DEF SInv
<1>1. /\ Scr \in Screens /\ Good(Scr)
      /\ Scr.vid = vid /\ Scr.x = x /\ Scr.y = y /\ Scr.fault = fault
  BY <1>0, ScrGood
<1>2. buffer_flag \in Terminals /\ Cell(x, y) \in Nat /\ line \in Seq(Bytes) /\ vid \in Pages
      /\ c \in Bytes /\ cleared \in [Terminals -> Nat] /\ emptied \in [Terminals -> BOOLEAN]
  BY <1>0, CellNat DEF InputOK, ScreenOK, ProgramOK, EchoOK, Bytes
<1>3. PICK s \in Screens :
         /\ s = Echo(Scr, c) /\ Good(s)
         /\ s.vid = [i \in Page |-> IF i = Cell(x, y) THEN <<buffer_flag, c>> ELSE vid[i]]
         /\ Cell(s.x, s.y) = Cell(x, y) + 1
         /\ s.fault <=> Cell(x, y) >= PAGE_CELLS
  BY <1>1, <1>2, EchoGood DEF Good, Text
<1>4. /\ Shows(s) /\ fb_move_cursor /\ EchoedBecomes(echoed[buffer_flag] + 1)
      /\ line' = Append(line, c) /\ Len(line) < BUFFER_SIZE
      /\ UNCHANGED <<enter_flag, buffer_flag, modifiers, saved, program>>
  BY <1>3, Zenon DEF Typed
<1>5. ScreenOK'
  <2>1. buffer_flag' = buffer_flag /\ Good(s) /\ Shows(s)
    BY <1>3, <1>4, Zenon
  <2> QED BY <2>1, ShownOK, Zenon
<1>6. vid' = s.vid /\ Cell(x', y') = Cell(x, y) + 1 /\ (fault' <=> Cell(x, y) >= PAGE_CELLS)
  BY <1>3, <1>4, Zenon DEF Shows
<1>7. PICK n \in Nat : n = echoed[buffer_flag]
  BY <1>0, <1>2 DEF EchoOK
<1>8. PICK e \in BOOLEAN, f \in Nat :
         /\ e = emptied[buffer_flag] /\ f = cleared[buffer_flag]
         /\ emptied' = Set(emptied, e) /\ cleared' = Set(cleared, f)
  <2>1. UNCHANGED <<emptied, cleared>>
    BY <1>4, Zenon DEF EchoedBecomes, program
  <2> QED BY <1>2, <2>1, SetSame
<1>12. ~(Cell(x, y) >= PAGE_CELLS) => Matches(buffer_flag, n + 1, e, f, line', vid', Cell(x', y'))
  <2> SUFFICES ASSUME Cell(x, y) < PAGE_CELLS
               PROVE  Matches(buffer_flag, n + 1, e, f, line', vid', Cell(x', y'))
    BY <1>2, Sizes
  <2>1. Matches(buffer_flag, n, e, f, line, vid, Cell(x, y))
    BY <1>0, <1>7, <1>8, Zenon DEF EchoOK
  <2>2. PICK pos \in Nat : pos = Cell(x, y)
    BY <1>2, Zenon
  <2>3. Matches(buffer_flag, n + 1, e, f, Append(line, c), vid', pos + 1)
    BY <1>2, <1>3, <1>6, <2>1, <2>2, MatchesTyped
  <2> QED BY <1>4, <1>6, <2>2, <2>3, Zenon
<1>9. SavedOK' /\ EchoOK'
  <2>1. n + 1 \in Nat
    OBVIOUS
  <2>2. echoed' = Set(echoed, n + 1) /\ UNCHANGED <<saved, buffer_flag>>
    BY <1>4, <1>7, Zenon DEF EchoedBecomes
  <2> QED BY <1>0, <1>2, <1>6, <1>8, <1>12, <2>1, <2>2, FrontEcho, Zenon
<1>13. ProgramOK'
  BY <1>0, <1>4, Zenon DEF ProgramOK, program
<1>10. InputOK'
  <2>1. line' \in Seq(Bytes) /\ Len(line') <= BUFFER_SIZE
    BY <1>2, <1>4, Sizes
  <2> QED BY <1>0, <1>4, <2>1, Zenon DEF InputOK, modifiers
<1>11. CursorOK'
  BY <1>4, <1>5, CursorMoved
<1> QED BY <1>5, <1>9, <1>10, <1>11, <1>13, Zenon DEF SInv

LEMMA PrintableInv == SInv /\ (KeyL \/ \E k \in Printables \ {"l"} : Printable(k)) => SInv'
<1> SUFFICES ASSUME SInv, KeyL \/ \E k \in Printables \ {"l"} : Printable(k) PROVE SInv' OBVIOUS
<1>0. InputOK
  BY Zenon DEF SInv
<1>1. \A k \in Printables : \A m \in {"low", "high", "question"} : <<k, m>> \in Chars
  BY DEF Chars
<1>2. CASE KeyL
  <2>1. \E m \in {"low", "high", "question"} : Typed(<<"l", m>>)
    BY <1>2 DEF KeyL
  <2>2. "l" \in Printables /\ ~fault
    BY <1>2 DEF Printables, KeyL, Key
  <2> QED BY <1>1, <2>1, <2>2, TypedInv
<1>3. CASE \E k \in Printables \ {"l"} : Printable(k)
  <2>1. PICK k \in Printables : Printable(k)
    BY <1>3
  <2>2. ~fault
    BY <2>1 DEF Printable, Key
  <2>3. \A c \in {kbdus(k), capitalCharacters(k), shiftCharacters(k), shiftAndCaps(k)} : c \in Chars
    BY <1>1 DEF kbdus, capitalCharacters, shiftCharacters, shiftAndCaps
  <2>4. \E c \in {kbdus(k), capitalCharacters(k), shiftCharacters(k), shiftAndCaps(k)} : Typed(c)
    BY <1>0, <2>1 DEF Printable, InputOK
  <2> QED BY <2>2, <2>3, <2>4, TypedInv
<1> QED BY <1>2, <1>3

LEMMA BackspaceInv == SInv /\ Backspace => SInv'
<1> SUFFICES ASSUME SInv, Backspace PROVE SInv' OBVIOUS
<1>0. ScreenOK /\ InputOK /\ SavedOK /\ ProgramOK /\ EchoOK
  BY Zenon DEF SInv
<1>1. /\ Scr \in Screens /\ Good(Scr)
      /\ Scr.vid = vid /\ Scr.x = x /\ Scr.y = y /\ Scr.fault = fault
  BY <1>0, ScrGood
<1>2. /\ buffer_flag \in Terminals /\ Cell(x, y) \in Nat /\ line \in Seq(Bytes) /\ vid \in Pages
      /\ Len(line) \in Nat /\ Len(line) <= BUFFER_SIZE
  <2>1. Cell(x, y) \in Nat
    BY <1>0, CellNat DEF ScreenOK
  <2>2. line \in Seq(Bytes) /\ Len(line) \in Nat
    BY <1>0 DEF InputOK
  <2> QED BY <1>0, <2>1, <2>2, Zenon DEF InputOK, ScreenOK
<1>3. /\ ~fault /\ fb_move_cursor
      /\ UNCHANGED <<enter_flag, buffer_flag, modifiers, saved, program>>
  BY Zenon DEF Backspace, Key
<1>4. CASE Len(line) > 0 /\ ~(x = 0 /\ y = 0)
  <2>1. PICK s \in Screens :
           /\ s = Rubout(Scr) /\ Good(s) /\ Cell(x, y) >= 1
           /\ s.vid = [i \in Page |-> IF i = Cell(x, y) - 1 THEN Blank ELSE vid[i]]
           /\ Cell(s.x, s.y) = Cell(x, y) - 1
    BY <1>1, <1>3, <1>4, RuboutGood DEF Good
  <2>2. PICK n \in Nat : n = echoed[buffer_flag]
    BY <1>0, <1>2 DEF EchoOK
  <2>3. /\ line' = SubSeq(line, 1, Len(line) - 1) /\ Shows(s)
        /\ EchoedBecomes(IF n > 0 THEN n - 1 ELSE 0)
    BY <1>4, <2>1, <2>2, Zenon DEF Backspace
  <2>4. ScreenOK'
    <3>1. buffer_flag' = buffer_flag /\ Good(s) /\ Shows(s)
      BY <1>3, <2>1, <2>3, Zenon
    <3> QED BY <3>1, ShownOK, Zenon
  <2>5. vid' = s.vid /\ Cell(x', y') = Cell(x, y) - 1
    BY <2>1, <2>3, Zenon DEF Shows
  <2>6. line' \in Seq(Bytes) /\ Len(line') <= BUFFER_SIZE
    BY <1>2, <1>4, <2>3, Sizes
  <2>11. PICK e \in BOOLEAN, f \in Nat :
            /\ e = emptied[buffer_flag] /\ f = cleared[buffer_flag]
            /\ emptied' = Set(emptied, e) /\ cleared' = Set(cleared, f)
    <3>1. UNCHANGED <<emptied, cleared>>
      BY <1>3, <2>3, Zenon DEF EchoedBecomes, program
    <3>2. cleared \in [Terminals -> Nat] /\ emptied \in [Terminals -> BOOLEAN]
      BY <1>0, Zenon DEF ProgramOK, EchoOK
    <3> QED BY <1>2, <3>1, <3>2, SetSame
  <2>7. PICK m \in Nat : /\ EchoedBecomes(m)
                         /\ Matches(buffer_flag, m, e, f, line', vid', Cell(x', y'))
    <3>1. CASE n > 0
      <4>1. Matches(buffer_flag, n, e, f, line, vid, Cell(x, y)) /\ Cell(x, y) <= PAGE_CELLS
        BY <1>0, <1>3, <2>2, <2>11, Zenon DEF EchoOK, ScreenOK
      <4>2. PICK pos \in Nat : pos = Cell(x, y)
        BY <1>2, Zenon
      <4>3. Matches(buffer_flag, n - 1, e, f, SubSeq(line, 1, Len(line) - 1), vid', pos - 1)
        BY <1>2, <2>1, <2>5, <3>1, <4>1, <4>2, MatchesRubbed
      <4>4. n - 1 \in Nat /\ EchoedBecomes(n - 1)
        BY <2>3, <3>1
      <4> QED BY <2>3, <2>5, <4>2, <4>3, <4>4, Zenon
    <3>2. CASE ~(n > 0)
      <4>1. EchoedBecomes(0) /\ Cell(x', y') \in Nat
        BY <1>2, <2>1, <2>3, <2>5, <3>2
      <4> QED BY <2>6, <4>1, MatchesNone
    <3> QED BY <3>1, <3>2
  <2>8. SavedOK' /\ EchoOK'
    <3>1. /\ echoed' = Set(echoed, m) /\ UNCHANGED <<saved, buffer_flag>>
          /\ cleared \in [Terminals -> Nat]
      BY <1>0, <1>3, <2>7, Zenon DEF EchoedBecomes, ProgramOK
    <3> QED BY <1>0, <1>2, <2>7, <2>11, <3>1, FrontEcho, Zenon
  <2>12. ProgramOK'
    BY <1>0, <1>3, Zenon DEF ProgramOK, program
  <2>9. InputOK'
    BY <1>0, <1>3, <2>6, Zenon DEF InputOK, modifiers
  <2>10. CursorOK'
    BY <1>3, <2>4, CursorMoved
  <2> QED BY <2>4, <2>8, <2>9, <2>10, <2>12, Zenon DEF SInv
<1>5. CASE ~(Len(line) > 0 /\ ~(x = 0 /\ y = 0))
  <2>1. UNCHANGED <<line, vid, x, y, screen_x, screen_y, fault, echoed, emptied, reading, cleared,
                    printing>>
    BY <1>3, <1>5, Zenon DEF Backspace, screen, echo, program
  <2>2. ScreenOK'
    BY <1>0, <1>3, <2>1, Zenon DEF ScreenOK
  <2>3. InputOK'
    BY <1>0, <1>3, <2>1, Zenon DEF InputOK, modifiers
  <2>4. SavedOK' /\ ProgramOK' /\ EchoOK'
    BY <1>0, <1>3, <2>1, Zenon DEF SavedOK, ProgramOK, EchoOK, SavedMatches
  <2>5. CursorOK'
    BY <1>3, <2>2, CursorMoved
  <2> QED BY <2>2, <2>3, <2>4, <2>5, Zenon DEF SInv
<1> QED BY <1>4, <1>5

\* A terminal leaves the screen as it was and another comes back as it left.
LEMMA SwitchInv == ASSUME NEW n \in Terminals, SInv, switch_terminal(n) PROVE SInv'
<1>0. ScreenOK /\ InputOK /\ SavedOK /\ ProgramOK /\ EchoOK
  BY Zenon DEF SInv
<1>1. /\ ~fault /\ buffer_flag # n /\ saved' = SavedTerminal /\ line' = saved[n].line
      /\ buffer_flag' = n /\ fb_move_cursor
      /\ UNCHANGED <<enter_flag, modifiers, reading, cleared, printing, echoed, emptied>>
  BY Zenon DEF switch_terminal, Key, program, echo
<1>2. PICK o \in SavedTerminals : o = saved[n] /\ SavedGood(n, o)
  BY <1>0 DEF SavedOK
<1>3. /\ vid' = o.video_mem_hist /\ x' = o.pos_x /\ y' = o.pos_y /\ line' = o.line
      /\ UNCHANGED <<screen_x, screen_y, fault>>
  <2>1. Shows([Scr EXCEPT !.vid = o.video_mem_hist, !.x = o.pos_x, !.y = o.pos_y])
    BY <1>2, Zenon DEF switch_terminal, BroughtBack
  <2> QED BY <1>1, <1>2, <2>1 DEF Shows, Scr
<1>4. o.video_mem_hist \in Pages /\ o.pos_x \in Nat /\ o.pos_y \in Nat /\ o.line \in Seq(Bytes)
  BY DEF SavedTerminals
<1>5. ScreenOK'
  BY <1>0, <1>1, <1>2, <1>3, <1>4, Zenon DEF ScreenOK, SavedGood
<1>6. InputOK'
  BY <1>0, <1>1, <1>2, <1>3, <1>4, Zenon DEF InputOK, modifiers, SavedGood
<1>7. PICK r : r = [video_mem_hist |-> vid, pos_x |-> x, pos_y |-> y, line |-> line]
  OBVIOUS
<1>8. /\ r \in SavedTerminals
      /\ r.video_mem_hist = vid /\ r.pos_x = x /\ r.pos_y = y /\ r.line = line
  BY <1>0, <1>7 DEF SavedTerminals, ScreenOK, InputOK
<1>9. SavedGood(buffer_flag, r)
  BY <1>0, <1>1, <1>8, Zenon DEF SavedGood, ScreenOK, InputOK
<1>10. /\ saved' \in [Terminals -> SavedTerminals] /\ saved'[buffer_flag] = r
       /\ \A t \in Terminals \ {buffer_flag} : saved'[t] = saved[t]
  <2>1. saved' = [saved EXCEPT ![buffer_flag] = r]
    BY <1>1, <1>7, Zenon DEF SavedTerminal
  <2>2. saved \in [Terminals -> SavedTerminals] /\ buffer_flag \in Terminals
    BY <1>0, Zenon DEF SavedOK, InputOK
  <2> QED BY <1>8, <2>1, <2>2
<1>11. SavedOK'
  <2>1. \A t \in Terminals : SavedGood(t, saved'[t])
    BY <1>0, <1>9, <1>10, Zenon DEF SavedOK
  <2> QED BY <1>10, <2>1, Zenon DEF SavedOK
<1>12. EchoOK'
  <2>1. Matches(n, echoed[n], emptied[n], cleared[n], line', vid', Cell(x', y'))
    BY <1>0, <1>1, <1>2, <1>3, Zenon DEF EchoOK, SavedMatches
  <2>2. ASSUME NEW t \in Terminals \ {n} PROVE SavedMatches(t)'
    <3>1. CASE t = buffer_flag
      BY <1>0, <1>1, <1>8, <1>10, <3>1, Zenon DEF EchoOK, SavedMatches
    <3>2. CASE t # buffer_flag
      BY <1>0, <1>1, <1>10, <3>2, Zenon DEF EchoOK, SavedMatches
    <3> QED BY <3>1, <3>2
  <2>3. /\ echoed' = echoed /\ emptied' = emptied /\ cleared' = cleared /\ buffer_flag' = n
        /\ echoed \in [Terminals -> Nat] /\ emptied \in [Terminals -> BOOLEAN]
    BY <1>0, <1>1, Zenon DEF EchoOK
  <2> QED BY <2>1, <2>2, <2>3, Zenon DEF EchoOK
<1>14. ProgramOK'
  BY <1>0, <1>1, Zenon DEF ProgramOK
<1>13. CursorOK'
  BY <1>1, <1>5, CursorMoved
<1> QED BY <1>5, <1>6, <1>11, <1>12, <1>13, <1>14, Zenon DEF SInv

LEMMA WriteInv == ASSUME NEW newline \in BOOLEAN, SInv, write_Terminal(newline) PROVE SInv'
<1>0. ScreenOK /\ InputOK
  BY Zenon DEF SInv
<1>1. Scr \in Screens /\ Good(Scr)
  BY <1>0, ScrGood
<1>2. buffer_flag \in Terminals /\ enter_flag \in {0, 1}
  BY <1>0, Zenon DEF InputOK
<1>3. /\ WriteNewLine(Scr) \in Screens /\ Good(WriteNewLine(Scr))
      /\ WriteByte(Scr, <<"output">>) \in Screens /\ Good(WriteByte(Scr, <<"output">>))
  BY <1>1, <1>2, OutputChar, WriteNewLineGood, WriteByteGood DEF Good
<1>4. /\ fb_move_cursor /\ EchoEnds
      /\ UNCHANGED <<line, enter_flag, buffer_flag, modifiers, saved, program>>
  BY Zenon DEF write_Terminal
<1>5. PICK s \in Screens : Good(s) /\ Shows(s)
  <2>1. CASE newline
    BY <1>3, <2>1, Zenon DEF write_Terminal
  <2>2. CASE ~newline
    BY <1>3, <2>2, Zenon DEF write_Terminal
  <2> QED BY <2>1, <2>2, Zenon
<1> QED BY <1>2, <1>4, <1>5, SilentInv

\* A read takes the line, clears it byte by byte and empties the buffer.
LEMMA ReadInv == SInv /\ (read_Terminal \/ ClearByte \/ EmptyBuffer) => SInv'
<1> SUFFICES ASSUME SInv, read_Terminal \/ ClearByte \/ EmptyBuffer PROVE SInv' OBVIOUS
<1>0. ScreenOK /\ InputOK /\ SavedOK /\ ProgramOK /\ EchoOK /\ CursorOK
  BY Zenon DEF SInv
<1>1. /\ UNCHANGED <<vid, x, y, screen_x, screen_y, fault, cursor, buffer_flag, modifiers, saved,
                     printing, echoed, restarted>>
  BY Zenon DEF read_Terminal, ClearByte, EmptyBuffer, screen, echo
<1>2. ScreenOK' /\ CursorOK' /\ SavedOK'
  BY <1>0, <1>1, Zenon DEF ScreenOK, CursorOK, SavedOK
<1>3. /\ buffer_flag \in Terminals /\ line \in Seq(Bytes) /\ Len(line) <= BUFFER_SIZE
      /\ reading \in [Terminals -> BOOLEAN] /\ cleared \in [Terminals -> Nat]
      /\ echoed \in [Terminals -> Nat] /\ emptied \in [Terminals -> BOOLEAN]
      /\ printing \in [Terminals -> BOOLEAN]
  BY <1>0, Zenon DEF InputOK, ProgramOK, EchoOK
<1>4. PICK pos \in Nat : pos = Cell(x, y)
  BY <1>0, CellNat DEF ScreenOK
<1>5. PICK c \in Nat, n \in Nat, e \in BOOLEAN :
         /\ c = cleared[buffer_flag] /\ n = echoed[buffer_flag] /\ e = emptied[buffer_flag]
         /\ cleared = Set(cleared, c) /\ echoed = Set(echoed, n) /\ emptied = Set(emptied, e)
  BY <1>3, SetSame
<1>6. fault \/ Matches(buffer_flag, n, e, c, line, vid, pos)
  BY <1>0, <1>4, <1>5, Zenon DEF EchoOK
<1>7. \A b \in BOOLEAN : Set(reading, b) \in [Terminals -> BOOLEAN]
  BY <1>3 DEF Set
<1>8. \A m \in Nat : Set(cleared, m) \in [Terminals -> Nat]
  BY <1>3 DEF Set
<1>9. CASE read_Terminal
  <2>1. enter_flag' = 0 /\ reading' = Set(reading, TRUE) /\ UNCHANGED <<line, cleared, emptied>>
    BY <1>9, Zenon DEF read_Terminal, echo
  <2>2. InputOK'
    <3>1. enter_flag' \in {0, 1}
      BY <2>1
    <3> QED BY <1>0, <1>1, <2>1, <3>1, Zenon DEF InputOK, modifiers
  <2>3. ProgramOK'
    BY <1>1, <1>3, <1>7, <2>1, Zenon DEF ProgramOK
  <2>4. EchoOK'
    BY <1>0, <1>1, <2>1, Zenon DEF EchoOK, SavedMatches
  <2> QED BY <1>2, <2>2, <2>3, <2>4, Zenon DEF SInv
<1>10. CASE ClearByte
  <2>1. /\ c < Len(line) /\ line' = [line EXCEPT ![c + 1] = NUL] /\ cleared' = Set(cleared, c + 1)
        /\ UNCHANGED <<enter_flag, reading, emptied>>
    BY <1>5, <1>10, Zenon DEF ClearByte, echo
  <2>2. line' \in Seq(Bytes) /\ Len(line') = Len(line) /\ c + 1 \in Nat
    BY <1>3, <2>1 DEF Bytes
  <2>3. InputOK'
    BY <1>0, <1>1, <1>3, <2>1, <2>2, Zenon DEF InputOK, modifiers
  <2>4. ProgramOK'
    BY <1>1, <1>3, <1>8, <2>1, <2>2, Zenon DEF ProgramOK
  <2>5. fault \/ Matches(buffer_flag, n, e, c + 1, line', vid, pos)
    BY <1>3, <1>6, <2>1, MatchesCleared
  <2>6. fault' \/ Matches(buffer_flag, n, e, c + 1, line', vid', Cell(x', y'))
    BY <1>1, <1>4, <2>5, Zenon
  <2>7. echoed' = Set(echoed, n) /\ emptied' = Set(emptied, e) /\ UNCHANGED <<saved, buffer_flag>>
    BY <1>1, <1>5, <2>1, Zenon
  <2>8. EchoOK'
    BY <1>0, <1>3, <2>1, <2>6, <2>7, FrontEcho, Zenon
  <2> QED BY <1>2, <2>3, <2>4, <2>8, Zenon DEF SInv
<1>11. CASE EmptyBuffer
  <2>1. /\ line' = <<>> /\ reading' = Set(reading, FALSE) /\ cleared' = Set(cleared, 0)
        /\ emptied' = Set(emptied, e \/ n > 0) /\ enter_flag' = enter_flag
    BY <1>5, <1>11, Zenon DEF EmptyBuffer
  <2>2. <<>> \in Seq(Bytes) /\ Len(<<>>) <= BUFFER_SIZE /\ 0 \in Nat
    BY Sizes
  <2>3. InputOK'
    BY <1>0, <1>1, <2>1, <2>2, Zenon DEF InputOK, modifiers
  <2>4. ProgramOK'
    BY <1>1, <1>3, <1>7, <1>8, <2>1, <2>2, Zenon DEF ProgramOK
  <2>5. PICK g \in BOOLEAN : g = (e \/ n > 0)
    BY Zenon
  <2>6. Matches(buffer_flag, n, g, 0, line', vid', Cell(x', y'))
    <3>1. CASE n > 0
      BY <2>5, <3>1, Zenon DEF Matches
    <3>2. CASE ~(n > 0)
      <4>1. n = 0
        BY <3>2
      <4>2. line' \in Seq(Bytes) /\ Cell(x', y') \in Nat
        BY <1>1, <1>4, <2>1, <2>2, Zenon
      <4> QED BY <4>1, <4>2, MatchesNone
    <3> QED BY <3>1, <3>2
  <2>7. echoed' = Set(echoed, n) /\ emptied' = Set(emptied, g) /\ UNCHANGED <<saved, buffer_flag>>
    BY <1>1, <1>5, <2>1, <2>5, Zenon
  <2>8. EchoOK'
    BY <1>0, <1>3, <2>1, <2>6, <2>7, FrontEcho, Zenon
  <2> QED BY <1>2, <2>3, <2>4, <2>8, Zenon DEF SInv
<1> QED BY <1>9, <1>10, <1>11

\* printf and a restarted shell change the screen without moving the cursor.
LEMMA StillCursor ==
    ASSUME SInv, NEW s \in Screens, Good(s), Shows(s), EchoEnds,
           UNCHANGED <<cursor, line, enter_flag, buffer_flag, modifiers, saved, cleared>>, ProgramOK',
           restarted' = TRUE \/ (restarted' = restarted /\ s.x = x /\ s.y = y)
    PROVE  SInv'
<1>0. ScreenOK /\ InputOK /\ SavedOK /\ ProgramOK /\ EchoOK /\ CursorOK
  BY Zenon DEF SInv
<1>1. ScreenOK'
  <2>1. buffer_flag' = buffer_flag
    BY Zenon
  <2> QED BY <2>1, ShownOK, Zenon
<1>2. InputOK'
  BY <1>0, Zenon DEF InputOK, modifiers
<1>3. SavedOK' /\ EchoOK'
  <2>1. line' \in Seq(Bytes) /\ UNCHANGED <<saved, buffer_flag, cleared>>
    BY <1>0, Zenon DEF InputOK
  <2> QED BY <1>1, <2>1, FrontSilent, Zenon
<1>4. CursorOK'
  <2>1. CASE restarted' = TRUE
    BY <1>0, <2>1, Zenon DEF CursorOK
  <2>2. CASE restarted' = restarted /\ s.x = x /\ s.y = y
    <3>1. x' = x /\ y' = y
      BY <2>2, Zenon DEF Shows
    <3> QED BY <1>0, <2>2, <3>1, Zenon DEF CursorOK
  <2> QED BY <2>1, <2>2, Zenon
<1> QED BY <1>1, <1>2, <1>3, <1>4, Zenon DEF SInv

LEMMA PrintfInv == SInv /\ (printf \/ page_fault) => SInv'
<1> SUFFICES ASSUME SInv, printf \/ page_fault PROVE SInv' OBVIOUS
<1>0. ScreenOK /\ InputOK /\ ProgramOK
  BY Zenon DEF SInv
<1>1. Scr \in Screens /\ Good(Scr) /\ Scr.x = x /\ Scr.y = y /\ buffer_flag \in Terminals
  BY <1>0, ScrGood DEF InputOK
<1>2. PICK a \in Screens : a = putc(Scr, <<"output">>) /\ Good(a) /\ a.x = x /\ a.y = y
  BY <1>1, OutputChar, PutcGood DEF Good
<1>3. /\ Shows(a) /\ EchoEnds /\ restarted' = restarted
      /\ UNCHANGED <<cursor, line, enter_flag, buffer_flag, modifiers, saved, cleared>>
  BY <1>2, Zenon DEF printf, page_fault, program
<1>4. \A b \in BOOLEAN : /\ Set(reading, b) \in [Terminals -> BOOLEAN]
                         /\ Set(printing, b) \in [Terminals -> BOOLEAN]
  BY <1>0 DEF Set, ProgramOK
<1>5. \/ UNCHANGED <<reading, printing>>
      \/ reading' = Set(reading, FALSE) /\ printing' = Set(printing, TRUE)
  BY Zenon DEF printf, page_fault, program
<1>6. ProgramOK'
  BY <1>0, <1>3, <1>4, <1>5, Zenon DEF ProgramOK
<1> QED BY <1>2, <1>3, <1>6, StillCursor, Zenon

\* The newline after the address moves only printf's own position.
LEMMA PageFaultNewlineInv == SInv /\ page_fault_newline => SInv'
<1> SUFFICES ASSUME SInv, page_fault_newline PROVE SInv' OBVIOUS
<1>0. ScreenOK /\ InputOK /\ SavedOK /\ ProgramOK /\ EchoOK /\ CursorOK
  BY Zenon DEF SInv
<1>1. /\ Scr \in Screens /\ Good(Scr)
      /\ Scr.vid = vid /\ Scr.x = x /\ Scr.y = y /\ Scr.fault = fault
  BY <1>0, ScrGood
<1>2. PICK b \in Screens : /\ b = putc_newline(Scr) /\ Good(b)
                           /\ b.vid = vid /\ b.x = x /\ b.y = y /\ b.fault = fault
  BY <1>1, PutcNewlineGood DEF Good
<1>3. /\ Shows(b) /\ printing' = Set(printing, FALSE)
      /\ UNCHANGED <<cursor, line, enter_flag, buffer_flag, modifiers, saved, reading, cleared, echoed,
                     emptied, restarted>>
  BY <1>2, Zenon DEF page_fault_newline, echo
<1>4. ScreenOK'
  <2>1. buffer_flag' = buffer_flag /\ Good(b) /\ Shows(b)
    BY <1>2, <1>3, Zenon
  <2> QED BY <2>1, ShownOK, Zenon
<1>5. vid' = vid /\ x' = x /\ y' = y /\ fault' = fault
  BY <1>2, <1>3, Zenon DEF Shows
<1>6. InputOK' /\ SavedOK' /\ CursorOK'
  BY <1>0, <1>3, <1>5, Zenon DEF InputOK, modifiers, SavedOK, CursorOK
<1>7. EchoOK'
  BY <1>0, <1>3, <1>5, Zenon DEF EchoOK, SavedMatches
<1>8. Set(printing, FALSE) \in [Terminals -> BOOLEAN]
  BY <1>0 DEF Set, ProgramOK
<1>9. ProgramOK'
  BY <1>0, <1>3, <1>8, Zenon DEF ProgramOK
<1> QED BY <1>4, <1>6, <1>7, <1>9, Zenon DEF SInv

LEMMA RestartInv == SInv /\ RestartShell => SInv'
<1> SUFFICES ASSUME SInv, RestartShell PROVE SInv' OBVIOUS
<1>1. Scr \in Screens /\ Good(Scr) /\ Scr.vid = vid
  BY ScrGood, Zenon DEF SInv
<1>2. Good(Home(Scr)) /\ Home(Scr) \in Screens
  BY <1>1, HomeGood DEF Good
<1>3. Shows(Home(Scr))
  BY <1>1, Zenon DEF RestartShell, Home
<1>4. /\ EchoEnds /\ restarted' = TRUE
      /\ UNCHANGED <<cursor, line, enter_flag, buffer_flag, modifiers, saved, program>>
  BY Zenon DEF RestartShell
<1>5. ProgramOK' /\ cleared' = cleared
  BY <1>4, Zenon DEF SInv, ProgramOK, program
<1> QED BY <1>2, <1>3, <1>4, <1>5, StillCursor, Zenon

LEMMA NextInv == SInv /\ [Next]_vars => SInv'
<1> SUFFICES ASSUME SInv, [Next]_vars PROVE SInv' OBVIOUS
<1>1. CASE CapsLock \/ Shift \/ Ctrl \/ Alt
  BY <1>1, ModifierInv, Zenon
<1>2. CASE Enter \/ CtrlL \/ \E n \in Terminals : TableFull(n)
  BY <1>2, KeysInv, Zenon
<1>3. CASE KeyL \/ \E k \in Printables \ {"l"} : Printable(k)
  BY <1>3, PrintableInv, Zenon
<1>4. CASE Backspace
  BY <1>4, BackspaceInv, Zenon
<1>5. CASE \E n \in Terminals : switch_terminal(n)
  BY <1>5, SwitchInv, Zenon
<1>6. CASE \E newline \in BOOLEAN : write_Terminal(newline)
  BY <1>6, WriteInv, Zenon
<1>7. CASE printf \/ page_fault \/ page_fault_newline
  BY <1>7, PrintfInv, PageFaultNewlineInv, Zenon
<1>8. CASE read_Terminal \/ ClearByte \/ EmptyBuffer \/ RestartShell
  BY <1>8, ReadInv, RestartInv, Zenon
<1>9. CASE UNCHANGED vars
  <2>1. UNCHANGED <<vid, x, y, screen_x, screen_y, fault, cursor, line, enter_flag, buffer_flag,
                    capsLockFlag, shiftKeyHoldDown, ctrlKeyHoldDown, altKeyFlag, saved, reading,
                    cleared, printing, echoed, emptied, restarted>>
    BY <1>9, Zenon DEF vars, screen, modifiers, program, echo
  <2>2. ScreenOK' /\ InputOK'
    BY <2>1, Zenon DEF SInv, ScreenOK, InputOK
  <2>3. SavedOK' /\ EchoOK'
    BY <2>1, Zenon DEF SInv, SavedOK, EchoOK, SavedMatches
  <2>4. ProgramOK' /\ CursorOK'
    BY <2>1, Zenon DEF SInv, ProgramOK, CursorOK
  <2> QED BY <2>2, <2>3, <2>4, Zenon DEF SInv
<1> QED BY <1>1, <1>2, <1>3, <1>4, <1>5, <1>6, <1>7, <1>8, <1>9, Zenon DEF Next

\* The inductive invariant of screen, line and saved terminals.
THEOREM SInvHolds == Spec => []SInv
BY InitInv, NextInv, PTL DEF Spec

\* The position stays on the screen or in its last row, and everything keeps its
\* type, whatever is typed, written and switched (getchar, write_Terminal, putc).
THEOREM ScreenTyped == Spec => []ScreenTypeOK
<1>1. SInv => ScreenTypeOK
  <2> SUFFICES ASSUME SInv PROVE ScreenTypeOK OBVIOUS
  <2>0. ScreenOK /\ InputOK /\ SavedOK /\ ProgramOK /\ EchoOK /\ CursorOK
    BY Zenon DEF SInv
  <2>1. <<x, y>> \in Positions
    BY <2>0, Sizes DEF ScreenOK, Positions
  <2>2. screen_x \in 0 .. NUM_COLS - 1 /\ screen_y \in Nat
    BY <2>0, Sizes DEF ScreenOK
  <2>3. ASSUME NEW t \in Terminals
        PROVE  /\ saved[t].video_mem_hist \in Pages
               /\ <<saved[t].pos_x, saved[t].pos_y>> \in Positions
               /\ saved[t].line \in Seq(Bytes) /\ Len(saved[t].line) <= BUFFER_SIZE
    <3>1. PICK r \in SavedTerminals : r = saved[t] /\ SavedGood(t, r)
      BY <2>0 DEF SavedOK
    <3>2. r.video_mem_hist \in Pages /\ r.pos_x \in Nat /\ r.pos_y \in Nat /\ r.line \in Seq(Bytes)
      BY DEF SavedTerminals
    <3>3. <<r.pos_x, r.pos_y>> \in Positions
      BY <3>1, <3>2, Sizes DEF SavedGood, Positions
    <3> QED BY <3>1, <3>2, <3>3, Zenon DEF SavedGood
  <2> QED BY <2>0, <2>1, <2>2, <2>3, Zenon DEF ScreenTypeOK, ScreenOK, InputOK, ProgramOK, EchoOK,
        CursorOK
<1> QED BY <1>1, SInvHolds, PTL

\* No text of one terminal ever shows on another's page, its hidden part included
\* (WriteCharacter, putc, switch_terminal).
THEOREM NoForeignTextHolds == Spec => []NoForeignText
<1>1. SInv => NoForeignText
  <2> SUFFICES ASSUME SInv, NEW t \in Terminals, NEW i \in Page
               PROVE  PageOf(t)[i] = Blank \/ PageOf(t)[i][1] = t
    BY DEF NoForeignText
  <2>1. CASE t = buffer_flag
    BY <2>1, Zenon DEF SInv, ScreenOK, Owns, PageOf
  <2>2. CASE t # buffer_flag
    BY <2>2, Zenon DEF SInv, SavedOK, SavedGood, Owns, PageOf
  <2> QED BY <2>1, <2>2
<1> QED BY <1>1, SInvHolds, PTL

\* What shows before the cursor is the end of the line in the buffer, for lines and
\* screens of any size and with reads that take, clear and empty the line step by step
\* while keys and switches come between (getchar, switch_terminal, read_Terminal).
THEOREM EchoIsLineHolds == Spec => []EchoIsLine
<1>1. SInv => EchoIsLine
  <2> SUFFICES ASSUME SInv, ~fault, NEW t \in Terminals, ~emptied[t]
               PROVE  LET n == Len(LineOf(t)) IN
                      /\ echoed[t] <= n
                      /\ \A j \in 0 .. echoed[t] - 1 :
                            n - j > cleared[t] => PageOf(t)[PosOf(t) - 1 - j] = <<t, LineOf(t)[n - j]>>
    BY Zenon DEF EchoIsLine
  <2>1. Matches(t, echoed[t], emptied[t], cleared[t], LineOf(t), PageOf(t), PosOf(t))
    <3>1. CASE t = buffer_flag
      BY <3>1, Zenon DEF SInv, EchoOK, LineOf, PageOf, PosOf
    <3>2. CASE t # buffer_flag
      BY <3>2, Zenon DEF SInv, EchoOK, SavedMatches, LineOf, PageOf, PosOf
    <3> QED BY <3>1, <3>2
  <2> QED BY <2>1, Zenon DEF Matches, Ends
<1> QED BY <1>1, SInvHolds, PTL

\* The hardware cursor is where the next character goes, but after a restart of a
\* shell (fb_move_cursor and its callers).
THEOREM CursorFollowsHolds == Spec => []CursorFollows
<1>1. SInv => CursorFollows
  BY Zenon DEF SInv, CursorOK, CursorFollows
<1> QED BY <1>1, SInvHolds, PTL
=============================================================================
