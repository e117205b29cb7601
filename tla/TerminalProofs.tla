--------------------------- MODULE TerminalProofs ---------------------------
(***************************************************************************)
(* Proofs about Terminal, for every screen, every line buffer, every set   *)
(* of keys and every text programs write.                                  *)
(***************************************************************************)
EXTENDS Terminal, Induction, SequenceTheorems

-----------------------------------------------------------------------------
(* Cursor movement.                                                         *)

Cursors == [x : 0 .. NUM_COLS - 1, y : Nat, up : BOOLEAN]

LEMMA CursorTyped ==
    ASSUME NEW c \in Cursors
    PROVE  /\ Newline(c) \in Cursors
           /\ EchoChar(c) \in Cursors
           /\ EchoFull(c) \in Cursors
           /\ PutcChar(c) \in Cursors
           /\ Cell(c) # 0 => EchoErase(c) \in Cursors
<1> USE ScreenAssumption
<1>0. \A d \in Cursors :
        /\ \A x \in 0 .. NUM_COLS - 1 : [d EXCEPT !.x = x] \in Cursors
        /\ \A y \in Nat : [d EXCEPT !.y = y] \in Cursors
        /\ \A b \in BOOLEAN : [d EXCEPT !.up = b] \in Cursors
  BY DEF Cursors
<1>1. /\ c.x \in 0 .. NUM_COLS - 1 /\ c.y \in Nat /\ c.y + 1 \in Nat
      /\ 0 \in 0 .. NUM_COLS - 1 /\ NUM_COLS - 1 \in 0 .. NUM_COLS - 1
      /\ c.x + 1 # NUM_COLS => c.x + 1 \in 0 .. NUM_COLS - 1
      /\ c.x # 0 => c.x - 1 \in 0 .. NUM_COLS - 1
      /\ c.y # 0 => c.y - 1 \in Nat
  BY DEF Cursors
<1>2. [c EXCEPT !.x = 0] \in Cursors
  BY <1>0, <1>1
<1>3. /\ [c EXCEPT !.x = 0, !.y = c.y + 1] \in Cursors
      /\ [c EXCEPT !.x = 0, !.up = TRUE] \in Cursors
      /\ [c EXCEPT !.x = 0, !.y = NUM_ROWS, !.up = TRUE] \in Cursors
      /\ c.x + 1 # NUM_COLS => [c EXCEPT !.x = c.x + 1] \in Cursors
      /\ c.x # 0 => [c EXCEPT !.x = c.x - 1] \in Cursors
      /\ c.y # 0 => [c EXCEPT !.x = NUM_COLS - 1, !.y = c.y - 1] \in Cursors
  BY <1>0, <1>1, <1>2, Zenon
<1>4. c.x = 0 /\ c.y = 0 => Cell(c) = 0
  BY DEF Cell
<1>5. Newline(c) \in Cursors
  BY <1>3, Zenon DEF Newline
<1> QED BY <1>3, <1>4, <1>5, Zenon DEF EchoChar, EchoFull, PutcChar, EchoErase

\* puts goes through one cursor after the other, by putc.
LEMMA PutsSteps ==
    ASSUME NEW c \in Cursors, NEW text \in Seq({"c", "nl"})
    PROVE  \E f \in [0 .. Len(text) -> Cursors] :
             /\ f[0] = c
             /\ \A i \in 1 .. Len(text) : f[i] = putc(f[i - 1], text[i])
             /\ puts(c, text) = f[Len(text)]
<1> DEFINE n == Len(text)
           step == [z \in Cursors \X (1 .. n) |-> putc(z[1], text[z[2]])]
           Body(g) == [i \in 0 .. n |-> IF i = 0 THEN c ELSE putc(g[i - 1], text[i])]
           after == CHOOSE g : g = Body(g)
<1>1. n \in Nat
  OBVIOUS
<1>2. \A d \in Cursors, ch \in {"c", "nl"} : putc(d, ch) \in Cursors
  BY CursorTyped DEF putc
<1>3. \A i \in 1 .. n : text[i] \in {"c", "nl"}
  OBVIOUS
<1>4. \A v \in Cursors, i \in 1 .. n : step[<<v, i>>] \in Cursors
  BY <1>2, <1>3
<1>5. PICK f \in [0 .. n -> Cursors] :
        f[0] = c /\ \A i \in 1 .. n : f[i] = step[<<f[i - 1], i>>]
  <2>1. PICK f : Iterates(f, n, Cursors, c, step)
    <3> HIDE DEF n, step
    <3> QED BY <1>1, <1>4, SegmentRecursion, Zenon
  <2> HIDE DEF n, step
  <2> QED BY <2>1 DEF Iterates
<1>6. \A i \in 1 .. n : f[i] = putc(f[i - 1], text[i])
  <2> SUFFICES ASSUME NEW i \in 1 .. n PROVE f[i] = putc(f[i - 1], text[i])
    OBVIOUS
  <2>1. f[i - 1] \in Cursors
    BY <1>1
  <2> QED BY <1>5, <2>1
<1>7. f = Body(f)
  BY <1>5, <1>6
<1>8. after = Body(after)
  <2> HIDE DEF Body
  <2> QED BY <1>7
<1>9. puts(c, text) = after[n]
  BY DEF puts
<1>10. after \in [0 .. n -> Cursors] /\ after[0] = c
       /\ \A i \in 1 .. n : after[i] = putc(after[i - 1], text[i])
  <2>1. /\ after[0] = c
        /\ \A i \in 1 .. n : after[i] = putc(after[i - 1], text[i])
        /\ after = [i \in 0 .. n |-> after[i]]
    <3> HIDE DEF after
    <3> QED BY <1>1, <1>8
  <2> DEFINE S == {i \in 0 .. n : after[i] \in Cursors}
  <2> HIDE DEF after
  <2>2. 0 \in S
    BY <2>1, <1>1
  <2>3. ASSUME NEW i \in 0 .. n - 1, i \in S PROVE i + 1 \in S
    <3>0. i + 1 \in 1 .. n /\ (i + 1) - 1 = i
      BY <1>1
    <3>1. after[i + 1] = putc(after[i], text[i + 1])
      BY <2>1, <3>0
    <3> QED BY <3>1, <2>3, <1>1, <1>2, <1>3
  <2>4. 0 .. n \subseteq S
    <3> HIDE DEF S, n
    <3> QED BY <2>2, <2>3, <1>1, SegmentInduction
  <2>5. \A i \in 0 .. n : after[i] \in Cursors
    BY <2>4
  <2> QED BY <2>1, <2>5
<1> HIDE DEF after, n
<1> QED BY <1>9, <1>10 DEF n


LEMMA PutsTyped ==
    ASSUME NEW c \in Cursors, NEW text \in Seq({"c", "nl"})
    PROVE  puts(c, text) \in Cursors
<1>1. Len(text) \in 0 .. Len(text)
  OBVIOUS
<1> QED BY <1>1, PutsSteps

-----------------------------------------------------------------------------
(* Type correctness.                                                        *)

Buffers == [0 .. BUF_SIZE - 1 -> 0 .. 255]
LineStates == [buf : Buffers, cnt : 0 .. BUF_SIZE, on : BOOLEAN,
               x : 0 .. NUM_COLS - 1, y : Nat]
Tasks == [pc : Points, i : 0 .. BUF_SIZE, n : Nat, child : BOOLEAN]

LEMMA BufferTyped ==
    /\ \A c \in 0 .. 255 : Filled(c) \in Buffers
    /\ \A b \in Buffers, c \in 0 .. 255, n \in Nat :
         [i \in DOMAIN b |-> IF i = n THEN c ELSE b[i]] \in Buffers
    /\ \A b \in Buffers, c \in 0 .. 255, n \in 0 .. BUF_SIZE - 1 :
         [b EXCEPT ![n] = c] \in Buffers
BY DEF Buffers, Filled

\* Every update the driver makes to a terminal's state keeps its type.
LEMMA LineStateTyped ==
    ASSUME NEW s \in LineStates
    PROVE  /\ \A b \in BOOLEAN : [s EXCEPT !.on = b] \in LineStates
           /\ \A n \in 0 .. BUF_SIZE : [s EXCEPT !.cnt = n] \in LineStates
           /\ \A f \in Buffers : [s EXCEPT !.buf = f] \in LineStates
           /\ \A c \in Cursors : Moved(s, c) \in LineStates
           /\ Closed(s) \in LineStates
           /\ s.cnt # 0 => Erased(s) \in LineStates
           /\ \A c \in 0 .. 255 : HasRoom(s) => Stored(s, c) \in LineStates
<1> USE TerminalAssumption
<1>0. /\ s.buf \in Buffers /\ s.cnt \in 0 .. BUF_SIZE /\ s.on \in BOOLEAN
      /\ s.cnt # 0 => s.cnt - 1 \in 0 .. BUF_SIZE
      /\ HasRoom(s) => s.cnt + 1 \in 0 .. BUF_SIZE
      /\ s.cnt \in Nat
  BY DEF LineStates, HasRoom
<1>1. \A r \in LineStates :
        /\ \A b \in BOOLEAN : [r EXCEPT !.on = b] \in LineStates
        /\ \A n \in 0 .. BUF_SIZE : [r EXCEPT !.cnt = n] \in LineStates
        /\ \A f \in Buffers : [r EXCEPT !.buf = f] \in LineStates
        /\ \A x \in 0 .. NUM_COLS - 1 : [r EXCEPT !.x = x] \in LineStates
        /\ \A y \in Nat : [r EXCEPT !.y = y] \in LineStates
  <2> SUFFICES ASSUME NEW r \in LineStates
               PROVE  /\ \A b \in BOOLEAN : [r EXCEPT !.on = b] \in LineStates
                      /\ \A n \in 0 .. BUF_SIZE : [r EXCEPT !.cnt = n] \in LineStates
                      /\ \A f \in Buffers : [r EXCEPT !.buf = f] \in LineStates
                      /\ \A x \in 0 .. NUM_COLS - 1 : [r EXCEPT !.x = x] \in LineStates
                      /\ \A y \in Nat : [r EXCEPT !.y = y] \in LineStates
    OBVIOUS
  <2>1. ASSUME NEW b \in BOOLEAN PROVE [r EXCEPT !.on = b] \in LineStates
    BY DEF LineStates
  <2>2. ASSUME NEW n \in 0 .. BUF_SIZE PROVE [r EXCEPT !.cnt = n] \in LineStates
    BY DEF LineStates
  <2>3. ASSUME NEW f \in Buffers PROVE [r EXCEPT !.buf = f] \in LineStates
    BY DEF LineStates
  <2>4. ASSUME NEW x \in 0 .. NUM_COLS - 1 PROVE [r EXCEPT !.x = x] \in LineStates
    BY DEF LineStates
  <2>5. ASSUME NEW y \in Nat PROVE [r EXCEPT !.y = y] \in LineStates
    BY DEF LineStates
  <2> QED BY <2>1, <2>2, <2>3, <2>4, <2>5
<1>2. \A c \in Cursors : Moved(s, c) \in LineStates
  <2> SUFFICES ASSUME NEW c \in Cursors PROVE Moved(s, c) \in LineStates
    OBVIOUS
  <2>1. c.x \in 0 .. NUM_COLS - 1 /\ c.y \in Nat
    BY DEF Cursors
  <2> QED BY <1>1, <2>1, Zenon DEF Moved
<1>3. Closed(s) \in LineStates
  <2>1. (s.on /\ s.cnt # BUF_SIZE) \in BOOLEAN
    OBVIOUS
  <2> QED BY <1>1, <2>1, Zenon DEF Closed
<1>4. s.cnt # 0 => Erased(s) \in LineStates
  <2>1. [i \in DOMAIN s.buf |-> IF i = s.cnt THEN NUL ELSE s.buf[i]] \in Buffers
    <3>1. NUL \in 0 .. 255
      BY DEF NUL
    <3> QED BY <1>0, <3>1, BufferTyped, Zenon
  <2> QED BY <1>0, <1>1, <2>1, Zenon DEF Erased
<1>5. ASSUME NEW c \in 0 .. 255, HasRoom(s) PROVE Stored(s, c) \in LineStates
  <2>1. [i \in DOMAIN s.buf |-> IF i = s.cnt THEN c ELSE s.buf[i]] \in Buffers
    BY <1>0, BufferTyped
  <2> QED BY <1>0, <1>1, <1>5, <2>1, Zenon DEF Stored
<1> QED BY <1>1, <1>2, <1>3, <1>4, <1>5, Zenon


Modifiers == [caps : BOOLEAN, l_shift : BOOLEAN, r_shift : BOOLEAN,
              ctrl : BOOLEAN, alt : BOOLEAN]

LEMMA TypeParts ==
    TypeOK <=> /\ terms \in [Term -> LineStates]
               /\ task \in [Term -> Tasks]
               /\ got \in [Term -> Seq(0 .. 255)]
               /\ active \in [Term -> BOOLEAN]
               /\ term_on_screen \in Term
               /\ curr_term \in Term
               /\ mods \in Modifiers
               /\ torn \in [Term -> BOOLEAN]
               /\ hung \in BOOLEAN
BY DEF TypeOK, LineStates, Buffers, Tasks, Modifiers

LEMMA TypePartsNext ==
    TypeOK' <=> /\ terms' \in [Term -> LineStates]
                /\ task' \in [Term -> Tasks]
                /\ got' \in [Term -> Seq(0 .. 255)]
                /\ active' \in [Term -> BOOLEAN]
                /\ term_on_screen' \in Term
                /\ curr_term' \in Term
                /\ mods' \in Modifiers
                /\ torn' \in [Term -> BOOLEAN]
                /\ hung' \in BOOLEAN
BY DEF TypeOK, LineStates, Buffers, Tasks, Modifiers

LEMMA TaskTyped ==
    ASSUME NEW k \in Tasks
    PROVE  /\ \A p \in Points : [k EXCEPT !.pc = p] \in Tasks
           /\ \A i \in 0 .. BUF_SIZE : [k EXCEPT !.i = i] \in Tasks
           /\ \A n \in Nat : [k EXCEPT !.n = n] \in Tasks
           /\ \A b \in BOOLEAN : [k EXCEPT !.child = b] \in Tasks
<1>1. ASSUME NEW p \in Points PROVE [k EXCEPT !.pc = p] \in Tasks
  BY DEF Tasks
<1>2. ASSUME NEW i \in 0 .. BUF_SIZE PROVE [k EXCEPT !.i = i] \in Tasks
  BY DEF Tasks
<1>3. ASSUME NEW n \in Nat PROVE [k EXCEPT !.n = n] \in Tasks
  BY DEF Tasks
<1>4. ASSUME NEW b \in BOOLEAN PROVE [k EXCEPT !.child = b] \in Tasks
  BY DEF Tasks
<1> QED BY <1>1, <1>2, <1>3, <1>4

\* Replacing the entry of one terminal.
LEMMA OneTerminal ==
    ASSUME NEW S, NEW f \in [Term -> S], NEW t \in Term, NEW v \in S
    PROVE  [f EXCEPT ![t] = v] \in [Term -> S]
OBVIOUS

\* A key's character fits a byte.
LEMMA InputTyped ==
    ASSUME NEW k \in 0 .. 255
    PROVE  Input(k) \in 0 .. 255
<1>1. CharIndex(k) \in Nat
  BY DEF CharIndex
<1>2. \A i \in Nat : characters(i) \in 0 .. 255
  BY DEF characters, NUL, BACKSPACE, FILLER
<1> QED BY <1>1, <1>2 DEF Input

LEMMA CurTyped ==
    ASSUME TypeOK, NEW t \in Term
    PROVE  /\ Cur(t) \in Cursors
           /\ terms[t] \in LineStates /\ task[t] \in Tasks
<1>1. terms[t] \in LineStates /\ task[t] \in Tasks
  BY TypeParts
<1>2. terms[t].x \in 0 .. NUM_COLS - 1 /\ terms[t].y \in Nat
  BY <1>1 DEF LineStates
<1> QED BY <1>1, <1>2 DEF Cur, Cursor, Cursors

\* The line of a terminal's state.
LineOf(s) == [i \in 1 .. s.cnt |-> s.buf[i - 1]]

LEMMA LineIsSeq ==
    ASSUME NEW s \in LineStates
    PROVE  /\ LineOf(s) \in Seq(0 .. 255)
           /\ Len(LineOf(s)) = s.cnt
           /\ s.cnt \in Nat
           /\ \A i \in 1 .. s.cnt : LineOf(s)[i] = s.buf[i - 1]
<1>1. s.cnt \in 0 .. BUF_SIZE /\ s.buf \in Buffers /\ BUF_SIZE \in Nat
  BY TerminalAssumption DEF LineStates
<1>2. ASSUME NEW i \in 1 .. s.cnt PROVE s.buf[i - 1] \in 0 .. 255
  <2>1. i - 1 \in 0 .. BUF_SIZE - 1
    BY <1>1
  <2> QED BY <1>1, <2>1 DEF Buffers
<1>3. LineOf(s) \in [1 .. s.cnt -> 0 .. 255] /\ s.cnt \in Nat
  BY <1>1, <1>2 DEF LineOf
<1>4. LineOf(s) \in Seq(0 .. 255)
  <2> DEFINE All == {[1 .. n -> 0 .. 255] : n \in Nat}
  <2>1. [1 .. s.cnt -> 0 .. 255] \in All
    BY <1>3, Zenon
  <2>2. LineOf(s) \in UNION All
    BY <1>3, <2>1, Zenon
  <2> QED BY <2>2, SeqDef, Zenon
<1>5. Len(LineOf(s)) = s.cnt
  BY <1>3, <1>4
<1>6. \A i \in 1 .. s.cnt : LineOf(s)[i] = s.buf[i - 1]
  BY DEF LineOf
<1> QED BY <1>3, <1>4, <1>5, <1>6

\* What a read returns: the line, or a beginning of it.
LEMMA CopiedIsLine ==
    ASSUME TypeOK
    PROVE  /\ Copied \in Seq(0 .. 255)
           /\ \E n \in 0 .. terms[curr_term].cnt :
                /\ n < terms[curr_term].cnt => terms[curr_term].cnt = BUF_SIZE
                /\ Copied = SubSeq(Line(curr_term), 1, n)
<1> DEFINE s == terms[curr_term]
           l == LineOf(s)
<1>0. curr_term \in Term
  BY TypeParts
<1>1. s \in LineStates /\ task[curr_term].n \in Nat
  BY <1>0, CurTyped DEF Tasks
<1>2. s.cnt \in 0 .. BUF_SIZE /\ BUF_SIZE \in Nat
  BY <1>1, TerminalAssumption DEF LineStates
<1>3. l \in Seq(0 .. 255) /\ Len(l) = s.cnt /\ l = Line(curr_term)
  BY <1>1, LineIsSeq DEF Line, LineOf
<1>4. CASE s.cnt <= task[curr_term].n \/ s.cnt < BUF_SIZE
  <2>1. Copied = l
    BY <1>3, <1>4 DEF Copied
  <2>2. SubSeq(l, 1, s.cnt) = l
    <3> HIDE DEF l
    <3> QED BY <1>3, SubSeqFull
  <2>3. s.cnt \in 0 .. s.cnt
    BY <1>2
  <2> QED BY <1>3, <2>1, <2>2, <2>3
<1>5. CASE ~(s.cnt <= task[curr_term].n \/ s.cnt < BUF_SIZE)
  <2>1. Copied = SubSeq(Line(curr_term), 1, task[curr_term].n)
    BY <1>5 DEF Copied
  <2>2. task[curr_term].n \in 0 .. s.cnt /\ s.cnt = BUF_SIZE
    BY <1>1, <1>2, <1>5
  <2>3. SubSeq(l, 1, task[curr_term].n) \in Seq(0 .. 255)
    <3>1. \A i \in 1 .. task[curr_term].n : l[i] \in 0 .. 255
      <4> SUFFICES ASSUME NEW i \in 1 .. task[curr_term].n PROVE l[i] \in 0 .. 255
        OBVIOUS
      <4> HIDE DEF l
      <4>1. i \in 1 .. Len(l)
        BY <1>1, <1>2, <1>3, <2>2
      <4> QED BY <1>3, <4>1, ElementOfSeq
    <3> HIDE DEF l
    <3> QED BY <1>1, <3>1, SubSeqProperties
  <2> QED BY <1>3, <2>1, <2>2, <2>3
<1> QED BY <1>4, <1>5


\* The cursor movement and the closing of a read that every accepted key ends with.
LEMMA AcceptTyped ==
    ASSUME TypeOK, NEW s \in LineStates, NEW c \in Cursors, Accept(s, c)
    PROVE  terms' \in [Term -> LineStates] /\ torn' \in [Term -> BOOLEAN]
<1>0. term_on_screen \in Term /\ curr_term \in Term /\ terms \in [Term -> LineStates]
      /\ torn \in [Term -> BOOLEAN]
  BY TypeParts
<1>1. CursorAfter(s, c) \in Cursors
  BY CursorTyped, Zenon DEF CursorAfter
<1>2. Closed(s) \in LineStates
  BY LineStateTyped
<1>3. Moved(Closed(s), CursorAfter(s, c)) \in LineStates
  BY <1>1, <1>2, LineStateTyped
<1>4. terms' \in [Term -> LineStates]
  BY <1>0, <1>3, OneTerminal DEF Accept
<1>5. torn' \in [Term -> BOOLEAN]
  BY <1>0, Zenon DEF Accept, ScrollPage
<1> QED BY <1>4, <1>5

LEMMA ProgramTyped ==
    ASSUME TypeOK, Program
    PROVE  TypeOK'
<1> USE TerminalAssumption
<1> DEFINE s == terms[curr_term]
           k == task[curr_term]
<1>0. /\ curr_term \in Term /\ term_on_screen \in Term /\ terms \in [Term -> LineStates]
      /\ task \in [Term -> Tasks] /\ got \in [Term -> Seq(0 .. 255)]
      /\ torn \in [Term -> BOOLEAN]
  BY TypeParts
<1>1. s \in LineStates /\ k \in Tasks /\ terms[term_on_screen] \in LineStates
  BY <1>0
<1>2. /\ {"user", "reset", "fill", "wait", "woken"} \subseteq Points
      /\ 0 \in 0 .. BUF_SIZE /\ 0 \in Nat
  BY DEF Points
<1>3. ASSUME NEW v \in LineStates, terms' = [terms EXCEPT ![curr_term] = v],
             task' \in [Term -> Tasks], got' \in [Term -> Seq(0 .. 255)], UNCHANGED screen
      PROVE  TypeOK'
  <2>1. terms' \in [Term -> LineStates]
    BY <1>0, <1>3, OneTerminal
  <2> QED BY <1>3, <2>1, TypeParts, TypePartsNext DEF screen
<1>4. ASSUME NEW n \in Counts, ReadEnter(n) PROVE TypeOK'
  <2>1. [k EXCEPT !.pc = "reset"] \in Tasks
    BY <1>1, <1>2, TaskTyped
  <2>2. [k EXCEPT !.pc = "reset", !.n = n] \in Tasks
    BY <2>1, TaskTyped
  <2>3. task' = [task EXCEPT ![curr_term] = [k EXCEPT !.pc = "reset", !.n = n]]
    BY <1>0, <1>4 DEF ReadEnter
  <2>4. task' \in [Term -> Tasks]
    BY <1>0, <2>2, <2>3, OneTerminal
  <2>5. [s EXCEPT !.on = TRUE] \in LineStates
    BY <1>1, LineStateTyped
  <2>6. terms' = [terms EXCEPT ![curr_term] = [s EXCEPT !.on = TRUE]]
    BY <1>4 DEF ReadEnter
  <2>7. got' \in [Term -> Seq(0 .. 255)]
    BY <1>0, <1>4, EmptySeq DEF ReadEnter
  <2> QED BY <1>3, <1>4, <2>4, <2>5, <2>6, <2>7, Zenon DEF ReadEnter
<1>5. CASE ReadReset
  <2>1. [k EXCEPT !.pc = "fill"] \in Tasks
    BY <1>1, <1>2, TaskTyped
  <2>2. [k EXCEPT !.pc = "fill", !.i = 0] \in Tasks
    BY <1>2, <2>1, TaskTyped
  <2>3. task' = [task EXCEPT ![curr_term] = [k EXCEPT !.pc = "fill", !.i = 0]]
    BY <1>0, <1>5 DEF ReadReset
  <2>4. task' \in [Term -> Tasks]
    BY <1>0, <2>2, <2>3, OneTerminal
  <2>5. [s EXCEPT !.cnt = 0] \in LineStates
    BY <1>1, <1>2, LineStateTyped
  <2>6. terms' = [terms EXCEPT ![curr_term] = [s EXCEPT !.cnt = 0]]
    BY <1>5 DEF ReadReset
  <2> QED BY <1>0, <1>3, <1>5, <2>4, <2>5, <2>6, Zenon DEF ReadReset
<1>6. CASE ReadFill
  <2>0. k.i \in 0 .. BUF_SIZE - 1 /\ k.i + 1 \in 0 .. BUF_SIZE /\ FILLER \in 0 .. 255
    BY <1>1, <1>6 DEF ReadFill, Tasks, FILLER
  <2>1. [k EXCEPT !.i = k.i + 1] \in Tasks
    BY <1>1, <2>0, TaskTyped
  <2>2. task' = [task EXCEPT ![curr_term] = [k EXCEPT !.i = k.i + 1]]
    BY <1>6 DEF ReadFill
  <2>3. task' \in [Term -> Tasks]
    BY <1>0, <2>1, <2>2, OneTerminal
  <2>4. [s.buf EXCEPT ![k.i] = FILLER] \in Buffers
    BY <1>1, <2>0, BufferTyped DEF LineStates
  <2>5. [s EXCEPT !.buf = [s.buf EXCEPT ![k.i] = FILLER]] \in LineStates
    BY <1>1, <2>4, LineStateTyped
  <2>6. terms' = [terms EXCEPT ![curr_term] =
                    [s EXCEPT !.buf = [s.buf EXCEPT ![k.i] = FILLER]]]
    BY <1>6 DEF ReadFill
  <2> QED BY <1>0, <1>3, <1>6, <2>3, <2>5, <2>6, Zenon DEF ReadFill
<1>7. CASE ReadWait
  <2>1. [k EXCEPT !.pc = "wait"] \in Tasks
    BY <1>1, <1>2, TaskTyped
  <2>2. [k EXCEPT !.pc = "wait", !.i = 0] \in Tasks
    BY <1>2, <2>1, TaskTyped
  <2>3. task' = [task EXCEPT ![curr_term] = [k EXCEPT !.pc = "wait", !.i = 0]]
    BY <1>0, <1>7 DEF ReadWait
  <2>4. task' \in [Term -> Tasks]
    BY <1>0, <2>2, <2>3, OneTerminal
  <2> QED BY <1>7, <2>4, TypeParts, TypePartsNext DEF ReadWait, screen
<1>8. CASE ReadWake
  <2>1. [k EXCEPT !.pc = "woken"] \in Tasks
    BY <1>1, <1>2, TaskTyped
  <2>2. task' = [task EXCEPT ![curr_term] = [k EXCEPT !.pc = "woken"]]
    BY <1>8 DEF ReadWake, Goto
  <2>3. task' \in [Term -> Tasks]
    BY <1>0, <2>1, <2>2, OneTerminal
  <2> QED BY <1>8, <2>3, TypeParts, TypePartsNext DEF ReadWake, screen
<1>9. CASE ReadReturn
  <2>1. [k EXCEPT !.pc = "user"] \in Tasks
    BY <1>1, <1>2, TaskTyped
  <2>2. [k EXCEPT !.pc = "user", !.n = 0] \in Tasks
    BY <1>2, <2>1, TaskTyped
  <2>3. task' = [task EXCEPT ![curr_term] = [k EXCEPT !.pc = "user", !.n = 0]]
    BY <1>0, <1>9 DEF ReadReturn
  <2>4. task' \in [Term -> Tasks]
    BY <1>0, <2>2, <2>3, OneTerminal
  <2>5. [s EXCEPT !.buf = Filled(NUL)] \in LineStates
    <3>1. NUL \in 0 .. 255
      BY DEF NUL
    <3>2. Filled(NUL) \in Buffers
      BY <3>1, BufferTyped
    <3> QED BY <1>1, <3>2, LineStateTyped
  <2>6. terms' = [terms EXCEPT ![curr_term] = [s EXCEPT !.buf = Filled(NUL)]]
    BY <1>9 DEF ReadReturn
  <2>7. got' \in [Term -> Seq(0 .. 255)]
    BY <1>0, <1>9, CopiedIsLine DEF ReadReturn
  <2> QED BY <1>3, <1>9, <2>4, <2>5, <2>6, <2>7, Zenon DEF ReadReturn
<1>10. ASSUME NEW text \in Texts, Write(text) PROVE TypeOK'
  <2>1. puts(Cur(curr_term), text) \in Cursors
    BY <1>0, CurTyped, PutsTyped
  <2>2. Moved(s, puts(Cur(curr_term), text)) \in LineStates
    BY <1>1, <2>1, LineStateTyped
  <2>3. terms' = [terms EXCEPT ![curr_term] = Moved(s, puts(Cur(curr_term), text))]
    BY <1>10, Zenon DEF Write
  <2>4. task' \in [Term -> Tasks] /\ got' \in [Term -> Seq(0 .. 255)] /\ UNCHANGED screen
    BY <1>0, <1>10 DEF Write
  <2> QED BY <1>3, <2>2, <2>3, <2>4, Zenon
<1>11. CASE Clear
  <2>1. Cursor(0, 0) \in Cursors
    BY ScreenAssumption DEF Cursor, Cursors
  <2>2. Moved(terms[term_on_screen], Cursor(0, 0)) \in LineStates
    BY <1>1, <2>1, LineStateTyped
  <2>3. terms' = [terms EXCEPT ![term_on_screen] = Moved(terms[term_on_screen], Cursor(0, 0))]
    BY <1>11, Zenon DEF Clear
  <2>4. terms' \in [Term -> LineStates]
    BY <1>0, <2>2, <2>3, OneTerminal
  <2>5. torn' \in [Term -> BOOLEAN]
    BY <1>0, <1>11, Zenon DEF Clear
  <2> QED BY <1>11, <2>4, <2>5, TypeParts, TypePartsNext DEF Clear
<1>12. CASE Child
  <2>1. [k EXCEPT !.child = ~k.child] \in Tasks
    BY <1>1, TaskTyped
  <2>2. task' = [task EXCEPT ![curr_term] = [k EXCEPT !.child = ~k.child]]
    BY <1>12, Zenon DEF Child
  <2>3. task' \in [Term -> Tasks]
    BY <1>0, <2>1, <2>2, OneTerminal
  <2> QED BY <1>12, <2>3, TypeParts, TypePartsNext DEF Child, screen
<1> QED
  BY <1>4, <1>5, <1>6, <1>7, <1>8, <1>9, <1>10, <1>11, <1>12 DEF Program


LEMMA KeyTyped ==
    ASSUME TypeOK, NEW k \in Scancodes, Key(k)
    PROVE  TypeOK'
<1> USE TerminalAssumption
<1> DEFINE t == term_on_screen
           s == terms[t]
           c == Cur(t)
<1>0. /\ curr_term \in Term /\ t \in Term /\ terms \in [Term -> LineStates]
      /\ task \in [Term -> Tasks] /\ got \in [Term -> Seq(0 .. 255)]
      /\ torn \in [Term -> BOOLEAN] /\ active \in [Term -> BOOLEAN]
      /\ mods \in Modifiers /\ hung \in BOOLEAN
  BY TypeParts
<1>1. s \in LineStates /\ terms[curr_term] \in LineStates /\ c \in Cursors
  BY <1>0, CurTyped
<1>2. /\ NUL \in 0 .. 255 /\ FILLER \in 0 .. 255 /\ 0 \in 0 .. BUF_SIZE
      /\ Cursor(0, 0) \in Cursors /\ 0 \in 0 .. NUM_COLS - 1
  BY ScreenAssumption DEF NUL, FILLER, Cursor, Cursors
<1>3. ASSUME NEW r \in LineStates, NEW d \in Cursors, Accept(r, d),
             UNCHANGED <<task, got, active, term_on_screen, curr_term, mods, hung>>
      PROVE  TypeOK'
  BY <1>0, <1>3, AcceptTyped, TypePartsNext
<1>4. CASE KeyModifier(k)
  <2>1. /\ mods.caps \in BOOLEAN /\ mods.l_shift \in BOOLEAN /\ mods.r_shift \in BOOLEAN
        /\ mods.ctrl \in BOOLEAN /\ mods.alt \in BOOLEAN
    BY <1>0 DEF Modifiers
  <2>2. /\ (IF k = 58 THEN ~mods.caps ELSE mods.caps) \in BOOLEAN
        /\ (IF k \in {42, 170} THEN k = 42 ELSE mods.l_shift) \in BOOLEAN
        /\ (IF k \in {54, 182} THEN k = 54 ELSE mods.r_shift) \in BOOLEAN
        /\ (IF k \in {29, 157} THEN k = 29 ELSE mods.ctrl) \in BOOLEAN
        /\ (IF k \in {56, 184} THEN k = 56 ELSE mods.alt) \in BOOLEAN
    BY <2>1, Zenon
  <2>3. ModsAfter(k) \in Modifiers
    BY <2>2, Zenon DEF ModsAfter, Modifiers
  <2> QED BY <1>0, <1>4, <2>3, TypePartsNext DEF KeyModifier
<1>5. CASE KeyClear(k)
  <2> DEFINE r == [buf |-> Filled(FILLER), cnt |-> 0, on |-> FALSE, x |-> 0, y |-> 0]
  <2>1. r \in LineStates
    BY <1>2, BufferTyped DEF LineStates
  <2>2. terms' \in [Term -> LineStates]
    <3>1. terms' = [terms EXCEPT ![t] = r]
      BY <1>5 DEF KeyClear
    <3> HIDE DEF r, t
    <3> QED BY <1>0, <2>1, <3>1, OneTerminal
  <2>3. torn' \in [Term -> BOOLEAN]
    BY <1>0, <1>5, Zenon DEF KeyClear
  <2> QED BY <1>0, <1>5, <2>2, <2>3, TypePartsNext DEF KeyClear
<1>6. CASE KeyInterruptChild(k)
  <2> DEFINE r == [pc |-> "user", i |-> 0, n |-> 0, child |-> FALSE]
  <2>1. r \in Tasks
    BY <1>2 DEF Tasks, Points
  <2>2. CASE term_on_screen = curr_term
    <3>1. task' = [task EXCEPT ![curr_term] = r] /\ hung' = hung
      BY <1>6, <2>2 DEF KeyInterruptChild
    <3>2. task' \in [Term -> Tasks]
      <4> HIDE DEF r
      <4> QED BY <1>0, <2>1, <3>1, OneTerminal
    <3> QED BY <1>0, <1>6, <3>1, <3>2, TypePartsNext DEF KeyInterruptChild
  <2>3. CASE term_on_screen # curr_term
    BY <1>0, <1>6, <2>3, TypePartsNext DEF KeyInterruptChild
  <2> QED BY <2>2, <2>3
<1>7. CASE KeyInterruptShell(k)
  <2> DEFINE g == [terms EXCEPT ![curr_term] =
                     Moved(terms[curr_term], puts(Cur(curr_term), ARCHITECT))]
  <2>1. puts(Cur(curr_term), ARCHITECT) \in Cursors
    BY <1>0, CurTyped, PutsTyped
  <2>2. Moved(terms[curr_term], puts(Cur(curr_term), ARCHITECT)) \in LineStates
    BY <1>1, <2>1, LineStateTyped
  <2>3. g \in [Term -> LineStates]
    BY <1>0, <2>2, OneTerminal
  <2>4. terms' = [g EXCEPT ![t] = [g[t] EXCEPT !.on = FALSE]]
    BY <1>7, Zenon DEF KeyInterruptShell
  <2> HIDE DEF g
  <2>5. [g[t] EXCEPT !.on = FALSE] \in LineStates
    BY <1>0, <2>3, LineStateTyped
  <2>6. terms' \in [Term -> LineStates]
    BY <1>0, <2>3, <2>4, <2>5, OneTerminal
  <2> QED BY <1>0, <1>7, <2>6, TypePartsNext DEF KeyInterruptShell, screen
<1>8. CASE KeySwitch(k)
  <2>1. active' \in [Term -> BOOLEAN]
    BY <1>0, <1>8, Zenon DEF KeySwitch
  <2> QED BY <1>0, <1>8, <2>1, TypePartsNext DEF KeySwitch
<1>9. CASE KeyEnter(k)
  <2>1. [s EXCEPT !.on = FALSE] \in LineStates
    BY <1>1, LineStateTyped
  <2>2. Newline(c) \in Cursors
    BY <1>1, CursorTyped
  <2> QED BY <1>3, <1>9, <2>1, <2>2, Zenon DEF KeyEnter
<1>10. CASE KeyBackspace(k)
  <2>1. s.cnt # 0
    BY <1>10, Zenon DEF KeyBackspace
  <2>2. Erased(s) \in LineStates
    BY <1>1, <2>1, LineStateTyped
  <2>3. CASE Cell(c) = 0
    <3>1. terms' = [terms EXCEPT ![t] = Erased(s)] /\ hung' = TRUE /\ torn' = torn
      BY <1>10, <2>3, Zenon DEF KeyBackspace
    <3>2. terms' \in [Term -> LineStates]
      BY <1>0, <2>2, <3>1, OneTerminal
    <3> QED BY <1>0, <1>10, <3>1, <3>2, TypePartsNext DEF KeyBackspace
  <2>4. CASE Cell(c) # 0
    <3>1. EchoErase(c) \in Cursors
      BY <1>1, <2>4, CursorTyped
    <3>2. Accept(Erased(s), EchoErase(c)) /\ hung' = hung
      BY <1>10, <2>4, Zenon DEF KeyBackspace
    <3> QED BY <1>3, <1>10, <2>2, <3>1, <3>2 DEF KeyBackspace
  <2> QED BY <2>3, <2>4
<1>11. CASE KeyChar(k)
  <2>1. Input(k) \in 0 .. 255
    BY InputTyped
  <2>2. CASE HasRoom(s)
    <3>1. Stored(s, Input(k)) \in LineStates
      BY <1>1, <2>1, <2>2, LineStateTyped
    <3>2. EchoChar(c) \in Cursors
      BY <1>1, CursorTyped
    <3>3. Accept(Stored(s, Input(k)), EchoChar(c))
      BY <1>11, <2>2, Zenon DEF KeyChar
    <3> QED BY <1>3, <1>11, <3>1, <3>2, <3>3 DEF KeyChar
  <2>3. CASE ~HasRoom(s)
    <3>1. Accept(s, c)
      BY <1>11, <2>3, Zenon DEF KeyChar
    <3> QED BY <1>1, <1>3, <1>11, <3>1 DEF KeyChar
  <2> QED BY <2>2, <2>3
<1> QED BY <1>4, <1>5, <1>6, <1>7, <1>8, <1>9, <1>10, <1>11 DEF Key

LEMMA TypeStep == TypeOK /\ [Next]_vars => TypeOK'
<1> SUFFICES ASSUME TypeOK, [Next]_vars PROVE TypeOK'
  OBVIOUS
<1>1. CASE Program
  BY <1>1, ProgramTyped
<1>2. ASSUME NEW k \in Scancodes, Key(k) PROVE TypeOK'
  BY <1>2, KeyTyped
<1>3. ASSUME NEW t \in Term, Tick(t) PROVE TypeOK'
  BY <1>3, TypeParts, TypePartsNext DEF Tick
<1>4. CASE Spin \/ UNCHANGED vars
  BY <1>4, TypeParts, TypePartsNext DEF Spin, vars
<1> QED BY <1>1, <1>2, <1>3, <1>4 DEF Next

LEMMA TypeInit == Init => TypeOK
<1> SUFFICES ASSUME Init PROVE TypeOK
  OBVIOUS
<1>1. /\ 0 \in Term /\ 0 \in 0 .. BUF_SIZE /\ 0 \in 0 .. NUM_COLS - 1 /\ NUL \in 0 .. 255
      /\ "user" \in Points
  BY TerminalAssumption, ScreenAssumption DEF Term, NUL, Points
<1>2. [buf |-> Filled(NUL), cnt |-> 0, on |-> FALSE, x |-> 0, y |-> 0] \in LineStates
  BY <1>1, BufferTyped DEF LineStates
<1>3. [pc |-> "user", i |-> 0, n |-> 0, child |-> FALSE] \in Tasks
  BY <1>1 DEF Tasks
<1>4. terms \in [Term -> LineStates] /\ task \in [Term -> Tasks]
  BY <1>2, <1>3 DEF Init
<1>5. got \in [Term -> Seq(0 .. 255)]
  BY EmptySeq DEF Init
<1>6. active \in [Term -> BOOLEAN] /\ torn \in [Term -> BOOLEAN]
  BY Zenon DEF Init
<1>7. mods \in Modifiers
  BY DEF Init, Modifiers
<1> QED BY <1>1, <1>4, <1>5, <1>6, <1>7, TypeParts DEF Init

\* The state of every terminal keeps its type, for every screen, buffer, key and
\* text: the handler never counts past the buffer, the cursor never leaves the
\* columns (the loops of terminal_read, terminal_write and kbd).
THEOREM TerminalTypeCorrect == Spec => []TypeOK
BY TypeInit, TypeStep, PTL DEF Spec


-----------------------------------------------------------------------------
(* What a key does to the line of the terminal on screen.                   *)

LEMMA AcceptEffect ==
    ASSUME TypeOK, NEW s \in LineStates, NEW c \in Cursors, Accept(s, c)
    PROVE  /\ \A u \in Term \ {term_on_screen} : terms'[u] = terms[u]
           /\ terms'[term_on_screen].buf = s.buf
           /\ terms'[term_on_screen].cnt = s.cnt
           /\ terms'[term_on_screen].on <=> s.on /\ s.cnt # BUF_SIZE
           /\ terms'[term_on_screen].x = CursorAfter(s, c).x
           /\ terms'[term_on_screen].y = CursorAfter(s, c).y
<1>0. term_on_screen \in Term /\ terms \in [Term -> LineStates]
  BY TypeParts
<1> DEFINE r == Moved(Closed(s), CursorAfter(s, c))
<1>1. terms' = [terms EXCEPT ![term_on_screen] = r]
  BY DEF Accept
<1>2. /\ r.buf = s.buf /\ r.cnt = s.cnt
      /\ r.x = CursorAfter(s, c).x /\ r.y = CursorAfter(s, c).y
  BY DEF Moved, Closed, LineStates
<1>3. r.on <=> s.on /\ s.cnt # BUF_SIZE
  BY DEF Moved, Closed, LineStates
<1> HIDE DEF r
<1> QED BY <1>0, <1>1, <1>2, <1>3

\* Enter closes the read, Backspace takes the last character, any other key adds
\* one, and the one that fills the buffer closes the read.
LineClosed == LET t == term_on_screen IN
    terms'[t].buf = terms[t].buf /\ terms'[t].cnt = terms[t].cnt /\ ~terms'[t].on
LineErased == LET t == term_on_screen IN
    /\ terms[t].cnt # 0 /\ terms'[t].cnt = terms[t].cnt - 1 /\ terms'[t].on
    /\ \A i \in 0 .. terms[t].cnt - 2 : terms'[t].buf[i] = terms[t].buf[i]
LineGrown(c) == LET t == term_on_screen IN
    /\ terms[t].cnt < BUF_SIZE /\ terms'[t].cnt = terms[t].cnt + 1
    /\ terms'[t].on <=> terms'[t].cnt # BUF_SIZE
    /\ \A i \in 0 .. terms[t].cnt - 1 : terms'[t].buf[i] = terms[t].buf[i]
    /\ terms'[t].buf[terms[t].cnt] = c

LEMMA KeyEffect ==
    ASSUME TypeOK, NEW k \in Scancodes, KeyEnter(k) \/ KeyBackspace(k) \/ KeyChar(k)
    PROVE  /\ UNCHANGED <<task, got, active, term_on_screen, curr_term, mods>>
           /\ \A u \in Term \ {term_on_screen} : terms'[u] = terms[u]
           /\ terms[term_on_screen].on /\ Interruptible
           /\ LineClosed \/ LineErased \/ LineGrown(Input(k))
<1> USE TerminalAssumption
<1> DEFINE t == term_on_screen
           s == terms[t]
           c == Cur(t)
<1>0. t \in Term /\ terms \in [Term -> LineStates]
  BY TypeParts
<1>1. s \in LineStates /\ c \in Cursors
  BY <1>0, CurTyped
<1>2. s.cnt \in 0 .. BUF_SIZE /\ s.buf \in Buffers /\ BUF_SIZE \in Nat \ {0}
  BY <1>1 DEF LineStates
<1>3. /\ UNCHANGED <<task, got, active, term_on_screen, curr_term, mods>>
      /\ s.on /\ Interruptible
  BY Zenon DEF KeyEnter, KeyBackspace, KeyChar, Typed
<1>4. CASE KeyEnter(k)
  <2> DEFINE r == [s EXCEPT !.on = FALSE]
  <2>1. r \in LineStates /\ Newline(c) \in Cursors
    BY <1>1, LineStateTyped, CursorTyped
  <2>2. r.buf = s.buf /\ r.cnt = s.cnt /\ ~r.on
    BY <1>1 DEF LineStates
  <2>3. Accept(r, Newline(c))
    BY <1>4, Zenon DEF KeyEnter
  <2> HIDE DEF r
  <2>4. LineClosed /\ \A u \in Term \ {t} : terms'[u] = terms[u]
    BY <2>1, <2>2, <2>3, AcceptEffect DEF LineClosed
  <2> QED BY <1>3, <2>4
<1>5. CASE KeyBackspace(k)
  <2>1. s.cnt # 0
    BY <1>5, Zenon DEF KeyBackspace
  <2>2. /\ Erased(s) \in LineStates
        /\ Erased(s).cnt = s.cnt - 1 /\ Erased(s).on = s.on
        /\ Erased(s).buf = [i \in DOMAIN s.buf |-> IF i = s.cnt THEN NUL ELSE s.buf[i]]
    BY <1>1, <2>1, LineStateTyped DEF Erased, LineStates
  <2>3. \A i \in 0 .. s.cnt - 2 : Erased(s).buf[i] = s.buf[i]
    BY <1>2, <2>2 DEF Buffers
  <2>4. CASE Cell(c) = 0
    <3>1. terms' = [terms EXCEPT ![t] = Erased(s)]
      BY <1>5, <2>4, Zenon DEF KeyBackspace
    <3>2. terms'[t] = Erased(s) /\ \A u \in Term \ {t} : terms'[u] = terms[u]
      BY <1>0, <3>1
    <3>3. LineErased
      BY <1>3, <2>1, <2>2, <2>3, <3>2 DEF LineErased
    <3> QED BY <1>3, <3>2, <3>3
  <2>5. CASE Cell(c) # 0
    <3>1. EchoErase(c) \in Cursors
      BY <1>1, <2>5, CursorTyped
    <3>2. Accept(Erased(s), EchoErase(c))
      BY <1>5, <2>5, Zenon DEF KeyBackspace
    <3>3. s.cnt - 1 # BUF_SIZE
      BY <1>2
    <3>4. LineErased /\ \A u \in Term \ {t} : terms'[u] = terms[u]
      BY <1>3, <2>1, <2>2, <2>3, <3>1, <3>2, <3>3, AcceptEffect DEF LineErased
    <3> QED BY <1>3, <3>4
  <2> QED BY <2>4, <2>5
<1>6. CASE KeyChar(k)
  <2> DEFINE a == Input(k)
  <2>0. a \in 0 .. 255
    BY InputTyped
  <2>1. CASE HasRoom(s)
    <3>1. /\ Stored(s, a) \in LineStates
          /\ Stored(s, a).cnt = s.cnt + 1 /\ Stored(s, a).on = s.on
          /\ Stored(s, a).buf = [i \in DOMAIN s.buf |-> IF i = s.cnt THEN a ELSE s.buf[i]]
      <4> HIDE DEF a
      <4>1. Stored(s, a) \in LineStates
        BY <1>1, <2>0, <2>1, LineStateTyped
      <4> QED BY <1>1, <4>1 DEF Stored, LineStates
    <3>2. s.cnt < BUF_SIZE
      BY <1>2, <2>1 DEF HasRoom
    <3>3. /\ \A i \in 0 .. s.cnt - 1 : Stored(s, a).buf[i] = s.buf[i]
          /\ Stored(s, a).buf[s.cnt] = a
      BY <1>2, <3>1, <3>2 DEF Buffers
    <3>4. EchoChar(c) \in Cursors
      BY <1>1, CursorTyped
    <3>5. Accept(Stored(s, a), EchoChar(c))
      BY <1>6, <2>1, Zenon DEF KeyChar
    <3> HIDE DEF a
    <3>6. /\ \A u \in Term \ {t} : terms'[u] = terms[u]
          /\ terms'[t].buf = Stored(s, a).buf /\ terms'[t].cnt = s.cnt + 1
          /\ terms'[t].on <=> s.cnt + 1 # BUF_SIZE
      BY <1>3, <3>1, <3>4, <3>5, AcceptEffect
    <3>7. LineGrown(a)
      BY <3>2, <3>3, <3>6 DEF LineGrown
    <3> QED BY <1>3, <3>6, <3>7 DEF a
  <2>2. CASE ~HasRoom(s)
    <3>1. Accept(s, c)
      BY <1>6, <2>2, Zenon DEF KeyChar
    <3>2. s.cnt = BUF_SIZE
      BY <1>2, <2>2 DEF HasRoom
    <3>3. LineClosed /\ \A u \in Term \ {t} : terms'[u] = terms[u]
      BY <1>1, <3>1, <3>2, AcceptEffect DEF LineClosed
    <3> QED BY <1>3, <3>3
  <2> QED BY <2>1, <2>2
<1> QED BY <1>4, <1>5, <1>6


-----------------------------------------------------------------------------
(* The handler never stores beyond the buffer.                              *)

\* A program is a child only if programs start children.
ChildInv == "child" \notin Calls => \A t \in Term : ~task[t].child

LEMMA RoomStep ==
    ASSUME ~("child" \in Calls /\ "reset" \in OpenAt)
    PROVE  TypeOK /\ OpenHasRoom /\ ChildInv /\ [Next]_vars => OpenHasRoom' /\ ChildInv'
<1> SUFFICES ASSUME TypeOK, OpenHasRoom, ChildInv, [Next]_vars
             PROVE  OpenHasRoom' /\ ChildInv'
  OBVIOUS
<1> USE TerminalAssumption
<1>0. /\ curr_term \in Term /\ term_on_screen \in Term /\ BUF_SIZE \in Nat /\ BUF_SIZE > 0
      /\ terms \in [Term -> LineStates] /\ task \in [Term -> Tasks]
      /\ \A t \in Term : terms[t].cnt \in 0 .. BUF_SIZE
  BY TypeParts DEF LineStates
<1>a. ASSUME /\ \A t \in Term : terms'[t].on => terms[t].on
             /\ \A t \in Term : terms'[t].cnt = terms[t].cnt \/ terms'[t].cnt = 0
             /\ \A t \in Term : task'[t].child = task[t].child
             /\ \A t \in Term : task[t].pc = "reset" /\ terms'[t].cnt # 0 => task'[t].pc = "reset"
      PROVE  OpenHasRoom' /\ ChildInv'
  BY <1>0, <1>a DEF OpenHasRoom, ChildInv
<1>1. CASE Program
  <2>1. ASSUME NEW n \in Counts, ReadEnter(n) PROVE OpenHasRoom' /\ ChildInv'
    BY <1>0, <2>1 DEF ReadEnter, OpenHasRoom, ChildInv, LineStates, Tasks
  <2>2. CASE ReadReset
    <3>1. \A t \in Term : terms'[t].on = terms[t].on
      BY <1>0, <2>2 DEF ReadReset, LineStates
    <3>2. \A t \in Term \ {curr_term} : terms'[t] = terms[t] /\ task'[t] = task[t]
      BY <1>0, <2>2 DEF ReadReset
    <3>3. terms'[curr_term].cnt = 0
      BY <1>0, <2>2 DEF ReadReset, LineStates
    <3>4. task'[curr_term].child = task[curr_term].child
      BY <1>0, <2>2 DEF ReadReset, Tasks
    <3> QED BY <1>0, <3>1, <3>2, <3>3, <3>4, <1>a
  <2>3. CASE ReadFill
    BY <1>0, <2>3, <1>a DEF ReadFill, At, LineStates, Tasks
  <2>4. CASE ReadWait
    BY <1>0, <2>4, <1>a DEF ReadWait, At, LineStates, Tasks
  <2>5. CASE ReadWake
    BY <1>0, <2>5, <1>a DEF ReadWake, At, Goto, LineStates, Tasks
  <2>6. CASE ReadReturn
    <3>1. \A t \in Term : terms'[t].on = terms[t].on /\ terms'[t].cnt = terms[t].cnt
      BY <1>0, <2>6 DEF ReadReturn, LineStates
    <3>2. \A t \in Term \ {curr_term} : task'[t] = task[t]
      BY <1>0, <2>6 DEF ReadReturn
    <3>3. task[curr_term].pc = "woken"
      BY <2>6 DEF ReadReturn, At
    <3>4. task'[curr_term].child = task[curr_term].child
      BY <1>0, <2>6 DEF ReadReturn, Tasks
    <3> QED BY <1>0, <3>1, <3>2, <3>3, <3>4, <1>a
  <2>7. ASSUME NEW text \in Texts, Write(text) PROVE OpenHasRoom' /\ ChildInv'
    BY <1>0, <2>7, <1>a DEF Write, Moved, LineStates, Tasks
  <2>8. CASE Clear
    BY <1>0, <2>8, <1>a DEF Clear, Moved, LineStates, Tasks
  <2>9. CASE Child
    BY <1>0, <2>9 DEF Child, OpenHasRoom, ChildInv, LineStates, Tasks
  <2> QED BY <1>1, <2>1, <2>2, <2>3, <2>4, <2>5, <2>6, <2>7, <2>8, <2>9 DEF Program
<1>2. ASSUME NEW k \in Scancodes, Key(k) PROVE OpenHasRoom' /\ ChildInv'
  <2>1. CASE KeyModifier(k) \/ KeySwitch(k)
    BY <2>1, <1>a DEF KeyModifier, KeySwitch
  <2>2. CASE KeyClear(k)
    BY <1>0, <2>2, <1>a DEF KeyClear, LineStates
  <2>3. CASE KeyInterruptChild(k)
    <3>1. "child" \in Calls /\ task[curr_term].pc # "reset"
      BY <1>0, <2>3 DEF KeyInterruptChild, Interruptible, ChildInv
    <3>2. terms' = terms /\ \A t \in Term : task'[t] = task[t] \/ t = curr_term
      BY <1>0, <2>3 DEF KeyInterruptChild
    <3> QED BY <1>0, <3>1, <3>2 DEF OpenHasRoom, ChildInv
  <2>4. CASE KeyInterruptShell(k)
    <3> DEFINE f == [terms EXCEPT ![curr_term] = Moved(@, puts(Cur(curr_term), ARCHITECT))]
    <3>1. task' = task /\ terms' = [f EXCEPT ![term_on_screen].on = FALSE]
      BY <2>4, Zenon DEF KeyInterruptShell
    <3>2. /\ DOMAIN f = Term
          /\ \A t \in Term : f[t].on = terms[t].on /\ f[t].cnt = terms[t].cnt
      BY <1>0 DEF Moved, LineStates
    <3>3. \A t \in Term : (terms'[t].on => f[t].on) /\ terms'[t].cnt = f[t].cnt
      <4> HIDE DEF f
      <4>1. terms'[term_on_screen] = [f[term_on_screen] EXCEPT !.on = FALSE]
        BY <1>0, <3>1, <3>2
      <4>2. \A t \in Term \ {term_on_screen} : terms'[t] = f[t]
        BY <1>0, <3>1, <3>2
      <4>3. terms'[term_on_screen].cnt = f[term_on_screen].cnt
        BY <4>1
      <4>4. terms'[term_on_screen].on => f[term_on_screen].on
        BY <4>1, <3>2, <1>0 DEF LineStates
      <4> QED BY <4>2, <4>3, <4>4
    <3> HIDE DEF f
    <3> QED BY <1>0, <3>1, <3>2, <3>3, <1>a
  <2>5. CASE KeyEnter(k) \/ KeyBackspace(k) \/ KeyChar(k)
    <3>1. /\ task' = task
          /\ \A u \in Term \ {term_on_screen} : terms'[u] = terms[u]
          /\ LineClosed \/ LineErased \/ LineGrown(Input(k))
      BY <2>5, KeyEffect
    <3>2. terms'[term_on_screen].on => terms'[term_on_screen].cnt < BUF_SIZE
      BY <1>0, <3>1 DEF LineClosed, LineErased, LineGrown
    <3> QED BY <1>0, <3>1, <3>2 DEF OpenHasRoom, ChildInv
  <2> QED BY <1>2, <2>1, <2>2, <2>3, <2>4, <2>5 DEF Key
<1>3. ASSUME NEW t \in Term, Tick(t) PROVE OpenHasRoom' /\ ChildInv'
  BY <1>3, <1>a DEF Tick
<1>4. CASE Spin \/ UNCHANGED vars
  BY <1>4, <1>a DEF Spin, vars
<1> QED BY <1>1, <1>2, <1>3, <1>4 DEF Next

\* A terminal whose read is open has room for one more character, so the keyboard
\* handler never stores one beyond the line buffer, for every buffer size and
\* wherever interrupts land, unless Ctrl-C stops a child in the first
\* instructions of terminal_read, before it has reset the count.
THEOREM BufferNeverOverrun ==
    ASSUME ~("child" \in Calls /\ "reset" \in OpenAt)
    PROVE  Spec => []OpenHasRoom
<1>1. Init => OpenHasRoom /\ ChildInv
  BY DEF Init, OpenHasRoom, ChildInv
<1> QED BY <1>1, TypeInit, TypeStep, RoomStep, PTL DEF Spec


-----------------------------------------------------------------------------
(* Backspace never leaves the page.                                         *)

\* The first cell of the last row.
LastRow == (NUM_ROWS - 1) * NUM_COLS

\* A cursor has moved from cell a to cell b: on, or to the last row when the page
\* scrolled.  Either way a line before the one is before the other.
NotBefore(a, b) == a <= b \/ LastRow <= b

LEMMA CellMoves ==
    ASSUME NEW c \in Cursors
    PROVE  /\ Cell(c) \in Nat
           /\ NotBefore(Cell(c), Cell(Newline(c)))
           /\ NotBefore(Cell(c), Cell(PutcChar(c)))
           /\ NotBefore(Cell(c), Cell(EchoFull(c)))
           /\ NotBefore(Cell(c) + 1, Cell(EchoChar(c)))
           /\ Cell(c) # 0 => Cell(EchoErase(c)) = Cell(c) - 1
<1> USE ScreenAssumption
<1>0. c.x \in 0 .. NUM_COLS - 1 /\ c.y \in Nat
  BY DEF Cursors
<1>1. /\ c.y * NUM_COLS \in Nat
      /\ (c.y + 1) * NUM_COLS = c.y * NUM_COLS + NUM_COLS
      /\ (c.y - 1) * NUM_COLS = c.y * NUM_COLS - NUM_COLS
  BY <1>0
<1>2. Cell(c) \in Nat /\ Cell(c) = c.y * NUM_COLS + c.x
  BY <1>0, <1>1 DEF Cell
<1>3. \/ Newline(c).x = 0 /\ Newline(c).y = c.y /\ c.y + 1 = NUM_ROWS
      \/ Newline(c).x = 0 /\ Newline(c).y = c.y + 1
  BY DEF Newline, Cursors
<1>4. Cell(Newline(c)) = (c.y + 1) * NUM_COLS \/ LastRow <= Cell(Newline(c))
  BY <1>0, <1>1, <1>3 DEF Cell, LastRow
<1>5. NotBefore(Cell(c), Cell(Newline(c)))
  BY <1>0, <1>1, <1>2, <1>4 DEF NotBefore
<1>6. NotBefore(Cell(c) + 1, Cell(EchoChar(c)))
  <2>1. CASE c.x + 1 = NUM_COLS
    <3>1. EchoChar(c) = Newline(c)
      BY <2>1 DEF EchoChar
    <3> QED BY <1>0, <1>1, <1>2, <1>4, <2>1, <3>1 DEF NotBefore
  <2>2. CASE c.x + 1 # NUM_COLS
    <3>1. EchoChar(c).x = c.x + 1 /\ EchoChar(c).y = c.y
      BY <2>2 DEF EchoChar, Cursors
    <3> QED BY <1>0, <1>1, <1>2, <3>1 DEF NotBefore, Cell
  <2> QED BY <2>1, <2>2
<1>7. NotBefore(Cell(c), Cell(PutcChar(c)))
  <2>1. \/ PutcChar(c).x = c.x + 1 /\ PutcChar(c).y = c.y
        \/ PutcChar(c).x = 0 /\ PutcChar(c).y = c.y + 1
    BY <1>0 DEF PutcChar, Cursors
  <2> QED BY <1>0, <1>1, <1>2, <2>1 DEF NotBefore, Cell
<1>8. NotBefore(Cell(c), Cell(EchoFull(c)))
  <2>1. CASE c.y < NUM_ROWS - 1
    <3>1. EchoFull(c).x = 0 /\ EchoFull(c).y = c.y + 1
      BY <2>1 DEF EchoFull, Cursors
    <3> QED BY <1>0, <1>1, <1>2, <3>1 DEF NotBefore, Cell
  <2>2. CASE ~(c.y < NUM_ROWS - 1)
    <3>1. EchoFull(c).x = 0 /\ EchoFull(c).y = c.y
      BY <2>2 DEF EchoFull, Cursors
    <3>2. NUM_ROWS - 1 \in Nat /\ NUM_ROWS - 1 <= c.y
      BY <1>0, <2>2
    <3>3. LastRow <= c.y * NUM_COLS
      BY <1>0, <3>2, ProductGrows DEF LastRow
    <3> QED BY <1>1, <3>1, <3>3 DEF NotBefore, Cell
  <2> QED BY <2>1, <2>2
<1>9. Cell(c) # 0 => Cell(EchoErase(c)) = Cell(c) - 1
  <2> SUFFICES ASSUME Cell(c) # 0 PROVE Cell(EchoErase(c)) = Cell(c) - 1
    OBVIOUS
  <2>1. CASE c.x = 0 /\ c.y # 0
    <3>1. EchoErase(c).x = NUM_COLS - 1 /\ EchoErase(c).y = c.y - 1
      BY <2>1 DEF EchoErase, Cursors
    <3> QED BY <1>0, <1>1, <1>2, <2>1, <3>1 DEF Cell
  <2>2. CASE ~(c.x = 0 /\ c.y # 0)
    <3>1. EchoErase(c).x = c.x - 1 /\ EchoErase(c).y = c.y
      BY <2>2 DEF EchoErase, Cursors
    <3> QED BY <1>0, <1>1, <1>2, <3>1 DEF Cell
  <2> QED BY <2>1, <2>2
<1> QED BY <1>2, <1>5, <1>6, <1>7, <1>8, <1>9

LEMMA PutsMoves ==
    ASSUME NEW c \in Cursors, NEW text \in Seq({"c", "nl"})
    PROVE  NotBefore(Cell(c), Cell(puts(c, text)))
<1>1. PICK f \in [0 .. Len(text) -> Cursors] :
             /\ f[0] = c
             /\ \A i \in 1 .. Len(text) : f[i] = putc(f[i - 1], text[i])
             /\ puts(c, text) = f[Len(text)]
  BY PutsSteps
<1> DEFINE n == Len(text)
           S == {i \in 0 .. n : NotBefore(Cell(c), Cell(f[i]))}
<1>2. n \in Nat /\ LastRow \in Int
  BY ScreenAssumption DEF LastRow
<1>3. 0 \in S
  BY <1>1, <1>2, CellMoves DEF NotBefore
<1>4. ASSUME NEW i \in 0 .. n - 1, i \in S PROVE i + 1 \in S
  <2>1. i + 1 \in 1 .. n /\ (i + 1) - 1 = i /\ i + 1 \in 0 .. n /\ i \in 0 .. n
    BY <1>2
  <2>2. f[i + 1] = Newline(f[i]) \/ f[i + 1] = PutcChar(f[i])
    BY <1>1, <2>1 DEF putc
  <2>3. f[i] \in Cursors /\ f[i + 1] \in Cursors
    BY <1>1, <2>1
  <2>4. NotBefore(Cell(f[i]), Cell(f[i + 1]))
    BY <2>2, <2>3, CellMoves
  <2>5. Cell(c) \in Nat /\ Cell(f[i]) \in Nat /\ Cell(f[i + 1]) \in Nat
    BY <2>3, CellMoves
  <2>6. NotBefore(Cell(c), Cell(f[i + 1]))
    BY <1>2, <1>4, <2>4, <2>5 DEF NotBefore
  <2> QED BY <2>1, <2>6
<1>5. 0 .. n \subseteq S
  <2> HIDE DEF S, n
  <2> QED BY <1>2, <1>3, <1>4, SegmentInduction
<1>6. n \in S
  BY <1>2, <1>5
<1> QED BY <1>1, <1>6


\* A line's characters are on the page, whether or not its read is open.
CountOnPage == \A t \in Term : terms[t].cnt <= Cell(Cur(t))
OnPage(s) == s.cnt <= s.y * NUM_COLS + s.x

LEMMA OnPageMoves ==
    ASSUME NEW n \in 0 .. BUF_SIZE, NEW a \in Nat, NEW b \in Nat, n <= a, NotBefore(a, b)
    PROVE  n <= b
<1>1. BUF_SIZE <= LastRow /\ BUF_SIZE \in Nat /\ LastRow \in Int
  BY TerminalAssumption, ScreenAssumption DEF LastRow
<1> QED BY <1>1 DEF NotBefore

\* What the handler leaves after any accepted key.
LEMMA AcceptOnPage ==
    ASSUME TypeOK, NEW s \in LineStates, NEW c \in Cursors, Accept(s, c), s.cnt <= Cell(c)
    PROVE  OnPage(terms'[term_on_screen])
<1>1. s.cnt \in 0 .. BUF_SIZE /\ CursorAfter(s, c) \in Cursors /\ EchoFull(c) \in Cursors
  BY CursorTyped, Zenon DEF CursorAfter, LineStates
<1>2. s.cnt <= Cell(CursorAfter(s, c))
  <2>1. CASE s.cnt = BUF_SIZE
    <3>1. CursorAfter(s, c) = EchoFull(c)
      BY <2>1 DEF CursorAfter
    <3>2. NotBefore(Cell(c), Cell(EchoFull(c))) /\ Cell(c) \in Nat /\ Cell(EchoFull(c)) \in Nat
      BY <1>1, CellMoves
    <3> QED BY <1>1, <3>1, <3>2, OnPageMoves
  <2>2. CASE s.cnt # BUF_SIZE
    BY <2>2 DEF CursorAfter
  <2> QED BY <2>1, <2>2
<1>3. /\ terms'[term_on_screen].cnt = s.cnt
      /\ terms'[term_on_screen].x = CursorAfter(s, c).x
      /\ terms'[term_on_screen].y = CursorAfter(s, c).y
      /\ term_on_screen \in Term
  BY AcceptEffect, TypeParts
<1>4. terms'[term_on_screen].y * NUM_COLS + terms'[term_on_screen].x = Cell(CursorAfter(s, c))
  BY <1>3 DEF Cell
<1> QED BY <1>2, <1>3, <1>4 DEF OnPage

LEMMA OnPageStep ==
    ASSUME "clear" \notin Calls
    PROVE  TypeOK /\ CountOnPage /\ [Next]_vars => CountOnPage'
<1> SUFFICES ASSUME TypeOK, CountOnPage, [Next]_vars PROVE CountOnPage'
  OBVIOUS
<1> USE TerminalAssumption
<1> DEFINE scr == term_on_screen
<1>0. /\ curr_term \in Term /\ scr \in Term /\ terms \in [Term -> LineStates]
      /\ task \in [Term -> Tasks]
  BY TypeParts
<1>1. \A t \in Term : /\ terms[t].cnt \in 0 .. BUF_SIZE /\ Cur(t) \in Cursors
                      /\ Cell(Cur(t)) \in Nat
                      /\ terms[t].cnt <= Cell(Cur(t))
  BY CurTyped, CellMoves DEF LineStates, CountOnPage
<1>2. /\ CountOnPage <=> \A t \in Term : OnPage(terms[t])
      /\ CountOnPage' <=> \A t \in Term : OnPage(terms'[t])
  BY DEF CountOnPage, OnPage, Cell, Cur, Cursor
<1>3. ASSUME \A t \in Term : \/ terms'[t].cnt = terms[t].cnt \/ terms'[t].cnt = 0,
             \A t \in Term : terms'[t].x = terms[t].x /\ terms'[t].y = terms[t].y
      PROVE  CountOnPage'
  <2> SUFFICES ASSUME NEW t \in Term PROVE OnPage(terms'[t])
    BY <1>2
  <2>1. Cell(Cur(t)) = terms'[t].y * NUM_COLS + terms'[t].x
    BY <1>3 DEF Cell, Cur, Cursor
  <2> QED BY <1>1, <1>3, <2>1 DEF OnPage
\* Text written on terminal u.
<1>4. ASSUME NEW u \in Term, NEW text \in Seq({"c", "nl"})
      PROVE  OnPage(Moved(terms[u], puts(Cur(u), text)))
  <2> DEFINE d == puts(Cur(u), text)
  <2>1. d \in Cursors /\ NotBefore(Cell(Cur(u)), Cell(d)) /\ Cell(d) \in Nat
    BY <1>1, PutsTyped, PutsMoves, CellMoves
  <2>2. terms[u].cnt <= Cell(d)
    BY <1>1, <2>1, OnPageMoves
  <2> HIDE DEF d
  <2>3. /\ Moved(terms[u], d).cnt = terms[u].cnt
        /\ Moved(terms[u], d).x = d.x /\ Moved(terms[u], d).y = d.y
    BY <1>0 DEF Moved, LineStates
  <2> QED BY <2>2, <2>3 DEF OnPage, Cell, d
<1>5. CASE Program
  <2>1. ASSUME NEW n \in Counts, ReadEnter(n) PROVE CountOnPage'
    BY <1>0, <1>3, <2>1 DEF ReadEnter, LineStates
  <2>2. CASE ReadReset
    BY <1>0, <1>3, <2>2 DEF ReadReset, LineStates
  <2>3. CASE ReadFill
    BY <1>0, <1>3, <2>3 DEF ReadFill, LineStates
  <2>4. CASE ReadWait \/ ReadWake \/ Child
    BY <1>3, <2>4 DEF ReadWait, ReadWake, Child
  <2>5. CASE ReadReturn
    BY <1>0, <1>3, <2>5 DEF ReadReturn, LineStates
  <2>6. ASSUME NEW text \in Texts, Write(text) PROVE CountOnPage'
    <3>1. terms' = [terms EXCEPT ![curr_term] = Moved(terms[curr_term], puts(Cur(curr_term), text))]
      BY <2>6, Zenon DEF Write
    <3>2. /\ terms'[curr_term] = Moved(terms[curr_term], puts(Cur(curr_term), text))
          /\ \A t \in Term \ {curr_term} : terms'[t] = terms[t]
      BY <1>0, <3>1, Zenon
    <3>3. OnPage(terms'[curr_term])
      BY <1>0, <1>4, <3>2
    <3> QED BY <1>2, <3>2, <3>3
  <2> QED BY <1>5, <2>1, <2>2, <2>3, <2>4, <2>5, <2>6 DEF Program, Clear
<1>6. ASSUME NEW k \in Scancodes, Key(k) PROVE CountOnPage'
  <2>0. ASSUME OnPage(terms'[scr]), \A t \in Term \ {scr} : terms'[t] = terms[t]
        PROVE  CountOnPage'
    BY <1>2, <2>0
  <2>1. CASE KeyModifier(k) \/ KeySwitch(k) \/ KeyInterruptChild(k)
    BY <1>3, <2>1 DEF KeyModifier, KeySwitch, KeyInterruptChild
  <2>2. CASE KeyClear(k)
    <3>1. /\ terms'[scr].cnt = 0 /\ terms'[scr].x = 0 /\ terms'[scr].y = 0
          /\ \A t \in Term \ {scr} : terms'[t] = terms[t]
      BY <1>0, <2>2 DEF KeyClear
    <3>2. 0 * NUM_COLS + 0 = 0
      BY ScreenAssumption
    <3> QED BY <2>0, <3>1, <3>2 DEF OnPage
  <2>3. CASE KeyInterruptShell(k)
    <3> DEFINE f == [terms EXCEPT ![curr_term] = Moved(@, puts(Cur(curr_term), ARCHITECT))]
    <3>1. terms' = [f EXCEPT ![scr].on = FALSE]
      BY <2>3, Zenon DEF KeyInterruptShell
    <3>2. /\ DOMAIN f = Term
          /\ f[curr_term] = Moved(terms[curr_term], puts(Cur(curr_term), ARCHITECT))
          /\ \A t \in Term \ {curr_term} : f[t] = terms[t]
      BY <1>0
    <3>3. \A t \in Term : OnPage(f[t])
      BY <1>0, <1>2, <1>4, <3>2
    <3> HIDE DEF f
    <3>4. terms'[scr] = [f[scr] EXCEPT !.on = FALSE] /\ \A t \in Term \ {scr} : terms'[t] = f[t]
      BY <1>0, <3>1, <3>2
    <3>5. OnPage(terms'[scr])
      <4>1. /\ terms'[scr].cnt = f[scr].cnt /\ terms'[scr].x = f[scr].x
            /\ terms'[scr].y = f[scr].y
        BY <3>4
      <4> QED BY <1>0, <3>3, <4>1 DEF OnPage
    <3> QED BY <1>2, <3>3, <3>4, <3>5
  <2> DEFINE s == terms[scr]
             c == Cur(scr)
  <2>4. s \in LineStates /\ c \in Cursors /\ s.cnt \in 0 .. BUF_SIZE /\ s.cnt <= Cell(c)
        /\ Cell(c) \in Nat
    BY <1>0, <1>1
  <2>5. CASE KeyEnter(k)
    <3>1. [s EXCEPT !.on = FALSE] \in LineStates /\ Newline(c) \in Cursors
      BY <2>4, LineStateTyped, CursorTyped
    <3>2. s.cnt <= Cell(Newline(c))
      BY <2>4, <3>1, CellMoves, OnPageMoves
    <3>3. [s EXCEPT !.on = FALSE].cnt = s.cnt
      BY <2>4 DEF LineStates
    <3>4. Accept([s EXCEPT !.on = FALSE], Newline(c))
      BY <2>5, Zenon DEF KeyEnter
    <3> QED BY <2>0, <3>1, <3>2, <3>3, <3>4, AcceptOnPage, AcceptEffect
  <2>6. CASE KeyBackspace(k)
    <3>1. s.cnt # 0
      BY <2>6, Zenon DEF KeyBackspace
    <3>2. Cell(c) # 0
      BY <2>4, <3>1
    <3>3. /\ Erased(s) \in LineStates /\ EchoErase(c) \in Cursors
          /\ Cell(EchoErase(c)) = Cell(c) - 1
      BY <2>4, <3>1, <3>2, LineStateTyped, CursorTyped, CellMoves
    <3>4. Erased(s).cnt = s.cnt - 1
      BY <2>4 DEF Erased, LineStates
    <3>5. Accept(Erased(s), EchoErase(c))
      BY <2>6, <3>2, Zenon DEF KeyBackspace
    <3>6. Erased(s).cnt <= Cell(EchoErase(c))
      BY <2>4, <3>3, <3>4
    <3> QED BY <2>0, <3>3, <3>5, <3>6, AcceptOnPage, AcceptEffect
  <2>7. CASE KeyChar(k)
    <3>1. CASE HasRoom(s)
      <4>1. Input(k) \in 0 .. 255
        BY InputTyped
      <4>2. Stored(s, Input(k)) \in LineStates /\ EchoChar(c) \in Cursors
        BY <2>4, <3>1, <4>1, LineStateTyped, CursorTyped
      <4>3. NotBefore(Cell(c) + 1, Cell(EchoChar(c))) /\ Cell(EchoChar(c)) \in Nat
        BY <2>4, <4>2, CellMoves
      <4>4. s.cnt + 1 \in 0 .. BUF_SIZE /\ s.cnt + 1 <= Cell(c) + 1 /\ Cell(c) + 1 \in Nat
        BY <2>4, <3>1 DEF HasRoom
      <4>5. s.cnt + 1 <= Cell(EchoChar(c))
        BY <4>3, <4>4, OnPageMoves
      <4>6. Stored(s, Input(k)).cnt = s.cnt + 1
        BY <2>4 DEF Stored, LineStates
      <4>7. Accept(Stored(s, Input(k)), EchoChar(c))
        BY <2>7, <3>1, Zenon DEF KeyChar
      <4> QED BY <2>0, <4>2, <4>5, <4>6, <4>7, AcceptOnPage, AcceptEffect
    <3>2. CASE ~HasRoom(s)
      <4>1. Accept(s, c)
        BY <2>7, <3>2, Zenon DEF KeyChar
      <4> QED BY <2>0, <2>4, <4>1, AcceptOnPage, AcceptEffect
    <3> QED BY <3>1, <3>2
  <2> QED BY <1>6, <2>1, <2>2, <2>3, <2>5, <2>6, <2>7 DEF Key
<1>7. ASSUME NEW t \in Term, Tick(t) PROVE CountOnPage'
  BY <1>3, <1>7 DEF Tick
<1>8. CASE Spin \/ UNCHANGED vars
  BY <1>3, <1>8 DEF Spin, vars
<1> QED BY <1>5, <1>6, <1>7, <1>8 DEF Next

\* Erasing a whole line never leaves the page, so Backspace cannot fault: for
\* every screen and line buffer that fits it, whatever programs write and wherever
\* interrupts land, Ctrl-C and terminal switches included.  Only the command
\* "clear", which moves the cursor of the terminal on screen whoever runs it, is
\* excluded.
THEOREM BackspaceOnPage ==
    ASSUME "clear" \notin Calls
    PROVE  Spec => []LineOnPage
<1>1. Init => CountOnPage
  <2> SUFFICES ASSUME Init PROVE CountOnPage
    OBVIOUS
  <2>1. \A t \in Term : terms[t].cnt = 0 /\ Cell(Cur(t)) = 0
    BY ScreenAssumption DEF Init, Cell, Cur, Cursor
  <2> QED BY <2>1 DEF CountOnPage
<1>2. CountOnPage => LineOnPage
  BY DEF CountOnPage, LineOnPage
<1> QED BY <1>1, <1>2, TypeInit, TypeStep, OnPageStep, PTL DEF Spec

-----------------------------------------------------------------------------
(* The cursor stays on the screen.                                          *)

\* Every line of text is begun by a newline and shorter than a row of the screen.
LinesFit(text) ==
    \A i \in 1 .. Len(text) : \E j \in 1 .. i : text[j] = "nl" /\ i - j < NUM_COLS

OnScreen(c) == c.y \in 0 .. NUM_ROWS - 1

LEMMA EchoOnScreen ==
    ASSUME NEW c \in Cursors, OnScreen(c)
    PROVE  /\ OnScreen(Newline(c)) /\ Newline(c).x = 0
           /\ OnScreen(EchoChar(c)) /\ OnScreen(EchoFull(c))
           /\ Cell(c) # 0 => OnScreen(EchoErase(c))
           /\ c.x + 1 # NUM_COLS => OnScreen(PutcChar(c)) /\ PutcChar(c).x = c.x + 1
<1> USE ScreenAssumption
<1>0. c.x \in 0 .. NUM_COLS - 1 /\ c.y \in Nat /\ c.y \in 0 .. NUM_ROWS - 1
  BY DEF Cursors, OnScreen
<1>1. Newline(c).x = 0 /\ Newline(c).y \in 0 .. NUM_ROWS - 1
  BY <1>0 DEF Newline, Cursors
<1>2. EchoChar(c).y = Newline(c).y \/ EchoChar(c).y = c.y
  BY DEF EchoChar, Cursors
<1>3. EchoFull(c).y \in 0 .. NUM_ROWS - 1
  BY <1>0 DEF EchoFull, Cursors
<1>4. (EchoErase(c).y = c.y - 1 /\ c.y # 0) \/ EchoErase(c).y = c.y
  BY <1>0 DEF EchoErase, Cursors
<1>5. c.x + 1 # NUM_COLS => (PutcChar(c).y = c.y /\ PutcChar(c).x = c.x + 1)
  BY DEF PutcChar, Cursors
<1> QED BY <1>0, <1>1, <1>2, <1>3, <1>4, <1>5 DEF OnScreen

\* A text that fits is written without wrapping, so putc never leaves the rows.
LEMMA PutsOnScreen ==
    ASSUME NEW c \in Cursors, NEW text \in Seq({"c", "nl"}), OnScreen(c), LinesFit(text)
    PROVE  OnScreen(puts(c, text))
<1>1. PICK f \in [0 .. Len(text) -> Cursors] :
             /\ f[0] = c
             /\ \A i \in 1 .. Len(text) : f[i] = putc(f[i - 1], text[i])
             /\ puts(c, text) = f[Len(text)]
  BY PutsSteps
<1> DEFINE n == Len(text)
           S == {i \in 0 .. n : /\ OnScreen(f[i])
                                /\ \A j \in 1 .. i : text[j] = "nl" => f[i].x <= i - j}
<1>2. n \in Nat /\ NUM_COLS \in Nat
  BY ScreenAssumption
<1>3. 0 \in S
  BY <1>1, <1>2
<1>4. ASSUME NEW i \in 0 .. n - 1, i \in S PROVE i + 1 \in S
  <2>1. i + 1 \in 1 .. n /\ (i + 1) - 1 = i /\ i + 1 \in 0 .. n /\ i \in 0 .. n
    BY <1>2
  <2>2. f[i + 1] = putc(f[i], text[i + 1]) /\ f[i] \in Cursors /\ f[i].x \in Nat
    BY <1>1, <2>1 DEF Cursors
  <2>3. OnScreen(f[i]) /\ \A j \in 1 .. i : text[j] = "nl" => f[i].x <= i - j
    BY <1>4
  <2>4. CASE text[i + 1] = "nl"
    <3>1. OnScreen(f[i + 1]) /\ f[i + 1].x = 0
      BY <2>2, <2>3, <2>4, EchoOnScreen DEF putc
    <3> QED BY <2>1, <3>1
  <2>5. CASE text[i + 1] # "nl"
    <3>1. PICK j \in 1 .. i + 1 : text[j] = "nl" /\ (i + 1) - j < NUM_COLS
      BY <2>1 DEF LinesFit
    <3>2. j \in 1 .. i /\ f[i].x <= i - j
      BY <2>3, <2>5, <3>1
    <3>3. f[i].x + 1 # NUM_COLS
      BY <1>2, <2>2, <3>1, <3>2
    <3>4. OnScreen(f[i + 1]) /\ f[i + 1].x = f[i].x + 1
      BY <2>2, <2>3, <2>5, <3>3, EchoOnScreen DEF putc
    <3>5. \A m \in 1 .. i + 1 : text[m] = "nl" => f[i + 1].x <= (i + 1) - m
      BY <2>2, <2>3, <2>5, <3>4
    <3> QED BY <2>1, <3>4, <3>5
  <2> QED BY <2>4, <2>5
<1>5. 0 .. n \subseteq S
  <2> HIDE DEF S, n
  <2> QED BY <1>2, <1>3, <1>4, SegmentInduction
<1>6. n \in S
  BY <1>2, <1>5
<1> QED BY <1>1, <1>6

\* What programs write fits, and so does what Ctrl-C prints if it can be typed.
OutputFits == /\ \A text \in Texts : LinesFit(text)
              /\ 46 \in Scancodes => LinesFit(ARCHITECT)

LEMMA OnScreenStep ==
    ASSUME "clear" \notin Calls, OutputFits
    PROVE  TypeOK /\ CountOnPage /\ CursorOnScreen /\ [Next]_vars => CursorOnScreen'
<1> SUFFICES ASSUME TypeOK, CountOnPage, CursorOnScreen, [Next]_vars PROVE CursorOnScreen'
  OBVIOUS
<1> USE TerminalAssumption
<1> DEFINE scr == term_on_screen
<1>0. /\ curr_term \in Term /\ scr \in Term /\ terms \in [Term -> LineStates]
      /\ task \in [Term -> Tasks] /\ 0 \in 0 .. NUM_ROWS - 1
  BY TypeParts, ScreenAssumption
<1>1. \A t \in Term : Cur(t) \in Cursors /\ OnScreen(Cur(t))
  BY CurTyped DEF CursorOnScreen, OnScreen, Cur, Cursor
<1>2. ASSUME NEW u \in Term, terms'[u].y \in 0 .. NUM_ROWS - 1,
             \A t \in Term \ {u} : terms'[t].y = terms[t].y
      PROVE  CursorOnScreen'
  BY <1>2 DEF CursorOnScreen
<1>3. ASSUME \A t \in Term : terms'[t].y = terms[t].y
      PROVE  CursorOnScreen'
  BY <1>3 DEF CursorOnScreen
<1>4. ASSUME NEW u \in Term, NEW text \in Seq({"c", "nl"}), LinesFit(text)
      PROVE  Moved(terms[u], puts(Cur(u), text)).y \in 0 .. NUM_ROWS - 1
  <2>1. puts(Cur(u), text).y \in 0 .. NUM_ROWS - 1
    BY <1>1, <1>4, PutsOnScreen DEF OnScreen
  <2> QED BY <1>0, <2>1 DEF Moved, LineStates
<1>5. CASE Program
  <2>1. ASSUME NEW n \in Counts, ReadEnter(n) PROVE CursorOnScreen'
    BY <1>0, <1>3, <2>1 DEF ReadEnter, LineStates
  <2>2. CASE ReadReset
    BY <1>0, <1>3, <2>2 DEF ReadReset, LineStates
  <2>3. CASE ReadFill
    BY <1>0, <1>3, <2>3 DEF ReadFill, LineStates
  <2>4. CASE ReadWait \/ ReadWake \/ Child
    BY <1>3, <2>4 DEF ReadWait, ReadWake, Child
  <2>5. CASE ReadReturn
    BY <1>0, <1>3, <2>5 DEF ReadReturn, LineStates
  <2>6. ASSUME NEW text \in Texts, Write(text) PROVE CursorOnScreen'
    <3>1. terms' = [terms EXCEPT ![curr_term] = Moved(terms[curr_term], puts(Cur(curr_term), text))]
      BY <2>6, Zenon DEF Write
    <3>2. /\ terms'[curr_term] = Moved(terms[curr_term], puts(Cur(curr_term), text))
          /\ \A t \in Term \ {curr_term} : terms'[t] = terms[t]
      BY <1>0, <3>1, Zenon
    <3>3. terms'[curr_term].y \in 0 .. NUM_ROWS - 1
      BY <1>0, <1>4, <3>2 DEF OutputFits
    <3> QED BY <1>0, <1>2, <3>2, <3>3
  <2> QED BY <1>5, <2>1, <2>2, <2>3, <2>4, <2>5, <2>6 DEF Program, Clear
<1>6. ASSUME NEW k \in Scancodes, Key(k) PROVE CursorOnScreen'
  <2> DEFINE s == terms[scr]
             c == Cur(scr)
  <2>0. s \in LineStates /\ c \in Cursors /\ OnScreen(c)
    BY <1>0, <1>1
  <2>1. CASE KeyModifier(k) \/ KeySwitch(k) \/ KeyInterruptChild(k)
    BY <1>3, <2>1 DEF KeyModifier, KeySwitch, KeyInterruptChild
  <2>2. CASE KeyClear(k)
    <3>1. terms'[scr].y = 0 /\ \A t \in Term \ {scr} : terms'[t] = terms[t]
      BY <1>0, <2>2 DEF KeyClear
    <3> QED BY <1>0, <1>2, <3>1
  <2>3. CASE KeyInterruptShell(k)
    <3> DEFINE f == [terms EXCEPT ![curr_term] = Moved(@, puts(Cur(curr_term), ARCHITECT))]
    <3>0. LinesFit(ARCHITECT)
      BY <2>3 DEF KeyInterruptShell, IsInterruptKey, OutputFits
    <3>1. terms' = [f EXCEPT ![scr].on = FALSE]
      BY <2>3, Zenon DEF KeyInterruptShell
    <3>2. /\ DOMAIN f = Term
          /\ f[curr_term] = Moved(terms[curr_term], puts(Cur(curr_term), ARCHITECT))
          /\ \A t \in Term \ {curr_term} : f[t] = terms[t]
      BY <1>0
    <3>3. f[curr_term].y \in 0 .. NUM_ROWS - 1
      BY <1>0, <1>4, <3>0, <3>2
    <3> HIDE DEF f
    <3>4. terms'[scr] = [f[scr] EXCEPT !.on = FALSE] /\ \A t \in Term \ {scr} : terms'[t] = f[t]
      BY <1>0, <3>1, <3>2
    <3>5. terms'[scr].y = f[scr].y
      BY <3>4
    <3>6. \A t \in Term : terms'[t].y = f[t].y
      BY <3>4, <3>5
    <3> QED BY <1>0, <1>2, <3>2, <3>3, <3>6
  \* Whatever an accepted key leaves, the newline of a full buffer included.
  <2>4. ASSUME NEW r \in LineStates, NEW d \in Cursors, OnScreen(d), Accept(r, d)
        PROVE  CursorOnScreen'
    <3>1. OnScreen(CursorAfter(r, d))
      BY <2>4, EchoOnScreen DEF CursorAfter
    <3>2. terms'[scr].y \in 0 .. NUM_ROWS - 1 /\ \A t \in Term \ {scr} : terms'[t] = terms[t]
      BY <2>4, <3>1, AcceptEffect DEF OnScreen
    <3> QED BY <1>0, <1>2, <3>2
  <2>5. CASE KeyEnter(k)
    <3>1. [s EXCEPT !.on = FALSE] \in LineStates /\ Newline(c) \in Cursors /\ OnScreen(Newline(c))
      BY <2>0, LineStateTyped, CursorTyped, EchoOnScreen
    <3>2. Accept([s EXCEPT !.on = FALSE], Newline(c))
      BY <2>5, Zenon DEF KeyEnter
    <3> QED BY <2>4, <3>1, <3>2
  <2>6. CASE KeyBackspace(k)
    <3>1. s.cnt # 0
      BY <2>6, Zenon DEF KeyBackspace
    <3>2. Cell(c) # 0
      <4>1. s.cnt \in 0 .. BUF_SIZE /\ s.cnt <= Cell(c) /\ Cell(c) \in Nat
        BY <1>0, <2>0, CellMoves DEF CountOnPage, LineStates
      <4> QED BY <3>1, <4>1
    <3>3. /\ Erased(s) \in LineStates /\ EchoErase(c) \in Cursors
          /\ OnScreen(EchoErase(c))
      BY <2>0, <3>1, <3>2, LineStateTyped, CursorTyped, EchoOnScreen
    <3>4. Accept(Erased(s), EchoErase(c))
      BY <2>6, <3>2, Zenon DEF KeyBackspace
    <3> QED BY <2>4, <3>3, <3>4
  <2>7. CASE KeyChar(k)
    <3>1. CASE HasRoom(s)
      <4>1. Input(k) \in 0 .. 255
        BY InputTyped
      <4>2. /\ Stored(s, Input(k)) \in LineStates /\ EchoChar(c) \in Cursors
            /\ OnScreen(EchoChar(c))
        BY <2>0, <3>1, <4>1, LineStateTyped, CursorTyped, EchoOnScreen
      <4>3. Accept(Stored(s, Input(k)), EchoChar(c))
        BY <2>7, <3>1, Zenon DEF KeyChar
      <4> QED BY <2>4, <4>2, <4>3
    <3>2. CASE ~HasRoom(s)
      <4>1. Accept(s, c)
        BY <2>7, <3>2, Zenon DEF KeyChar
      <4> QED BY <2>0, <2>4, <4>1
    <3> QED BY <3>1, <3>2
  <2> QED BY <1>6, <2>1, <2>2, <2>3, <2>5, <2>6, <2>7 DEF Key
<1>7. ASSUME NEW t \in Term, Tick(t) PROVE CursorOnScreen'
  BY <1>3, <1>7 DEF Tick
<1>8. CASE Spin \/ UNCHANGED vars
  BY <1>3, <1>8 DEF Spin, vars
<1> QED BY <1>5, <1>6, <1>7, <1>8 DEF Next

\* The cursor stays on the rows of the screen and every line on its page, for
\* every screen and line buffer and wherever interrupts land, as long as no
\* program runs "clear" and what is written starts on a row of its own and fits
\* it: putc leaves the screen only by wrapping on the last row.
THEOREM CursorStaysRight ==
    ASSUME "clear" \notin Calls, OutputFits
    PROVE  Spec => []CursorRight
<1>1. Init => CountOnPage /\ CursorOnScreen
  <2> SUFFICES ASSUME Init PROVE CountOnPage /\ CursorOnScreen
    OBVIOUS
  <2>1. \A t \in Term : terms[t].cnt = 0 /\ terms[t].y = 0 /\ Cell(Cur(t)) = 0
    BY ScreenAssumption DEF Init, Cell, Cur, Cursor
  <2> QED BY <2>1, ScreenAssumption DEF CountOnPage, CursorOnScreen
<1>2. CountOnPage /\ CursorOnScreen => CursorRight
  BY DEF CountOnPage, CursorRight, LineOnPage
<1> QED BY <1>1, <1>2, TypeInit, TypeStep, OnPageStep, OnScreenStep, PTL DEF Spec

-----------------------------------------------------------------------------
(* Every read returns the line typed on its terminal.                       *)

\* The abstract state of a terminal whose program is at k and whose state is s.
ModeOf(k, s) == IF k.pc \in {"wait", "woken"} THEN IF s.on THEN "edit" ELSE "done"
                ELSE "idle"
TypedOf(k, s) == IF k.pc \in {"wait", "woken"} THEN LineOf(s) ELSE <<>>

LEMMA Mapped ==
    /\ LineMode = [t \in Term |-> ModeOf(task[t], terms[t])]
    /\ LineTyped = [t \in Term |-> TypedOf(task[t], terms[t])]
    /\ LineMode' = [t \in Term |-> ModeOf(task'[t], terms'[t])]
    /\ LineTyped' = [t \in Term |-> TypedOf(task'[t], terms'[t])]
<1>1. LineMode = [t \in Term |-> ModeOf(task[t], terms[t])]
  BY Zenon DEF LineMode, Reading, ModeOf
<1>2. LineTyped = [t \in Term |-> TypedOf(task[t], terms[t])]
  BY Zenon DEF LineTyped, Reading, TypedOf, Line, LineOf
<1>3. LineMode' = [t \in Term |-> ModeOf(task'[t], terms'[t])]
  BY Zenon DEF LineMode, Reading, ModeOf
<1>4. LineTyped' = [t \in Term |-> TypedOf(task'[t], terms'[t])]
  BY Zenon DEF LineTyped, Reading, TypedOf, Line, LineOf
<1> QED BY <1>1, <1>2, <1>3, <1>4

\* A step that changes the program or the line of one terminal at most.
LEMMA OneLineChanges ==
    ASSUME NEW t \in Term,
           \A u \in Term \ {t} : /\ ModeOf(task'[u], terms'[u]) = ModeOf(task[u], terms[u])
                                 /\ TypedOf(task'[u], terms'[u]) = TypedOf(task[u], terms[u])
    PROVE  /\ LineMode[t] = ModeOf(task[t], terms[t])
           /\ LineTyped[t] = TypedOf(task[t], terms[t])
           /\ LineMode' = [LineMode EXCEPT ![t] = ModeOf(task'[t], terms'[t])]
           /\ LineTyped' = [LineTyped EXCEPT ![t] = TypedOf(task'[t], terms'[t])]
           /\ LineMode'[t] = ModeOf(task'[t], terms'[t])
           /\ LineTyped'[t] = TypedOf(task'[t], terms'[t])
<1> DEFINE m(u) == ModeOf(task[u], terms[u])
           l(u) == TypedOf(task[u], terms[u])
           mm(u) == ModeOf(task'[u], terms'[u])
           ll(u) == TypedOf(task'[u], terms'[u])
<1>1. /\ LineMode = [u \in Term |-> m(u)] /\ LineTyped = [u \in Term |-> l(u)]
      /\ LineMode' = [u \in Term |-> mm(u)] /\ LineTyped' = [u \in Term |-> ll(u)]
  BY Mapped
<1>2. \A u \in Term \ {t} : mm(u) = m(u) /\ ll(u) = l(u)
  OBVIOUS
<1>3. /\ LineMode[t] = m(t) /\ LineTyped[t] = l(t)
      /\ LineMode' = [LineMode EXCEPT ![t] = mm(t)]
      /\ LineTyped' = [LineTyped EXCEPT ![t] = ll(t)]
      /\ LineMode'[t] = mm(t) /\ LineTyped'[t] = ll(t)
  <2> HIDE DEF m, l, mm, ll
  <2> QED BY <1>1, <1>2
<1> QED BY <1>3

LEMMA NoLineChanges ==
    ASSUME \A u \in Term : /\ ModeOf(task'[u], terms'[u]) = ModeOf(task[u], terms[u])
                           /\ TypedOf(task'[u], terms'[u]) = TypedOf(task[u], terms[u])
    PROVE  UNCHANGED <<LineMode, LineTyped>>
<1>1. /\ [u \in Term |-> ModeOf(task'[u], terms'[u])] = [u \in Term |-> ModeOf(task[u], terms[u])]
      /\ [u \in Term |-> TypedOf(task'[u], terms'[u])] = [u \in Term |-> TypedOf(task[u], terms[u])]
  BY Zenon
<1> QED BY <1>1, Mapped

\* The abstract state depends on the program point, the flag and the line only.
LEMMA SameLine ==
    ASSUME NEW k, NEW j, NEW s, NEW r,
           k.pc = j.pc, s.on = r.on, s.cnt = r.cnt, s.buf = r.buf
    PROVE  ModeOf(k, s) = ModeOf(j, r) /\ TypedOf(k, s) = TypedOf(j, r)
<1>1. LineOf(s) = LineOf(r)
  BY DEF LineOf
<1> QED BY <1>1 DEF ModeOf, TypedOf

LEMMA IdleLine ==
    ASSUME NEW k, NEW s, k.pc \notin {"wait", "woken"}
    PROVE  ModeOf(k, s) = "idle" /\ TypedOf(k, s) = <<>>
BY DEF ModeOf, TypedOf

\* The lines of the handler's three effects.
LEMMA LineOps ==
    ASSUME NEW s \in LineStates, NEW r \in LineStates
    PROVE  /\ s.cnt = 0 => LineOf(s) = <<>>
           /\ s.cnt # 0 /\ r.cnt = s.cnt - 1 /\ (\A i \in 0 .. s.cnt - 2 : r.buf[i] = s.buf[i])
              => LineOf(r) = SubSeq(LineOf(s), 1, Len(LineOf(s)) - 1)
           /\ r.cnt = s.cnt + 1 /\ (\A i \in 0 .. s.cnt - 1 : r.buf[i] = s.buf[i])
              => LineOf(r) = Append(LineOf(s), r.buf[s.cnt])
<1> DEFINE a == LineOf(s)
           b == LineOf(r)
<1>0. /\ a \in Seq(0 .. 255) /\ Len(a) = s.cnt /\ s.cnt \in Nat
      /\ b \in Seq(0 .. 255) /\ Len(b) = r.cnt /\ r.cnt \in Nat
      /\ \A i \in 1 .. s.cnt : a[i] = s.buf[i - 1]
      /\ \A i \in 1 .. r.cnt : b[i] = r.buf[i - 1]
  BY LineIsSeq
<1> HIDE DEF a, b
<1>1. s.cnt = 0 => a = <<>>
  BY <1>0, EmptySeq
<1>2. ASSUME s.cnt # 0, r.cnt = s.cnt - 1, \A i \in 0 .. s.cnt - 2 : r.buf[i] = s.buf[i]
      PROVE  b = SubSeq(a, 1, Len(a) - 1)
  <2> DEFINE p == SubSeq(a, 1, Len(a) - 1)
  <2>0. s.cnt - 1 \in Nat /\ \A i \in 1 .. s.cnt - 1 : a[i] \in 0 .. 255
    <3>1. \A i \in 1 .. Len(a) : a[i] \in 0 .. 255
      BY <1>0, ElementOfSeq
    <3>2. s.cnt - 1 \in Nat /\ 1 .. s.cnt - 1 \subseteq 1 .. Len(a)
      BY <1>0, <1>2
    <3> QED BY <3>1, <3>2
  <2>1. p \in Seq(0 .. 255) /\ Len(p) = s.cnt - 1 /\ \A i \in 1 .. s.cnt - 1 : p[i] = a[i]
    BY <1>0, <2>0, SubSeqProperties
  <2>2. \A i \in 1 .. s.cnt - 1 : b[i] = a[i]
    <3> SUFFICES ASSUME NEW i \in 1 .. s.cnt - 1 PROVE b[i] = a[i]
      OBVIOUS
    <3>1. i \in 1 .. s.cnt /\ i \in 1 .. r.cnt /\ i - 1 \in 0 .. s.cnt - 2
      BY <1>0, <1>2
    <3> QED BY <1>0, <1>2, <3>1
  <2> HIDE DEF p
  <2>3. b = p
    BY <1>0, <1>2, <2>1, <2>2, SeqEqual
  <2> QED BY <2>3 DEF p
<1>3. ASSUME r.cnt = s.cnt + 1, \A i \in 0 .. s.cnt - 1 : r.buf[i] = s.buf[i]
      PROVE  b = Append(a, r.buf[s.cnt])
  <2> DEFINE p == Append(a, r.buf[s.cnt])
  <2>0. r.buf[s.cnt] \in 0 .. 255
    <3>1. b[s.cnt + 1] = r.buf[s.cnt] /\ s.cnt + 1 \in 1 .. Len(b)
      BY <1>0, <1>3
    <3>2. b[s.cnt + 1] \in 0 .. 255
      BY <1>0, <3>1, ElementOfSeq
    <3> QED BY <3>1, <3>2
  <2>1. /\ p \in Seq(0 .. 255) /\ Len(p) = s.cnt + 1 /\ p[s.cnt + 1] = r.buf[s.cnt]
        /\ \A i \in 1 .. s.cnt : p[i] = a[i]
    BY <1>0, <2>0, AppendProperties
  <2>2. \A i \in 1 .. s.cnt + 1 : b[i] = p[i]
    <3> SUFFICES ASSUME NEW i \in 1 .. s.cnt + 1 PROVE b[i] = p[i]
      OBVIOUS
    <3> HIDE DEF p
    <3>1. i \in 1 .. r.cnt /\ b[i] = r.buf[i - 1]
      BY <1>0, <1>3
    <3>2. CASE i = s.cnt + 1
      BY <1>0, <2>1, <3>1, <3>2
    <3>3. CASE i # s.cnt + 1
      <4>1. i \in 1 .. s.cnt /\ i - 1 \in 0 .. s.cnt - 1
        BY <1>0, <3>3
      <4> QED BY <1>0, <1>3, <2>1, <3>1, <4>1
    <3> QED BY <3>2, <3>3
  <2> HIDE DEF p
  <2>3. b = p
    BY <1>0, <1>3, <2>1, <2>2, SeqEqual
  <2> QED BY <2>3 DEF p
<1> QED BY <1>1, <1>2, <1>3 DEF a, b


\* Where a program is inside terminal_read: it has the CPU while interrupts are
\* off, the read is open until the handler closes it, the line starts empty.
ReadInv ==
    \A t \in Term :
      /\ task[t].pc \in {"reset", "fill", "woken"} => t = curr_term
      /\ task[t].pc \in {"reset", "fill"} => terms[t].on
      /\ task[t].pc = "fill" => terms[t].cnt = 0
      /\ task[t].pc = "woken" => ~terms[t].on

ReadShielded == OpenAt \subseteq {"user", "wait"}

LEMMA ReadInvStep ==
    ASSUME ReadShielded
    PROVE  TypeOK /\ ReadInv /\ [Next]_vars => ReadInv'
<1> SUFFICES ASSUME TypeOK, ReadInv, [Next]_vars PROVE ReadInv'
  OBVIOUS
<1> USE TerminalAssumption
<1> DEFINE cpu == curr_term
           scr == term_on_screen
<1>0. /\ cpu \in Term /\ scr \in Term /\ terms \in [Term -> LineStates]
      /\ task \in [Term -> Tasks]
  BY TypeParts
\* A program step that keeps the CPU: only its own terminal matters.
<1>1. ASSUME curr_term' = curr_term,
             \A t \in Term \ {cpu} : task'[t] = task[t],
             /\ task'[cpu].pc \in {"reset", "fill"} => terms'[cpu].on
             /\ task'[cpu].pc = "fill" => terms'[cpu].cnt = 0
             /\ task'[cpu].pc = "woken" => ~terms'[cpu].on
      PROVE  ReadInv'
  <2>1. \A t \in Term \ {cpu} : task[t].pc \notin {"reset", "fill", "woken"}
    BY DEF ReadInv
  <2> QED BY <1>1, <2>1 DEF ReadInv
\* An interrupt: no program is where interrupts are off.
<1>2. ASSUME Interruptible, \A t \in Term : task'[t].pc \in {task[t].pc, "user"}
      PROVE  ReadInv'
  <2>1. \A t \in Term : task[t].pc \notin {"reset", "fill", "woken"}
    BY <1>2 DEF ReadInv, Interruptible, ReadShielded
  <2>2. \A t \in Term : task'[t].pc \notin {"reset", "fill", "woken"}
    BY <1>2, <2>1
  <2> QED BY <2>2 DEF ReadInv
<1>3. CASE Program
  <2>1. ASSUME NEW n \in Counts, ReadEnter(n) PROVE ReadInv'
    <3>1. task'[cpu].pc = "reset" /\ terms'[cpu].on
      BY <1>0, <2>1 DEF ReadEnter, LineStates, Tasks
    <3> QED BY <1>0, <1>1, <2>1, <3>1 DEF ReadEnter, screen
  <2>2. CASE ReadReset
    <3>1. task'[cpu].pc = "fill" /\ terms'[cpu].cnt = 0 /\ terms'[cpu].on = terms[cpu].on
      BY <1>0, <2>2 DEF ReadReset, LineStates, Tasks
    <3>2. terms[cpu].on
      BY <1>0, <2>2 DEF ReadReset, At, ReadInv
    <3> QED BY <1>0, <1>1, <2>2, <3>1, <3>2 DEF ReadReset, screen
  <2>3. CASE ReadFill
    <3>1. /\ task'[cpu].pc = task[cpu].pc /\ terms'[cpu].cnt = terms[cpu].cnt
          /\ terms'[cpu].on = terms[cpu].on
      BY <1>0, <2>3 DEF ReadFill, LineStates, Tasks
    <3>2. task[cpu].pc = "fill" /\ terms[cpu].on /\ terms[cpu].cnt = 0
      BY <1>0, <2>3 DEF ReadFill, At, ReadInv
    <3> QED BY <1>0, <1>1, <2>3, <3>1, <3>2 DEF ReadFill, screen
  <2>4. CASE ReadWait
    <3>1. task'[cpu].pc = "wait"
      BY <1>0, <2>4 DEF ReadWait, Tasks
    <3> QED BY <1>0, <1>1, <2>4, <3>1 DEF ReadWait, screen
  <2>5. CASE ReadWake
    <3>1. task'[cpu].pc = "woken" /\ ~terms'[cpu].on
      BY <1>0, <2>5 DEF ReadWake, Goto, Tasks
    <3> QED BY <1>0, <1>1, <2>5, <3>1 DEF ReadWake, Goto, screen
  <2>6. CASE ReadReturn
    <3>1. task'[cpu].pc = "user"
      BY <1>0, <2>6 DEF ReadReturn, Tasks
    <3> QED BY <1>0, <1>1, <2>6, <3>1 DEF ReadReturn, screen
  <2>7. ASSUME NEW text \in Texts, Write(text) PROVE ReadInv'
    <3>1. task' = task /\ task[cpu].pc = "user"
      BY <2>7 DEF Write, At
    <3> QED BY <1>0, <1>1, <2>7, <3>1 DEF Write, screen
  <2>8. CASE Clear
    <3>1. task' = task /\ task[cpu].pc = "user"
      BY <2>8 DEF Clear, At
    <3> QED BY <1>0, <1>1, <2>8, <3>1 DEF Clear
  <2>9. CASE Child
    <3>1. task'[cpu].pc = "user"
      BY <1>0, <2>9 DEF Child, At, Tasks
    <3> QED BY <1>0, <1>1, <2>9, <3>1 DEF Child, screen
  <2> QED BY <1>3, <2>1, <2>2, <2>3, <2>4, <2>5, <2>6, <2>7, <2>8, <2>9 DEF Program
<1>4. ASSUME NEW k \in Scancodes, Key(k) PROVE ReadInv'
  <2>1. CASE KeyInterruptChild(k)
    <3>1. \A t \in Term : task'[t].pc \in {task[t].pc, "user"}
      BY <1>0, <2>1 DEF KeyInterruptChild
    <3> QED BY <1>2, <2>1, <3>1 DEF KeyInterruptChild
  <2>2. CASE ~KeyInterruptChild(k)
    <3>1. Interruptible /\ task' = task
      BY <1>4, <2>2, Zenon DEF Key, KeyModifier, KeyClear, KeyInterruptShell, KeySwitch, KeyEnter,
         KeyBackspace, KeyChar, Typed
    <3> QED BY <1>2, <3>1
  <2> QED BY <2>1, <2>2
<1>5. ASSUME NEW t \in Term, Tick(t) PROVE ReadInv'
  BY <1>2, <1>5 DEF Tick
<1>6. CASE Spin \/ UNCHANGED vars
  BY <1>6 DEF Spin, vars, ReadInv
<1> QED BY <1>3, <1>4, <1>5, <1>6 DEF Next


lineVars == <<LineMode, LineTyped, got>>

\* The steps of the program that has the CPU.
LEMMA ProgramLines ==
    ASSUME TypeOK, ReadInv, Program
    PROVE  Lines!LineNext \/ UNCHANGED lineVars
<1> USE TerminalAssumption
<1> DEFINE cpu == curr_term
           s == terms[cpu]
           k == task[cpu]
<1>0. /\ cpu \in Term /\ terms \in [Term -> LineStates] /\ task \in [Term -> Tasks]
      /\ got \in [Term -> Seq(0 .. 255)] /\ s \in LineStates /\ k \in Tasks
      /\ term_on_screen \in Term
  BY TypeParts
<1>1. ASSUME \A u \in Term \ {cpu} : terms'[u] = terms[u] /\ task'[u] = task[u]
      PROVE  /\ LineMode[cpu] = ModeOf(k, s) /\ LineTyped[cpu] = TypedOf(k, s)
             /\ LineMode' = [LineMode EXCEPT ![cpu] = ModeOf(task'[cpu], terms'[cpu])]
             /\ LineTyped' = [LineTyped EXCEPT ![cpu] = TypedOf(task'[cpu], terms'[cpu])]
  BY <1>0, <1>1, OneLineChanges
<1>2. ASSUME got' = got,
             \A u \in Term : /\ ModeOf(task'[u], terms'[u]) = ModeOf(task[u], terms[u])
                             /\ TypedOf(task'[u], terms'[u]) = TypedOf(task[u], terms[u])
      PROVE  UNCHANGED lineVars
  BY <1>2, NoLineChanges DEF lineVars
\* Outside the waiting loop nothing shows.
<1>3. ASSUME \A u \in Term \ {cpu} : terms'[u] = terms[u] /\ task'[u] = task[u],
             k.pc \notin {"wait", "woken"}, task'[cpu].pc \notin {"wait", "woken"}
      PROVE  UNCHANGED <<LineMode, LineTyped>>
  <2>1. /\ ModeOf(task'[cpu], terms'[cpu]) = ModeOf(k, s)
        /\ TypedOf(task'[cpu], terms'[cpu]) = TypedOf(k, s)
    BY <1>3, IdleLine
  <2> QED BY <1>3, <2>1, NoLineChanges
<1>4. ASSUME NEW n \in Counts, ReadEnter(n) PROVE Lines!LineNext
  <2>1. \A u \in Term \ {cpu} : terms'[u] = terms[u] /\ task'[u] = task[u]
    BY <1>0, <1>4 DEF ReadEnter
  <2>2. k.pc = "user" /\ task'[cpu].pc = "reset"
    BY <1>0, <1>4 DEF ReadEnter, At, Tasks
  <2>3. UNCHANGED <<LineMode, LineTyped>> /\ LineMode[cpu] = "idle"
    BY <1>1, <1>3, <2>1, <2>2, IdleLine
  <2>4. got' = [got EXCEPT ![cpu] = <<>>]
    BY <1>4 DEF ReadEnter
  <2>5. Lines!Forget(cpu)
    BY <2>3, <2>4 DEF Lines!Forget
  <2> QED BY <1>0, <2>5 DEF Lines!LineNext
<1>5. CASE ReadReset
  <2>1. \A u \in Term \ {cpu} : terms'[u] = terms[u] /\ task'[u] = task[u]
    BY <1>0, <1>5 DEF ReadReset
  <2>2. k.pc = "reset" /\ task'[cpu].pc = "fill" /\ got' = got
    BY <1>0, <1>5 DEF ReadReset, At, Tasks
  <2> QED BY <1>3, <2>1, <2>2 DEF lineVars
<1>6. CASE ReadFill
  <2>1. \A u \in Term \ {cpu} : terms'[u] = terms[u] /\ task'[u] = task[u]
    BY <1>0, <1>6 DEF ReadFill
  <2>2. k.pc = "fill" /\ task'[cpu].pc = "fill" /\ got' = got
    BY <1>0, <1>6 DEF ReadFill, At, Tasks
  <2> QED BY <1>3, <2>1, <2>2 DEF lineVars
<1>7. CASE ReadWait
  <2>1. \A u \in Term \ {cpu} : terms'[u] = terms[u] /\ task'[u] = task[u]
    BY <1>0, <1>7 DEF ReadWait
  <2>2. k.pc = "fill" /\ task'[cpu].pc = "wait" /\ got' = got /\ terms' = terms
    BY <1>0, <1>7 DEF ReadWait, At, Tasks
  <2>3. s.on /\ s.cnt = 0
    BY <1>0, <2>2 DEF ReadInv
  <2>4. ModeOf(task'[cpu], terms'[cpu]) = "edit" /\ TypedOf(task'[cpu], terms'[cpu]) = <<>>
    BY <1>0, <2>2, <2>3, LineOps DEF ModeOf, TypedOf
  <2>5. ModeOf(k, s) = "idle"
    BY <2>2, IdleLine
  <2>6. Lines!Begin(cpu)
    BY <1>1, <2>1, <2>2, <2>4, <2>5 DEF Lines!Begin
  <2> QED BY <1>0, <2>6 DEF Lines!LineNext
<1>8. CASE ReadWake
  <2>1. \A u \in Term \ {cpu} : terms'[u] = terms[u] /\ task'[u] = task[u]
    BY <1>0, <1>8 DEF ReadWake, Goto
  <2>2. k.pc = "wait" /\ task'[cpu].pc = "woken" /\ got' = got /\ terms' = terms
    BY <1>0, <1>8 DEF ReadWake, Goto, At, Tasks
  <2>3. /\ ModeOf(task'[cpu], terms'[cpu]) = ModeOf(k, s)
        /\ TypedOf(task'[cpu], terms'[cpu]) = TypedOf(k, s)
    BY <2>2 DEF ModeOf, TypedOf
  <2>4. UNCHANGED <<LineMode, LineTyped>>
    BY <2>1, <2>3, NoLineChanges
  <2> QED BY <2>2, <2>4 DEF lineVars
<1>9. CASE ReadReturn
  <2>1. \A u \in Term \ {cpu} : terms'[u] = terms[u] /\ task'[u] = task[u]
    BY <1>0, <1>9 DEF ReadReturn
  <2>2. k.pc = "woken" /\ task'[cpu].pc = "user" /\ got' = [got EXCEPT ![cpu] = Copied]
    BY <1>0, <1>9 DEF ReadReturn, At, Tasks
  <2>3. ModeOf(k, s) = "done" /\ TypedOf(k, s) = Line(cpu) /\ Len(Line(cpu)) = s.cnt
    <3>1. ~s.on
      BY <1>0, <2>2 DEF ReadInv
    <3>2. LineOf(s) = Line(cpu) /\ Len(LineOf(s)) = s.cnt
      BY <1>0, LineIsSeq DEF Line, LineOf
    <3> QED BY <2>2, <3>1, <3>2 DEF ModeOf, TypedOf
  <2>4. ModeOf(task'[cpu], terms'[cpu]) = "idle" /\ TypedOf(task'[cpu], terms'[cpu]) = <<>>
    BY <2>2, IdleLine
  <2>5. PICK n \in 0 .. s.cnt : /\ n < s.cnt => s.cnt = BUF_SIZE
                                /\ Copied = SubSeq(Line(cpu), 1, n)
    BY CopiedIsLine
  <2>6. /\ LineMode[cpu] = "done" /\ LineTyped[cpu] = Line(cpu)
        /\ LineMode' = [LineMode EXCEPT ![cpu] = "idle"]
        /\ LineTyped' = [LineTyped EXCEPT ![cpu] = <<>>]
    BY <1>1, <2>1, <2>3, <2>4
  <2>7. Lines!Deliver(cpu)
    BY <2>2, <2>3, <2>5, <2>6 DEF Lines!Deliver
  <2> QED BY <1>0, <2>7 DEF Lines!LineNext
<1>10. ASSUME NEW text \in Texts, Write(text) PROVE UNCHANGED lineVars
  <2> DEFINE r == Moved(s, puts(Cur(cpu), text))
  <2>1. terms' = [terms EXCEPT ![cpu] = r] /\ task' = task /\ got' = got
    BY <1>10, Zenon DEF Write
  <2>2. k.pc = "user"
    BY <1>10 DEF Write, At
  <2> HIDE DEF r
  <2>3. UNCHANGED <<LineMode, LineTyped>>
    BY <1>0, <1>3, <2>1, <2>2
  <2> QED BY <2>1, <2>3 DEF lineVars
<1>11. CASE Clear
  <2> DEFINE r == Moved(terms[term_on_screen], Cursor(0, 0))
  <2>1. terms' = [terms EXCEPT ![term_on_screen] = r] /\ task' = task /\ got' = got
    BY <1>11, Zenon DEF Clear
  <2>2. r.on = terms[term_on_screen].on /\ r.cnt = terms[term_on_screen].cnt
        /\ r.buf = terms[term_on_screen].buf
    BY <1>0 DEF Moved, LineStates
  <2> HIDE DEF r
  <2>3. \A u \in Term : /\ terms'[u].on = terms[u].on /\ terms'[u].cnt = terms[u].cnt
                        /\ terms'[u].buf = terms[u].buf
    BY <1>0, <2>1, <2>2
  <2> QED BY <1>2, <2>1, <2>3, SameLine
<1>12. CASE Child
  <2>1. \A u \in Term \ {cpu} : terms'[u] = terms[u] /\ task'[u] = task[u]
    BY <1>0, <1>12 DEF Child
  <2>2. k.pc = "user" /\ task'[cpu].pc = "user" /\ got' = got
    BY <1>0, <1>12 DEF Child, At, Tasks
  <2> QED BY <1>3, <2>1, <2>2 DEF lineVars
<1> QED
  BY <1>4, <1>5, <1>6, <1>7, <1>8, <1>9, <1>10, <1>11, <1>12 DEF Program


LEMMA InputIsLineChar ==
    ASSUME NEW k \in Scancodes
    PROVE  Input(k) \in LineChars
<1>1. CharIndex(k) = k \/ CharIndex(k) = k + 60
  BY DEF CharIndex
<1> QED BY <1>1, Zenon DEF Input, LineChars

\* The keys.
LEMMA KeyLines ==
    ASSUME ReadShielded, TypeOK, ReadInv, OpenHasRoom, NEW k \in Scancodes, Key(k)
    PROVE  Lines!LineNext \/ UNCHANGED lineVars
<1> USE TerminalAssumption
<1> DEFINE scr == term_on_screen
           s == terms[scr]
           j == task[scr]
<1>0. /\ scr \in Term /\ curr_term \in Term /\ terms \in [Term -> LineStates]
      /\ task \in [Term -> Tasks] /\ s \in LineStates /\ j \in Tasks
      /\ terms' \in [Term -> LineStates] /\ terms'[scr] \in LineStates
      /\ s.cnt \in 0 .. BUF_SIZE /\ BUF_SIZE \in Nat
  BY TypeParts, KeyTyped, TypePartsNext DEF LineStates
<1>1. got' = got /\ Interruptible
  BY Zenon DEF Key, KeyModifier, KeyClear, KeyInterruptChild, KeyInterruptShell, KeySwitch,
     KeyEnter, KeyBackspace, KeyChar, Typed, screen
\* Interrupts come while programs run or wait.
<1>2. \A t \in Term : task[t].pc \notin {"reset", "fill", "woken"}
  BY <1>1 DEF ReadInv, Interruptible, ReadShielded
<1>3. ASSUME \A u \in Term : /\ ModeOf(task'[u], terms'[u]) = ModeOf(task[u], terms[u])
                             /\ TypedOf(task'[u], terms'[u]) = TypedOf(task[u], terms[u])
      PROVE  UNCHANGED lineVars
  BY <1>1, <1>3, NoLineChanges DEF lineVars
<1>4. ASSUME \A u \in Term \ {scr} :
               /\ ModeOf(task'[u], terms'[u]) = ModeOf(task[u], terms[u])
               /\ TypedOf(task'[u], terms'[u]) = TypedOf(task[u], terms[u])
      PROVE  /\ LineMode[scr] = ModeOf(j, s) /\ LineTyped[scr] = TypedOf(j, s)
             /\ LineMode' = [LineMode EXCEPT ![scr] = ModeOf(task'[scr], terms'[scr])]
             /\ LineTyped' = [LineTyped EXCEPT ![scr] = TypedOf(task'[scr], terms'[scr])]
             /\ LineTyped'[scr] = TypedOf(task'[scr], terms'[scr])
  BY <1>0, <1>4, OneLineChanges
<1>5. LineOf(s) \in Seq(0 .. 255) /\ Len(LineOf(s)) = s.cnt
  BY <1>0, LineIsSeq
<1>6. LineMode \in [Term -> {"idle", "edit", "done"}]
  BY Mapped DEF ModeOf
<1>7. LineTyped = [LineTyped EXCEPT ![scr] = LineTyped[scr]]
  BY Mapped
\* A key that only closes the read of the terminal on screen.
<1>8. ASSUME task' = task,
             \A u \in Term \ {scr} : /\ terms'[u].on = terms[u].on /\ terms'[u].cnt = terms[u].cnt
                                     /\ terms'[u].buf = terms[u].buf,
             terms'[scr].cnt = s.cnt, terms'[scr].buf = s.buf, ~terms'[scr].on
      PROVE  Lines!LineNext \/ UNCHANGED lineVars
  <2>0. \A u \in Term \ {scr} :
          /\ ModeOf(task'[u], terms'[u]) = ModeOf(task[u], terms[u])
          /\ TypedOf(task'[u], terms'[u]) = TypedOf(task[u], terms[u])
    <3> SUFFICES ASSUME NEW u \in Term \ {scr}
                 PROVE  /\ ModeOf(task'[u], terms'[u]) = ModeOf(task[u], terms[u])
                        /\ TypedOf(task'[u], terms'[u]) = TypedOf(task[u], terms[u])
      OBVIOUS
    <3>1. task'[u].pc = task[u].pc
      BY <1>8
    <3>2. terms'[u].on = terms[u].on /\ terms'[u].cnt = terms[u].cnt /\ terms'[u].buf = terms[u].buf
      BY <1>8
    <3>3. LineOf(terms'[u]) = LineOf(terms[u])
      BY <3>2 DEF LineOf
    <3> QED BY <3>1, <3>2, <3>3 DEF ModeOf, TypedOf
  <2>1. CASE j.pc = "wait" /\ s.on
    <3>1. ModeOf(j, s) = "edit" /\ ModeOf(task'[scr], terms'[scr]) = "done"
      BY <1>8, <2>1 DEF ModeOf
    <3>2. TypedOf(task'[scr], terms'[scr]) = TypedOf(j, s)
      BY <1>8, <2>1 DEF TypedOf, LineOf
    <3>3. Lines!Close(scr)
      BY <1>1, <1>4, <1>7, <2>0, <3>1, <3>2 DEF Lines!Close
    <3> QED BY <1>0, <3>3 DEF Lines!LineNext
  <2>2. CASE ~(j.pc = "wait" /\ s.on)
    <3>1. /\ ModeOf(task'[scr], terms'[scr]) = ModeOf(j, s)
          /\ TypedOf(task'[scr], terms'[scr]) = TypedOf(j, s)
      <4>1. CASE j.pc # "wait"
        BY <1>0, <1>2, <1>8, <4>1, IdleLine
      <4>2. CASE ~s.on
        BY <1>8, <4>2 DEF ModeOf, TypedOf, LineOf
      <4> QED BY <2>2, <4>1, <4>2
    <3> QED BY <1>3, <2>0, <3>1
  <2> QED BY <2>1, <2>2
<1>9. CASE KeyModifier(k) \/ KeySwitch(k)
  <2>1. terms' = terms /\ task' = task
    BY <1>9 DEF KeyModifier, KeySwitch
  <2> QED BY <1>3, <2>1
<1>10. CASE KeyClear(k)
  <2>1. /\ task' = task /\ \A u \in Term \ {scr} : terms'[u] = terms[u]
        /\ terms'[scr].cnt = 0 /\ ~terms'[scr].on
    BY <1>0, <1>10 DEF KeyClear
  <2>2. CASE j.pc = "wait"
    <3>1. ModeOf(j, s) \in {"edit", "done"} /\ ModeOf(task'[scr], terms'[scr]) = "done"
      BY <2>1, <2>2 DEF ModeOf
    <3>2. TypedOf(task'[scr], terms'[scr]) = <<>>
      BY <1>0, <2>1, <2>2, LineOps DEF TypedOf
    <3>3. Lines!Wipe(scr)
      BY <1>1, <1>4, <2>1, <3>1, <3>2 DEF Lines!Wipe
    <3> QED BY <1>0, <3>3 DEF Lines!LineNext
  <2>3. CASE j.pc # "wait"
    <3>1. /\ ModeOf(task'[scr], terms'[scr]) = ModeOf(j, s)
          /\ TypedOf(task'[scr], terms'[scr]) = TypedOf(j, s)
      BY <1>0, <1>2, <2>1, <2>3, IdleLine
    <3> QED BY <1>3, <2>1, <3>1
  <2> QED BY <2>2, <2>3
<1>11. CASE KeyInterruptChild(k)
  <2>0. terms' = terms
    BY <1>11 DEF KeyInterruptChild
  <2>1. CASE term_on_screen = curr_term
    <3>1. task'[scr].pc = "user" /\ \A u \in Term \ {scr} : task'[u] = task[u]
      BY <1>0, <1>11, <2>1 DEF KeyInterruptChild
    <3>2. ModeOf(task'[scr], terms'[scr]) = "idle" /\ TypedOf(task'[scr], terms'[scr]) = <<>>
      BY <3>1, IdleLine
    <3>3. CASE j.pc = "wait"
      <4>1. ModeOf(j, s) # "idle"
        BY <3>3 DEF ModeOf
      <4>2. Lines!Stop(scr)
        BY <1>1, <1>4, <2>0, <3>1, <3>2, <4>1 DEF Lines!Stop
      <4> QED BY <1>0, <4>2 DEF Lines!LineNext
    <3>4. CASE j.pc # "wait"
      <4>1. ModeOf(j, s) = "idle" /\ TypedOf(j, s) = <<>>
        BY <1>0, <1>2, <3>4, IdleLine
      <4> QED BY <1>3, <2>0, <3>1, <3>2, <4>1
    <3> QED BY <3>3, <3>4
  <2>2. CASE term_on_screen # curr_term
    BY <1>3, <1>11, <2>0, <2>2 DEF KeyInterruptChild
  <2> QED BY <2>1, <2>2
<1>12. CASE KeyInterruptShell(k)
  <2> DEFINE f == [terms EXCEPT ![curr_term] = Moved(@, puts(Cur(curr_term), ARCHITECT))]
  <2>1. task' = task /\ terms' = [f EXCEPT ![scr].on = FALSE]
    BY <1>12, Zenon DEF KeyInterruptShell
  <2>2. /\ DOMAIN f = Term
        /\ \A t \in Term : /\ f[t].on = terms[t].on /\ f[t].cnt = terms[t].cnt
                           /\ f[t].buf = terms[t].buf
    BY <1>0 DEF Moved, LineStates
  <2> HIDE DEF f
  <2>3. terms'[scr] = [f[scr] EXCEPT !.on = FALSE] /\ \A t \in Term \ {scr} : terms'[t] = f[t]
    BY <1>0, <2>1, <2>2
  <2>4. terms'[scr].cnt = f[scr].cnt /\ terms'[scr].buf = f[scr].buf
    BY <2>3
  <2>5. ~terms'[scr].on
    <3>1. "on" \in DOMAIN f[scr]
      BY <1>0 DEF f, Moved, LineStates
    <3> QED BY <2>3, <3>1
  <2> QED BY <1>0, <1>8, <2>1, <2>2, <2>3, <2>4, <2>5
<1>13. CASE KeyEnter(k) \/ KeyBackspace(k) \/ KeyChar(k)
  <2>1. /\ task' = task /\ \A u \in Term \ {scr} : terms'[u] = terms[u]
        /\ s.on /\ (LineClosed \/ LineErased \/ LineGrown(Input(k)))
    BY <1>13, KeyEffect
  <2>2. CASE LineClosed
    BY <1>8, <2>1, <2>2 DEF LineClosed
  <2>3. CASE j.pc # "wait"
    <3>1. /\ ModeOf(task'[scr], terms'[scr]) = ModeOf(j, s)
          /\ TypedOf(task'[scr], terms'[scr]) = TypedOf(j, s)
      BY <1>0, <1>2, <2>1, <2>3, IdleLine
    <3> QED BY <1>3, <2>1, <3>1
  <2>4. CASE j.pc = "wait" /\ LineErased
    <3>1. ModeOf(j, s) = "edit" /\ ModeOf(task'[scr], terms'[scr]) = "edit"
      BY <2>1, <2>4 DEF ModeOf, LineErased
    <3>2. /\ TypedOf(j, s) = LineOf(s) /\ LineOf(s) # <<>>
          /\ TypedOf(task'[scr], terms'[scr]) = SubSeq(LineOf(s), 1, Len(LineOf(s)) - 1)
      BY <1>0, <1>5, <2>1, <2>4, LineOps DEF TypedOf, LineErased
    <3>3. LineMode' = LineMode
      BY <1>0, <1>4, <1>6, <2>1, <3>1
    <3>4. Lines!Erase(scr)
      BY <1>1, <1>4, <2>1, <3>1, <3>2, <3>3 DEF Lines!Erase
    <3> QED BY <1>0, <3>4 DEF Lines!LineNext
  <2>5. CASE j.pc = "wait" /\ LineGrown(Input(k))
    <3> DEFINE a == Input(k)
    <3>0. a \in LineChars /\ a \in 0 .. 255
      BY InputIsLineChar, InputTyped
    <3> HIDE DEF a
    <3>1. /\ s.cnt < BUF_SIZE /\ terms'[scr].cnt = s.cnt + 1
          /\ terms'[scr].on <=> terms'[scr].cnt # BUF_SIZE
      BY <2>5 DEF LineGrown
    <3>2. TypedOf(j, s) = LineOf(s) /\ TypedOf(task'[scr], terms'[scr]) = Append(LineOf(s), a)
      <4>1. LineOf(terms'[scr]) = Append(LineOf(s), a)
        BY <1>0, <2>5, LineOps DEF LineGrown, a
      <4> QED BY <2>1, <2>5, <4>1 DEF TypedOf
    <3>3. Len(Append(LineOf(s), a)) = s.cnt + 1
      BY <1>5, <3>0
    <3>4. /\ ModeOf(j, s) = "edit"
          /\ ModeOf(task'[scr], terms'[scr]) = IF s.cnt + 1 = BUF_SIZE THEN "done" ELSE "edit"
      BY <2>1, <2>5, <3>1 DEF ModeOf
    <3>5. Lines!Type(scr, a)
      <4>1. LineMode[scr] = "edit" /\ LineTyped[scr] = LineOf(s) /\ Len(LineTyped[scr]) < BUF_SIZE
        BY <1>4, <1>5, <2>1, <3>1, <3>2, <3>4
      <4>2. LineTyped' = [LineTyped EXCEPT ![scr] = Append(LineTyped[scr], a)]
        BY <1>4, <2>1, <3>2, <4>1
      <4>3. Len(LineTyped'[scr]) = s.cnt + 1
        BY <1>4, <2>1, <3>2, <3>3
      <4>4. LineMode' = [LineMode EXCEPT ![scr] =
                           IF Len(LineTyped'[scr]) = BUF_SIZE THEN "done" ELSE "edit"]
        BY <1>4, <2>1, <3>4, <4>3
      <4> QED BY <1>1, <4>1, <4>2, <4>4 DEF Lines!Type
    <3> QED BY <1>0, <3>0, <3>5 DEF Lines!LineNext
  <2> QED BY <2>1, <2>2, <2>3, <2>4, <2>5
<1> QED BY <1>9, <1>10, <1>11, <1>12, <1>13 DEF Key

\* Every read returns the line typed on its own terminal while it was open, for
\* every number of terminals, screen, buffer size and set of keys, with programs
\* that clear the screen and are stopped by Ctrl-C included, if interrupts come
\* while programs run or wait in terminal_read and not in its first and last
\* instructions.
THEOREM ReadsReturnTypedLines ==
    ASSUME ReadShielded
    PROVE  Spec => ImplementsLineInput
<1>0. ~("child" \in Calls /\ "reset" \in OpenAt)
  BY DEF ReadShielded
<1>1. Init => TypeOK /\ ReadInv /\ OpenHasRoom /\ ChildInv
  BY TypeInit DEF Init, ReadInv, OpenHasRoom, ChildInv
<1>2. Init => Lines!LineInit
  <2> SUFFICES ASSUME Init PROVE Lines!LineInit
    OBVIOUS
  <2>1. \A t \in Term : task[t].pc = "user"
    BY DEF Init
  <2>2. \A t \in Term : ModeOf(task[t], terms[t]) = "idle" /\ TypedOf(task[t], terms[t]) = <<>>
    BY <2>1, IdleLine
  <2>3. LineMode = [t \in Term |-> "idle"] /\ LineTyped = [t \in Term |-> <<>>]
    BY <2>2, Mapped
  <2> QED BY <2>3 DEF Lines!LineInit, Init
<1>3. TypeOK /\ ReadInv /\ OpenHasRoom /\ [Next]_vars => [Lines!LineNext]_(Lines!input)
  <2> SUFFICES ASSUME TypeOK, ReadInv, OpenHasRoom, [Next]_vars
               PROVE  Lines!LineNext \/ UNCHANGED Lines!input
    OBVIOUS
  <2>0. UNCHANGED lineVars => UNCHANGED Lines!input
    BY DEF Lines!input, lineVars
  <2>1. Program => Lines!LineNext \/ UNCHANGED lineVars
    BY ProgramLines
  <2>2. ASSUME NEW k \in Scancodes, Key(k) PROVE Lines!LineNext \/ UNCHANGED lineVars
    BY <2>2, KeyLines
  <2>3. ASSUME terms' = terms, task' = task, got' = got PROVE UNCHANGED lineVars
    BY <2>3, NoLineChanges DEF lineVars
  <2>4. ASSUME NEW t \in Term, Tick(t) PROVE UNCHANGED lineVars
    BY <2>3, <2>4 DEF Tick
  <2>5. Spin \/ UNCHANGED vars => UNCHANGED lineVars
    BY <2>3 DEF Spin, vars
  <2> QED BY <2>0, <2>1, <2>2, <2>4, <2>5 DEF Next
<1> QED BY <1>0, <1>1, <1>2, <1>3, TypeStep, ReadInvStep, RoomStep, PTL
    DEF Spec, ImplementsLineInput, Lines!LineSpec

=============================================================================
