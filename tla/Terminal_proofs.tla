--------------------------- MODULE Terminal_proofs ---------------------------
(***************************************************************************)
(* Proofs about the console and the command line on it, for every size of  *)
(* the screen, prompt, text and length of the buffer: what is printed is a *)
(* roll of paper, and what is shown behind the prompt is what Enter will   *)
(* execute.                                                                *)
(***************************************************************************)
EXTENDS Terminal, Induction, SequenceTheorems

-----------------------------------------------------------------------------
(* The console *)

LEMMA Screen ==
    /\ Height \in Nat /\ Height > 1 /\ Width \in Nat /\ Width > 1
    /\ Blank \in Chars /\ EmptyLine \in [Cols -> Chars]
    /\ Cleared \in Consoles
BY ConsoleAssumption DEF EmptyLine, Cleared, Consoles, Rows, Cols

LEMMA FeedTypes ==
    ASSUME NEW c \in Consoles
    PROVE  LineFed(c) \in Consoles /\ LineFed(c).col = 0
<1>1. Scrolled(c.cells) \in [Rows -> [Cols -> Chars]]
  BY Screen DEF Scrolled, Consoles, Rows
<1>2. 0 \in Cols /\ Height - 1 \in Rows
  BY Screen DEF Cols, Rows
<1>3. CASE c.row + 1 >= Height
  BY <1>1, <1>2, <1>3 DEF LineFed, Consoles
<1>4. CASE ~(c.row + 1 >= Height)
  <2>1. c.row + 1 \in Rows
    BY <1>4, Screen DEF Consoles, Rows
  <2> QED
    BY <1>2, <1>4, <2>1 DEF LineFed, Consoles
<1> QED
  BY <1>3, <1>4

\* A character is in its cell, and the cursor behind it, on the next line if
\* it was the last cell of its line.
Inscribed(c, ch) == [c EXCEPT !.cells[c.row][c.col] = ch]

LEMMA InscribedTypes ==
    ASSUME NEW c \in Consoles, NEW ch \in Chars
    PROVE  /\ Inscribed(c, ch) \in Consoles
           /\ Inscribed(c, ch).row = c.row /\ Inscribed(c, ch).col = c.col
           /\ Inscribed(c, ch).cells
                = [c.cells EXCEPT ![c.row] = [@ EXCEPT ![c.col] = ch]]
BY DEF Inscribed, Consoles

LEMMA PrintTypes ==
    ASSUME NEW c \in Consoles, NEW ch \in Chars
    PROVE  /\ Printed(c, ch) \in Consoles
           /\ IF c.col + 1 = Width THEN Printed(c, ch) = LineFed(Inscribed(c, ch))
              ELSE Printed(c, ch) = [Inscribed(c, ch) EXCEPT !.col = c.col + 1]
<1> DEFINE w == Inscribed(c, ch)
<1>1. w \in Consoles /\ w.row = c.row /\ w.col = c.col
  BY InscribedTypes
<1>2. c.col \in Cols
  BY DEF Consoles
<1>3. Printed(c, ch) = IF c.col + 1 >= Width THEN LineFed(w)
                       ELSE [w EXCEPT !.col = w.col + 1]
  BY DEF Printed, Inscribed
<1> HIDE DEF w
<1>4. CASE c.col + 1 = Width
  BY <1>1, <1>3, <1>4, FeedTypes, Screen DEF w
<1>5. CASE c.col + 1 # Width
  <2>1. c.col + 1 \in Cols /\ ~(c.col + 1 >= Width)
    BY <1>2, <1>5, Screen DEF Cols
  <2>2. Printed(c, ch) = [w EXCEPT !.col = c.col + 1]
    BY <1>1, <1>3, <2>1
  <2>3. [w EXCEPT !.col = c.col + 1] \in Consoles
    BY <1>1, <2>1 DEF Consoles
  <2> QED
    BY <1>5, <2>2, <2>3 DEF w
<1> QED
  BY <1>4, <1>5

LEMMA OtherTypes ==
    ASSUME NEW c \in Consoles
    PROVE  Returned(c) \in Consoles /\ Erased(c) \in Consoles
<1>1. 0 \in Cols
  BY Screen DEF Cols
<1>2. Returned(c) \in Consoles
  BY <1>1 DEF Returned, Consoles
<1>3. CASE c.col = 0
  BY <1>2, <1>3 DEF Erased
<1>4. CASE c.col # 0
  <2>1. c.col - 1 \in Cols
    BY <1>4, Screen DEF Consoles, Cols
  <2> QED
    BY <1>2, <1>4, <2>1, Screen DEF Erased, Consoles
<1> QED
  BY <1>3, <1>4

-----------------------------------------------------------------------------
(* The roll of paper *)

\* The lines below the cursor's are blank: that is what comes up as paper.
BlankBelow(c) == \A r \in Rows : r > c.row => c.cells[r] = EmptyLine

\* The roll a console shows: Lines of every console.
Roll(c) == [i \in 1..(c.row + 1) |-> c.cells[i - 1]]
Line == [Cols -> Chars]

LEMMA RollTypes ==
    ASSUME NEW c \in Consoles
    PROVE  /\ Roll(c) \in Seq(Line) /\ Len(Roll(c)) = c.row + 1
           /\ \A i \in 1..(c.row + 1) : Roll(c)[i] = c.cells[i - 1]
           /\ c.row \in Nat /\ c.row < Height
<1>1. c.row \in Nat /\ c.row < Height
  BY Screen DEF Consoles, Rows
<1>2. \A i \in 1..(c.row + 1) : i - 1 \in Rows
  BY <1>1, Screen DEF Rows
<1>3. \A i \in 1..(c.row + 1) : c.cells[i - 1] \in Line
  BY <1>2 DEF Consoles, Line
<1> QED
  BY <1>1, <1>3 DEF Roll

LEMMA FedRoll ==
    ASSUME NEW c \in Consoles, BlankBelow(c)
    PROVE  Roll(LineFed(c)) = Sheet!Fed(Roll(c)) /\ BlankBelow(LineFed(c))
<1> DEFINE d == LineFed(c)
<1>1. Sheet!BlankLine = EmptyLine
  BY DEF Sheet!BlankLine, EmptyLine, Cols
<1>2. EmptyLine \in Line
  BY Screen DEF Line
<1>3. /\ Roll(c) \in Seq(Line) /\ Len(Roll(c)) = c.row + 1
      /\ \A i \in 1..(c.row + 1) : Roll(c)[i] = c.cells[i - 1]
      /\ c.row \in Nat /\ c.row < Height
  BY RollTypes
<1>4. d \in Consoles
  BY FeedTypes
<1>5. /\ Roll(d) \in Seq(Line) /\ Len(Roll(d)) = d.row + 1
      /\ \A i \in 1..(d.row + 1) : Roll(d)[i] = d.cells[i - 1]
  BY <1>4, RollTypes
<1>6. CASE c.row + 1 >= Height
  <2>1. d.row = Height - 1 /\ d.cells = Scrolled(c.cells) /\ c.row = Height - 1
    BY <1>3, <1>6, Screen DEF LineFed
  <2>2. Sheet!Fed(Roll(c)) = Append(Tail(Roll(c)), EmptyLine)
    BY <1>1, <1>3, <2>1, Screen DEF Sheet!Fed
  <2> DEFINE fed == Append(Tail(Roll(c)), EmptyLine)
  <2>3. /\ Tail(Roll(c)) \in Seq(Line) /\ Len(Tail(Roll(c))) = Height - 1
        /\ \A i \in 1..(Height - 1) : Tail(Roll(c))[i] = Roll(c)[i + 1]
    BY <1>3, <2>1, Screen
  <2>4. /\ fed \in Seq(Line) /\ Len(fed) = Height
        /\ \A i \in 1..(Height - 1) : fed[i] = Tail(Roll(c))[i]
        /\ fed[Height] = EmptyLine
    BY <1>2, <2>3, Screen, AppendProperties
  <2>5. \A r \in Rows : d.cells[r] = IF r + 1 < Height THEN c.cells[r + 1]
                                     ELSE EmptyLine
    BY <2>1 DEF Scrolled
  <2> HIDE DEF fed, d
  <2>6. ASSUME NEW i \in 1..Height PROVE Roll(d)[i] = fed[i]
    <3>1. i - 1 \in Rows /\ Roll(d)[i] = d.cells[i - 1]
      BY <1>5, <2>1, Screen DEF Rows
    <3>2. CASE i = Height
      BY <2>4, <2>5, <3>1, <3>2, Screen
    <3>3. CASE i # Height
      <4>1. i \in 1..(Height - 1) /\ (i - 1) + 1 = i /\ i < Height
            /\ i + 1 \in 1..(c.row + 1) /\ (i + 1) - 1 = i
        BY <2>1, <3>3, Screen
      <4>2. fed[i] = c.cells[i]
        BY <1>3, <2>3, <2>4, <4>1
      <4>3. d.cells[i - 1] = c.cells[i]
        BY <2>5, <3>1, <4>1
      <4> QED
        BY <3>1, <4>2, <4>3
    <3> QED
      BY <3>2, <3>3
  <2>7. Len(Roll(d)) = Len(fed)
    BY <1>5, <2>1, <2>4, Screen
  <2>8. Roll(d) = fed
    BY <1>5, <2>4, <2>6, <2>7, SeqEqual
  <2>9. BlankBelow(d)
    BY <2>1, Screen DEF BlankBelow, Rows
  <2> QED
    BY <2>2, <2>8, <2>9 DEF fed, d
<1>7. CASE ~(c.row + 1 >= Height)
  <2>1. d.row = c.row + 1 /\ d.cells = c.cells /\ c.row + 1 \in Rows
    BY <1>3, <1>7, Screen DEF LineFed, Consoles, Rows
  <2> DEFINE fed == Append(Roll(c), EmptyLine)
  <2>2. Sheet!Fed(Roll(c)) = fed
    BY <1>1, <1>3, <1>7, Screen DEF Sheet!Fed
  <2>3. /\ fed \in Seq(Line) /\ Len(fed) = c.row + 2
        /\ \A i \in 1..(c.row + 1) : fed[i] = Roll(c)[i]
        /\ fed[c.row + 2] = EmptyLine
    BY <1>2, <1>3, AppendProperties
  <2>4. c.cells[c.row + 1] = EmptyLine
    BY <1>3, <2>1 DEF BlankBelow
  <2> HIDE DEF fed, d
  <2>5. ASSUME NEW i \in 1..(c.row + 2) PROVE Roll(d)[i] = fed[i]
    <3>1. Roll(d)[i] = c.cells[i - 1]
      BY <1>3, <1>5, <2>1
    <3>2. CASE i = c.row + 2
      BY <1>3, <2>3, <2>4, <3>1, <3>2
    <3>3. CASE i # c.row + 2
      <4>1. i \in 1..(c.row + 1)
        BY <1>3, <3>3
      <4>2. fed[i] = Roll(c)[i] /\ Roll(c)[i] = c.cells[i - 1]
        BY <1>3, <2>3, <4>1
      <4> QED
        BY <3>1, <4>2
    <3> QED
      BY <3>2, <3>3
  <2>6. Len(Roll(d)) = Len(fed) /\ Len(fed) = c.row + 2
    BY <1>3, <1>5, <2>1, <2>3
  <2>7. Roll(d) = fed
    BY <1>5, <2>3, <2>5, <2>6, SeqEqual
  <2>8. BlankBelow(d)
    BY <1>3, <2>1 DEF BlankBelow, Rows
  <2> QED
    BY <2>2, <2>7, <2>8 DEF fed, d
<1> QED
  BY <1>6, <1>7

\* A character in the cursor's line, in its column or another, is one on the
\* last line of the roll.
LEMMA InkedRoll ==
    ASSUME con \in Consoles, BlankBelow(con), NEW k \in Cols, NEW ch \in Chars,
           NEW d \in Consoles, d.row = con.row,
           d.cells = [con.cells EXCEPT ![con.row] = [@ EXCEPT ![k] = ch]]
    PROVE  Roll(d) = Sheet!Inked(k, ch) /\ BlankBelow(d)
<1>1. /\ Lines = Roll(con) /\ Roll(con) \in Seq(Line)
      /\ Len(Roll(con)) = con.row + 1
      /\ \A i \in 1..(con.row + 1) : Roll(con)[i] = con.cells[i - 1]
      /\ con.row \in Nat /\ con.row < Height
  BY RollTypes DEF Lines, Roll
<1>2. /\ Roll(d) \in Seq(Line) /\ Len(Roll(d)) = con.row + 1
      /\ \A i \in 1..(con.row + 1) : Roll(d)[i] = d.cells[i - 1]
  BY RollTypes
<1>3. con.row \in Rows /\ DOMAIN con.cells = Rows
  BY DEF Consoles
<1> DEFINE n == con.row + 1
           inked == [Roll(con) EXCEPT ![n] = [@ EXCEPT ![k] = ch]]
<1>4. Sheet!Inked(k, ch) = inked
  BY <1>1 DEF Sheet!Inked
<1>5. d.cells[con.row] = [con.cells[con.row] EXCEPT ![k] = ch]
      /\ \A r \in Rows : r # con.row => d.cells[r] = con.cells[r]
  BY <1>3
<1>6. DOMAIN inked = 1..n /\ DOMAIN Roll(d) = 1..n
  BY <1>1, <1>2
<1>7. ASSUME NEW i \in 1..n PROVE Roll(d)[i] = inked[i]
  <2>1. CASE i = n
    <3>1. inked[n] = [Roll(con)[n] EXCEPT ![k] = ch]
      BY <1>1
    <3>2. Roll(con)[n] = con.cells[con.row] /\ Roll(d)[n] = d.cells[con.row]
      BY <1>1, <1>2
    <3> HIDE DEF inked, n
    <3> QED
      BY <1>5, <2>1, <3>1, <3>2
  <2>2. CASE i # n
    <3>1. inked[i] = Roll(con)[i]
      BY <1>1, <2>2
    <3>2. i - 1 \in Rows /\ i - 1 # con.row
      BY <1>1, <2>2, Screen DEF Rows
    <3> QED
      BY <1>1, <1>2, <1>5, <3>1, <3>2
  <2> QED
    BY <2>1, <2>2
<1>8. Roll(d) = inked
  <2>1. inked = [i \in 1..n |-> inked[i]] /\ Roll(d) = [i \in 1..n |-> Roll(d)[i]]
    BY <1>1 DEF Roll
  <2> QED
    BY <1>7, <2>1
<1>9. BlankBelow(d)
  BY <1>1, <1>5 DEF BlankBelow, Rows
<1> QED
  BY <1>4, <1>8, <1>9

LEMMA PaperBegins == CInit => Sheet!PaperInit /\ con \in Consoles /\ BlankBelow(con)
<1>1. Sheet!BlankLine = EmptyLine
  BY DEF Sheet!BlankLine, EmptyLine, Cols
<1>2. CInit => con.row = 0 /\ con.col = 0 /\ con.cells[0] = EmptyLine
  BY Screen DEF CInit, Cleared, Rows
<1>3. CInit => Lines = <<EmptyLine>>
  BY <1>2 DEF Lines
<1>4. CInit => con \in Consoles /\ BlankBelow(con)
  BY Screen DEF CInit, Cleared, BlankBelow
<1> QED
  BY <1>1, <1>2, <1>3, <1>4 DEF Sheet!PaperInit

\* One call of put() or clear() is one step of the paper.
LEMMA PaperStep ==
    ASSUME con \in Consoles, BlankBelow(con),
           \/ \E ch \in Chars : Put(ch)
           \/ PutNewline \/ PutReturn \/ PutBackspace \/ Clear
    PROVE  con' \in Consoles /\ BlankBelow(con') /\ [Sheet!PaperNext]_<<Lines, con.col>>
<1>1. Lines = Roll(con) /\ Lines' = Roll(con')
  BY DEF Lines, Roll
<1>2. con.col \in Cols /\ con.row \in Rows
  BY DEF Consoles
<1>3. ASSUME NEW ch \in Chars, Put(ch)
      PROVE  con' \in Consoles /\ BlankBelow(con') /\ Sheet!PaperNext
  <2> DEFINE w == Inscribed(con, ch)
  <2>1. w \in Consoles /\ w.row = con.row /\ w.col = con.col
        /\ w.cells = [con.cells EXCEPT ![con.row] = [@ EXCEPT ![con.col] = ch]]
    BY InscribedTypes
  <2>2. /\ con' \in Consoles
        /\ IF con.col + 1 = Width THEN con' = LineFed(w)
           ELSE con' = [w EXCEPT !.col = con.col + 1]
    BY <1>3, PrintTypes DEF Put
  <2> HIDE DEF w
  <2>3. Roll(w) = Sheet!Inked(con.col, ch) /\ BlankBelow(w)
    BY <1>2, <2>1, InkedRoll
  <2>4. CASE con.col + 1 = Width
    <3>1. /\ Roll(con') = Sheet!Fed(Sheet!Inked(con.col, ch))
          /\ BlankBelow(con') /\ con'.col = 0
      BY <2>1, <2>2, <2>3, <2>4, FedRoll, FeedTypes
    <3>2. ~(con.col + 1 < Width)
      BY <2>4, Screen
    <3>3. Sheet!Strike(ch)
      BY <1>1, <3>1, <3>2 DEF Sheet!Strike
    <3> QED
      BY <1>3, <2>2, <3>1, <3>3 DEF Sheet!PaperNext
  <2>5. CASE con.col + 1 # Width
    <3>1. con'.row = w.row /\ con'.cells = w.cells /\ con'.col = con.col + 1
      BY <2>1, <2>2, <2>5 DEF Consoles
    <3>2. Roll(con') = Roll(w) /\ BlankBelow(con')
      BY <2>3, <3>1 DEF Roll, BlankBelow
    <3>3. con.col + 1 < Width
      BY <1>2, <2>5, Screen DEF Cols
    <3>4. Sheet!Strike(ch)
      BY <1>1, <2>3, <3>1, <3>2, <3>3 DEF Sheet!Strike
    <3> QED
      BY <1>3, <2>2, <3>2, <3>4 DEF Sheet!PaperNext
  <2> QED
    BY <2>4, <2>5
<1>4. CASE PutNewline
  <2>1. /\ Roll(con') = Sheet!Fed(Roll(con)) /\ BlankBelow(con')
        /\ con' \in Consoles /\ con'.col = 0
    BY <1>4, FedRoll, FeedTypes DEF PutNewline
  <2> QED
    BY <1>1, <2>1 DEF Sheet!PaperNext, Sheet!Feed
<1>5. CASE PutReturn
  <2>1. /\ con'.row = con.row /\ con'.cells = con.cells /\ con'.col = 0
        /\ con' \in Consoles
    BY <1>5, OtherTypes DEF PutReturn, Returned, Consoles
  <2>2. Roll(con') = Roll(con) /\ BlankBelow(con')
    BY <2>1 DEF Roll, BlankBelow
  <2> QED
    BY <1>1, <2>1, <2>2 DEF Sheet!PaperNext, Sheet!Carriage
<1>6. CASE PutBackspace
  <2>1. con' = Erased(con) /\ con' \in Consoles
    BY <1>6, OtherTypes DEF PutBackspace
  <2>2. CASE con.col = 0
    BY <2>1, <2>2 DEF Erased, Lines
  <2>3. CASE con.col # 0
    <3> DEFINE k == con.col - 1
    <3>1. k \in Cols /\ con.col > 0
      BY <1>2, <2>3, Screen DEF Cols
    <3>2. /\ con'.row = con.row /\ con'.col = k
          /\ con'.cells = [con.cells EXCEPT ![con.row] = [@ EXCEPT ![k] = Blank]]
      BY <2>1, <2>3 DEF Erased, Consoles
    <3> HIDE DEF k
    <3>3. Roll(con') = Sheet!Inked(k, Blank) /\ BlankBelow(con')
      BY <2>1, <3>1, <3>2, InkedRoll, Screen
    <3>4. Sheet!Rub
      BY <1>1, <3>1, <3>2, <3>3 DEF Sheet!Rub, k
    <3> QED
      BY <2>1, <3>3, <3>4 DEF Sheet!PaperNext
  <2> QED
    BY <2>2, <2>3
<1>7. CASE Clear
  <2>1. con' = Cleared /\ con' \in Consoles
    BY <1>7, Screen DEF Clear
  <2>2. con'.row = 0 /\ con'.col = 0 /\ \A r \in Rows : con'.cells[r] = EmptyLine
    BY <2>1 DEF Cleared
  <2>3. Roll(con') = <<EmptyLine>> /\ BlankBelow(con')
    BY <2>2, Screen DEF Roll, BlankBelow, Rows
  <2>4. Sheet!BlankLine = EmptyLine
    BY DEF Sheet!BlankLine, EmptyLine, Cols
  <2> QED
    BY <1>1, <2>1, <2>2, <2>3, <2>4 DEF Sheet!PaperNext, Sheet!NewSheet
<1> QED
  BY <1>3, <1>4, <1>5, <1>6, <1>7

PaperInv == con \in Consoles /\ BlankBelow(con)

\* The console's functions, called in any order, are a roll of paper.
THEOREM ConsoleIsPaper == CSpec => LooksLikePaper
<1>1. CInit => PaperInv /\ Sheet!PaperInit
  BY PaperBegins DEF PaperInv
<1>2. PaperInv /\ [CNext]_con => PaperInv' /\ [Sheet!PaperNext]_<<Lines, con.col>>
  <2> SUFFICES ASSUME PaperInv, [CNext]_con
               PROVE  PaperInv' /\ [Sheet!PaperNext]_<<Lines, con.col>>
    OBVIOUS
  <2>1. CASE CNext
    <3>1. con' \in Consoles /\ BlankBelow(con')
          /\ [Sheet!PaperNext]_<<Lines, con.col>>
      BY <2>1, PaperStep DEF CNext, PaperInv
    <3> QED
      BY <3>1 DEF PaperInv, BlankBelow
  <2>2. CASE UNCHANGED con
    BY <2>2 DEF PaperInv, BlankBelow, Lines
  <2> QED
    BY <2>1, <2>2
<1> QED
  BY <1>1, <1>2, PTL DEF CSpec, LooksLikePaper, Sheet!PaperSpec

\* While the system boots nothing has been typed, and the screen is paper.
BootInv == stage = "boot" => PaperInv

LEMMA BootStep ==
    ASSUME BootInv, [TNext]_tvars
    PROVE  /\ BootInv'
           /\ [stage = "boot" /\ stage' = "boot" => Sheet!PaperNext]_<<Lines, con.col>>
<1>1. CASE stage = "boot" /\ BootText /\ UNCHANGED stage
  <2>1. \/ \E ch \in Chars : Put(ch)
        \/ PutNewline \/ PutReturn \/ PutBackspace \/ Clear
    BY <1>1, TerminalAssumption DEF BootText
  <2>2. con' \in Consoles /\ BlankBelow(con')
        /\ [Sheet!PaperNext]_<<Lines, con.col>>
    BY <1>1, <2>1, PaperStep DEF BootInv, PaperInv
  <2> QED
    BY <1>1, <2>2 DEF BootInv, PaperInv, BlankBelow
<1>2. CASE ShellStarts
  BY <1>2 DEF ShellStarts, BootInv
<1>3. CASE stage = "shell" /\ Next /\ UNCHANGED stage
  BY <1>3 DEF BootInv
<1>4. CASE UNCHANGED tvars
  BY <1>4 DEF tvars, vars, BootInv, PaperInv, BlankBelow, Lines
<1> QED
  BY <1>1, <1>2, <1>3, <1>4 DEF TNext

\* Whatever the boot prints, on a screen of any size, is a roll of paper: no
\* line is lost, doubled or mixed with the remains of an older one.
THEOREM BootIsPaper == TSpec => BootLooksLikePaper
<1>1. TInit => BootInv /\ Sheet!PaperInit
  BY PaperBegins DEF TInit, BootInv, PaperInv
<1>2. BootInv /\ [TNext]_tvars
        => /\ BootInv'
           /\ [stage = "boot" /\ stage' = "boot"
                 => Sheet!PaperNext]_<<Lines, con.col>>
  BY BootStep
<1> QED
  BY <1>1, <1>2, PTL DEF TSpec, BootLooksLikePaper

-----------------------------------------------------------------------------
(* The command line *)

\* The places of the screen in the order of reading.
Start(r) == r * Width
At(r, k) == Start(r) + k
Place(c) == At(c.row, c.col)
First(h) == At(h, Len(Prompt))

\* The prompt stands in row h of a console, and the text behind it.
PromptIn(c, h) == \A i \in 1..Len(Prompt) : c.cells[h][i - 1] = Prompt[i]
Shows(c, h, t) ==
    \A r \in Rows, k \in Cols, i \in 1..Len(t) :
        At(r, k) = First(h) + i - 1 => c.cells[r][k] = t[i]

\* The cursor is never in the prompt, nor before the end of the command; as
\* long as no backspace strayed, it is at its end and the command is shown.
EchoInv ==
    /\ TypeOK
    /\ stage = "boot" => home = -1 /\ command = <<>> /\ ~strayed
    /\ home >= 0 =>
         /\ PromptIn(con, home)
         /\ First(home) + Len(command) <= Place(con)
         /\ ~strayed => /\ Place(con) = First(home) + Len(command)
                        /\ Shows(con, home, command)

LEMMA Multiples == \A x, y \in Int, w \in Nat : x <= y => x * w <= y * w
<1> SUFFICES ASSUME NEW x \in Int, NEW y \in Int, NEW w \in Nat, x <= y
             PROVE  x * w <= y * w
  OBVIOUS
<1> DEFINE e == y - x
<1>1. e \in Nat /\ y = x + e
  OBVIOUS
<1>2. e * w \in Nat /\ (x + e) * w = x * w + e * w /\ x * w \in Int
  BY <1>1
<1> QED
  BY <1>1, <1>2

\* Where the rows start; a row starts behind the end of the one above.
LEMMA StartTypes == \A r \in Int : Start(r) \in Int
BY Screen DEF Start

LEMMA NextStart ==
    ASSUME NEW r \in Int
    PROVE  Start(r + 1) = Start(r) + Width
BY Screen DEF Start

LEMMA StartsApart ==
    ASSUME NEW r \in Int, NEW q \in Int, r < q
    PROVE  Start(r) + Width <= Start(q)
<1>1. (r + 1) * Width <= q * Width
  BY Multiples, Screen
<1>2. (r + 1) * Width = r * Width + Width
  BY Screen
<1> QED
  BY <1>1, <1>2 DEF Start

\* Every cell has a place of its own.
LEMMA PlacesDiffer ==
    ASSUME NEW r \in Int, NEW q \in Int, NEW j \in Cols, NEW k \in Cols,
           At(r, j) = At(q, k)
    PROVE  r = q /\ j = k
<1>1. /\ j \in Int /\ 0 <= j /\ j < Width /\ k \in Int /\ 0 <= k /\ k < Width
      /\ Start(r) \in Int /\ Start(q) \in Int /\ Width \in Int
  BY StartTypes, Screen DEF Cols
<1>2. ~(r < q) /\ ~(q < r)
  <2>1. /\ r < q => Start(r) + Width <= Start(q)
        /\ q < r => Start(q) + Width <= Start(r)
    BY StartsApart
  <2> QED
    BY <1>1, <2>1 DEF At
<1>3. r = q
  BY <1>2
<1> QED
  BY <1>1, <1>3 DEF At

LEMMA CursorTypes ==
    ASSUME NEW c \in Consoles
    PROVE  /\ c.row \in Nat /\ c.row < Height /\ c.row \in Rows
           /\ c.col \in Nat /\ c.col < Width /\ c.col \in Cols
           /\ Place(c) \in Int
<1>1. /\ c.row \in Nat /\ c.row < Height /\ c.row \in Rows
      /\ c.col \in Nat /\ c.col < Width /\ c.col \in Cols
  BY Screen DEF Consoles, Rows, Cols
<1> QED
  BY <1>1, StartTypes DEF Place, At

LEMMA PromptTypes ==
    /\ Prompt \in Seq(Chars) /\ Len(Prompt) \in Nat /\ Len(Prompt) \in Cols
    /\ \A h \in Int : First(h) \in Int
    /\ \A i \in 1..Len(Prompt) : i - 1 \in Cols /\ i - 1 < Len(Prompt)
<1>1. /\ Prompt \in Seq(Chars) /\ Len(Prompt) \in Nat /\ Len(Prompt) \in Cols
  BY ShellAssumption, Screen DEF Cols
<1>2. \A h \in Int : First(h) \in Int
  BY <1>1, StartTypes DEF First, At
<1>3. \A i \in 1..Len(Prompt) : i - 1 \in Cols /\ i - 1 < Len(Prompt)
  BY <1>1, Screen DEF Cols
<1> QED
  BY <1>1, <1>2, <1>3

\* A character in a cell behind the prompt leaves the prompt.
Inked(cells, r, k, ch) == [cells EXCEPT ![r] = [@ EXCEPT ![k] = ch]]

LEMMA PromptKept ==
    ASSUME NEW c \in Consoles, NEW h \in Rows, PromptIn(c, h),
           NEW r \in Rows, NEW k \in Cols, First(h) <= At(r, k), NEW ch,
           NEW d, d.cells = Inked(c.cells, r, k, ch)
    PROVE  PromptIn(d, h)
<1> SUFFICES ASSUME NEW i \in 1..Len(Prompt)
             PROVE  d.cells[h][i - 1] = Prompt[i]
  BY DEF PromptIn
<1>1. i - 1 \in Cols /\ i - 1 < Len(Prompt) /\ Len(Prompt) \in Nat
  BY PromptTypes
<1>2. h \in Int /\ k \in Int /\ First(h) \in Int
  BY PromptTypes, Screen DEF Rows, Cols
<1>3. r # h \/ k # i - 1
  <2>1. SUFFICES ASSUME r = h, k = i - 1 PROVE FALSE
    OBVIOUS
  <2>2. Start(h) \in Int
    BY <1>2, StartTypes
  <2> QED
    BY <1>1, <1>2, <2>1, <2>2 DEF First, At
<1>4. c.cells[h][i - 1] = Prompt[i]
  BY DEF PromptIn
<1>5. c.cells \in [Rows -> [Cols -> Chars]]
  BY DEF Consoles
<1> QED
  BY <1>1, <1>3, <1>4, <1>5 DEF Inked

\* The text goes on by the character that is put at its end.
LEMMA InscribedShows ==
    ASSUME NEW c \in Consoles, NEW h \in Rows, NEW t \in Seq(Chars), NEW ch \in Chars,
           Place(c) = First(h) + Len(t), Shows(c, h, t)
    PROVE  Shows(Inscribed(c, ch), h, Append(t, ch))
<1> DEFINE d == Inscribed(c, ch)
           longer == Append(t, ch)
<1>1. /\ d.cells = [c.cells EXCEPT ![c.row] = [@ EXCEPT ![c.col] = ch]]
      /\ c.cells \in [Rows -> [Cols -> Chars]]
  BY InscribedTypes DEF Consoles
<1>2. /\ Len(longer) = Len(t) + 1 /\ Len(t) \in Nat
      /\ \A i \in 1..Len(t) : longer[i] = t[i]
      /\ longer[Len(t) + 1] = ch
  BY AppendProperties
<1> HIDE DEF d, longer
<1> SUFFICES ASSUME NEW r \in Rows, NEW k \in Cols, NEW i \in 1..Len(longer),
                    At(r, k) = First(h) + i - 1
             PROVE  d.cells[r][k] = longer[i]
  BY DEF Shows, d, longer
<1>3. First(h) \in Int /\ h \in Int /\ r \in Nat
  BY PromptTypes, Screen DEF Rows
<1>4. c.row \in Nat /\ c.row \in Rows /\ c.col \in Cols
  BY CursorTypes
<1>5. CASE i = Len(t) + 1
  <2>1. At(r, k) = At(c.row, c.col)
    BY <1>2, <1>3, <1>5 DEF Place
  <2>2. r = c.row /\ k = c.col
    BY <1>3, <1>4, <2>1, PlacesDiffer
  <2> QED
    BY <1>1, <1>2, <1>4, <1>5, <2>2
<1>6. CASE i # Len(t) + 1
  <2>1. i \in 1..Len(t)
    BY <1>2, <1>6
  <2>2. c.cells[r][k] = t[i]
    BY <2>1 DEF Shows
  <2>3. At(r, k) # At(c.row, c.col)
    BY <1>2, <1>3, <2>1 DEF Place
  <2>4. d.cells[r][k] = c.cells[r][k]
    BY <1>1, <1>4, <2>3
  <2> QED
    BY <1>2, <2>1, <2>2, <2>4
<1> QED
  BY <1>5, <1>6

\* The cursor goes on to the next place: to the next column, to the next line,
\* or to the last line, and then everything is one line higher.
GoesOn(c, d) ==
    IF c.col + 1 = Width THEN d = LineFed(c) ELSE d = [c EXCEPT !.col = c.col + 1]
Higher(c, h) ==
    IF c.col + 1 = Width /\ c.row + 1 = Height THEN h - 1 ELSE h

LEMMA GoingOn ==
    ASSUME NEW c \in Consoles, NEW h \in Rows, PromptIn(c, h), NEW d \in Consoles,
           GoesOn(c, d), Higher(c, h) \in Rows,
           NEW t, Len(t) \in Nat, First(h) + Len(t) <= Place(c) + 1
    PROVE  /\ PromptIn(d, Higher(c, h))
           /\ Place(d) - First(Higher(c, h)) = Place(c) + 1 - First(h)
           /\ Shows(c, h, t) => Shows(d, Higher(c, h), t)
<1> DEFINE g == Higher(c, h)
<1>1. /\ c.row \in Nat /\ c.row < Height /\ c.col \in Nat /\ c.col < Width
      /\ Start(c.row) \in Int
  <2>1. c.row \in Nat /\ c.row < Height /\ c.col \in Nat /\ c.col < Width
    BY CursorTypes
  <2>2. c.row \in Int
    BY <2>1
  <2>3. Start(c.row) \in Int
    BY <2>2, StartTypes
  <2> QED
    BY <2>1, <2>3
<1>2. /\ First(h) \in Int /\ h \in Int /\ Len(Prompt) \in Int /\ h < Height /\ Start(h) \in Int
      /\ Height \in Nat /\ Width \in Nat /\ Height > 1 /\ Width > 1
  BY PromptTypes, Screen, StartTypes DEF Rows
<1>3. CASE c.col + 1 # Width
  <2>1. d.row = c.row /\ d.col = c.col + 1 /\ d.cells = c.cells /\ g = h
    BY <1>3 DEF GoesOn, Higher, Consoles
  <2>2. Place(d) = Place(c) + 1
    BY <1>1, <2>1 DEF Place, At
  <2>3. Place(d) - First(g) = Place(c) + 1 - First(h)
    <3>1. Place(c) \in Int
      BY <1>1 DEF Place, At
    <3>2. Place(d) = Place(c) + 1 /\ First(g) = First(h)
      BY <2>1, <2>2
    <3> HIDE DEF g
    <3> QED
      BY <1>2, <3>1, <3>2
  <2> QED
    BY <2>1, <2>3 DEF PromptIn, Shows
<1>4. CASE c.col + 1 = Width /\ c.row + 1 # Height
  <2>1. ~(c.row + 1 >= Height)
    BY <1>1, <1>2, <1>4
  <2>2. d.row = c.row + 1 /\ d.col = 0 /\ d.cells = c.cells /\ g = h
    BY <1>4, <2>1 DEF GoesOn, Higher, LineFed, Consoles
  <2>3. Place(d) - First(g) = Place(c) + 1 - First(h)
    <3>1. c.row \in Int /\ c.row + 1 \in Int
      BY <1>1
    <3>2. Start(c.row + 1) = Start(c.row) + Width
      BY <3>1, NextStart
    <3> DEFINE x == Start(c.row)
               y == First(h)
    <3>3. x \in Int /\ y \in Int /\ Width \in Int /\ c.col = Width - 1
      BY <1>1, <1>2, <1>4
    <3>4. Place(d) = x + Width /\ Place(c) = x + (Width - 1)
      BY <1>1, <2>2, <3>2, <3>3 DEF Place, At
    <3>5. First(h) = y /\ First(g) = y
      BY <2>2
    <3> HIDE DEF x, y, g
    <3> QED
      BY <3>3, <3>4, <3>5
  <2> QED
    BY <2>2, <2>3 DEF PromptIn, Shows
<1>5. CASE c.col + 1 = Width /\ c.row + 1 = Height
  <2>1. d.row = c.row /\ d.col = 0 /\ d.cells = Scrolled(c.cells) /\ g = h - 1
    BY <1>1, <1>2, <1>5 DEF GoesOn, Higher, LineFed
  <2>2. Place(d) = Start(c.row) /\ Place(c) = Start(c.row) + c.col
    BY <1>1, <2>1 DEF Place, At
  <2>3. First(g) = First(h) - Width /\ First(h) \in Int
    <3>1. g \in Int /\ h = g + 1
      BY <1>2, <2>1
    <3>2. Start(h) = Start(g) + Width /\ Start(g) \in Int
      BY <1>2, <3>1, StartTypes, NextStart
    <3> QED
      BY <1>2, <3>2 DEF First, At
  <2>4. Place(d) - First(g) = Place(c) + 1 - First(h)
    <3> DEFINE x == Start(c.row)
               y == First(h)
    <3>1. x \in Int /\ y \in Int /\ Width \in Int /\ c.col = Width - 1
      BY <1>1, <1>2, <1>5, <2>3
    <3>2. Place(d) = x /\ Place(c) = x + c.col /\ First(g) = y - Width
      BY <2>2, <2>3
    <3>3. First(h) = y
      OBVIOUS
    <3> HIDE DEF x, y, g
    <3>4. Place(c) = x + (Width - 1)
      BY <3>1, <3>2
    <3> QED
      BY <3>1, <3>2, <3>3, <3>4
  <2>5. \A r \in Rows : d.cells[r] = IF r + 1 < Height THEN c.cells[r + 1]
                                     ELSE EmptyLine
    BY <2>1 DEF Scrolled
  <2>6. PromptIn(d, g)
    <3>1. g \in Rows /\ g + 1 = h /\ g + 1 < Height
      BY <1>2, <2>1
    <3> QED
      BY <2>5, <3>1 DEF PromptIn
  <2>7. ASSUME Shows(c, h, t), NEW r \in Rows, NEW k \in Cols, NEW i \in 1..Len(t),
               At(r, k) = First(g) + i - 1
        PROVE  d.cells[r][k] = t[i]
    <3>1. r \in Nat /\ k \in Int /\ r < Height /\ 0 <= k
      BY <1>2 DEF Rows, Cols
    <3>2. At(r + 1, k) = First(h) + i - 1
      <4>1. r + 1 \in Int /\ Start(r) \in Int /\ Start(r + 1) = Start(r) + Width
        BY <3>1, StartTypes, NextStart
      <4>2. At(r + 1, k) = (Start(r) + Width) + k /\ At(r, k) = Start(r) + k
        BY <4>1 DEF At
      <4>3. Start(r) + k = First(h) - Width + i - 1
        BY <2>3, <2>7, <4>2
      <4>4. Start(r) \in Int /\ First(h) \in Int /\ Width \in Int /\ k \in Int /\ i \in Int
        BY <1>2, <3>1, <4>1
      <4> DEFINE x == Start(r)
                 y == First(h)
      <4>5. (x + Width) + k = y + i - 1
        <5>1. x + k = y - Width + i - 1
          BY <4>3
        <5>2. x \in Int /\ y \in Int /\ Width \in Int /\ k \in Int /\ i \in Int
          BY <4>4
        <5> HIDE DEF x, y
        <5> QED
          BY <5>1, <5>2
      <4> QED
        BY <4>2, <4>5
    <3>3. r + 1 < Height
      <4>1. SUFFICES ASSUME r = c.row PROVE FALSE
        BY <1>1, <1>5, <3>1
      <4>2. At(r, k) = Start(c.row) + k
        BY <4>1 DEF At
      <4>3. Start(c.row) + k = First(h) - Width + i - 1
        BY <2>3, <2>7, <4>2
      <4>4. First(h) + Len(t) <= Start(c.row) + c.col + 1
        BY <2>2
      <4>5. /\ Start(c.row) \in Int /\ First(h) \in Int /\ Width \in Nat
            /\ k \in Int /\ 0 <= k /\ c.col \in Nat /\ c.col + 1 = Width
            /\ i \in Int /\ i <= Len(t)
        BY <1>1, <1>2, <1>5, <3>1
      <4> DEFINE x == Start(c.row)
                 y == First(h)
      <4>6. /\ x \in Int /\ y \in Int /\ x + k = y - Width + i - 1
            /\ y + Len(t) <= x + c.col + 1
        BY <4>3, <4>4, <4>5
      <4> HIDE DEF x, y
      <4>7. x + k + Width = y + i - 1
        BY <4>5, <4>6
      <4>8. y + i <= x + Width
        BY <4>5, <4>6
      <4> QED
        BY <4>5, <4>6, <4>7, <4>8
    <3>4. r + 1 \in Rows
      BY <1>2, <3>1, <3>3 DEF Rows
    <3>5. c.cells[r + 1][k] = t[i]
      BY <2>7, <3>2, <3>4 DEF Shows
    <3> QED
      BY <2>5, <3>3, <3>5
  <2> QED
    BY <2>4, <2>6, <2>7 DEF Shows
<1> QED
  BY <1>3, <1>4, <1>5

\* What a typed character does to what is shown behind the prompt.
LEMMA TypedEcho ==
    ASSUME NEW c \in Consoles, NEW h \in Rows, NEW t \in Seq(Chars), NEW ch \in Chars,
           PromptIn(c, h), First(h) + Len(t) <= Place(c), Higher(c, h) \in Rows
    PROVE  LET d == Printed(c, ch)
               longer == Append(t, ch)
               g == Higher(c, h)
           IN  /\ PromptIn(d, g) /\ First(g) + Len(longer) <= Place(d)
               /\ Place(c) = First(h) + Len(t) /\ Shows(c, h, t)
                    => Place(d) = First(g) + Len(longer) /\ Shows(d, g, longer)
<1> DEFINE d == Printed(c, ch)
           longer == Append(t, ch)
           g == Higher(c, h)
           w == Inscribed(c, ch)
<1>1. /\ w \in Consoles /\ w.row = c.row /\ w.col = c.col
      /\ w.cells = [c.cells EXCEPT ![c.row] = [@ EXCEPT ![c.col] = ch]]
  BY InscribedTypes
<1>2. d \in Consoles /\ GoesOn(w, d)
  BY <1>1, PrintTypes DEF GoesOn
<1>3. longer \in Seq(Chars) /\ Len(longer) = Len(t) + 1 /\ Len(t) \in Nat
      /\ Len(longer) \in Nat
  BY AppendProperties
<1>4. Place(w) = Place(c) /\ Place(w) = At(w.row, w.col) /\ Higher(w, h) = g
  BY <1>1 DEF Place, Higher
<1>5. c.row \in Rows /\ c.col \in Cols /\ h \in Int /\ g \in Int
      /\ Place(c) \in Int /\ Place(d) \in Int
  BY <1>2, CursorTypes, Screen DEF Rows
<1>6. First(h) \in Int /\ First(g) \in Int
  BY <1>5, PromptTypes
<1> HIDE DEF d, longer, g, w
<1>7. PromptIn(w, h)
  <2>1. First(h) <= At(c.row, c.col)
    BY <1>3, <1>5, <1>6 DEF Place
  <2>2. w.cells = Inked(c.cells, c.row, c.col, ch)
    BY <1>1 DEF Inked
  <2> QED
    BY <1>5, <2>1, <2>2, PromptKept
<1>8. First(h) + Len(longer) <= Place(w) + 1
  BY <1>3, <1>4, <1>5, <1>6
<1>9. /\ PromptIn(d, g) /\ Place(d) - First(g) = Place(c) + 1 - First(h)
      /\ Shows(w, h, longer) => Shows(d, g, longer)
  <2>1. Higher(w, h) \in Rows
    BY <1>4 DEF g
  <2>2. /\ PromptIn(d, Higher(w, h))
        /\ Place(d) - First(Higher(w, h)) = Place(w) + 1 - First(h)
        /\ Shows(w, h, longer) => Shows(d, Higher(w, h), longer)
    BY <1>1, <1>2, <1>3, <1>7, <1>8, <2>1, GoingOn
  <2> QED
    BY <1>4, <2>2
<1>10. First(g) + Len(longer) <= Place(d)
  BY <1>3, <1>5, <1>6, <1>9
<1>11. ASSUME Place(c) = First(h) + Len(t), Shows(c, h, t)
       PROVE  Place(d) = First(g) + Len(longer) /\ Shows(d, g, longer)
  <2>1. Shows(w, h, longer)
    BY <1>11, InscribedShows DEF w, longer
  <2>2. Place(d) = First(g) + Len(longer)
    BY <1>3, <1>5, <1>6, <1>9, <1>11
  <2> QED
    BY <1>9, <2>1, <2>2
<1> QED
  BY <1>9, <1>10, <1>11 DEF d, longer, g

LEMMA FrontTypes ==
    ASSUME NEW S, NEW t \in Seq(S), t # <<>>
    PROVE  /\ Len(t) \in Nat /\ Len(t) > 0 /\ Front(t) \in Seq(S)
           /\ Len(Front(t)) = Len(t) - 1
           /\ \A i \in 1..(Len(t) - 1) : Front(t)[i] = t[i]
<1> DEFINE n == Len(t) - 1
<1>1. Len(t) \in Nat /\ Len(t) > 0 /\ n \in Int /\ 1 \in Int
  OBVIOUS
<1>2. \A i \in 1..n : t[i] \in S
  BY <1>1
<1> HIDE DEF n
<1> DEFINE u == SubSeq(t, 1, n)
<1>3. /\ u \in Seq(S) /\ Len(u) = IF 1 <= n THEN n - 1 + 1 ELSE 0
      /\ \A i \in 1..(n - 1 + 1) : u[i] = t[1 + i - 1]
  BY <1>1, <1>2, SubSeqProperties
<1>4. n >= 0
  BY <1>1 DEF n
<1> HIDE DEF u
<1>5. Len(u) = n /\ \A i \in 1..n : u[i] = t[i]
  BY <1>1, <1>3, <1>4
<1> QED
  BY <1>1, <1>3, <1>5 DEF Front, n, u

\* Taking back the last character takes the one before the cursor off the
\* screen, unless the cursor is in the first column.
LEMMA RubbedEcho ==
    ASSUME NEW c \in Consoles, NEW h \in Rows, NEW t \in Seq(Chars), t # <<>>,
           PromptIn(c, h), First(h) + Len(t) <= Place(c)
    PROVE  LET d == Erased(c)
               shorter == Front(t)
           IN  /\ PromptIn(d, h) /\ First(h) + Len(shorter) <= Place(d)
               /\ c.col # 0 /\ Place(c) = First(h) + Len(t) /\ Shows(c, h, t)
                    => Place(d) = First(h) + Len(shorter) /\ Shows(d, h, shorter)
<1> DEFINE d == Erased(c)
           shorter == Front(t)
           k == c.col - 1
<1>1. /\ Len(t) \in Nat /\ Len(t) > 0 /\ shorter \in Seq(Chars)
      /\ Len(shorter) = Len(t) - 1
      /\ \A i \in 1..(Len(t) - 1) : shorter[i] = t[i]
  BY FrontTypes
<1>2. /\ c.row \in Rows /\ c.row \in Int /\ c.col \in Nat /\ c.col < Width
      /\ Place(c) \in Int /\ First(h) \in Int /\ Width \in Nat
  <2>1. c.row \in Rows /\ c.row \in Nat /\ c.col \in Nat /\ c.col < Width /\ Place(c) \in Int
    BY CursorTypes
  <2>2. Width \in Nat /\ h \in Int
    BY Screen DEF Rows
  <2>3. First(h) \in Int
    BY <2>2, PromptTypes
  <2> QED
    BY <2>1, <2>2, <2>3
<1>3. CASE c.col = 0
  <2>1. d = c
    BY <1>3 DEF Erased
  <2> HIDE DEF d, shorter
  <2>2. PromptIn(d, h) /\ First(h) + Len(shorter) <= Place(d)
    BY <1>1, <1>2, <2>1
  <2> QED
    BY <1>3, <2>2 DEF d, shorter
<1>4. CASE c.col # 0
  <2>1. k \in Cols
    BY <1>2, <1>4 DEF Cols
  <2>2. /\ d.row = c.row /\ d.col = k
        /\ d.cells = [c.cells EXCEPT ![c.row] = [@ EXCEPT ![k] = Blank]]
    BY <1>4 DEF Erased, Consoles
  <2>3. Place(d) = At(c.row, k) /\ Place(d) = Place(c) - 1
    <3>1. Start(c.row) \in Int
      BY <1>2, StartTypes
    <3> QED
      BY <1>2, <2>2, <3>1 DEF Place, At
  <2> HIDE DEF d, shorter, k
  <2>4. PromptIn(d, h)
    <3>1. First(h) <= At(c.row, k)
      BY <1>1, <1>2, <2>3
    <3>2. d.cells = Inked(c.cells, c.row, k, Blank)
      BY <2>2 DEF Inked
    <3> QED
      BY <1>2, <2>1, <3>1, <3>2, PromptKept
  <2>5. First(h) + Len(shorter) <= Place(d)
    BY <1>1, <1>2, <2>3
  <2>6. ASSUME Place(c) = First(h) + Len(t), Shows(c, h, t)
        PROVE  Place(d) = First(h) + Len(shorter) /\ Shows(d, h, shorter)
    <3>1. Place(d) = First(h) + Len(shorter)
      BY <1>1, <1>2, <2>3, <2>6
    <3>2. ASSUME NEW q \in Rows, NEW j \in Cols, NEW i \in 1..Len(shorter),
                 At(q, j) = First(h) + i - 1
          PROVE  d.cells[q][j] = shorter[i]
      <4>1. i \in 1..(Len(t) - 1) /\ i \in 1..Len(t)
        BY <1>1
      <4>2. c.cells[q][j] = t[i]
        BY <2>6, <3>2, <4>1 DEF Shows
      <4>3. At(q, j) # At(c.row, k)
        BY <1>1, <1>2, <2>3, <3>1, <3>2
      <4>4. c.cells \in [Rows -> [Cols -> Chars]]
        BY DEF Consoles
      <4>5. d.cells[q][j] = c.cells[q][j]
        BY <1>2, <2>1, <2>2, <4>3, <4>4
      <4> QED
        BY <1>1, <4>1, <4>2, <4>5
    <3> QED
      BY <3>1, <3>2 DEF Shows
  <2> QED
    BY <2>4, <2>5, <2>6 DEF d, shorter
<1> QED
  BY <1>3, <1>4

\* write() prints the characters of its text, one after the other.
LEMMA WrittenSteps ==
    ASSUME NEW c \in Consoles, NEW t \in Seq(Chars)
    PROVE  \E after \in [0..Len(t) -> Consoles] :
             /\ after[0] = c /\ Written(c, t) = after[Len(t)]
             /\ \A n \in 1..Len(t) : after[n] = Printed(after[n - 1], t[n])
<1> DEFINE N == Len(t)
           turn == [n \in 1..N |-> [e \in Consoles |-> Printed(e, t[n])]]
           Loop(f) == [n \in 0..N |->
                         IF n = 0 THEN c ELSE Printed(f[n - 1], t[n])]
           after == CHOOSE f : f = Loop(f)
<1>1. N \in Nat
  OBVIOUS
<1>2. turn \in Turns(N, Consoles)
  BY PrintTypes DEF Turns
<1>3. PICK f : f \in LoopRuns(N, Consoles, c, turn)
  <2> HIDE DEF N, turn, Loop, after
  <2> QED
    BY <1>1, <1>2, LoopDefined
<1>4. Written(c, t) = after[N]
  BY DEF Written
<1> HIDE DEF N
<1>5. f = Loop(f)
  <2>1. ASSUME NEW n \in 0..N
        PROVE  f[n] = IF n = 0 THEN c ELSE Printed(f[n - 1], t[n])
    <3>1. CASE n = 0
      BY <1>3, <3>1 DEF LoopRuns
    <3>2. CASE n # 0
      <4>1. n \in 1..N /\ n - 1 \in 0..N
        BY <1>1, <3>2
      <4>2. f[n - 1] \in Consoles /\ f[n] = turn[n][f[n - 1]]
        BY <1>3, <4>1 DEF LoopRuns
      <4> QED
        BY <3>2, <4>1, <4>2
    <3> QED
      BY <3>1, <3>2
  <2> QED
    BY <1>3, <2>1 DEF LoopRuns
<1>6. after = Loop(after)
  <2> HIDE DEF Loop
  <2> QED
    BY <1>5
<1> HIDE DEF after
<1>7. after[0] = c /\ \A n \in 1..N : after[n] = Printed(after[n - 1], t[n])
  BY <1>1, <1>6
<1> DEFINE Typed == {n \in 0..N : after[n] \in Consoles}
<1>8. 0 \in Typed
  BY <1>1, <1>7
<1>9. ASSUME NEW n \in 0..(N - 1), n \in Typed PROVE n + 1 \in Typed
  <2>1. n + 1 \in 1..N /\ n + 1 \in 0..N /\ (n + 1) - 1 = n
    BY <1>1
  <2>2. t[n + 1] \in Chars
    BY <2>1 DEF N
  <2>3. after[n + 1] = Printed(after[n], t[n + 1])
    BY <1>7, <2>1
  <2> QED
    BY <1>9, <2>1, <2>2, <2>3, PrintTypes
<1>10. 0..N \subseteq Typed
  <2> HIDE DEF Typed
  <2> QED
    BY <1>1, <1>8, <1>9, InductionUpTo
<1>11. after = [n \in 0..N |-> after[n]]
  <2>1. after = [n \in 0..N |-> IF n = 0 THEN c ELSE Printed(after[n - 1], t[n])]
    BY <1>6
  <2> QED
    BY <2>1
<1>12. after \in [0..N -> Consoles]
  BY <1>10, <1>11
<1> QED
  BY <1>4, <1>7, <1>12 DEF N

\* A line that is written leaves the cursor at the start of the next.
LEMMA LineTypes ==
    ASSUME NEW c \in Consoles, NEW t \in Seq(Chars)
    PROVE  WrittenLine(c, t) \in Consoles /\ WrittenLine(c, t).col = 0
<1>1. PICK after \in [0..Len(t) -> Consoles] : Written(c, t) = after[Len(t)]
  BY WrittenSteps
<1>2. Len(t) \in 0..Len(t)
  OBVIOUS
<1>3. Written(c, t) \in Consoles
  BY <1>1, <1>2
<1> QED
  BY <1>3, FeedTypes DEF WrittenLine

\* The greeting has a line at least, so it leaves the cursor at the start of
\* one, wherever the boot left it.
LEMMA GreetedEnds ==
    ASSUME NEW c \in Consoles
    PROVE  Greeted(c) \in Consoles /\ Greeted(c).col = 0
<1> DEFINE N == Len(Greeting)
           turn == [n \in 1..N |-> [e \in Consoles |-> WrittenLine(e, Greeting[n])]]
           Loop(f) == [n \in 0..N |->
                         IF n = 0 THEN c ELSE WrittenLine(f[n - 1], Greeting[n])]
           after == CHOOSE f : f = Loop(f)
<1>1. N \in Nat /\ N > 0 /\ \A n \in 1..N : Greeting[n] \in Seq(Chars)
  <2>1. Greeting \in Seq(Seq(Chars)) /\ Greeting # <<>>
    BY ShellAssumption
  <2> QED
    BY <2>1, EmptySeq
<1>2. turn \in Turns(N, Consoles)
  BY <1>1, LineTypes DEF Turns
<1>3. PICK f : f \in LoopRuns(N, Consoles, c, turn)
  <2> HIDE DEF N, turn, Loop, after
  <2> QED
    BY <1>1, <1>2, LoopDefined
<1>4. Greeted(c) = after[N]
  BY DEF Greeted
<1> HIDE DEF N
<1>5. f = Loop(f)
  <2>1. ASSUME NEW n \in 0..N
        PROVE  f[n] = IF n = 0 THEN c ELSE WrittenLine(f[n - 1], Greeting[n])
    <3>1. CASE n = 0
      BY <1>3, <3>1 DEF LoopRuns
    <3>2. CASE n # 0
      <4>1. n \in 1..N /\ n - 1 \in 0..N
        BY <1>1, <3>2
      <4>2. f[n - 1] \in Consoles /\ f[n] = turn[n][f[n - 1]]
        BY <1>3, <4>1 DEF LoopRuns
      <4> QED
        BY <3>2, <4>1, <4>2
    <3> QED
      BY <3>1, <3>2
  <2> QED
    BY <1>3, <2>1 DEF LoopRuns
<1>6. after = Loop(after)
  <2> HIDE DEF Loop
  <2> QED
    BY <1>5
<1> HIDE DEF after
<1>7. /\ after[0] = c
      /\ \A n \in 1..N : after[n] = WrittenLine(after[n - 1], Greeting[n])
  BY <1>1, <1>6
<1> DEFINE Typed == {n \in 0..N : after[n] \in Consoles}
<1>8. 0 \in Typed
  BY <1>1, <1>7
<1>9. ASSUME NEW n \in 0..(N - 1), n \in Typed PROVE n + 1 \in Typed
  <2>1. n + 1 \in 1..N /\ n + 1 \in 0..N /\ (n + 1) - 1 = n
    BY <1>1
  <2>2. after[n + 1] = WrittenLine(after[n], Greeting[n + 1])
    BY <1>7, <2>1
  <2> QED
    BY <1>1, <1>9, <2>1, <2>2, LineTypes
<1>10. 0..N \subseteq Typed
  <2> HIDE DEF Typed
  <2> QED
    BY <1>1, <1>8, <1>9, InductionUpTo
<1>11. N \in 1..N /\ N - 1 \in 0..N
  BY <1>1
<1>12. after[N] = WrittenLine(after[N - 1], Greeting[N]) /\ after[N - 1] \in Consoles
  BY <1>7, <1>10, <1>11
<1> QED
  BY <1>1, <1>4, <1>11, <1>12, LineTypes

\* A prompt that is written at the start of a row stands in it, and the cursor
\* behind it.
LEMMA PromptWritten ==
    ASSUME NEW c \in Consoles, c.col = 0
    PROVE  LET d == Written(c, Prompt)
           IN  /\ d \in Consoles /\ d.row = c.row
               /\ PromptIn(d, d.row) /\ Place(d) = First(d.row)
<1> DEFINE N == Len(Prompt)
<1>1. N \in Nat /\ N < Width /\ Prompt \in Seq(Chars)
  BY ShellAssumption, Screen
<1>2. PICK after \in [0..N -> Consoles] :
        /\ after[0] = c /\ Written(c, Prompt) = after[N]
        /\ \A n \in 1..N : after[n] = Printed(after[n - 1], Prompt[n])
  BY <1>1, WrittenSteps
<1> DEFINE Stands == {n \in 0..N :
                        /\ after[n].row = c.row /\ after[n].col = n
                        /\ \A i \in 1..n : after[n].cells[c.row][i - 1] = Prompt[i]}
<1> HIDE DEF N
<1>3. 0 \in Stands
  BY <1>1, <1>2
<1>4. ASSUME NEW n \in 0..(N - 1), n \in Stands PROVE n + 1 \in Stands
  <2> DEFINE e == after[n]
             ch == Prompt[n + 1]
             w == Inscribed(e, ch)
             d == after[n + 1]
  <2>1. n + 1 \in 1..N /\ n + 1 \in 0..N /\ (n + 1) - 1 = n /\ n \in 0..N
        /\ n + 1 # Width /\ n \in Cols
    BY <1>1, Screen DEF Cols
  <2>2. e \in Consoles /\ ch \in Chars /\ d = Printed(e, ch) /\ e.col = n
        /\ e.row = c.row
    BY <1>1, <1>2, <1>4, <2>1 DEF N
  <2>3. /\ w \in Consoles /\ w.row = e.row
        /\ w.cells = [e.cells EXCEPT ![e.row] = [@ EXCEPT ![n] = ch]]
    BY <2>2, InscribedTypes
  <2>4. d = [w EXCEPT !.col = n + 1]
    BY <2>1, <2>2, PrintTypes
  <2>5. d.row = c.row /\ d.col = n + 1 /\ d.cells = w.cells
    BY <2>2, <2>3, <2>4 DEF Consoles
  <2>6. e.row \in Rows /\ e.cells \in [Rows -> [Cols -> Chars]]
    BY <2>2 DEF Consoles
  <2>7. ASSUME NEW i \in 1..(n + 1) PROVE d.cells[c.row][i - 1] = Prompt[i]
    <3>1. i - 1 \in Cols
      BY <1>1, <2>1, Screen DEF Cols
    <3>2. CASE i = n + 1
      <4>1. d.cells[c.row][n] = ch
        BY <2>1, <2>2, <2>3, <2>5, <2>6
      <4> QED
        BY <2>1, <3>2, <4>1
    <3>3. CASE i # n + 1
      <4>1. i \in 1..n /\ i - 1 # n
        BY <1>1, <3>3
      <4>2. e.cells[c.row][i - 1] = Prompt[i]
        BY <1>4, <4>1
      <4> QED
        BY <2>1, <2>2, <2>3, <2>5, <2>6, <3>1, <4>1, <4>2
    <3> QED
      BY <3>2, <3>3
  <2> HIDE DEF e, ch, w, d
  <2> QED
    BY <2>1, <2>5, <2>7 DEF d
<1>5. N \in Stands
  <2> HIDE DEF Stands
  <2>1. 0..N \subseteq Stands
    BY <1>1, <1>3, <1>4, InductionUpTo
  <2> QED
    BY <1>1, <2>1
<1> DEFINE d == Written(c, Prompt)
<1>6. d \in Consoles /\ d.row = c.row /\ d.col = N
      /\ \A i \in 1..N : d.cells[c.row][i - 1] = Prompt[i]
  BY <1>1, <1>2, <1>5
<1> HIDE DEF d, Stands
<1>7. PromptIn(d, d.row) /\ Place(d) = First(d.row)
  BY <1>6 DEF N, PromptIn, Place, First
<1> QED
  BY <1>6, <1>7 DEF d

\* Typed characters are characters of the console.
LEMMA CommandTypes ==
    ASSUME TypeOK
    PROVE  /\ command \in Seq(Letters) /\ command \in Seq(Chars)
           /\ Len(command) \in Nat /\ con \in Consoles
           /\ home \in Int /\ home < Height /\ (home >= 0 => home \in Rows)
<1>1. command \in Seq(Letters) /\ con \in Consoles /\ home \in -1..(Height - 1)
  BY DEF TypeOK
<1>2. /\ home \in Int /\ home < Height /\ (home >= 0 => home \in Rows)
  BY <1>1, Screen DEF Rows
<1>3. command \in Seq(Chars) /\ Len(command) \in Nat
  BY <1>1, ShellAssumption
<1> QED
  BY <1>1, <1>2, <1>3

LEMMA TypeKeeps ==
    ASSUME EchoInv, stage = "shell", UNCHANGED stage,
           NEW ch \in Letters, Type(ch)
    PROVE  EchoInv'
<1>1. ch \in Chars /\ TypeOK
  BY ShellAssumption DEF EchoInv
<1>2. /\ command \in Seq(Letters) /\ command \in Seq(Chars) /\ Len(command) \in Nat
      /\ con \in Consoles
      /\ home \in Int /\ home < Height /\ (home >= 0 => home \in Rows)
  BY <1>1, CommandTypes
<1>3. /\ Len(command) + 1 < MaxCommand /\ command' = Append(command, ch)
      /\ con' = Printed(con, ch) /\ strayed' = strayed
  BY DEF Type, Room
<1>4. /\ home < 0 => home' = home
      /\ home >= 0 => home' = Higher(con, home)
  BY <1>2 DEF Type, HomeAfter, Higher
<1>5. home' \in -1..(Height - 1)
  <2>1. home < 0 => home = -1
    BY <1>1, Screen DEF TypeOK
  <2>2. home >= 0 => home' \in {home, home - 1}
    BY <1>4 DEF Higher
  <2> QED
    BY <1>2, <1>4, <2>1, <2>2, Screen
<1>6. TypeOK'
  <2>1. con' \in Consoles
    BY <1>1, <1>2, <1>3, PrintTypes
  <2>2. command' \in Seq(Letters) /\ Len(command') < MaxCommand
    BY <1>2, <1>3, AppendProperties
  <2> QED
    BY <1>1, <1>3, <1>5, <2>1, <2>2 DEF TypeOK
<1>7. ASSUME home' >= 0
      PROVE  /\ PromptIn(con, home)' /\ (First(home) + Len(command) <= Place(con))'
             /\ ~strayed' => /\ (Place(con) = First(home) + Len(command))'
                             /\ Shows(con, home, command)'
  <2>1. home >= 0 /\ home \in Rows /\ home' = Higher(con, home)
    BY <1>2, <1>4, <1>7
  <2>2. Higher(con, home) \in Rows
    BY <1>5, <1>7, <2>1, Screen DEF Rows
  <2>3. /\ PromptIn(con, home) /\ First(home) + Len(command) <= Place(con)
        /\ ~strayed => /\ Place(con) = First(home) + Len(command)
                       /\ Shows(con, home, command)
    BY <2>1 DEF EchoInv
  <2>4. /\ PromptIn(con', home') /\ First(home') + Len(command') <= Place(con')
        /\ Place(con) = First(home) + Len(command) /\ Shows(con, home, command)
             => Place(con') = First(home') + Len(command')
                /\ Shows(con', home', command')
    BY <1>1, <1>2, <1>3, <2>1, <2>2, <2>3, TypedEcho
  <2> QED
    BY <1>3, <2>3, <2>4 DEF PromptIn, Shows, First, Place, At, Start
<1> QED
  BY <1>6, <1>7 DEF EchoInv

LEMMA RuboutKeeps ==
    ASSUME EchoInv, stage = "shell", UNCHANGED stage, Rubout
    PROVE  EchoInv'
<1>1. TypeOK
  BY DEF EchoInv
<1>2. /\ command \in Seq(Letters) /\ command \in Seq(Chars) /\ Len(command) \in Nat
      /\ con \in Consoles
      /\ home \in Int /\ home < Height /\ (home >= 0 => home \in Rows)
  BY <1>1, CommandTypes
<1>3. /\ command # <<>> /\ command' = Front(command) /\ con' = Erased(con)
      /\ strayed' = (strayed \/ con.col = 0) /\ home' = home
  BY DEF Rubout
<1>4. TypeOK'
  <2>1. con' \in Consoles
    BY <1>2, <1>3, OtherTypes
  <2>2. command' \in Seq(Letters) /\ Len(command') = Len(command) - 1
    BY <1>2, <1>3, FrontTypes
  <2>3. Len(command') < MaxCommand
    BY <1>1, <1>2, <2>2, ShellAssumption DEF TypeOK
  <2>4. strayed' \in BOOLEAN
    BY <1>3
  <2> QED
    BY <1>1, <1>3, <2>1, <2>2, <2>3, <2>4 DEF TypeOK
<1>5. ASSUME home' >= 0
      PROVE  /\ PromptIn(con, home)' /\ (First(home) + Len(command) <= Place(con))'
             /\ ~strayed' => /\ (Place(con) = First(home) + Len(command))'
                             /\ Shows(con, home, command)'
  <2>1. home >= 0 /\ home \in Rows
    BY <1>2, <1>3, <1>5
  <2>2. /\ PromptIn(con, home) /\ First(home) + Len(command) <= Place(con)
        /\ ~strayed => /\ Place(con) = First(home) + Len(command)
                       /\ Shows(con, home, command)
    BY <2>1 DEF EchoInv
  <2>3. /\ PromptIn(con', home) /\ First(home) + Len(command') <= Place(con')
        /\ con.col # 0 /\ Place(con) = First(home) + Len(command)
             /\ Shows(con, home, command)
             => Place(con') = First(home) + Len(command')
                /\ Shows(con', home, command')
    BY <1>2, <1>3, <2>1, <2>2, RubbedEcho
  <2>4. PromptIn(con, home)' /\ (First(home) + Len(command) <= Place(con))'
    BY <1>3, <2>3 DEF PromptIn, First, Place, At, Start
  <2>5. ASSUME ~strayed'
        PROVE  (Place(con) = First(home) + Len(command))' /\ Shows(con, home, command)'
    <3>1. ~strayed /\ con.col # 0
      BY <1>3, <2>5
    <3>2. /\ Place(con') = First(home) + Len(command')
          /\ Shows(con', home, command')
      BY <2>2, <2>3, <3>1
    <3> QED
      BY <1>3, <3>2 DEF Shows, First, Place, At, Start
  <2> QED
    BY <2>4, <2>5
<1> QED
  BY <1>4, <1>5 DEF EchoInv

\* A new prompt at the start of a row, with nothing typed behind it.
LEMMA PromptKeeps ==
    ASSUME NEW c \in Consoles, c.col = 0, stage' = "shell",
           con' = Written(c, Prompt), command' = <<>>, home' = con'.row,
           strayed' = FALSE
    PROVE  EchoInv'
<1>1. /\ con' \in Consoles /\ PromptIn(con', home') /\ Place(con') = First(home')
  BY PromptWritten
<1>2. /\ home' \in Int /\ home' \in -1..(Height - 1)
      /\ First(home') \in Int
  <2>1. home' \in Nat /\ home' < Height
    BY <1>1, CursorTypes
  <2>2. home' \in Int /\ home' \in -1..(Height - 1)
    BY <2>1, Screen
  <2> QED
    BY <2>2, PromptTypes
<1>3. command' \in Seq(Letters) /\ Len(command') = 0 /\ 0 < MaxCommand
  BY ShellAssumption
<1>4. TypeOK'
  BY <1>1, <1>2, <1>3 DEF TypeOK
<1>5. Place(con') = First(home') + Len(command')
  BY <1>1, <1>2, <1>3
<1>6. First(home') + Len(command') <= Place(con')
  BY <1>1, <1>2, <1>3
<1>7. Shows(con', home', command')
  <2>1. \A i : i \notin 1..Len(command')
    BY <1>3
  <2> QED
    BY <2>1 DEF Shows
<1> QED
  BY <1>1, <1>4, <1>5, <1>6, <1>7
     DEF EchoInv, PromptIn, Shows, First, Place, At, Start

\* A command leaves the cursor at the start of a line.
LEMMA CommandEnds ==
    ASSUME TypeOK, NEW c \in Executed(LineFed(con))
    PROVE  c \in Consoles /\ c.col = 0
<1>1. con \in Consoles /\ command \in Seq(Chars) /\ Said \in Seq(Chars)
  BY CommandTypes, ShellAssumption
<1> DEFINE d == LineFed(con)
<1>2. d \in Consoles /\ d.col = 0
  BY <1>1, FeedTypes
<1> HIDE DEF d
<1>3. ASSUME NEW t \in Seq(Chars)
      PROVE  WrittenLine(d, t) \in Consoles /\ WrittenLine(d, t).col = 0
  BY <1>2, LineTypes
<1>4. Cleared \in Consoles /\ Cleared.col = 0
  BY Screen DEF Cleared
<1>5. c \in {d, Cleared, WrittenLine(d, Said), WrittenLine(d, command)}
  BY DEF Executed, d
<1> QED
  BY <1>1, <1>2, <1>3, <1>4, <1>5

LEMMA EchoStep ==
    ASSUME EchoInv, [TNext]_tvars
    PROVE  EchoInv'
<1>1. CASE ShellStarts
  <2>1. Greeted(con) \in Consoles /\ Greeted(con).col = 0
    BY GreetedEnds DEF EchoInv, TypeOK
  <2>2. /\ con' = Written(Greeted(con), Prompt) /\ stage' = "shell"
        /\ home' = con'.row /\ command' = <<>> /\ strayed' = FALSE
    BY <1>1 DEF ShellStarts, Run
  <2> QED
    BY <2>1, <2>2, PromptKeeps
<1>2. CASE stage = "boot" /\ BootText /\ UNCHANGED <<stage, command, home, strayed>>
  <2>1. con \in Consoles /\ BootChars \subseteq Chars
    BY TerminalAssumption DEF EchoInv, TypeOK
  <2>2. con' \in Consoles
    BY <1>2, <2>1, PrintTypes, FeedTypes, OtherTypes, Screen
       DEF BootText, Put, PutNewline, PutReturn, PutBackspace, Clear
  <2>3. home' = -1 /\ command' = <<>> /\ ~strayed'
    BY <1>2 DEF EchoInv
  <2> QED
    BY <1>2, <2>2, <2>3 DEF EchoInv, TypeOK
<1>3. CASE stage = "shell" /\ Next /\ UNCHANGED stage
  <2>1. ASSUME NEW ch \in Letters, Type(ch) PROVE EchoInv'
    BY <1>3, <2>1, TypeKeeps
  <2>2. CASE Rubout
    BY <1>3, <2>2, RuboutKeeps
  <2>3. CASE Enter
    <3>1. PICK c \in Executed(LineFed(con)) :
            con' = Written(c, Prompt) /\ home' = con'.row
      BY <2>3 DEF Enter
    <3>2. c \in Consoles /\ c.col = 0
      BY CommandEnds DEF EchoInv
    <3>3. stage' = "shell" /\ command' = <<>> /\ strayed' = FALSE
      BY <1>3, <2>3 DEF Enter
    <3> QED
      BY <3>1, <3>2, <3>3, PromptKeeps
  <2> QED
    BY <1>3, <2>1, <2>2, <2>3 DEF Next
<1>4. CASE UNCHANGED tvars
  BY <1>4 DEF tvars, vars, EchoInv, TypeOK, PromptIn, Shows, First, Place, At, Start
<1> QED
  BY <1>1, <1>2, <1>3, <1>4 DEF TNext

LEMMA EchoAlways == TSpec => []EchoInv
<1>1. TInit => EchoInv
  <2> SUFFICES ASSUME TInit PROVE EchoInv
    OBVIOUS
  <2>1. con \in Consoles /\ command = <<>> /\ home = -1 /\ strayed = FALSE
    BY Screen DEF TInit, CInit
  <2>2. command \in Seq(Letters) /\ Len(command) = 0 /\ 0 < MaxCommand
    BY <2>1, ShellAssumption
  <2>3. home \in -1..(Height - 1)
    BY <2>1, Screen
  <2>4. TypeOK
    BY <2>1, <2>2, <2>3 DEF TypeOK
  <2> QED
    BY <2>1, <2>4 DEF EchoInv
<1> QED
  BY <1>1, EchoStep, PTL DEF TSpec

\* The cursor is always on the screen, and the command and the 0 that ends it
\* always fit into the buffer.
THEOREM ShellTypes == TSpec => []TypeOK
<1>1. EchoInv => TypeOK
  BY DEF EchoInv
<1> QED
  BY <1>1, EchoAlways, PTL

LEMMA Divided ==
    ASSUME NEW n \in Nat, NEW w \in Nat, w > 0
    PROVE  /\ n \div w \in Nat /\ n % w \in 0..(w - 1)
           /\ n = ((n \div w) * w) + (n % w)
OBVIOUS

\* Reading the screen place by place is reading the command.
LEMMA EchoRead == EchoInv => EchoExact
<1> SUFFICES ASSUME EchoInv, home >= 0
             PROVE  /\ \A i \in 1..Len(Prompt) : con.cells[home][i - 1] = Prompt[i]
                    /\ ~strayed => Echo = command
  BY DEF EchoExact
<1>1. TypeOK /\ PromptIn(con, home)
  BY DEF EchoInv
<1>2. /\ command \in Seq(Letters) /\ Len(command) \in Nat
      /\ con \in Consoles /\ home \in Int
  BY <1>1, CommandTypes
<1>3. ASSUME ~strayed PROVE Echo = command
  <2> DEFINE first == First(home)
  <2>1. Place(con) = first + Len(command) /\ Shows(con, home, command)
    BY <1>3 DEF EchoInv
  <2>2. /\ con.row \in Nat /\ con.row < Height /\ con.col \in Nat /\ con.col < Width
        /\ Width \in Nat /\ Width > 1 /\ Height \in Nat /\ Start(con.row) \in Int
    <3>1. /\ con.row \in Nat /\ con.row < Height /\ con.col \in Nat
          /\ con.col < Width
      BY <1>2, CursorTypes
    <3>2. Start(con.row) \in Int
      BY <3>1, StartTypes
    <3> QED
      BY <3>1, <3>2, Screen
  <2>3. first \in Nat
    <3>1. 0 * Width <= home * Width /\ home * Width \in Int
      BY <1>2, <2>2, Multiples
    <3> QED
      BY <2>2, <3>1, PromptTypes DEF First, At, Start
  <2>4. Echo = [i \in 1..(Place(con) - first) |->
                  con.cells[(first + i - 1) \div Width][(first + i - 1) % Width]]
    <3>1. /\ first = home * Width + Len(Prompt)
          /\ Place(con) = con.row * Width + con.col
      BY DEF Place, First, At, Start
    <3> DEFINE w == home * Width + Len(Prompt)
               v == con.row * Width + con.col
    <3>2. Echo = [i \in 1..(con.row * Width + con.col - w) |->
                    con.cells[(w + i - 1) \div Width][(w + i - 1) % Width]]
      BY Zenon DEF Echo
    <3>3. first = w /\ Place(con) = v /\ con.row * Width + con.col - w = v - w
      BY <2>2, <2>3, <3>1
    <3> HIDE DEF first, w, v
    <3> QED
      BY <3>2, <3>3
  <2>5. Place(con) - first = Len(command)
    BY <1>2, <2>1, <2>3
  <2>6. ASSUME NEW i \in 1..Len(command)
        PROVE  con.cells[(first + i - 1) \div Width][(first + i - 1) % Width]
                 = command[i]
    <3> DEFINE n == first + i - 1
               r == n \div Width
               k == n % Width
    <3>1. n \in Nat /\ n < Place(con)
      BY <1>2, <2>1, <2>3
    <3> HIDE DEF n
    <3>2. r \in Nat /\ k \in 0..(Width - 1) /\ n = r * Width + k
      <4>1. n \in Nat /\ Width \in Nat /\ Width > 0
        BY <2>2, <3>1
      <4> QED
        BY <4>1, Divided, Zenon
    <3>3. k \in Cols /\ At(r, k) = n
      BY <3>2 DEF Cols, At, Start
    <3> HIDE DEF r, k
    <3>4. r \in Rows
      <4>1. SUFFICES ASSUME con.row < r PROVE FALSE
        BY <2>2, <3>2 DEF Rows
      <4>2. Start(con.row) + Width <= Start(r) /\ Start(r) \in Int
        <5>1. con.row \in Int /\ r \in Int
          BY <2>2, <3>2
        <5> QED
          BY <4>1, <5>1, StartsApart, StartTypes
      <4>3. n = Start(r) + k /\ n < Start(con.row) + con.col
        BY <3>1, <3>3 DEF Place, At
      <4> QED
        BY <2>2, <3>1, <3>2, <4>2, <4>3
    <3>5. con.cells[r][k] = command[i]
      BY <2>1, <3>3, <3>4 DEF Shows, n
    <3> QED
      BY <3>5 DEF r, k, n
  <2> HIDE DEF first
  <2> QED
    BY <1>2, <2>4, <2>5, <2>6
<1> QED
  BY <1>1, <1>3 DEF PromptIn

\* What is shown behind the prompt is what Enter will execute, however the
\* line wraps, scrolls and is edited, on a screen of any size and with any
\* prompt, as long as no backspace came in the first column.
THEOREM EchoIsExact == TSpec => []EchoExact
BY EchoAlways, EchoRead, PTL
=============================================================================
