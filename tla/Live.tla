-------------------------------- MODULE Live --------------------------------
(***************************************************************************)
(* The incremental search UI (internal/cli/live.go): keys arrive as bytes, *)
(* each one acted on changes the query or the selection and repaints the   *)
(* frame on the terminal.  One step is one turn of run's loop, or as much  *)
(* of one as can be done before it must wait for another byte.             *)
(*                                                                         *)
(* The terminal is a column of Rows rows that scrolls; a query is taken to *)
(* fit in its row.                                                         *)
(***************************************************************************)
EXTENDS Integers, Sequences, SequencesExt, FiniteSetsExt

CONSTANTS Char,         \* the printable characters a user types
          Space,        \* one of them
          MaxResults,   \* the most results a search returns
          Rows,         \* the height of the terminal
          FirstRow,     \* the row the shell leaves the cursor on
          MaxPresses    \* bound: keys pressed in a behaviour

ASSUME LiveAssumption ==
  /\ Space \in Char
  /\ MaxResults \in Nat /\ Rows \in Nat /\ FirstRow \in 1..Rows /\ MaxPresses \in Nat

VARIABLES tty,          \* bytes pressed that bufio has not fetched
          buf,          \* bytes it has
          eof, presses,
          pc,           \* "read" a key, "csi": the end of an escape sequence, "done",
                        \* "failed"
          query, res, sel,
          out,          \* the results written to out
          screen,       \* row -> what it shows
          row,          \* the cursor's
          drawn, history        \* rows of shell output scrolled off the top

input == <<tty, buf, eof, presses>>
frame == <<screen, row, drawn, history>>
liveVars == <<input, frame, pc, query, res, sel, out>>

\* The keys, by the bytes they send.  Those of a sequence are printable too.
Key == {<<c>> : c \in Char}
         \cup {<<k>> : k \in {"ctrlC", "ctrlD", "enter", "backspace", "ctrlU", "ctrlW",
                              "escape", "tab"}}
         \cup {<<"escape", "[", "A">>, <<"escape", "[", "B">>, <<"escape", "[", "3", "~">>}
Printable == Char \cup {"[", "A", "B", "3", "~"}

Result == Seq(Printable) \X (1..MaxResults)

-----------------------------------------------------------------------------
\* The terminal.
Shell == <<"shell">>
Blank == <<"blank">>

Frame(q, rs, s) ==
  <<<<"prompt", q>>>>
    \o [i \in DOMAIN rs |-> <<IF i = s + 1 THEN "chosen" ELSE "result", rs[i]>>]
    \o <<<<"status">>>>

Highest(n) == IF n < 1 THEN 1 ELSE n

\* Where the cursor goes up to before it erases.
Climbed == IF drawn > 1 THEN Highest(row - (drawn - 1)) ELSE row

\* The rows from at on erased and f written there, over rows longer than the screen.
Overlaid(at, f) ==
  [r \in 1..Rows + Len(f) |->
     IF r < at THEN screen[r] ELSE IF r < at + Len(f) THEN f[r - at + 1] ELSE Blank]

Scrolled(at, f) == Highest(at + Len(f) - Rows) - 1

Paint(at, f) ==
  LET over == Scrolled(at, f)
  IN /\ screen' = [r \in 1..Rows |-> Overlaid(at, f)[r + over]]
     /\ row' = Highest(at - over)
     /\ history' = history + Cardinality({r \in 1..over : Overlaid(at, f)[r] = Shell})

Draw(q, rs, s) ==
  /\ Paint(Climbed, Frame(q, rs, s))
  /\ drawn' = Len(Frame(q, rs, s))

\* finish.
Erase == Paint(Climbed, <<>>) /\ drawn' = 0

-----------------------------------------------------------------------------
\* term.MakeRaw, and the first frame: no query, no results.
LiveInit ==
  /\ tty = <<>> /\ buf = <<>> /\ eof = FALSE /\ presses = 0
  /\ pc = "start"
  /\ query = <<>> /\ res = <<>> /\ sel = 0
  /\ out = <<>>
  /\ screen = [r \in 1..Rows |-> IF r < FirstRow THEN Shell ELSE Blank]
  /\ row = FirstRow /\ drawn = 0 /\ history = 0

Start ==
  /\ pc = "start" /\ pc' = "read"
  /\ Draw(query, res, sel)
  /\ UNCHANGED <<input, query, res, sel, out>>

Press(k) ==
  /\ ~eof /\ presses < MaxPresses
  /\ tty' = tty \o k /\ presses' = presses + 1
  /\ UNCHANGED <<buf, eof, frame, pc, query, res, sel, out>>

\* The connection closes; bytes on their way may be lost.
Hangup ==
  /\ ~eof /\ eof' = TRUE
  /\ \E n \in 0..Len(tty) : tty' = SubSeq(tty, 1, n)
  /\ UNCHANGED <<buf, presses, frame, pc, query, res, sel, out>>

\* bufio fetches what has arrived, which may be part of a key's bytes.
Fetch ==
  /\ pc \in {"read", "csi"} /\ buf = <<>>
  /\ \E n \in 1..Len(tty) :
       buf' = SubSeq(tty, 1, n) /\ tty' = SubSeq(tty, n + 1, Len(tty))
  /\ UNCHANGED <<eof, presses, frame, pc, query, res, sel, out>>

Blanks(q) == \A i \in DOMAIN q : q[i] = Space

\* Mutant of Search: the selection stays where it was.
SearchKeepingSel(q) ==
  /\ query' = q
  /\ \E n \in 0..MaxResults :
       /\ Blanks(q) => n = 0
       /\ res' = [i \in 1..n |-> <<q, i>>]
  /\ sel' = sel

\* search: a query of blanks, and one that fails, finds nothing.
Search(q) ==
  /\ query' = q
  /\ \E n \in 0..MaxResults :
       /\ Blanks(q) => n = 0
       /\ res' = [i \in 1..n |-> <<q, i>>]
  /\ sel' = 0

\* search, then run's draw.
Requery(q) == Search(q) /\ Draw(q, res', 0) /\ UNCHANGED <<pc, out>>

Redraw == Draw(query, res, sel) /\ UNCHANGED <<pc, query, res, sel, out>>

Finish(accept) ==
  /\ pc' = "done"
  /\ Erase
  /\ out' = IF accept /\ sel < Len(res) THEN Append(out, res[sel + 1]) ELSE out
  /\ UNCHANGED <<query, res, sel>>

\* deleteWord: the blanks at the end, then the word before them.
WithoutWord(q) ==
  LET n == Max({m \in 0..Len(q) : m > 0 => q[m] # Space})
  IN SubSeq(q, 1, Max({m \in 0..n : m > 0 => q[m] = Space}))

Edit(b) ==
  \/ b = "backspace" /\ query # <<>> /\ Requery(Front(query))
  \/ b = "backspace" /\ query = <<>> /\ Redraw
  \/ b = "ctrlU" /\ Requery(<<>>)
  \/ b = "ctrlW" /\ Requery(WithoutWord(query))
  \/ b \in Printable /\ Requery(Append(query, b))
  \/ b = "ctrlD" /\ query # <<>> /\ Redraw
  \/ b = "tab" /\ UNCHANGED <<frame, pc, query, res, sel, out>>

Leave(b) ==
  \/ b = "ctrlC" /\ Finish(FALSE)
  \/ b = "ctrlD" /\ query = <<>> /\ Finish(FALSE)
  \/ b = "enter" /\ Finish(TRUE)

\* handleEscape, up to the byte after the bracket: a bare Escape leaves, and so
\* does Escape with anything but a bracket.
Escape(rest) ==
  IF rest # <<>> /\ rest[1] = "["
  THEN /\ pc' = "csi" /\ buf' = Tail(rest)
       /\ UNCHANGED <<frame, query, res, sel, out>>
  ELSE /\ Finish(FALSE)
       /\ buf' = IF rest = <<>> THEN rest ELSE Tail(rest)

ReadKey ==
  /\ pc = "read" /\ buf # <<>>
  /\ \/ (Edit(Head(buf)) \/ Leave(Head(buf))) /\ buf' = Tail(buf)
     \/ Head(buf) = "escape" /\ Escape(Tail(buf))
  /\ UNCHANGED <<tty, eof, presses>>

\* Mutant of MoveTo: the frame is left as it is.
MoveUnseen(s) == sel' = s /\ UNCHANGED <<frame, query, res, out>>

MoveTo(s) == sel' = s /\ Draw(query, res, s) /\ UNCHANGED <<query, res, out>>

\* handleEscape, the byte after the bracket.
ReadCursor ==
  /\ pc = "csi" /\ buf # <<>>
  /\ \/ Head(buf) = "A" /\ MoveTo(IF sel > 0 THEN sel - 1 ELSE sel)
     \/ Head(buf) = "B" /\ MoveTo(IF sel < Len(res) - 1 THEN sel + 1 ELSE sel)
     \/ Head(buf) \notin {"A", "B"} /\ UNCHANGED <<frame, query, res, sel, out>>
  /\ pc' = "read" /\ buf' = Tail(buf)
  /\ UNCHANGED <<tty, eof, presses>>

Reading == {"read", "csi"}
Ended == pc \in Reading /\ eof /\ tty = <<>> /\ buf = <<>>

\* Mutant of ReadEnd: the rest of a sequence cut short is asked for again.
RetryCutSequence ==
  /\ Ended
  /\ IF pc = "csi" THEN UNCHANGED <<frame, pc, query, res, sel, out>> ELSE Finish(FALSE)
  /\ UNCHANGED input

\* run returns an error other than io.EOF as it is; within a sequence either will do.
ReadFails == pc = "read" /\ pc' = "failed" /\ UNCHANGED <<frame, query, res, sel, out>>

\* The input ends, between keys or within a sequence.
ReadEnd == Ended /\ (Finish(FALSE) \/ ReadFails) /\ UNCHANGED input

LiveDone == pc \in {"done", "failed"} /\ UNCHANGED liveVars

Run == Start \/ Fetch \/ ReadKey \/ ReadCursor \/ ReadEnd

LiveNext == Run \/ (\E k \in Key : Press(k)) \/ Hangup \/ LiveDone

LiveSpec == LiveInit /\ [][LiveNext]_liveVars

\* run's loop always takes its next step.
LiveFairSpec == LiveSpec /\ WF_liveVars(Run)

-----------------------------------------------------------------------------
\* The selection is on a result whenever there is one.
LiveTypeOK ==
  /\ tty \in Seq(UNION {ToSet(k) : k \in Key}) /\ buf \in Seq(UNION {ToSet(k) : k \in Key})
  /\ eof \in BOOLEAN /\ presses \in 0..MaxPresses
  /\ pc \in {"start", "read", "csi", "done", "failed"}
  /\ query \in Seq(Printable) /\ res \in Seq(Result)
  /\ sel = 0 \/ sel \in 0..Len(res) - 1
  /\ out \in Seq(Result) /\ Len(out) <= 1
  /\ row \in 1..Rows /\ drawn \in Nat /\ history \in Nat

\* The row of the first line of n that end on the screen: above it, if they are more
\* than it has rows.
Top(n) == IF n > Rows THEN Rows - n + 1 ELSE row

\* Between keys the screen shows the query, its results and the selection, once, with
\* the shell's rows above and nothing below, and the cursor on the prompt; of a frame
\* taller than the terminal, the last rows.  After the last key it shows nothing of it,
\* unless a read has failed (draw and finish, over every mix of climbing, erasing and
\* scrolling).
ScreenMatches ==
  LET ui == IF pc \in Reading \cup {"failed"} THEN Frame(query, res, sel) ELSE <<>>
      top == Top(Len(ui))
  IN /\ \A n \in DOMAIN ui :
          top + n > 1 => top + n - 1 <= Rows /\ screen[top + n - 1] = ui[n]
     /\ \A r \in top + Len(ui)..Rows : screen[r] = Blank
     /\ \A r \in 1..row - 1 : screen[r] = Shell

\* What Enter writes is the result the screen highlighted when it was read, if the
\* terminal has the rows from it down to the status.
AcceptsWhatIsShown ==
  [][out' # out /\ Len(res) - sel + 1 <= Rows =>
       \A r \in ToSet(out') : \E n \in 1..Rows : screen[n] = <<"chosen", r>>]_liveVars

\* A terminal that hangs up ends the UI, also in the middle of a key's bytes, so
\* that liveSearch can restore it.
HangupEnds == eof ~> pc \in {"done", "failed"}

\* "draw repaints the frame in place" (live.go, draw): as long as the UI runs, with
\* finish still to come, no row above the first frame's prompt has been erased by a
\* later frame, so every row of shell output is on the screen or scrolled off its top.
RepaintsInPlace ==
  pc \in Reading => history + Cardinality({r \in 1..Rows : screen[r] = Shell}) = FirstRow - 1

\* "some other sequence; swallow it rather than typing it" (live.go,
\* handleEscape): nothing gets into the query but characters typed.
SequencesSwallowed == \A n \in DOMAIN query : query[n] \in Char
=============================================================================
