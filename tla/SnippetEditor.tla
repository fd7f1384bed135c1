---------------------------- MODULE SnippetEditor ----------------------------
(* The code editor of the client (client/code_snippet.go): the user chooses  *)
(* a language, types lines, looks at a preview and sends. The text is kept   *)
(* as lines and the cursor as a column and a line; every slice of a line is  *)
(* a Go slice, which panics when a bound is past the end of the line. The    *)
(* screen is drawn after every key, so drawing belongs to every action.      *)
(* A character is one byte, as len and the slices of the code count.         *)
EXTENDS Integers, Sequences, SequencesExt

CONSTANTS Chars,      \* the characters of a line
          TypedKeys,  \* those a key types: its name in Bubble Tea is one byte long
          NL,         \* the newline
          Nil,        \* no selection, nothing sent
          Clips,      \* what another program may put on the clipboard
          MaxLen,     \* bound: characters of the text
          MaxClip     \* bound: characters copied

ASSUME EditorAssumption ==
    /\ {MaxLen, MaxClip} \subseteq Nat
    /\ NL \notin Chars /\ TypedKeys \subseteq Chars
    /\ Nil \notin Nat /\ Nil \notin [sx : Nat, sy : Nat]
    /\ Nil \notin [sx : Nat, sy : Nat, ex : Nat, ey : Nat]
    /\ Clips \subseteq Seq(Chars \cup {NL})

VARIABLES phase,      \* "select", "input", "confirm", "closed"
          doc,        \* lines, and the cursor's column x and line y, from 0
          selection,  \* from column sx of line sy to column ex of line ey, or Nil
          code,       \* the text of the preview
          clip,       \* the system's clipboard
          handed,     \* what was handed to onSend
          panicked,   \* a slice was out of range
          outlived    \* history: the selection is older than the last change of lines

editorVars == <<phase, doc, selection, code, clip, handed, panicked, outlived>>

-----------------------------------------------------------------------------
(* Lines.                                                                    *)

Take(l, n) == SubSeq(l, 1, n)
Drop(l, n) == SubSeq(l, n + 1, Len(l))

Line(d, y) == d.lines[y + 1]
LeftOf(d) == Take(Line(d, d.y), d.x)
RightOf(d) == Drop(Line(d, d.y), d.x)

(* The lines from i up to, not with, j give way to new.                      *)
Splice(ls, i, j, new) == Take(ls, i) \o new \o Drop(ls, j)

(* strings.Join(lines, "\n") and strings.Split(text, "\n").                  *)
Join(ls) ==
    LET upTo[i \in 1..Len(ls)] == IF i = 1 THEN ls[1] ELSE upTo[i - 1] \o <<NL>> \o ls[i]
    IN upTo[Len(ls)]
Split(t) ==
    LET upTo[i \in 0..Len(t)] ==
            IF i = 0 THEN << <<>> >>
            ELSE IF t[i] = NL THEN Append(upTo[i - 1], <<>>)
            ELSE [upTo[i - 1] EXCEPT ![Len(upTo[i - 1])] = Append(@, t[i])]
    IN upTo[Len(t)]

Empty == [lines |-> << <<>> >>, x |-> 0, y |-> 0]

-----------------------------------------------------------------------------
(* The selection.                                                            *)

(* Mutant: the ends are put in order by their columns alone.                 *)
BoundsByColumn(s) ==
    IF s.sx > s.ex
    THEN [sx |-> s.ex, sy |-> s.ey, ex |-> s.sx, ey |-> s.sy] ELSE s

(* getSelectionBounds: the start before the end.                             *)
SelectionBounds(s) ==
    IF s.sy > s.ey \/ (s.sy = s.ey /\ s.sx > s.ex)
    THEN [sx |-> s.ex, sy |-> s.ey, ex |-> s.sx, ey |-> s.sy] ELSE s

(* No slice of getSelectedText or deleteSelection is out of range.           *)
Fits(d, s) ==
    LET b == SelectionBounds(s)
    IN /\ b.ey < Len(d.lines)
       /\ b.sx <= Len(Line(d, b.sy)) /\ b.ex <= Len(Line(d, b.ey))
       /\ b.sy = b.ey => b.sx <= b.ex

(* getSelectedText                                                           *)
Selected(d, s) ==
    LET b == SelectionBounds(s)
    IN IF b.sy = b.ey THEN SubSeq(Line(d, b.sy), b.sx + 1, b.ex)
       ELSE Join(<<Drop(Line(d, b.sy), b.sx)>> \o SubSeq(d.lines, b.sy + 2, b.ey)
                 \o <<Take(Line(d, b.ey), b.ex)>>)

(* deleteSelection. Only a selection of several lines sets the cursor's line. *)
Deleted(d, s) ==
    LET b == SelectionBounds(s)
        rest == Take(Line(d, b.sy), b.sx) \o Drop(Line(d, b.ey), b.ex)
    IN [lines |-> Splice(d.lines, b.sy, b.ey + 1, <<rest>>),
        x |-> b.sx,
        y |-> IF b.sy = b.ey THEN d.y ELSE b.sy]

(* What viewContent slices: the line of the cursor at the cursor, and every  *)
(* line the selection touches at its part of the selection.                  *)
Drawable(d, s) ==
    /\ d.y < Len(d.lines) => d.x <= Len(Line(d, d.y))
    /\ s # Nil =>
         LET b == SelectionBounds(s)
             from(i) == IF i = b.sy THEN b.sx ELSE 0
             to(i) == IF i = b.ey THEN b.ex ELSE Len(Line(d, i))
         IN \A i \in 0..Len(d.lines)-1 :
               b.sy <= i /\ i <= b.ey => from(i) <= to(i) /\ to(i) <= Len(Line(d, i))

-----------------------------------------------------------------------------
(* Edits of a document.                                                      *)

(* pasteText, and the default case of Update for one character.              *)
Pasted(d, t) ==
    LET new == Split(t)
        n == Len(new)
    IN IF n = 1
       THEN [d EXCEPT !.lines[d.y + 1] = LeftOf(d) \o t \o RightOf(d), !.x = @ + Len(t)]
       ELSE [lines |-> Splice(d.lines, d.y, d.y + 1,
                              <<LeftOf(d) \o new[1]>> \o SubSeq(new, 2, n - 1)
                              \o <<new[n] \o RightOf(d)>>),
             x |-> Len(new[n]), y |-> d.y + n - 1]

(* The case "enter" of Update.                                               *)
Broken(d) == [lines |-> Splice(d.lines, d.y, d.y + 1, <<LeftOf(d), RightOf(d)>>),
              x |-> 0, y |-> d.y + 1]

(* Mutant: two lines become one and the cursor stays on the second.          *)
MergedLeft(d) ==
    IF d.x > 0 THEN [d EXCEPT !.lines[d.y + 1] = Take(@, d.x - 1) \o Drop(@, d.x), !.x = @ - 1]
    ELSE IF d.y > 0
    THEN [d EXCEPT !.lines = Splice(@, d.y - 1, d.y + 1, <<Line(d, d.y - 1) \o Line(d, d.y)>>)]
    ELSE d

(* The cases "backspace" and "delete" with nothing selected.                 *)
ErasedLeft(d) ==
    IF d.x > 0 THEN [d EXCEPT !.lines[d.y + 1] = Take(@, d.x - 1) \o Drop(@, d.x), !.x = @ - 1]
    ELSE IF d.y > 0
    THEN [lines |-> Splice(d.lines, d.y - 1, d.y + 1, <<Line(d, d.y - 1) \o Line(d, d.y)>>),
          x |-> Len(Line(d, d.y - 1)), y |-> d.y - 1]
    ELSE d

ErasedRight(d) ==
    IF d.x < Len(Line(d, d.y))
    THEN [d EXCEPT !.lines[d.y + 1] = Take(@, d.x) \o Drop(@, d.x + 1)]
    ELSE IF d.y < Len(d.lines) - 1
    THEN [d EXCEPT !.lines = Splice(@, d.y, d.y + 2, <<Line(d, d.y) \o Line(d, d.y + 1)>>)]
    ELSE d

(* Mutant: going up or down keeps the column.                                *)
OnLineSteep(d, y) == [d EXCEPT !.y = y]

(* The arrow keys.                                                           *)
OnLine(d, y) == [d EXCEPT !.y = y,
                          !.x = IF @ > Len(Line(d, y)) THEN Len(Line(d, y)) ELSE @]

Moved(d, dir) ==
    CASE dir = "left" /\ d.x > 0 -> [d EXCEPT !.x = @ - 1]
      [] dir = "left" /\ d.x = 0 /\ d.y > 0 ->
            [d EXCEPT !.y = @ - 1, !.x = Len(Line(d, d.y - 1))]
      [] dir = "right" /\ d.x < Len(Line(d, d.y)) -> [d EXCEPT !.x = @ + 1]
      [] dir = "right" /\ d.x = Len(Line(d, d.y)) /\ d.y < Len(d.lines) - 1 ->
            [d EXCEPT !.y = @ + 1, !.x = 0]
      [] dir = "up" /\ d.y > 0 -> OnLine(d, d.y - 1)
      [] dir = "down" /\ d.y < Len(d.lines) - 1 -> OnLine(d, d.y + 1)
      [] OTHER -> d

-----------------------------------------------------------------------------
EditorInit ==
    /\ phase = "select"
    /\ doc = Empty /\ selection = Nil /\ code = <<>>
    /\ clip \in Clips
    /\ handed = Nil
    /\ panicked = FALSE /\ outlived = FALSE

(* A key that leaves document d and selection s, then the drawing of them.   *)
Show(d, s) ==
    /\ doc' = d /\ selection' = s
    /\ panicked' = ~Drawable(d, s)

Panic ==
    /\ panicked' = TRUE
    /\ UNCHANGED <<phase, doc, selection, code, clip, handed, outlived>>

Typing == phase = "input" /\ ~panicked

(* The selection is gone unless the drawing of what is left panics.          *)
Forget == outlived' = (outlived /\ panicked')

Room(n) == Len(Join(doc.lines)) + n <= MaxLen

(* pasteText and the default case: the selection goes first, then the text   *)
(* is put where that left the cursor.                                        *)
Put(t) ==
    LET cleared == IF selection = Nil THEN doc ELSE Deleted(doc, selection)
    IN /\ Typing /\ Room(Len(t))
       /\ IF (selection # Nil => Fits(doc, selection)) /\ cleared.x <= Len(Line(cleared, cleared.y))
          THEN /\ Show(Pasted(cleared, t), Nil) /\ Forget
               /\ UNCHANGED <<phase, code, clip, handed>>
          ELSE Panic

TypeKey(c) == Put(<<c>>)
Paste == Put(clip)

BreakLine ==
    /\ Typing /\ Room(1)
    /\ Show(Broken(doc), selection)
    /\ outlived' = (selection # Nil)
    /\ UNCHANGED <<phase, code, clip, handed>>

Erase(erased) ==
    /\ Typing
    /\ IF selection = Nil
       THEN Show(erased, Nil) /\ UNCHANGED <<phase, code, clip, handed, outlived>>
       ELSE IF Fits(doc, selection)
            THEN Show(Deleted(doc, selection), Nil) /\ Forget /\ UNCHANGED <<phase, code, clip, handed>>
            ELSE Panic

Backspace == Erase(ErasedLeft(doc))
Delete == Erase(ErasedRight(doc))

(* startSelection with Shift, and updateSelection for both.                  *)
Move(dir, shift) ==
    LET d == Moved(doc, dir)
        s == IF selection = Nil /\ shift THEN [sx |-> doc.x, sy |-> doc.y] ELSE selection
    IN /\ Typing
       /\ Show(d, IF s = Nil THEN Nil
                  ELSE [sx |-> s.sx, sy |-> s.sy, ex |-> d.x, ey |-> d.y])
       /\ UNCHANGED <<phase, code, clip, handed, outlived>>

Home == Typing /\ Show([doc EXCEPT !.x = 0], selection)
               /\ UNCHANGED <<phase, code, clip, handed, outlived>>
EndKey == Typing /\ Show([doc EXCEPT !.x = Len(Line(doc, doc.y))], selection)
                 /\ UNCHANGED <<phase, code, clip, handed, outlived>>

SelectAll ==
    /\ Typing
    /\ Show(doc, [sx |-> 0, sy |-> 0, ex |-> Len(Last(doc.lines)), ey |-> Len(doc.lines) - 1])
    /\ outlived' = FALSE
    /\ UNCHANGED <<phase, code, clip, handed>>

(* clipboard.WriteAll may fail; the code logs it and goes on.                *)
Written(t) == clip' = t \/ clip' = clip

Small == Len(Selected(doc, selection)) <= MaxClip

Copy ==
    /\ Typing /\ selection # Nil
    /\ IF Fits(doc, selection)
       THEN Small /\ Written(Selected(doc, selection)) /\ UNCHANGED <<phase, doc, selection, code, handed, panicked, outlived>>
       ELSE Panic

CutSelected ==
    /\ Typing /\ selection # Nil
    /\ IF Fits(doc, selection)
       THEN /\ Small /\ Written(Selected(doc, selection))
            /\ Show(Deleted(doc, selection), Nil) /\ Forget /\ UNCHANGED <<phase, code, handed>>
       ELSE Panic

-----------------------------------------------------------------------------
(* The three states of the editor.                                           *)

ChooseLanguage ==
    /\ phase = "select" /\ phase' = "input"
    /\ Show(doc, selection)
    /\ UNCHANGED <<code, clip, handed, outlived>>

(* Ctrl+S                                                                    *)
Preview ==
    /\ Typing /\ phase' = "confirm"
    /\ code' = Join(doc.lines)
    /\ UNCHANGED <<doc, selection, clip, handed, panicked, outlived>>

(* The editor is closed; the client makes a new one when it opens it again,  *)
(* so nothing of the old one is kept.                                        *)
Close ==
    /\ phase' = "closed"
    /\ doc' = Empty /\ selection' = Nil /\ code' = <<>>
    /\ panicked' = FALSE /\ outlived' = FALSE

(* Enter in the preview: onSend, then onCancel.                              *)
Send == phase = "confirm" /\ handed' = code /\ Close /\ clip' = clip

Cancel == phase # "closed" /\ ~panicked /\ Close /\ UNCHANGED <<clip, handed>>

(* r: the lines and the cursor are reset, the selection is not. (The old     *)
(* preview stays too, but only Ctrl+S, which replaces it, leads to where it  *)
(* is read.)                                                                 *)
StartOver ==
    /\ phase = "confirm" /\ phase' = "select"
    /\ doc' = Empty /\ code' = <<>>
    /\ outlived' = (selection # Nil)
    /\ UNCHANGED <<selection, clip, handed, panicked>>

CopyCode ==
    /\ phase = "confirm" /\ Len(code) <= MaxClip
    /\ Written(code)
    /\ UNCHANGED <<phase, doc, selection, code, handed, panicked, outlived>>

(* The client opens the editor, after a panic in a new process.              *)
Open ==
    /\ phase = "closed" \/ panicked
    /\ phase' = "select" /\ doc' = Empty /\ selection' = Nil /\ code' = <<>> /\ handed' = Nil
    /\ panicked' = FALSE /\ outlived' = FALSE
    /\ clip' \in Clips \cup {clip}

EditorNext ==
    \/ \E c \in TypedKeys : TypeKey(c)
    \/ \E dir \in {"left", "right", "up", "down"}, shift \in BOOLEAN : Move(dir, shift)
    \/ Paste \/ BreakLine \/ Backspace \/ Delete \/ Home \/ EndKey
    \/ SelectAll \/ Copy \/ CutSelected
    \/ ChooseLanguage \/ Preview \/ Send \/ Cancel \/ StartOver \/ CopyCode \/ Open

EditorSpec == EditorInit /\ [][EditorNext]_editorVars

-----------------------------------------------------------------------------
(* Properties.                                                               *)

Places == [sx : 0..MaxLen, sy : 0..MaxLen, ex : 0..MaxLen, ey : 0..MaxLen]
Texts(n) == UNION {[1..k -> Chars \cup {NL}] : k \in 0..n}

(* No sequence of keys makes a slice go out of range, with one exception the *)
(* code has: a selection that Enter or a restart left standing while it      *)
(* changed the lines under it. Every other edit, movement, copy and paste    *)
(* keeps the cursor and both ends of the selection inside their lines.       *)
CrashOnlyOutlived == panicked => outlived

(* The place of a column of a line in the joined text.                       *)
Place(x, y) == Len(Join(Append(Take(doc.lines, y), <<>>))) + x

Buffer == INSTANCE TextBuffer WITH
              None <- Nil,
              sent <- handed,
              text <- Join(doc.lines),
              at   <- Place(doc.x, doc.y),
              mark <- IF selection = Nil THEN Nil ELSE Place(selection.sx, selection.sy),
              head <- IF selection = Nil THEN Nil ELSE Place(selection.ex, selection.ey)

(* The editor of lines is an editor of one flat text: typing, pasting and    *)
(* erasing replace exactly the selection or what is beside the cursor, across *)
(* the ends of lines too, Up and Down stay in the column, what is copied or  *)
(* cut is what is selected, and what is sent is the whole text. It holds of  *)
(* every step as long as no selection outlived a change of the lines.        *)
EditsAsFlatText ==
    [][~outlived /\ ~outlived' =>
         /\ \A c \in TypedKeys : TypeKey(c) => Buffer!Put(<<c>>)
         /\ Paste => Buffer!Paste
         /\ BreakLine => Buffer!Put(<<NL>>)
         /\ Backspace => Buffer!Backspace
         /\ Delete => Buffer!Delete
         /\ \A dir \in {"left", "right", "up", "down"}, shift \in BOOLEAN :
               Move(dir, shift) => Buffer!Move(dir, shift)
         /\ Home => Buffer!Home
         /\ EndKey => Buffer!EndKey
         /\ SelectAll => Buffer!SelectAll
         /\ Copy => Buffer!Copy
         /\ CutSelected => Buffer!Cut
         /\ Send => Buffer!Send
      ]_editorVars
=============================================================================
