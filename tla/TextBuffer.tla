----------------------------- MODULE TextBuffer -----------------------------
(* What an editor of a text promises, with no lines and no columns: a text   *)
(* is one sequence of characters, NL among them, the cursor is a place       *)
(* between two of them, and a selection is a pair of places.                 *)
EXTENDS Integers, Sequences

CONSTANTS NL, None

VARIABLES text,     \* the whole text
          at,       \* how many characters are before the cursor
          mark,     \* where the selection began, or None
          head,     \* where the selection ends, or None
          clip,     \* the clipboard
          sent      \* the text sent last, or None

Low  == IF mark <= head THEN mark ELSE head
High == IF mark <= head THEN head ELSE mark
Selected == SubSeq(text, Low + 1, High)

(* The characters from place i to place j give way to new; the cursor ends   *)
(* behind it and nothing is selected any more.                               *)
Replace(i, j, new) ==
    /\ text' = SubSeq(text, 1, i) \o new \o SubSeq(text, j + 1, Len(text))
    /\ at' = i + Len(new)
    /\ mark' = None /\ head' = None
    /\ sent' = sent

Put(new) == /\ IF mark = None THEN Replace(at, at, new) ELSE Replace(Low, High, new)
            /\ clip' = clip

Paste == Put(clip)

Erase(i, j) == /\ IF mark = None THEN Replace(i, j, <<>>) ELSE Replace(Low, High, <<>>)
               /\ clip' = clip


(* Where the line of a place begins and ends.                                *)
Begin(p) == CHOOSE i \in 0..p : /\ i = 0 \/ text[i] = NL
                                /\ \A k \in i+1..p : text[k] # NL
End(p) == CHOOSE i \in p..Len(text) : /\ i = Len(text) \/ text[i + 1] = NL
                                      /\ \A k \in p+1..i : text[k] # NL

Least(i, j) == IF i <= j THEN i ELSE j
Column == at - Begin(at)

Above == IF Begin(at) = 0 THEN at
         ELSE LET up == Begin(at) - 1 IN Least(Begin(up) + Column, up)
Below == IF End(at) = Len(text) THEN at
         ELSE LET down == End(at) + 1 IN Least(down + Column, End(down))

Goal(dir) == CASE dir = "left"  -> IF at > 0 THEN at - 1 ELSE at
               [] dir = "right" -> Least(at + 1, Len(text))
               [] dir = "up"    -> Above
               [] dir = "down"  -> Below

Backspace == IF mark = None /\ at = 0 THEN UNCHANGED <<text, at, mark, head, clip, sent>>
             ELSE Erase(at - 1, at)

(* At the end of the text there is nothing to delete; the cursor stays.      *)
Delete == Erase(at, Least(at + 1, Len(text)))

(* A movement carries the end of the selection with it; with Shift it begins *)
(* one where there was none.                                                 *)
Move(dir, shift) ==
    /\ at' = Goal(dir)
    /\ mark' = IF mark = None /\ shift THEN at ELSE mark
    /\ head' = IF mark' = None THEN None ELSE at'
    /\ UNCHANGED <<text, clip, sent>>

Home   == at' = Begin(at) /\ UNCHANGED <<text, mark, head, clip, sent>>
EndKey == at' = End(at) /\ UNCHANGED <<text, mark, head, clip, sent>>

SelectAll == mark' = 0 /\ head' = Len(text) /\ UNCHANGED <<text, at, clip, sent>>

Copy == clip' \in {Selected, clip} /\ UNCHANGED <<text, at, mark, head, sent>>

Cut == Replace(Low, High, <<>>) /\ clip' \in {Selected, clip}

Send == sent' = text
=============================================================================
