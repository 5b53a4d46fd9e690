----------------------------- MODULE InputLine -----------------------------
(***************************************************************************)
(* The line the user writes on (grain-ai-agent-tui, app.rs): the text with *)
(* its cursor, a byte offset; the skill injected into it, whose label      *)
(* stands in the text between two more byte offsets; the prompts sent      *)
(* before, which Up and Down walk; and the palette, which while it is      *)
(* shown takes Up, Down, Tab and Enter for itself.                         *)
(*                                                                         *)
(* A text is a sequence of characters, "w" standing for one of two bytes   *)
(* and " " for white space.  One slash command, one skill and one file     *)
(* stand for all; a palette's focus is on any of its items, as Up and Down *)
(* move it there.  Overlays other than the help keep the keys to           *)
(* themselves and are left out.                                            *)
(***************************************************************************)
EXTENDS Naturals, SequencesExt, FiniteSetsExt

CONSTANTS
  Chars,          \* characters the user types
  MaxHistory,     \* MAX_HISTORY, 200 in the code
  MaxInput,       \* bound: characters of a line that is still typed on, less a skill's label
  MaxEntered,     \* bound: lines submitted
  Resumable       \* the prompts of the sessions that may be resumed

ASSUME InputLineAssumption ==
  /\ Chars \subseteq {"/", "@", "w", " "}
  /\ MaxHistory \in Nat \ {0} /\ {MaxInput, MaxEntered} \subseteq Nat
  /\ \A texts \in Resumable : texts \in Seq(Seq({"/", "@", "w", " "}))

VARIABLES
  input,          \* AppState.input
  cursor,         \* AppState.cursor
  skills,         \* AppState.skill_tokens, without labels, bodies and their order
  history,        \* AppState.history
  recall,         \* AppState.history_cursor, counted from 1; 0 for None
  draft,          \* AppState.history_draft
  help,           \* the help overlay is open
  entered,        \* lines submitted so far
  written         \* what the user wrote last: no variable of the code

lineVars == <<input, cursor, skills, history, recall, draft, help, entered, written>>

Trigger == <<"/", "/">>     \* of the slash command
Label == <<"/", "w">>       \* of the skill
File == <<"@", "w">>        \* how a file is named in a line

-----------------------------------------------------------------------------
(***************************************************************************)
(* Texts and their byte offsets                                            *)
(***************************************************************************)

ByteLen(s) == Len(s) + Cardinality({i \in DOMAIN s : s[i] = "w"})
Offset(s, n) == ByteLen(SubSeq(s, 1, n))
Boundaries(s) == {Offset(s, n) : n \in 0 .. Len(s)}
CharsBefore(s, b) == CHOOSE n \in 0 .. Len(s) : Offset(s, n) = b

Slice(s, from, to) == SubSeq(s, CharsBefore(s, from) + 1, CharsBefore(s, to))
ReplaceRange(s, from, to, new) ==
  Slice(s, 0, from) \o new \o Slice(s, to, ByteLen(s))

PrevBoundary(s, b) == Max({0} \cup {o \in Boundaries(s) : o < b})
NextBoundary(s, b) == Min({ByteLen(s)} \cup {o \in Boundaries(s) : o > b})

Trim(s) ==
  LET ink == {i \in DOMAIN s : s[i] # " "}
  IN IF ink = {} THEN <<>> ELSE SubSeq(s, Min(ink), Max(ink))

-----------------------------------------------------------------------------
(***************************************************************************)
(* The skill in the line                                                   *)
(***************************************************************************)

Ahead(t, len) == [start |-> t.start + len, end |-> t.end + len]
Back(t, len) == [start |-> t.start - len, end |-> t.end - len]

\* Faulty: what is typed right before the skill does not move it.
ShiftAfterInsertBehind(ts, at, len) ==
  {IF t.start > at THEN Ahead(t, len) ELSE t : t \in {u \in ts : at <= u.start \/ at >= u.end}}

ShiftAfterInsert(ts, at, len) ==
  {IF t.start >= at THEN Ahead(t, len) ELSE t : t \in {u \in ts : at <= u.start \/ at >= u.end}}

ShiftAfterDelete(ts, from, to) ==
  {IF t.start >= to THEN Back(t, to - from) ELSE t : t \in {u \in ts : to <= u.start \/ from >= u.end}}

ForBackspace == {t \in skills : t.start < cursor /\ cursor <= t.end}
ForDelete == {t \in skills : t.start <= cursor /\ cursor < t.end}

-----------------------------------------------------------------------------
(***************************************************************************)
(* What an edit does besides: it is the user's own writing, and ends a     *)
(* walk through the history, with the draft that was kept.                 *)
(***************************************************************************)

DetachHistory ==
  /\ recall' = 0
  /\ draft' = IF recall # 0 THEN <<>> ELSE draft

Writes(text, at, ts) ==
  /\ input' = text /\ cursor' = at /\ skills' = ts
  /\ written' = [text |-> text, tokens |-> ts]

Blank ==
  /\ Writes(<<>>, 0, {})
  /\ recall' = 0 /\ draft' = <<>>

Type ==
  /\ Len(input) < MaxInput + Len(Label) * Cardinality(skills)
  /\ \E c \in Chars :
       Writes(ReplaceRange(input, cursor, cursor, <<c>>), cursor + ByteLen(<<c>>),
              ShiftAfterInsert(skills, cursor, ByteLen(<<c>>)))
  /\ DetachHistory
  /\ UNCHANGED <<history, help, entered>>

DeleteToken(t) ==
  /\ Writes(ReplaceRange(input, t.start, t.end, <<>>), t.start,
            {IF u.start >= t.end THEN Back(u, t.end - t.start) ELSE u : u \in skills \ {t}})
  /\ DetachHistory
  /\ UNCHANGED <<history, help, entered>>

DeleteRange(from, to, at) ==
  /\ Writes(ReplaceRange(input, from, to, <<>>), at, ShiftAfterDelete(skills, from, to))
  /\ DetachHistory
  /\ UNCHANGED <<history, help, entered>>

Backspace ==
  \/ \E t \in ForBackspace : DeleteToken(t)
  \/ /\ ForBackspace = {} /\ cursor > 0 /\ input # <<>>
     /\ LET from == PrevBoundary(input, cursor) IN DeleteRange(from, cursor, from)

Delete ==
  \/ \E t \in ForDelete : DeleteToken(t)
  \/ /\ ForDelete = {} /\ cursor < ByteLen(input)
     /\ DeleteRange(cursor, NextBoundary(input, cursor), cursor)

Left ==
  /\ cursor > 0
  /\ cursor' = PrevBoundary(input, cursor)
  /\ UNCHANGED <<input, skills, history, recall, draft, help, entered, written>>

Right ==
  /\ cursor < ByteLen(input)
  /\ cursor' = NextBoundary(input, cursor)
  /\ UNCHANGED <<input, skills, history, recall, draft, help, entered, written>>

\* Escape closes the help, and else empties the line; on an empty one it quits.
Escape ==
  \/ /\ help /\ help' = FALSE
     /\ UNCHANGED <<input, cursor, skills, history, recall, draft, entered, written>>
  \/ /\ ~help /\ input # <<>>
     /\ Blank
     /\ UNCHANGED <<history, help, entered>>

Help ==
  /\ help' = TRUE
  /\ UNCHANGED <<input, cursor, skills, history, recall, draft, entered, written>>

-----------------------------------------------------------------------------
(***************************************************************************)
(* The palette                                                             *)
(***************************************************************************)

\* The word around the cursor, if it starts with "@" before the cursor.
FileToken ==
  LET n == CharsBefore(input, cursor)
      start == Max({0} \cup {i \in 1 .. n : input[i] = " "})
      end == Min({Len(input)} \cup {i - 1 : i \in {j \in n + 1 .. Len(input) : input[j] = " "}})
  IN IF start < n /\ input[start + 1] = "@"
     THEN {[start |-> Offset(input, start), end |-> Offset(input, end)]} ELSE {}

Slashed == input # <<>> /\ Head(input) = "/"
PaletteVisible == ~help /\ skills = {} /\ (Slashed \/ FileToken # {})

\* What the focus may be on.  A skill is shown for what its description says,
\* too, and files are matched loosely.
Matches ==
  IF ~PaletteVisible THEN {}
  ELSE IF FileToken # {} THEN {"file"}
  ELSE {"skill"} \cup (IF IsPrefix(input, Trigger) THEN {"slash"} ELSE {})

InsertFile ==
  \E t \in FileToken :
    /\ Writes(ReplaceRange(input, t.start, t.end, File), t.start + ByteLen(File), {})
    /\ DetachHistory
    /\ UNCHANGED <<history, help, entered>>

\* Tab completes, but does not detach from the history as other edits do.
Tab ==
  \/ "file" \in Matches /\ InsertFile
  \/ /\ "slash" \in Matches
     /\ input' = Trigger /\ cursor' = ByteLen(Trigger) /\ skills' = {}
     /\ written' = IF recall = 0 THEN [text |-> Trigger, tokens |-> {}] ELSE written
     /\ UNCHANGED <<history, recall, draft, help, entered>>

EnterFile == "file" \in Matches /\ InsertFile

EnterSkill ==
  /\ "skill" \in Matches
  /\ Writes(Label, ByteLen(Label), {[start |-> 0, end |-> ByteLen(Label)]})
  /\ recall' = 0 /\ draft' = <<>>
  /\ UNCHANGED <<history, help, entered>>

-----------------------------------------------------------------------------
(***************************************************************************)
(* Submitting, and the prompts sent before                                 *)
(***************************************************************************)

PushHistory(h, line) ==
  IF line = <<>> \/ (h # <<>> /\ Last(h) = line) THEN h
  ELSE LET all == Append(h, line)
       IN SubSeq(all, IF Len(all) > MaxHistory THEN Len(all) - MaxHistory + 1 ELSE 1, Len(all))

\* A line without a skill that starts with a slash is a command, which may
\* open an overlay; any other is a prompt, into which the skill's body goes.
SubmitLine(line, ts) ==
  /\ Trim(line) # <<>>
  /\ entered < MaxEntered /\ entered' = entered + 1
  /\ history' = PushHistory(history, Trim(line))
  /\ Blank
  /\ IF ts = {} /\ Head(Trim(line)) = "/" THEN help' \in BOOLEAN ELSE UNCHANGED help

Enter ==
  \/ "slash" \in Matches /\ SubmitLine(Trigger, {})
  \/ "slash" \notin Matches /\ SubmitLine(input, skills)

\* Faulty: each step up saves what is in the line.
HistoryUpSaves ==
  /\ ~PaletteVisible /\ history # <<>>
  /\ draft' = input
  /\ recall' = CASE recall = 0 -> Len(history)
                 [] recall = 1 -> 1
                 [] OTHER -> recall - 1
  /\ input' = history[recall'] /\ cursor' = ByteLen(input') /\ skills' = {}
  /\ UNCHANGED <<history, help, entered, written>>

HistoryUp ==
  /\ ~PaletteVisible /\ history # <<>>
  /\ draft' = IF recall = 0 THEN input ELSE draft
  /\ recall' = CASE recall = 0 -> Len(history)
                 [] recall = 1 -> 1
                 [] OTHER -> recall - 1
  /\ input' = history[recall'] /\ cursor' = ByteLen(input') /\ skills' = {}
  /\ UNCHANGED <<history, help, entered, written>>

HistoryDown ==
  /\ ~PaletteVisible /\ recall # 0
  /\ \/ /\ recall < Len(history)
        /\ recall' = recall + 1 /\ input' = history[recall'] /\ draft' = draft
     \/ /\ recall = Len(history)
        /\ recall' = 0 /\ input' = draft /\ draft' = <<>>
  /\ cursor' = ByteLen(input') /\ skills' = {}
  /\ UNCHANGED <<history, help, entered, written>>

Refill(texts) ==
  LET pushed[n \in 0 .. Len(texts)] ==
        IF n = 0 THEN <<>> ELSE PushHistory(pushed[n - 1], texts[n])
  IN pushed[Len(texts)]

\* The prompts of the resumed session take the place of the history.  A walk
\* ends where it is: the line shown becomes the user's own, the draft is gone.
SessionResumed ==
  /\ \E texts \in Resumable : history' = Refill(texts)
  /\ recall' = 0 /\ draft' = <<>>
  /\ written' = IF recall # 0 THEN [text |-> input, tokens |-> skills] ELSE written
  /\ UNCHANGED <<input, cursor, skills, help, entered>>

-----------------------------------------------------------------------------
LineInit ==
  /\ input = <<>> /\ cursor = 0 /\ skills = {}
  /\ history = <<>> /\ recall = 0 /\ draft = <<>>
  /\ help = FALSE /\ entered = 0
  /\ written = [text |-> <<>>, tokens |-> {}]

LineNext ==
  \/ Type \/ Backspace \/ Delete \/ Left \/ Right \/ Escape \/ Help
  \/ Tab \/ EnterFile \/ EnterSkill \/ Enter
  \/ HistoryUp \/ HistoryDown \/ SessionResumed

LineSpec == LineInit /\ [][LineNext]_lineVars

-----------------------------------------------------------------------------
(***************************************************************************)
(* Properties                                                              *)
(***************************************************************************)

\* The cursor is never inside of a character or past the text, whatever edit,
\* recall or completion put it there: inserting would abort the program.
CursorOnBoundary == cursor \in Boundaries(input)

\* The offsets of the injected skill hold its label wherever the text around
\* it was edited, and there is no second skill: submitting and deleting cut
\* the text at these offsets.
TokenHoldsLabel ==
  /\ Cardinality(skills) <= 1
  /\ \A t \in skills :
       /\ {t.start, t.end} \subseteq Boundaries(input)
       /\ t.start < t.end
       /\ Slice(input, t.start, t.end) = Label

\* Whatever sequence of edits, recalls, completions and submissions came before,
\* every offset into the line fits the text it is kept for.
OffsetsFit == CursorOnBoundary /\ TokenHoldsLabel

\* While the user walks the history the text they wrote before is kept, and
\* whenever they do not, the text in the line is what they wrote last.
TextIsKept ==
  IF recall = 0 THEN input = written.text
  ELSE recall \in DOMAIN history /\ draft = written.text

\* The comment on AppState.history_draft (app.rs:998): the unsent buffer "gets
\* saved here so Down past the newest entry can restore it instead of dropping
\* their draft".  A line with a skill in it comes back as its text alone.
DraftIsRestored ==
  [][HistoryDown /\ recall' = 0 => [text |-> input', tokens |-> skills'] = written]_lineVars

\* The comment on detach_history (app.rs:1717): "Once the user edits a recalled
\* history entry it becomes their own draft; clear the cursor so Down doesn't
\* pull them away from their edits."  Completing with Tab does not clear it.
RecalledIsUnedited == recall # 0 => input = history[recall]
=============================================================================
