------------------------------ MODULE PageText ------------------------------
(***************************************************************************)
(* pagetext.py: the editors of one curated Markdown page, `str -> str`,    *)
(* from which every writer of the wiki is built.  Its docstring promises   *)
(* of each of them that applying it twice is applying it once, so that a   *)
(* replayed transaction touches nothing, and that nothing outside the      *)
(* target moves.                                                           *)
(*                                                                         *)
(* A page is a sequence of lines, a line a sequence of words.  Writers     *)
(* edit one page one after another, in any order and with any of their     *)
(* lines, and so does a person who adds a line anywhere.                   *)
(***************************************************************************)
EXTENDS Naturals, Sequences, SequencesExt, FiniteSetsExt

CONSTANTS
    Entries,    \* lines of a section
    Notes,      \* lines of day blocks and of the log
    Prefixed,   \* what an editor looks for: the first words of an entry
    MaxLines    \* lines of a page an editor is given (bound)

VARIABLES
    page,       \* the lines of the page
    hands       \* lines people added

vars == <<page, hands>>

Blank == <<>>
Placeholder == <<"(none yet)">>
IsHeading(line) == line # Blank /\ line[1] = "##"
Section(name) == <<"##", name>>
Update(day) == <<"##", "Update", day>>

Keep(text, K) == FlattenSeq([k \in DOMAIN text |-> IF k \in K THEN <<text[k]>> ELSE <<>>])
Without(text, K) == Keep(text, DOMAIN text \ K)

\* _lines and nl: one newline ends the page.
Ended(text) ==
    LET written == {k \in DOMAIN text : text[k] # Blank}
    IN IF written = {} THEN <<>> ELSE SubSeq(text, 1, Max(written))

\* `line in text`: anywhere within one line of the page.
In(line, text) ==
    \E k \in DOMAIN text :
        \E i \in 0..Len(text[k]) - Len(line) : SubSeq(text[k], i + 1, i + Len(line)) = line

\* Where a section starts (0: not there), the position after its last line,
\* and its lines that begin with prefix.
Start(text, head) ==
    LET at == {k \in DOMAIN text : text[k] = head} IN IF at = {} THEN 0 ELSE Min(at)
End(text, start) ==
    Min({k \in DOMAIN text : k > start /\ IsHeading(text[k])} \cup {Len(text) + 1})
Hits(text, start, prefix) ==
    {k \in start + 1..End(text, start) - 1 : IsPrefix(prefix, text[k])}

\* section_append.
SectionAppend(text, name, line) ==
    LET start == Start(text, Section(name))
        end == End(text, start)
        body == Ended(SelectSeq(SubSeq(text, start + 1, end - 1), LAMBDA l : l # Placeholder))
    IN IF In(line, text) THEN text
       ELSE IF start = 0 THEN Ended(text) \o <<Blank, Section(name), Blank, line>>
       ELSE Ended(SubSeq(text, 1, start) \o (IF body = <<>> THEN <<Blank>> ELSE body)
                  \o <<line, Blank>> \o SubSeq(text, end, Len(text)))

\* section_line_replace: the first hit becomes the line, the others go.
ReplaceLine(text, name, prefix, line) ==
    LET start == Start(text, Section(name))
        hits == Hits(text, start, prefix)
    IN IF start = 0 \/ hits = {} THEN SectionAppend(text, name, line)
       ELSE Ended(Without([text EXCEPT ![Min(hits)] = line], hits \ {Min(hits)}))

\* section_remove_line: the page without the hits, and the first of them.
RemoveLine(text, name, prefix) ==
    LET start == Start(text, Section(name))
        end == End(text, start)
        hits == Hits(text, start, prefix)
        body == Ended(Keep(text, (start + 1..end - 1) \ hits))
    IN IF start = 0 \/ hits = {} THEN [text |-> text, removed |-> {}]
       ELSE [text |-> Ended(SubSeq(text, 1, start) \o body \o <<Blank>>
                            \o SubSeq(text, end, Len(text))),
             removed |-> {text[Min(hits)]}]

\* section_drop_if_empty.
DropIfEmpty(text, name) ==
    LET start == Start(text, Section(name))
        section == start..End(text, start) - 1
    IN IF start = 0 \/ \E k \in section \ {start} : text[k] # Blank THEN text
       ELSE Ended(Without(text, section))

\* Mutant: a line that has moved already is not recognised.
MoveBlindly(text, frm, to, prefix, fallback) ==
    LET after == RemoveLine(text, frm, prefix)
    IN IF after.removed # {}
       THEN SectionAppend(after.text, to, CHOOSE line \in after.removed : TRUE)
       ELSE SectionAppend(after.text, to, fallback)

\* section_move_line: the line as it stands, or the fallback.
MoveLine(text, frm, to, prefix, fallback) ==
    LET after == RemoveLine(text, frm, prefix)
        target == Start(after.text, Section(to))
        listed == target # 0 /\ Hits(after.text, target, prefix) # {}
    IN IF after.removed # {}
       THEN SectionAppend(after.text, to, CHOOSE line \in after.removed : TRUE)
       ELSE IF listed THEN after.text ELSE SectionAppend(after.text, to, fallback)

\* Runs of blank lines become one.
Collapsed(text) ==
    Without(text, {k \in 2..Len(text) : text[k] = Blank /\ text[k - 1] = Blank})

\* day_block_replace: every block of the day goes, the new one stands where
\* the first stood; only then are blank lines collapsed.
DayBlock(text, day, entry) ==
    LET heads == {k \in DOMAIN text : text[k] = Update(day)}
        first == Min(heads)
        dropped == UNION {k..End(text, k) - 1 : k \in heads}
        block == <<Update(day), Blank, entry>>
    IN IF heads = {} THEN Ended(text) \o <<Blank>> \o block
       ELSE Ended(Collapsed(SubSeq(text, 1, first - 1) \o <<Blank>> \o block \o <<Blank>>
                            \o Keep(text, (first..Len(text)) \ dropped)))

\* log_append.
LogAppend(text, line) ==
    LET tail == Ended(text)
    IN IF In(line, text) THEN text
       ELSE tail \o (IF tail # <<>> /\ IsHeading(tail[Len(tail)]) THEN <<Blank>> ELSE <<>>)
            \o <<line>>

----------------------------------------------------------------------------
(* The edits, each with the headings of what it targets.                   *)

Names == {"Open", "Closed"}
Fits(prefix) == {e \in Entries : IsPrefix(prefix, e)}

Edits ==
    [op : {"append"}, name : Names, line : Entries]
    \cup UNION {[op : {"replace"}, name : Names, prefix : {p}, line : Fits(p)] : p \in Prefixed}
    \cup [op : {"remove"}, name : Names, prefix : Prefixed]
    \cup [op : {"drop"}, name : Names]
    \cup UNION {[op : {"move"}, prefix : {p}, line : Fits(p)] : p \in Prefixed}
    \cup [op : {"day", "log"}, line : Notes]

Edited(e, text) ==
    CASE e.op = "append" -> SectionAppend(text, e.name, e.line)
      [] e.op = "replace" -> ReplaceLine(text, e.name, e.prefix, e.line)
      [] e.op = "remove" -> RemoveLine(text, e.name, e.prefix).text
      [] e.op = "drop" -> DropIfEmpty(text, e.name)
      [] e.op = "move" -> MoveLine(text, "Open", "Closed", e.prefix, e.line)
      [] e.op = "day" -> DayBlock(text, "monday", e.line)
      [] e.op = "log" -> LogAppend(text, e.line)

Targets(e) ==
    CASE e.op \in {"append", "replace", "remove", "drop"} -> {Section(e.name)}
      [] e.op = "move" -> {Section("Open"), Section("Closed")}
      [] e.op = "day" -> {Update("monday")}
      [] OTHER -> {}

Init ==
    /\ page = <<Section("Open"), Blank, Placeholder>>
    /\ hands = 0

Edit(e) ==
    /\ Len(Edited(e, page)) <= MaxLines
    /\ page' = Edited(e, page)
    /\ UNCHANGED hands

\* A person adds a line, though no second section of a name.
Hand ==
    /\ hands < 1
    /\ Len(page) < MaxLines
    /\ \E k \in 1..Len(page) + 1 :
         \E line \in Entries \cup {Blank, Placeholder, Section("Open"), Update("monday")} :
             /\ line = Section("Open") => ~In(line, page)
             /\ page' = InsertAt(page, k, line)
    /\ hands' = hands + 1

Next == Hand \/ \E e \in Edits : Edit(e)

----------------------------------------------------------------------------

\* The lines that belong to none of the headings, blank ones aside.
Outside(text, heads) ==
    LET targeted == UNION {k..End(text, k) - 1 : k \in {h \in DOMAIN text : text[h] \in heads}}
    IN SelectSeq(Without(text, targeted), LAMBDA l : l # Blank)

\* No entry stands twice on the page, no two blank lines together.
ListedOnce == \A j, k \in DOMAIN page : page[j] = page[k] /\ page[j] \in Entries => j = k
Even == Collapsed(page) = page

\* Every editor applied twice is the editor applied once, as long as the page
\* lists an entry once (section_append looks at the whole page) and, for day
\* blocks, has no run of blank lines (which only a second application
\* collapses); and what an editor does not target stays as it was.
EditsAreSurgical ==
    \A e \in Edits :
        LET once == Edited(e, page)
        IN /\ ListedOnce /\ (e.op = "day" => Even) => Edited(e, once) = once
           /\ IF e.op = "log" THEN IsPrefix(Ended(page), once)
              ELSE Outside(once, Targets(e)) = Outside(page, Targets(e))
=============================================================================
