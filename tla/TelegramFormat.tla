--------------------------- MODULE TelegramFormat ---------------------------
(***************************************************************************)
(* gateway/telegram_format.go: from the LLM's Markdown to the HTML that    *)
(* Telegram accepts or refuses, one action per turn of each loop of        *)
(* FormatForTelegramReply.  A text is a sequence of tokens:                *)
(*   w, num, #, src   a word; a number; the number sign; what source code  *)
(*                    has and prose has not                                *)
(*   lt, escaped      a character that html.EscapeString escapes; escaped  *)
(*   **, tick, fence  two asterisks; one backquote; three of them          *)
(*   |, -, gap, nl    bar; dash; two blanks or more; line break            *)
(*   dash             what the formatter writes between two cells          *)
(* each with a 0, and                                                      *)
(*   <<k, i>>         the placeholder of block i of fenced code (k = "C"), *)
(*                    of inline code ("I"), of tables ("T")                *)
(*   <<t, 1>>, <<t, 2>>   the tags of the HTML that open and close t       *)
(***************************************************************************)
EXTENDS Naturals, Sequences, SequencesExt

CONSTANT Texts  \* what the LLM may reply

Prose == {"w", "num", "#", "src", "lt", "**", "tick", "fence", "|", "-", "gap", "nl"} \X {0}

ASSUME TextsAssumption == Texts \subseteq Seq(Prose)

VARIABLES
  text,                   \* the reply
  pass,                   \* "fences", "inline", "tables", "bold", "restore", "over"
  done, rest,             \* what the pass has written and what it has yet to read
  lines, index,           \* the lines of the pass over tables, and the next one
  fenced, inline, tables  \* the blocks taken out

formatVars == <<text, pass, done, rest, lines, index, fenced, inline, tables>>

T(t) == <<t, 0>>
Find(s, t) == SelectInSeq(s, LAMBDA x : x = T(t))
From(s, i) == SubSeq(s, i, Len(s))
Until(s, i) == SubSeq(s, 1, i - 1)
Drop(s, t) == IF s # <<>> /\ Head(s) = T(t) THEN Tail(s) ELSE s
DropLast(s, t) == IF s # <<>> /\ Last(s) = T(t) THEN Front(s) ELSE s
Within(tag, s) == << <<tag, 1>> >> \o s \o << <<tag, 2>> >>

\* html.EscapeString
Escape(s) == [i \in DOMAIN s |-> IF s[i] = T("lt") THEN T("escaped") ELSE s[i]]

\* strings.TrimSpace of one line
Trim(s) == DropLast(Drop(s, "gap"), "gap")

\* strings.Split: a token goes to the last piece, a separator opens the next.
Put(pieces, x, t) ==
  IF x = T(t) THEN Append(pieces, <<>>)
  ELSE [pieces EXCEPT ![Len(pieces)] = Append(@, x)]

Pieces(s, t) ==
  LET upTo[i \in 0..Len(s)] == IF i = 0 THEN << <<>> >> ELSE Put(upTo[i - 1], s[i], t)
  IN upTo[Len(s)]

Join(seqs, sep) ==
  FlattenSeq([i \in DOMAIN seqs |-> IF i = 1 THEN seqs[i] ELSE <<sep>> \o seqs[i]])

NonEmpty(seqs) ==
  FlattenSeq([i \in DOMAIN seqs |-> IF seqs[i] = <<>> THEN <<>> ELSE <<seqs[i]>>])

\* To the passes after extractFencedCodeBlocks a fence that stayed is three ticks.
Ticks(s) ==
  FlattenSeq([i \in DOMAIN s |-> IF s[i] = T("fence") THEN [j \in 1..3 |-> T("tick")] ELSE <<s[i]>>])

-----------------------------------------------------------------------------
(* Tables: the rows of cells of consecutive lines.                         *)

IsRow(ln) == Len(Pieces(ln, "|")) >= 3
IsSeparator(ln) == {T("|"), T("-")} \subseteq ToSet(ln) /\ ToSet(ln) \subseteq {T("|"), T("-"), T("gap")}
IsTableStart(lns, i) == i < Len(lns) /\ IsRow(lns[i]) /\ IsSeparator(lns[i + 1])

\* stripMarkdownBoldCell
Unwrap(cell) ==
  IF Len(cell) > 2 /\ Head(cell) = T("**") /\ Last(cell) = T("**")
  THEN Trim(Tail(Front(cell))) ELSE cell

StripBold(cell) ==
  LET times[i \in 0..Len(cell)] == IF i = 0 THEN cell ELSE Unwrap(times[i - 1])
  IN times[Len(cell)]

\* parseGFMTableRow
Cells(ln) ==
  LET raw == Pieces(DropLast(Drop(Trim(ln), "|"), "|"), "|")
  IN [i \in DOMAIN raw |-> StripBold(Trim(raw[i]))]

\* renderSingleRowCells, and the header of renderRowsAsTelegramHTML: a column
\* that is headed by a number sign gets no heading.
Heading(row) ==
  LET cells == IF row[1] = <<T("#")>> THEN Tail(row) ELSE row
  IN Join([i \in DOMAIN cells |-> Within("b", Escape(cells[i]))], T("dash"))

BodyRow(row) ==
  LET cells == [i \in DOMAIN row |-> Escape(row[i])]
  IN (IF row[1] = <<T("num")>>
      THEN Within("b", row[1]) \o Join(Tail(cells), T("dash"))
      ELSE Join(cells, T("dash"))) \o <<T("nl")>>

\* renderRowsAsTelegramHTML: a row that has not as many cells as the header is left out.
Render(rows) ==
  IF Len(rows) = 1 THEN Heading(rows[1])
  ELSE Heading(rows[1]) \o <<T("nl")>>
         \o FlattenSeq([i \in 1..(Len(rows) - 1) |->
              IF Len(rows[i + 1]) = Len(rows[1]) THEN BodyRow(rows[i + 1]) ELSE <<>>])

TableEndOneMore(lns, i) == Min({j \in i..Len(lns) : ~IsRow(lns[j])} \cup {Len(lns)}) + 1

\* scanGFMTableEnd: the first line from i on that is no row.
TableEnd(lns, i) == Min({j \in i..Len(lns) : ~IsRow(lns[j])} \cup {Len(lns) + 1})

\* gfmTableToTelegramHTML: the second line is the separator.
TableHTML(lns) == Render(<<Cells(lns[1])>> \o [i \in 1..(Len(lns) - 2) |-> Cells(lns[i + 2])])

\* parseFencedTabularRows
FencedRows(raw) ==
  LET lns == Pieces(raw, "nl")
  IN NonEmpty([i \in DOMAIN lns |-> NonEmpty(Pieces(lns[i], "gap"))])

\* fencedBlockToTelegramHTML: aligned columns that do not look like source code are
\* a table, anything else is code.
FencedHTML(raw) ==
  LET rows == FencedRows(raw)
  IN IF T("src") \notin ToSet(raw) /\ rows # <<>> /\ Len(rows[1]) >= 2 /\ \A i \in DOMAIN rows : Len(rows[i]) = Len(rows[1])
     THEN Render(rows) ELSE Within("pre", Escape(raw))

Code(raw) == Within("code", Escape(raw))

Restore(s, kind, blocks) ==
  FlattenSeq([i \in DOMAIN s |-> IF s[i][1] = kind THEN blocks[s[i][2]] ELSE <<s[i]>>])

-----------------------------------------------------------------------------

FormatInit ==
  /\ text \in Texts /\ pass = "fences" /\ done = <<>> /\ rest = text
  /\ lines = <<>> /\ index = 1 /\ fenced = <<>> /\ inline = <<>> /\ tables = <<>>

\* extractFencedCodeBlocks.  What follows the opening fence on its line is dropped;
\* a fence without a line break or a closing fence stays, with all that follows it.
TakeFence ==
  LET open == Find(rest, "fence")
      after == From(rest, open + 1)
      nl == Find(after, "nl")
      body == From(after, nl + 1)
      close == Find(body, "fence")
  IN /\ pass = "fences"
     /\ \/ /\ open # 0 /\ nl # 0 /\ close # 0
           /\ done' = done \o Until(rest, open) \o << <<"C", Len(fenced) + 1>> >>
           /\ rest' = Drop(From(body, close + 1), "nl")
           /\ fenced' = Append(fenced, DropLast(Until(body, close), "nl"))
           /\ UNCHANGED pass
        \/ /\ open = 0 \/ nl = 0 \/ close = 0
           /\ pass' = "inline" /\ done' = <<>> /\ rest' = Ticks(done \o rest)
           /\ UNCHANGED fenced
     /\ UNCHANGED <<text, lines, index, inline, tables>>

\* extractInlineCode
TakeInline ==
  LET open == Find(rest, "tick")
      after == From(rest, open + 1)
      close == Find(after, "tick")
  IN /\ pass = "inline"
     /\ \/ /\ open # 0 /\ close # 0
           /\ done' = done \o Until(rest, open) \o << <<"I", Len(inline) + 1>> >>
           /\ rest' = From(after, close + 1)
           /\ inline' = Append(inline, Until(after, close))
           /\ UNCHANGED <<pass, lines>>
        \/ /\ open = 0 \/ close = 0
           /\ pass' = "tables" /\ done' = <<>> /\ rest' = <<>>
           /\ lines' = Pieces(done \o rest, "nl")
           /\ UNCHANGED inline
     /\ UNCHANGED <<text, index, fenced, tables>>

\* strings.Join: a line break after every line but the last.
Written(s, end) == done \o s \o IF end > Len(lines) THEN <<>> ELSE <<T("nl")>>

\* extractAndFormatTables
TakeTable ==
  /\ pass = "tables"
  /\ \/ LET end == TableEnd(lines, index)
        IN /\ index <= Len(lines) /\ IsTableStart(lines, index)
           /\ tables' = Append(tables, TableHTML(SubSeq(lines, index, end - 1)))
           /\ done' = Written(<< <<"T", Len(tables) + 1>> >>, end)
           /\ index' = end
           /\ UNCHANGED <<pass, rest>>
     \/ /\ index <= Len(lines) /\ ~IsTableStart(lines, index)
        /\ done' = Written(lines[index], index + 1)
        /\ index' = index + 1
        /\ UNCHANGED <<pass, rest, tables>>
     \/ /\ index > Len(lines)
        /\ pass' = "bold" /\ done' = <<>> /\ rest' = Escape(done)
        /\ UNCHANGED <<index, tables>>
  /\ UNCHANGED <<text, lines, fenced, inline>>

TakeBoldUnpaired ==
  LET i == Find(rest, "**")
  IN /\ pass = "bold"
     /\ \/ /\ i # 0
           /\ done' = done \o Until(rest, i) \o << <<"b", 1>> >> /\ rest' = From(rest, i + 1)
           /\ UNCHANGED pass
        \/ /\ i = 0
           /\ pass' = "restore" /\ done' = done \o rest /\ rest' = <<>>
     /\ UNCHANGED <<text, lines, index, fenced, inline, tables>>

\* applyTelegramBold: two markers with nothing between them are no bold text, and the
\* second may open one.
TakeBold ==
  LET open == Find(rest, "**")
      after == From(rest, open + 1)
      close == Find(after, "**")
  IN /\ pass = "bold"
     /\ \/ /\ open # 0 /\ close > 1
           /\ done' = done \o Until(rest, open) \o Within("b", Until(after, close))
           /\ rest' = From(after, close + 1)
           /\ UNCHANGED pass
        \/ /\ open # 0 /\ close = 1
           /\ done' = done \o Until(rest, open) \o <<T("**")>>
           /\ rest' = after
           /\ UNCHANGED pass
        \/ /\ open = 0 \/ close = 0
           /\ pass' = "restore" /\ done' = done \o rest /\ rest' = <<>>
     /\ UNCHANGED <<text, lines, index, fenced, inline, tables>>

\* What a table holds of inline code is not put back: its placeholder comes too late.
PutBack ==
  LET codes == [i \in DOMAIN inline |-> Code(inline[i])]
      pres == [i \in DOMAIN fenced |-> FencedHTML(fenced[i])]
  IN /\ pass = "restore" /\ pass' = "over"
     /\ done' = Restore(Restore(Restore(done, "I", codes), "T", tables), "C", pres)
     /\ UNCHANGED <<text, rest, lines, index, fenced, inline, tables>>

FormatNext == TakeFence \/ TakeInline \/ TakeTable \/ TakeBold \/ PutBack

FormatSpec == FormatInit /\ [][FormatNext]_formatVars

-----------------------------------------------------------------------------
(* What Telegram's parser asks of a message in HTML mode (external).  A    *)
(* closing tag that closes nothing stays, so that nothing below it closes. *)

Tags == {"b", "code", "pre"} \X {1, 2}
Closes(x, y) == x[2] = 2 /\ y = <<x[1], 1>>

Read(open, x) ==
  IF x \notin Tags THEN open
  ELSE IF open # <<>> /\ Closes(x, Head(open)) THEN Tail(open) ELSE <<x>> \o open

LeftOpen(open, s) ==
  LET after[i \in 0..Len(s)] == IF i = 0 THEN open ELSE Read(after[i - 1], s[i])
  IN after[Len(s)]

Accepted(s) == T("lt") \notin ToSet(s) /\ LeftOpen(<<>>, s) = <<>>

-----------------------------------------------------------------------------

\* Telegram accepts what the formatter makes of any text: every tag is closed in
\* order and nothing of the text is left unescaped.
HtmlNests == pass = "over" => Accepted(done)

Words(s) == FlattenSeq([i \in DOMAIN s |-> IF s[i][1] \in {"w", "num", "src"} THEN <<s[i]>> ELSE <<>>])

\* A fence ends its line: none is followed by the name of a language, which is dropped.
PlainFences(s) == \A i \in 1..(Len(s) - 1) : s[i] = T("fence") => s[i + 1] = T("nl")

\* No cell row is left out and no code span stays in a table (see README.md,
\* "Disagreements").
RegularTables ==
  \A i \in DOMAIN lines : IsTableStart(lines, i) =>
    \A j \in i..Len(lines) : (\A k \in i..j : IsRow(lines[k])) =>
      /\ Len(Cells(lines[j])) = Len(Cells(lines[i]))
      /\ \A x \in DOMAIN lines[j] : lines[j][x][1] # "I"

\* Every word of the reply reaches the user, in the order of the reply: the three
\* placeholders take blocks out and put each back where it was.
TextKept == pass = "over" /\ PlainFences(text) /\ RegularTables => Words(done) = Words(text)
=============================================================================
