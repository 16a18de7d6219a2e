---------------------------- MODULE PolicyDocuments ----------------------------
(***************************************************************************)
(* How a policy file becomes chunks: the loader turns pages or blocks into  *)
(* lines and a parallel list of the page or block each came from, the parser *)
(* trims both, the chunker cuts the lines at the article headings and looks *)
(* the sources of each chunk up in the list.                                 *)
(*                                                                           *)
(* A line has a kind, the label of the heading it is or the term it talks    *)
(* about, and whether it gives instructions to a reader.  at says where the  *)
(* line stands in its file; no definition but the properties reads it.       *)
(***************************************************************************)
EXTENDS Integers, Sequences, FiniteSets, SequencesExt

CONSTANTS
    Absent,             \* no value
    MinLines,           \* written lines that are text enough (the code counts characters)
    MinConfidence,      \* a scan needs, in per cent
    MaxScans            \* units of one document that may be recognised

Line(kind, what) == [kind |-> kind, what |-> what, instructs |-> FALSE, at |-> 0]
BlankLine == Line("blank", Absent)

\* A unit is a PDF page or a DOCX block: its native lines, and its scans, which
\* for a page is the rendered page and for a block its embedded images.  A scan
\* holds the recognised lines, the confidence and the engine.
Written(lines) == SelectSeq(lines, LAMBDA l : l.kind # "blank")
Enough(lines) == Len(Written(lines)) >= MinLines

\* Headings that are written without marks get them; an article whose first
\* sentence stands behind its label becomes two lines.
Normalized(line) ==
    LET As(kind) == [line EXCEPT !.kind = kind]
    IN  CASE line.kind = "plainChapter" -> <<As("chapter")>>
          [] line.kind = "plainArticle" -> <<As("article")>>
          [] line.kind = "runInArticle" -> <<As("article"), As("text")>>
          [] OTHER -> <<line>>

NormalizedLines(lines) == FoldLeft(LAMBDA done, l : done \o Normalized(l), <<>>, lines)

-----------------------------------------------------------------------------
(* Loading                                                                  *)

\* text: the lines; sources: the unit of each; scanned: the units recognised, in
\* the order they were, and the confidence of each.
Nothing == [text |-> <<>>, sources |-> <<>>, scanned |-> <<>>, confidences |-> <<>>,
            engine |-> Absent, refused |-> FALSE]
Refused == [Nothing EXCEPT !.refused = TRUE]

Ends(loaded) == loaded.text # <<>> /\ Last(loaded.text).kind # "blank"

Put(loaded, line, unit) ==
    [loaded EXCEPT !.text = Append(@, line), !.sources = Append(@, unit)]

\* No blank line opens the text or follows another.
AppendLine(loaded, line, unit) ==
    IF line.kind = "blank" /\ ~Ends(loaded) THEN loaded ELSE Put(loaded, line, unit)

AppendLines(loaded, lines, unit) ==
    FoldLeft(LAMBDA done, l : AppendLine(done, l, unit), loaded, lines)

\* The blank line between two blocks counts as of the second one, that between two
\* pages as of the first one.
Separate(loaded, unit) ==
    IF Ends(loaded) THEN Put(loaded, BlankLine, unit) ELSE loaded

Accepts(scan) == Enough(scan.lines) /\ scan.confidence >= MinConfidence

\* One document is recognised by one engine.
Recognize(loaded, scan, unit) ==
    IF \/ ~Accepts(scan)
       \/ loaded.engine \notin {Absent, scan.engine}
    THEN Refused
    ELSE [loaded EXCEPT !.scanned = Append(@, unit), !.engine = scan.engine,
                        !.confidences = Append(@, scan.confidence)]

\* A page with too little native text is recognised, and nothing else of it kept.
LoadPage(loaded, page, unit, ocr) ==
    LET native == Enough(page.lines)
        checked == IF native THEN loaded
                   ELSE IF ~ocr \/ Len(loaded.scanned) >= MaxScans THEN Refused
                   ELSE Recognize(loaded, page.scans[1], unit)
        lines == IF native THEN page.lines ELSE page.scans[1].lines
    IN  IF loaded.refused \/ checked.refused THEN Refused
        ELSE AppendLines(Separate(checked, unit - 1), NormalizedLines(lines), unit)

\* A block that has native text keeps it and its images are not recognised.
LoadBlock(loaded, block, unit, ocr) ==
    LET native == Written(NormalizedLines(block.lines))
        recognizes == native = <<>> /\ block.scans # <<>> /\ ocr
        checked == IF loaded.images + Len(block.scans) > MaxScans THEN Refused
                   ELSE IF ~recognizes THEN loaded.done
                   ELSE FoldLeft(LAMBDA done, s : IF done.refused THEN done
                                                  ELSE Recognize(done, s, unit),
                                 loaded.done, block.scans)
        lines == IF ~recognizes THEN native
                 ELSE FoldLeft(LAMBDA seen, s : seen \o Written(NormalizedLines(s.lines)),
                               <<>>, block.scans)
    IN  [images |-> loaded.images + Len(block.scans),
         done |-> IF loaded.done.refused \/ checked.refused THEN Refused
                  ELSE IF lines = <<>> THEN checked
                  ELSE FoldLeft(LAMBDA d, l : Put(d, l, unit), Separate(checked, unit),
                                lines)]

\* At most one blank line ends the text and none opens it.
Trim(loaded) ==
    LET text == loaded.text
    IN  IF text # <<>> /\ Last(text).kind = "blank"
        THEN [loaded EXCEPT !.text = Front(text), !.sources = Front(loaded.sources)]
        ELSE loaded

Positions(units) == [i \in DOMAIN units |-> i]

LoadPDF(units, ocr) ==
    Trim(FoldLeft(LAMBDA done, u : LoadPage(done, units[u], u, ocr), Nothing,
                  Positions(units)))

LoadDOCX(units, ocr) ==
    Trim(FoldLeft(LAMBDA done, u : LoadBlock(done, units[u], u, ocr),
                  [images |-> 0, done |-> Nothing], Positions(units)).done)

\* Markdown has one unit, carries its metadata, and keeps every line.
TrimmedLines(lines) ==
    LET written == {i \in DOMAIN lines : lines[i].kind # "blank"}
    IN  IF written = {} THEN <<>> ELSE SubSeq(lines, Min(written), Max(written))
LoadMarkdown(units) == [Nothing EXCEPT !.text = TrimmedLines(units[1].lines)]

\* A source for every line, each a unit of the file.
Aligned(loaded, units) ==
    \/ loaded.sources = <<>>
    \/ /\ DOMAIN loaded.sources = DOMAIN loaded.text
       /\ \A i \in DOMAIN loaded.sources : loaded.sources[i] \in DOMAIN units

\* A document without text, with sources that do not fit it, or without the metadata
\* beside it (or in front of it), is refused, and with it the directory.
Load(file, ocr) ==
    LET loaded == CASE file.format = "markdown" -> LoadMarkdown(file.units)
                    [] file.format = "pdf" -> LoadPDF(file.units, ocr)
                    [] file.format = "docx" -> LoadDOCX(file.units, ocr)
        least == IF file.format = "docx" THEN MinLines ELSE 1
    IN  IF \/ ~file.described
           \/ Len(Written(loaded.text)) < least
           \/ ~Aligned(loaded, file.units)
        THEN Refused ELSE loaded

-----------------------------------------------------------------------------
(* Chunking                                                                 *)

\* open: the article being read; chunks: the finished ones.
Unread == [chapter |-> 0, open |-> Absent, chunks |-> <<>>, failed |-> FALSE]

NumberRange(numbers) == IF numbers = {} THEN Absent ELSE <<Min(numbers), Max(numbers)>>

\* Mutant: the blank line behind an article counts when its range is taken.
WithTrailingBlanks(lines) == lines

WithoutTrailingBlanks(lines) ==
    SubSeq(lines, 1, Max({i \in DOMAIN lines : lines[i].kind # "blank"}))

SourceRange(loaded, first, last) ==
    NumberRange({loaded.sources[i] : i \in (first..last) \cap DOMAIN loaded.sources})

\* The recognised units within a range of units, and their lowest confidence.
Scans(loaded, range) ==
    LET within == IF range = Absent THEN {}
                  ELSE {i \in DOMAIN loaded.scanned :
                            loaded.scanned[i] \in range[1]..range[2]}
    IN  [units |-> {loaded.scanned[i] : i \in within},
         confidence |-> IF within = {} THEN Absent
                        ELSE Min({loaded.confidences[i] : i \in within})]

Finished(file, loaded, done) ==
    LET article == done.open
        lines == WithoutTrailingBlanks(article.lines)
        range == SourceRange(loaded, article.first, article.first + Len(lines) - 1)
        scans == Scans(loaded, range)
    IN  [done EXCEPT !.open = Absent, !.chunks = Append(@,
            [id |-> <<file.document, Len(done.chunks) + 1>>, label |-> article.label,
             chapter |-> article.chapter, lines |-> lines, units |-> range,
             scanned |-> scans.units, confidence |-> scans.confidence,
             meta |-> file.meta])]

Flushed(file, loaded, done) ==
    IF done.open = Absent THEN done ELSE Finished(file, loaded, done)

\* A line before the first article of a chapter belongs to no chunk.
ReadLine(file, loaded, done, i) ==
    LET line == loaded.text[i]
    IN  CASE line.kind = "chapter" ->
                [Flushed(file, loaded, done) EXCEPT !.chapter = @ + 1]
          [] line.kind = "article" /\ done.chapter = 0 -> [done EXCEPT !.failed = TRUE]
          [] line.kind = "article" /\ done.chapter > 0 ->
                [Flushed(file, loaded, done) EXCEPT !.open =
                    [chapter |-> done.chapter, label |-> line.what, first |-> i,
                     lines |-> <<line>>]]
          [] OTHER -> IF done.open = Absent THEN done
                      ELSE [done EXCEPT !.open.lines = Append(@, line)]

\* Absent: the document cannot be cut.
Chunks(file, loaded) ==
    LET read == FoldLeft(LAMBDA done, i : IF done.failed THEN done
                                          ELSE ReadLine(file, loaded, done, i),
                         Unread, Positions(loaded.text))
        chunks == Flushed(file, loaded, read).chunks
    IN  IF read.failed \/ chunks = <<>> \/ ~IsInjective([i \in DOMAIN chunks |-> chunks[i].label])
        THEN Absent ELSE chunks

ChunksOf(file, loaded) == IF loaded.refused THEN Absent ELSE Chunks(file, loaded)

\* One file that cannot be read, or two chunks with one id, refuse the directory.
ChunkDirectory(files, ocr) ==
    LET cut == [f \in DOMAIN files |-> ChunksOf(files[f], Load(files[f], ocr))]
        chunks == FlattenSeq(cut)
    IN  IF \/ \E f \in DOMAIN files : cut[f] = Absent
           \/ ~IsInjective([c \in DOMAIN chunks |-> chunks[c].id])
        THEN Absent ELSE chunks

-----------------------------------------------------------------------------
(* What chunking promises, in terms of the file alone                       *)

\* Whether a unit is read from its scans.  Without an engine images are passed over.
ScannedIn(file, unit, ocr) ==
    CASE file.format = "markdown" -> FALSE
      [] file.format = "pdf" -> ~Enough(unit.lines)
      [] file.format = "docx" -> ocr /\ Written(unit.lines) = <<>> /\ unit.scans # <<>>

Offered(file, unit, ocr) ==
    LET all == IF ScannedIn(file, unit, ocr)
               THEN FlattenSeq([s \in DOMAIN unit.scans |-> unit.scans[s].lines])
               ELSE unit.lines
    IN  Written(IF file.format = "markdown" THEN all ELSE NormalizedLines(all))

Whole(file, ocr) ==
    FlattenSeq([u \in DOMAIN file.units |-> Offered(file, file.units[u], ocr)])

Headings(lines, kinds) == {i \in DOMAIN lines : lines[i].kind \in kinds}

\* An article is its heading and what is written up to the next heading.
ArticleAt(lines, i) ==
    LET later == {j \in Headings(lines, {"article", "chapter"}) : j > i}
    IN  SubSeq(lines, i, IF later = {} THEN Len(lines) ELSE Min(later) - 1)

\* The chunks of a document are its articles, in order, and each names the units
\* its lines were written on, those of them that were recognised, and the lowest
\* confidence any of its lines was recognised with.
AreItsArticles(chunks, file, ocr) ==
    LET whole == Whole(file, ocr)
        starts == Headings(whole, {"article"})
        start(c) == CHOOSE i \in starts : Cardinality({j \in starts : j <= i}) = c
    IN  /\ Len(chunks) = Cardinality(starts)
        /\ \A c \in DOMAIN chunks :
              LET chunk == chunks[c]
                  lines == ArticleAt(whole, start(c))
                  units == {lines[i].at : i \in DOMAIN lines}
                  scanned == {u \in units : ScannedIn(file, file.units[u], ocr)}
              IN  /\ Written(chunk.lines) = lines
                  /\ file.format # "markdown" =>
                        /\ chunk.units = <<Min(units), Max(units)>>
                        /\ chunk.scanned = scanned
                        /\ scanned # {} => /\ chunk.confidence >= MinConfidence
                                           /\ \A u \in scanned :
                                                \A s \in DOMAIN file.units[u].scans :
                                                   chunk.confidence
                                                     <= file.units[u].scans[s].confidence
===============================================================================
