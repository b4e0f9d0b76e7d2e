--------------------------- MODULE RasterConverter ---------------------------
(***************************************************************************)
(* The conversion of PWG Raster to Apple Raster while it passes through    *)
(* (main/raster_converter.c). Compressed rows are copied as they are, but  *)
(* they have to be followed to find where a line, a page and the document  *)
(* end: what is not well formed must be refused, and what is well formed   *)
(* must not.                                                               *)
(*                                                                         *)
(* The input is what the reader has returned so far: <<"sync", s>>,        *)
(* <<"page", h>> and <<"byte", b>>. It is chosen as it is read, and kept   *)
(* as a history variable. A page header is abstracted to the fields that   *)
(* decide how it is followed; h.sound stands for the marker, the           *)
(* resolution and the colour fields.                                       *)
(***************************************************************************)
EXTENDS Integers, Sequences

CONSTANTS
  Syncs,      \* "RaS2" and what else a file may begin with
  Headers,    \* page headers, see HeaderOK
  Bytes,      \* repeat counts and control bytes
  Pixels,     \* bytes of pixels
  MaxWidth, MaxHeight, MaxLine,
  Piece,      \* sizeof(buffer) in copy_payload
  MaxPages,   \* model bound: pages of a document
  None

HeaderOK(h) ==
  /\ h.sound \in BOOLEAN
  /\ {h.width, h.height, h.bits, h.line} \subseteq Nat
  /\ h.count \in Nat \cup {-1}   \* TotalPageCount, -1 for 0xffffffff

ASSUME RasterAssumption ==
  /\ \A h \in Headers : HeaderOK(h)
  /\ Bytes \cup Pixels \subseteq 0..255
  /\ {MaxWidth, MaxHeight, MaxLine} \subseteq Nat
  /\ {Piece, MaxPages} \subseteq Nat \ {0}
  /\ None \notin {"ok", "invalid", "unsupported", "write_error"}

VARIABLES
  pc,        \* what is read next
  page,      \* the header of the current page
  expected,  \* expected_pages
  pages, rows, row_count, decoded,
  left,      \* length in copy_payload
  expanded,  \* bytes that the payload stands for
  output,    \* what was written
  result,    \* what espresso_pwg_to_urf returned
  input, eof \* history variables: what was read, and that its end was reported

position == <<page, expected, pages, rows, row_count, decoded, left, expanded>>
rasterVars == <<pc, position, output, result, input, eof>>

RasterInit ==
  /\ pc = "sync" /\ page = None /\ expected = 0
  /\ pages = 0 /\ rows = 0 /\ row_count = 0 /\ decoded = 0 /\ left = 0 /\ expanded = 0
  /\ output = <<>> /\ result = None
  /\ input = <<>> /\ eof = FALSE

----------------------------------------------------------------------------
BytesPerPixel(h) == (h.bits + 7) \div 8

(* build_page_header: None where it is ESPRESSO_RASTER_OK.                 *)
Refusal(h) ==
  IF \/ ~h.sound \/ h.width \notin 1..MaxWidth \/ h.height \notin 1..MaxHeight
     \/ h.bits \notin 1..255 THEN "unsupported"
  ELSE IF h.line \notin 1..MaxLine \/ h.line # (h.width * h.bits + 7) \div 8 THEN "invalid"
  ELSE IF BytesPerPixel(h) > 8 THEN "unsupported"
  ELSE None

(* A slip that a run must notice: 256 - control pixels.                    *)
UnitsLess(control) == IF control >= 128 THEN 256 - control ELSE control + 1

(* A control byte stands for pixels that follow, or for one that repeats.  *)
Units(control) == IF control >= 128 THEN 257 - control ELSE control + 1

Return(r) == pc' = "returned" /\ result' = r

(* espresso_pwg_to_urf returns what stops it and leaves the rest as it is. *)
Fail(r) == Return(r) /\ UNCHANGED <<position, output>>

Reads(s) == input' = input \o s /\ UNCHANGED eof

(* Everything that is to be written is written, or nothing follows it.     *)
Writes(s) == output' = output \o s
WriteFails == Fail("write_error")

Goes(next) == pc' = next /\ UNCHANGED result

----------------------------------------------------------------------------
ReadSync(s) ==
  /\ pc = "sync"
  /\ Reads(<<<<"sync", s>>>>)
  /\ IF s = "RaS2" THEN Goes("first") /\ UNCHANGED <<position, output>>
                   ELSE Fail("unsupported")

(* The apple page header is written, and copy_page begins.                 *)
BeginPage(h, written) ==
  \/ /\ Refusal(h) # None
     /\ Writes(written)
     /\ Return(Refusal(h))
     /\ UNCHANGED <<page, pages, rows, row_count, decoded, left, expanded>>
  \/ /\ Refusal(h) = None
     /\ Writes(written \o <<<<"apple", h>>>>)
     /\ Goes("repeat")
     /\ page' = h /\ rows' = 0
     /\ UNCHANGED <<pages, row_count, decoded, left, expanded>>

(* The first header gives the page count, which is written before the      *)
(* header is looked at.                                                    *)
ReadFirstHeader(h) ==
  /\ pc = "first"
  /\ Reads(<<<<"page", h>>>>)
  /\ \/ WriteFails
     \/ /\ expected' = h.count
        /\ BeginPage(h, <<<<"file", h.count>>>>)

ReadHeader(h) ==
  /\ pc = "header" /\ pages < MaxPages
  /\ Reads(<<<<"page", h>>>>)
  /\ \/ Refusal(h) = None /\ WriteFails
     \/ BeginPage(h, <<>>) /\ UNCHANGED expected

CopyRepeat(b) ==
  /\ pc = "repeat"
  /\ Reads(<<<<"byte", b>>>>)
  /\ \/ WriteFails
     \/ /\ Writes(<<<<"byte", b>>>>)
        /\ IF b + 1 > page.height - rows
           THEN Return("invalid") /\ UNCHANGED position
           ELSE /\ row_count' = b + 1 /\ decoded' = 0
                /\ Goes("control")
                /\ UNCHANGED <<page, expected, pages, rows, left, expanded>>

CopyControl(b) ==
  /\ pc = "control"
  /\ Reads(<<<<"byte", b>>>>)
  /\ \/ WriteFails
     \/ /\ Writes(<<<<"byte", b>>>>)
        /\ LET size == Units(b) * BytesPerPixel(page)
           IN  IF b = 128 \/ size > page.line - decoded
               THEN Return("invalid") /\ UNCHANGED position
               ELSE /\ expanded' = size
                    /\ left' = IF b >= 128 THEN size ELSE BytesPerPixel(page)
                    /\ Goes("payload")
                    /\ UNCHANGED <<page, expected, pages, rows, row_count, decoded>>

(* The next line, or the next page, once this one is complete.             *)
AfterPayload ==
  /\ decoded' = decoded + expanded
  /\ LET whole == decoded' >= page.line
         ended == whole /\ rows + row_count >= page.height
     IN  /\ rows' = IF whole THEN rows + row_count ELSE rows
         /\ pages' = IF ended THEN pages + 1 ELSE pages
         /\ Goes(IF ended THEN "header" ELSE IF whole THEN "repeat" ELSE "control")

CopyPayload(s) ==
  /\ pc = "payload"
  /\ Len(s) = IF left < Piece THEN left ELSE Piece
  /\ Reads(s)
  /\ \/ WriteFails
     \/ /\ Writes(s)
        /\ left' = left - Len(s)
        /\ IF left' = 0 THEN AfterPayload
           ELSE Goes("payload") /\ UNCHANGED <<rows, decoded, pages>>
        /\ UNCHANGED <<page, expected, row_count, expanded>>

PagesAsExpected(n) == expected \in {0, -1} \/ n = expected

(* The end of the input where a header may follow.                         *)
ReadEof ==
  /\ pc = "header"
  /\ eof' = TRUE
  /\ Fail(IF PagesAsExpected(pages) THEN "ok" ELSE "invalid")
  /\ UNCHANGED input

(* The reader fails, or ends where more is due.                            *)
ReadFails ==
  /\ pc # "returned"
  /\ eof' \in IF pc = "header" THEN {FALSE} ELSE BOOLEAN
  /\ Fail("invalid")
  /\ UNCHANGED input

RasterNext ==
  \/ \E s \in Syncs : ReadSync(s)
  \/ \E h \in Headers : ReadFirstHeader(h) \/ ReadHeader(h)
  \/ \E b \in Bytes : CopyRepeat(b) \/ CopyControl(b)
  \/ \E n \in 1..Piece : \E s \in [1..n -> {<<"byte", x>> : x \in Pixels}] : CopyPayload(s)
  \/ ReadEof
  \/ ReadFails

RasterSpec == RasterInit /\ [][RasterNext]_rasterVars

----------------------------------------------------------------------------
(* PWG Raster by what it may consist of, independent of how it is read:    *)
(* lines of runs that make up their bytes, pages of lines that make up     *)
(* their rows, and documents of as many pages as the first one announces.  *)
Cat(A, B) == {a \o b : a \in A, b \in B}

(* Made of parts whose sizes add up to total; parts[k] are those of size k. *)
Sums(parts, total) ==
  LET of[n \in 0..total] ==
        IF n = 0 THEN {<<>>}
        ELSE UNION {Cat(parts[k], of[n - k]) : k \in {k \in DOMAIN parts : k <= n}}
  IN  of[total]

Byte(b) == <<<<"byte", b>>>>
Payload(n) == [1..n -> {<<"byte", x>> : x \in Pixels}]

(* A pixel for k of them, or k that differ.                                *)
Runs(h) ==
  LET bpp == BytesPerPixel(h)
  IN  [k \in 1..128 |->
         Cat({Byte(k - 1)}, Payload(bpp))
           \cup (IF k = 1 THEN {} ELSE Cat({Byte(257 - k)}, Payload(k * bpp)))]

Lines(h, bytes) ==
  UNION {Sums(Runs(h), n) : n \in {n \in 0..bytes : n * BytesPerPixel(h) = bytes}}

(* A line for k rows.                                                      *)
RowRuns(h) == [k \in 1..256 |-> Cat({Byte(k - 1)}, Lines(h, h.line))]

Pages ==
  UNION {Cat({<<<<"page", h>>>>}, Sums(RowRuns(h), h.height))
           : h \in {h \in Headers : Refusal(h) = None}}

Documents ==
  UNION {{<<<<"sync", "RaS2">>>> \o d
            : d \in {d \in Sums(<<Pages>>, n) : d[1][2].count \in {0, -1, n}}}
           : n \in 1..MaxPages}

(* The same document as Apple Raster.                                      *)
AsUrf(d) ==
  <<<<"file", d[2][2].count>>>> \o
  [i \in 1..(Len(d) - 1) |->
     IF d[i + 1][1] = "page" THEN <<"apple", d[i + 1][2]>> ELSE d[i + 1]]

(* A document that ends is converted exactly if it is PWG Raster: lines,   *)
(* rows and pages come out even, and there are as many pages as it says.   *)
(* What the printer then has is the same document. Bytes of pixels are     *)
(* never taken for control bytes, in whichever pieces they are copied.     *)
ConvertsDocuments ==
  /\ result # None /\ eof => (result = "ok" <=> input \in Documents)
  /\ result = "ok" => eof /\ output = AsUrf(input)
=============================================================================
