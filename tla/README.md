# A TLA+ model of kdegraphics-thumbnailers

The repository holds four plugins of KIO's thumbnail worker.  Each is a class
with one operation, `create(request)`, which turns a file into a `QImage`.
Three are sequential readers.  The fourth, `GSCreator` (PostScript, EPS, DVI),
parses a document's structuring comments, and runs Ghostscript and dvips in
child processes with pipes, signals and a timeout.  That is where most of the
behaviour is, and where this project started.

## Inventory

| Component | Code | State | Operations | Talks to |
|---|---|---|---|---|
| GSCreator | `ps/gscreator.cpp` `create`, `handle_sigterm` | SIGTERM disposition and the static `got_sig_term` (both outlive a call), three pipes, two children, the bytes read | `create`, and the signal handler at any point of it | KDSC (scan, callback), gs and dvips (pipes, `kill`, `waitpid`), the worker's own signal handling |
| KDSC adapter | `ps/dscparse_adapter.cpp` | the comment handler, the error handler | `scanData`, `comment` callback, `errorFunction` callback | cuts blocks of 4096 bytes into lines for dscparse, and calls back into GSCreator |
| DSC line reader | `ps/dscparse.cpp` `dsc_scan_data`, `dsc_read_line` | 8 KiB buffer, file offset, skip counters | `dsc_scan_data(data, length)` | hands lines to the scanner |
| DSC file type | `dsc_scan_type`, `dsc_read_doseps` | `ctrld`, `pjl`, `pdf`, `epsf`, DOS EPS header | first call of `dsc_scan_data` | decides whether there is anything to scan |
| DSC section scanner | `dsc_scan_comments` ... `dsc_scan_trailer`, `dsc_fixup` | `scan_section`, begin/end of the sections, page table, open-block counters | one per section, `dsc_fixup` | may pass a line on to the next scanner, asks the error function |
| DSC attributes | `dsc_parse_*` | bounding boxes, page count, order, orientation, media | one per comment | GSCreator uses `bbox`, `page_count`, `preview` |
| EPSI decoder | `GSCreator::getEPSIPreview` | none between calls; position, bytes read and the image within one | one | the file between `beginpreview` and `endpreview` |
| EPS scaling | `GSCreator::create` | none | resolution and size for gs, scale of a preview | the box and the page count of the attributes |
| BlenderCreator | `blend/blendercreator.cpp` | none between calls; position, block header and image buffer within one | `create` | a file, perhaps compressed |
| RAWCreator | `raw/rawcreator.cpp` | none | `create` | KDcraw, KExiv2, QImage |
| MobiThumbnail | `mobipocket/` | none | `create` | libraries |

What is hard: signals that arrive between any two steps of `create`; children
that fail at any step, each holding pipe ends others wait on; a timeout that
shares a test with signal handling; state that one call leaves to the next; a
file that arrives in blocks, is cut into pieces, and has to be put together
again in a small buffer while parts of it are skipped; documents whose comments
are missing, repeated or out of order; and numbers that come from a file.
`PROJECT.json` lists the hazards with the lines where they bite.

What makes the components correct:

* GSCreator: the image arrives whole or is known not to be whole; nobody waits
  for one another; at most one renderer, reaped before `create` returns; a
  SIGTERM ends the loop and is passed on; the worker is left as it was found.
* Section scanner: what it records lies in the file in the order of the
  sections and does not overlap; there is always a page to extend; a block left
  open is forgotten with its section; when GSCreator stops reading, what it
  wants to know is settled.
* Line reader and file type: blocks, pieces and the buffer are invisible.  The
  lines are those that a reader of the whole file would find, embedded data is
  skipped to the byte, no byte is lost or seen twice, nothing that could be dealt
  with waits in the buffer, and each call returns.
* Attributes: the right one of several comments counts; a page has what was said
  of it and nothing of another.
* EPS scaling, EPSI decoder, BlenderCreator, RAWCreator: no number in a file leads to a size
  that is out of proportion, a read outside of the buffer, or a loop; a good file
  is not refused; a preview is turned the right way, and each of its pixels is made
  of its own bits.

## Modules

| Module | Models | Checked by |
|---|---|---|
| `GSCreator` | `create`, its children, their pipes, signals | `MCGSCreator`, and the small `GS*.cfg` |
| `ThumbnailCall` | what a caller of `create` relies on (abstract) | implemented by `GSCreator` |
| `GSCreatorProofs` | theorems about `GSCreator` | tlapm |
| `DscSections` | the section scanner, `dsc_fixup`, `GSCreator::comment` | `MCDscSections`, with three cfgs |
| `DscSectionsProofs` | types, blocks, preview and pages of `DscSections` | tlapm |
| `DscOrderProofs` | the order of the sections of `DscSections`, `dsc_fixup` | tlapm |
| `DscLines` | the block loop, `KDSCScanHandlerByLine`, `dsc_scan_data`, `dsc_scan_type`, `dsc_read_line` | `MCDscLines`, with two cfgs |
| `DscReader` | what these promise of a file (abstract) | implemented by `DscLines` |
| `DscLinesProofs` | types, buffer and refinement of `DscLines` | tlapm |
| `DscBufferProofs` | nothing is lost, nothing waits, comments end the reading, the start is found | tlapm |
| `DscAttributes` | the `dsc_parse_*` functions | `MCThumbnailPlugins` |
| `EpsFile` | the numbers that `create` computes for an EPS file (operators only) | `MCThumbnailPlugins` |
| `BlenderCreator`, `RawCreator` | their `create` | `MCThumbnailPlugins` |
| `EpsiPreview` | `getEPSIPreview` | `MCThumbnailPlugins` |
| `ThumbnailPlugins` | composes these five: one call of one plugin, and how the box that `DscAttributes` keeps becomes the options of `EpsFile` | `MCThumbnailPlugins` |
| `ThumbnailPluginsProofs` | types, images and sizes of `ThumbnailPlugins` | tlapm |
| `DocumentProofs` | what comments leave in `DscAttributes` | tlapm |
| `PreviewProofs` | the digits and bits of `EpsiPreview` | tlapm |

### GSCreator

One variable `pc` says where the worker is in `create`: `idle`, `pipes` (the
two `pipe()` calls), `scan` (the DSC scan and the embedded preview), `fork`,
`write` (the prolog), `top` (the loop clears the flag), `select`, `read`,
`check` (`kill` if not ok), `wait` (`waitpid`), `finish` (load, pass the signal
on, restore the handler).  The children are in `proc`: child (1) is `forked`
until its exec, `forked2` after its own `fork()`, then `reading` and
`rendering` as gs; `returned` is the child whose `fork()` (2) failed and which
left `create` through its `return`.  `fds` holds the pipe ends that each
process has open; end-of-file and broken pipes follow from it and from nothing
else, so a forgotten `close()` has the effects it has in the system.  The
duplicates that `dup2` makes are the same ends.

Signals: `Sigterm` may occur whenever `handle_sigterm` is installed.  A blocked
`select()` then returns -1 with EINTR; anywhere else `signal()`'s SA_RESTART
semantics make system calls resume, and only the flag is set.  `errno` is
sticky, as it is in C: that is what the loop's test depends on.  A child
inherits the handler and loses it with its exec.  `pipe(dvipipe)` is not
checked by the code; when it fails, the closes that follow hit uninitialized
descriptor numbers, modelled as any descriptors of that process or none
(`Misclosed`, and the two closes of `Fork2Fails`).

A document is its class: `dvi`, `ps`, `epsi` (with a preview that may or may
not load), `mess` (PJL or ^D), `unreadable`.  Bytes are counted in blocks of one
`read()`.

### DscSections

A line is its kind and its two offsets (`DSC_START`, `DSC_END`); a kind is an
equivalence class of what the scanners distinguish.  Each scanner has an action
that handles one line: it consumes it (`Consume`), hands it to the next section
(`Propagate`, which is `CDSC_PROPAGATE`), or gives up (`NotDsc`).  `dsc_error`
is a choice from `Responses`: `{"CANCEL"}` is the parser without an error
function, which is how GSCreator uses it; the larger set is what a client of
KDSC may install.  `Fixup` is `dsc_fixup` up to the questions it asks about page
counts, bounding boxes and media.  `dsc_section_join` threads a pointer through
the sections; `Join(k)` says where the end of part k is moved to by that.
Attribute comments appear by their effect on the sections only.

### DscLines and DscReader

`DscLines` has the client's block, the piece of it that was handed over, and
the parser's buffer with `data_index`, `data_offset` and the counters of what is
to be skipped.  `pc` says who is at work: `handler` (GSCreator's loop and
`KDSCScanHandlerByLine`: `ReadBlock`, `Call`), or, within `dsc_scan_data`,
`append` (`AppendData` moves the buffer and fills it), `type` (`dsc_scan_type`:
the actions `Type...` and `SkipPjl...`), `first` (the line that
`dsc_scan_type` reads) and `lines`.  `dsc_read_line` is `SkipBytes`,
`Exhausted`, `Incomplete` (it returns 0), `SkipLine`, and the line that
`FirstLine` or `NextLine` takes.  A symbol is a byte, or a keyword where nothing
depends on its length; the buffer size `N` is a constant.  What the scanners do
with a line is `DscSections`; the comment `Page` stands for those at which
GSCreator stops reading.

`DscReader` has no buffer and no blocks: the file grows, and a position moves
through it by whole lines and by embedded data.  `DscLines` implements it with
the position `data_offset + data_index`.  The freedom `DscReader` leaves is named
in it: a `\n` after a `\r` that ends a line may count to that line or be dropped
before the next one; lines of at least half the buffer may come in pieces; a ^Z
may end a line.  The first of these is visible in the program: when a `\r\n` is
split between two blocks and `\r` ended a comment that announces bytes to skip,
the `\n` is counted as one of them.

### The other plugins, and the numbers of GSCreator

`BlenderCreator` reads a stream of `length` bytes; what stands at a position is
chosen when it is read, since no byte is read twice.  Sizes and dimensions are
signed integers of `Word` values.  `RawCreator` compares what the code does to a
picture, a function from pixels to what they show, with the table of the EXIF
standard.  `DscAttributes` keeps the history of comments and says afterwards
which of them had to count.  `EpsiPreview` reads
a text of digits and other characters into bytes (`ReadByte`), and draws the bits;
`SamplesShown` compares them with the digits of the text, counted without any
position.  In `ThumbnailPlugins`, `Options` takes the box
that is left at any time in the scan, computes what `create` computes from it
with wrapping arithmetic, and so covers each point where reading may stop.

## Runs

| Run | Instance | Shows |
|---|---|---|
| `gscreator` | 2 calls, 2 SIGTERMs, 1 other signal, all classes of files, image of 2 blocks, pipes of 1; 112 000 states | all properties of GSCreator, safety and liveness, and that it implements `ThumbnailCall` |
| `sections` | every sequence of 21 kinds of lines of one byte up to 8 bytes, no error function | `TypeOK`, `PageExists`, `Ordered`, `Joined` |
| `sections_answers` | the same up to 6 bytes, with every answer of an error function | `BlocksClosed`, `PreviewSettled` |
| `lines` | files of fourteen kinds in blocks of 1, 2, 3 and 5 bytes, a buffer of 6; 641 000 states | `TypeOK`, `BufferIsFile`, `NothingHeldBack`, `StartFound`, `CommentsReported`, `ScanReturns`, and that it implements `DscReader` |
| `plugins` | one call of each plugin, integers of 11 bits, up to three comments, previews of one or two bytes and one of 257 rows; 526 000 states | all properties of `ThumbnailPlugins` |
| `gs_handler`, `gs_propagate`, `gs_timeout`, `gs_returned`, `gs_kill`, `dsc_ignore_all`, `dsc_preview` | smallest instance each | what a comment says and the code does not do (below) |

Why the bounds are enough.  Two calls are needed and sufficient for what a call
leaves behind (handler, flag, errno, descriptors) to meet the next one; a third
call finds the same state as the second.  Two SIGTERMs allow one before and one
after any step of interest.  A pipe of one block and an image of two make gs
block on its output; one block of PostScript makes dvips block or gs starve.
Eight one-byte lines are enough to open and close the header, to pass through
four sections with two pages, to meet a trailer and to go back; the offsets
differ whenever lines differ, so that an overlap of one byte shows.  The length
of lines does not matter to the scanners.

In `lines`, blocks of 5 exceed half of the buffer of 6, as GSCreator's 4096 of
8192 just do not, so that the whole cycle of moving, filling and refusing data is
passed within one file; the other sizes cut every line, header and `\r\n` at
every place.  The documents differ in what they put together: embedded data
with embedded documents, lines longer than the buffer, PJL, ^D, a DOS EPS header,
PDF, and what is no DSC.  Counts are 2, which ends within the next piece, -2,
which leads back to the comment or to lines before it, and -9, which leaves the
buffer.  A comment that is read for ever would make `lines` grow for ever: the guard
of `NextLine` stops reading lines again when `MaxLines` are recorded.  That is 5,
more than the lines of most of these files, so that a line is seen to be read again,
and again.  In `plugins`, 11 bits are few enough for every
kind of overflow with the sizes and boxes listed (inverted, empty, too large,
wrapping around) and many for images of one to four pixels in files of up to 110
bytes; three comments are what it takes to repeat one and to give another
between; requests differ in both dimensions.  Five characters after the first % are
two bytes with one other character anywhere, lines end within a byte and with one,
there are an image too wide and one too high to be counted, and one of 257
rows whose bits the wrapped product counts as one row's (`SamplesShown` excepts it).

The runs do not look for deadlocks: an instance stops when its bounded number
of calls, or its bounded file, is used up.

### Fairness

`LiveSpec` asks for weak fairness of the worker (its steps, and the timer of
`select()`, which is `SelectTimeout`), and of the code between `fork()` and
`exec` in the two children.  gs and dvips are given none: they may be silent for
ever.  `CreateReturns` says that even so every call returns, except after one of
four events, each a defect listed below or a failed system call that the code
does not check: `Hung` names them, and each is reachable.

`dsc_scan_data` and `BlenderCreator::create` are called by a sequential program
and run until they return: `ScanReturns` and `BlenderReturns` assume weak
fairness of their steps (`ScanData`; `BlenderStep`, `RawStep` or `EpsiStep`) and of nothing
else.  `ScanReturns` has one exception, `Back`: a call need not return if, time and
again, a negative count has led it back into lines that were read.  That a file ends, or goes on, is not assumed.

### Where the code departs from its comments

* `gs_handler`: an early return leaves `handle_sigterm` installed.
* `gs_propagate`: the loop clears `got_sig_term`, a SIGTERM just before that is
  neither obeyed nor passed on.
* `gs_timeout`: after one interrupted `select()` the stale `errno` turns every
  timeout into another round.
* `gs_returned`: when the second `fork()` fails the child returns from `create`
  as a second worker.
* `gs_kill`: a child killed before its exec survives, and is then waited for
  without a timeout.
* `dsc_ignore_all`: the answer "ignore all DSC" is lost between
  `dsc_parse_page` (and the other `dsc_parse_*`) and `dsc_scan_data`.
* `dsc_preview`: `dsc_scan_type` forgets between two calls that it is in the
  preview of a DOS EPS file, and takes a byte 4 in it for a ^D.

Seen while modelling, and in the models as the code has it, but contradicted by
no comment or test:

* A negative count of `%%BeginData` or `%%BeginBinary` moves the position back
  (`dscparse.cpp:938`).  If it gets to the same comment again, the scan never
  ends: `ScanReturns` names this as its exception (`Back`), and a count of the run
  leads there.  A count that leaves the buffer ends in `IndexInvalid`; `DscReader`
  names both `Derail`.
* A ^D is taken off by each call until the first line is complete.  Of two, the
  second is taken off if the first came alone, and is the first byte of the first
  line if both came together; so is a header behind the first.  `StartFound`
  excepts such files (`OneHeader`).
* A last line without an end is not scanned.  Even the call with length 0, which
  `dsc_fixup` makes and GSCreator does not, reads that line and returns before it
  gets to a scanner (`dscparse.cpp:367`).
* A comment is not reported when a line behind the PostScript section of a DOS EPS
  file follows in the same piece: `dsc_scan_data` returns `CDSC_OK` then, whatever
  its `id` is (`dscparse.cpp:365`; `Leave`).
* `dsc_read_doseps` makes an int of the offset in the header without looking whether
  it lies behind the header, or fits (`dscparse.cpp:1184`).  This is not modelled:
  `PsBegin` is at least `HeaderLength` and has no width (`HeaderAssumption`).
* Comments in a file whose lines end in `\r` alone do not end the reading, but
  for one that ends with a block: `CommentsReported` promises it for `\n` only.
  It excepts two more kinds of files: those in which a negative count has lines read
  again (a `Page` comment that was skipped as data may then be scanned in the middle
  of a piece), and PJL with a `\r` in it.  Of such PJL each call of `dsc_scan_data`
  takes off one line only, so that several wait when PostScript begins, and what is
  reported is the last of them.  The page count that `create` looks at is rarely more than 1, as reading stops
  at the first `%%Page:`.
* A `%%BoundingBox:` in the trailer that is `(atend)` or malformed takes away the
  one of the header (`DocumentValues` says so).
* `%%PaperSize` in a page, of a medium of the document, changes the default of
  all pages (`DefaultMedium`).
* `getEPSIPreview` puts the first bit of a sample into the lowest bit of the pixel:
  grays of a depth of 2, 4 or 8 are those of the reversed bits.  `SamplesShown`
  says which bits, and in which order.
* A NUL character in a preview makes the string shorter than what was read, against
  the `Q_ASSERT` at `gscreator.cpp:536`; `EpsiPreview` has no NUL.
* A preview with a width or height that an int cannot count in bits is drawn from
  bytes that were not read, or into no image.  `PreviewInside` names the two
  sizes.  Where only the product of height and bits wraps, the loops end early or
  show the first rows again; `SamplesShown` names that product.
* A call that fails before its loop, because `fork()` failed or the prolog could not be
  written, still tests `got_sig_term`: when an earlier call ended with the flag set,
  it passes that SIGTERM on once more.  `FlagIsNew` is about calls that get to their
  loop.
* The status that gs ends with changes nothing (`gscreator.cpp:435`): an image that
  loads is shown.
* The two EXIF orientations that mirror and rotate are mirrored first, and each is
  shown as the other should be; `Upright` excludes them.

## Proofs

`GSCreatorProofs` proves, for all sizes of pipes and images and any number of
calls and signals, under the assumptions `HandlersAssumption`, `DocsAssumption`
and `SizesAssumption` of `GSCreator`:

| Theorem | States |
|---|---|
| `TypeCorrect`, `Received`, `MutualWait` | `[]TypeOK`, `[]ReceivedAll`, `[]NoMutualWait` |
| `Timeouts`, `Leaks`, `InterruptsArePassedOn` | the action properties `TimeoutWhileProducing`, `NothingLeftOpen`, `InterruptPropagated` |
| `FlagsAreNew` | `[]FlagIsNew` |
| `Implements` | `Spec => CallSpec`: `create` implements `ThumbnailCall` |

None of the properties is inductive.  The inductive invariant `Inv` adds to
`TypeOK` which control states of the worker and its children go together
(`Control`), which pipe ends each process holds in each state (`Descriptors`),
and the transfer of data (`Transfer`): for instance that after the worker's
`close()` calls only children hold the write end of `output`, hence that
end-of-file means that they are gone.  The two about signals have an invariant of
their own, `SignalInv`: that the flag stands for a SIGTERM of this call once the
loop was entered, and that an interrupted `select()` leaves the flag set up to
`finish`.  There is one lemma per actor (worker,
signals, gs, dvips) with one step per action; the theorems follow from
`Invariance`.

`DscSectionsProofs` and `DscOrderProofs` prove, for any kinds and lengths of
lines and any size of the file, under the assumptions of `DscSections` on its
constants:

| Theorem | States |
|---|---|
| `TypeCorrect` | `[]TypeOK`: every offset recorded lies in the file, also after `dsc_fixup` |
| `BlocksStayClosed`, `PreviewIsSettled` | `[]BlocksClosed`, `PreviewSettled`, whatever the error function answers |
| `PagesExist` | `[]PageExists`, if there is no error function (`NoErrorFunction`) |
| `SectionsOrdered`, `SectionsJoined` | `[]Ordered`, `[]Joined`, if there is no error function |

The last three need their hypothesis: an error function that answers OK for a page
with a wrong ordinal drops the first page, and the next line extends `page[-1]`.
KDSC passes an error function to dscparse only when it was given a
`KDSCErrorHandler`; GSCreator gives it none.  With one that says OK to a page in the
trailer (`TrailerPage`) that page overlaps the trailer.  For `PreviewIsSettled` the
invariant is `StopsLate`: the reader is told to stop only after the header, and
no scanner goes back to it.  `TypeCorrect` rests on `JoinType`: the sections
that `dsc_section_join` chooses from are never none, by `Greatest`.

`Ordered` is not inductive.  `OrderInv` adds that nothing recorded lies beyond
the line that is scanned, that sections the scan has not reached have not begun,
and that a section that has begun is not empty.  Before the pages a scanner
leaves the marks alone, extends the last section or opens the next: one lemma
each.  For `dsc_fixup` the invariant gives `PartsOK`: of all sections and pages
that have begun only the last can be empty.  So `dsc_section_join` moves an end
to the next that has begun and no further (`JoinsNext`), which is both `Ordered`
and `Joined` of the state after it.

`DscLinesProofs` and `DscBufferProofs` prove, for a buffer, blocks and files of
any size and any counts, under the assumptions of `DscLines` on its constants
(buffer and headers: `BufferAssumption`, `HeaderAssumption`; the others give
types):

| Theorem | States |
|---|---|
| `BufferTypes`, `BufferIsWindow` | `[]TypeOK`; what is in the buffer is what was read at that offset |
| `LinesOfTheFile` | `Spec => ImplementsReader` |
| `BufferSettled` | `[]NothingHeldBack` |
| `CommentsEndReading` | `[]CommentsReported` |
| `StartIsFound` | `[]StartFound` |
| `BytesOfTheFile` | `[]BufferIsFile`, if no block is larger than half the buffer (`SmallBlocks`) |

The invariant `LInv` adds to the types that the buffer is a window on what was
read (`Window`), and where `data_index` may be outside of it (`Place`).  There
is one lemma per action, which gives the invariant after it and the step of
`DscReader` that it is.  `BufferSettled` needs that a text with an end-of-line
has a first line, by the least element of a set of numbers.

`CommentsEndReading` puts together the handler, the type of the file and the
scan.  A call is given a piece, whose only newline is its last byte (`Pieces`).
`Placed` says for each place in `dsc_scan_data` where newlines can be among the
bytes that still wait: none, or only at the end of all that was handed over, since
a line that ended earlier was taken in an earlier call.  So a line that ends with
`\n` is the last one of its call, and the `id` it leaves is the one that is
reported: `Pending` says so while the call runs, `Reported` once it has returned.
`Asked` is the other direction.  `Derailed` is what a negative count leads to,
for which nothing is claimed until the position is beyond the buffer.  The
provisos of `CommentsReported` are about a whole history, and the induction needs
them for its beginning: `ApartBefore` shows that they held before if they hold
now.  All of this together is `Arranged`.

`BytesOfTheFile` adds `Room` to it: as long as the type of the file is not known,
or a line is not complete, what is kept in the buffer leaves room for all of the
piece.  This matters because `dsc_scan_type` returns with what it has, and the rest
of the call is gone.  In PJL it is true because of `Placed`: each call brings one
newline, so that what waits behind a newline came with one piece (`NewlinesNear`).
Its hypothesis is what GSCreator does: 4096 is half of `CDSC_DATA_LENGTH`.  For
larger blocks a DOS EPS preview or PJL may lose bytes, which `Whole` excepts and the
run `lines` includes.

`StartIsFound` is about what the file begins with, as far as it was read: `BeginsAt`
is a predicate on the file alone, with no calls and no buffer in it.  Before the
first line, `Searching` says that the position is that of one of three readers:
behind a ^D at most (`Bare`), at the end of a line of PJL, none before which began
with a % (`InPjl`), or within the preview of a DOS EPS file, with the rest of it to
be skipped (`InDosEps`); `Begun` is the property of the first line.  The hypothesis
`OneHeader` within `StartFound` is needed: `dsc_scan_type` looks for a header
again with each call, and what it then finds behind a ^D or in a preview depends on
where the calls divide the file.  That `seen` is the file is `BufferIsFile`.

`ThumbnailPluginsProofs` proves, for integers of any width and files, previews
and requests of any size, under `NumbersAssumption`, `PreviewsAssumption`,
`CommentsAssumption`, `EpsiAssumption` and `RequestsAssumption`:

| Theorem | States |
|---|---|
| `CallTypes` | `[]TypeOK` |
| `ImagesInside`, `ThumbnailsTaken` | `[]ImageInside`, `[]ThumbnailTaken` |
| `PreviewsInside` | `[]PreviewInside` |
| `PreviewsUpright` | `[]Upright` |
| `RenderedSizes`, `PreviewSizes` | `[]RenderedSize`, `[]PreviewSize` |

`DocumentProofs` and `PreviewProofs` add, under the same assumptions:

| Theorem | States |
|---|---|
| `DocumentsValued`, `PagesValued` | `[]DocumentValues`, `[]PageValues` |
| `PreviewSamples`, `PreviewsTaken` | `[]SamplesShown`, `[]PreviewTaken` |

The theorems of the first table follow from `CallInv`, the conjunction of what each
plugin has established at each step (`ReadSoFar`, `PreviewShown`, `EpsiSoFar`); the
sizes rest on lemmas about wrapping and about what a quotient leaves.
`RequestsAssumption` bounds the size of a thumbnail, which is the only number that
does not come from a file.

Those of the second compare the state with a whole history, of comments or of the
digits in a text.  What a fold or a selection computes cannot be proved without
induction over sequences, so the properties are stated with sets of indices: a comment
that counts is the one at the least or the greatest index of those that qualify
(`FirstOf`, `LastOf`), and a digit is known by how many stand before it
(`Cardinality`).  One more comment adds at most one index to such a set, whatever
the set is (`FirstAppended`, `LastAppended`), so that `AttributesInv` gets by with
the properties themselves and `PartsSoFar`: the comments section is the first, and
no comment belongs to a page that has not begun.  `CommentsAssumption` keeps a
number of a medium and its name apart, as the C types do.  In `PreviewSoFar`,
`PairsRead` says that of n bytes read each is made of the two digits of its number
(`PairAt`) and that 2n digits stand before the position in the text; `SamplesRight`
follows from it for the bit numbers that `Draw` computes.

Only model-checked:

* liveness (`CreateReturns`, `ScanReturns`, `BlenderReturns`), which is beyond the
  prover;
* `BufferIsFile` for blocks larger than half the buffer.

The properties of the runs with `expect` violation are false.

## Not modelled, and what could follow

* How the digits in the comment of a preview become numbers, and what Qt does with
  an image once it is drawn.
* The answers of an error function in `DscAttributes` and `DscLines`, the questions
  of `dsc_fixup`, and the call of `dsc_scan_data` with length 0: GSCreator installs
  no error function and does not call `dsc_fixup`.  `DscSections` has the answers
  where they change sections.
* Titles and other strings, and comments that fill fields of media which nothing
  reads (`%%DocumentPaperForms` and the like); the parsing of numbers.
* `KDSCScanHandler`, which hands over whole blocks and is not used here; the
  getters of KDSC, which only copy.
* `MobiThumbnail`, one straight line of library calls, and the formats that
  libraries decode.
* JSON metadata, build files, the fuzzer stub.

The step that is left is a composition of `GSCreator`'s scan with `DscLines` and
`DscSections` in place of the class of a document.  Which system calls `create`
makes depends on no more of a document than its class, so that it would check
the same interleavings once more for each document.
