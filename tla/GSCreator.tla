------------------------------ MODULE GSCreator ------------------------------
(***************************************************************************)
(* GSCreator::create (ps/gscreator.cpp): the PostScript/EPS/DVI thumbnail  *)
(* plugin.  A worker process serves one request at a time; for most files  *)
(* it forks Ghostscript (gs), which for a DVI file forks dvips in turn,    *)
(* and reads the rendered image from a pipe, watched by a select() with a  *)
(* 20 s timeout and by a SIGTERM handler.                                  *)
(*                                                                         *)
(* A process is its control state and the pipe ends it holds open.  A pipe *)
(* delivers end-of-file when it is empty and no process holds its write    *)
(* end, and a write is refused (EPIPE/SIGPIPE) when no process holds its   *)
(* read end.  Contents are counted in blocks; image data has no values.    *)
(***************************************************************************)
EXTENDS Integers, FiniteSets

CONSTANTS
  Handlers,   \* dispositions of SIGTERM the worker may start with
  Docs,       \* classes of files that are requested
  Blocks,     \* read()-sized blocks of the image gs renders
  PipeCap,    \* blocks a pipe holds
  DviBlocks,  \* blocks of PostScript dvips produces
  MaxCalls,   \* bound: calls of create
  MaxTerm,    \* bound: SIGTERMs sent to the worker
  MaxOther    \* bound: other signals that interrupt select()

DocClasses == {"dvi", "ps", "epsi", "mess", "unreadable"}

\* "app" is a handler function (the one KIO installs), "dfl" SIG_DFL or SIG_IGN.
ASSUME HandlersAssumption == Handlers \subseteq {"app", "dfl"} /\ Handlers # {}
ASSUME DocsAssumption == Docs \subseteq DocClasses
ASSUME SizesAssumption ==
  /\ Blocks \in Nat \ {0}    /\ PipeCap \in Nat \ {0}
  /\ DviBlocks \in Nat       /\ MaxCalls \in Nat
  /\ MaxTerm \in Nat         /\ MaxOther \in Nat

VARIABLES
  pc,             \* where the worker is in create ("idle": outside it)
  doc,            \* class of the requested file
  ok,             \* local of create: all data received
  result,         \* what the last call of create returned
  disp,           \* disposition of SIGTERM in the worker
  oldhandler,     \* local of create: the disposition it found
  got_sig_term,   \* static flag set by handle_sigterm
  errno,          \* "intr" (EINTR, EAGAIN) or "other"; sticky, as errno is
  proc,           \* control state of gs (child 1) and dvips (child 2)
  fds,            \* pipe ends of this call each process holds
  outpipe,        \* blocks in the pipe output
  dvipipe,        \* blocks in the pipe dvipipe
  written,        \* blocks gs has rendered and written
  dviwritten,     \* blocks dvips has written
  data,           \* blocks the worker has read
  calls, terms, others, \* bounded counters of the environment
  leaked,         \* descriptors still open after the calls that returned
  pending,        \* history: SIGTERM caught by create and not yet passed on
  loop,           \* history: "entered" once this call is in its loop, "interrupted"
                  \* once a SIGTERM has ended its select(), else "no"
  lostkill        \* history: in this call kill() met a child not yet exec'd

workerVars == <<pc, doc, ok, result, data, calls, leaked>>
signalVars == <<disp, oldhandler, got_sig_term, errno, terms, others, pending, loop>>
childVars  == <<proc, fds, outpipe, dvipipe, written, dviwritten, lostkill>>
vars == <<workerVars, signalVars, childVars>>

input  == {"input0", "input1"}
output == {"output0", "output1"}
dvi    == {"dvipipe0", "dvipipe1"}
Ends   == input \cup output \cup dvi
Procs  == {"worker", "gs", "dvips"}

\* The worker's places in create, in program order.
WorkerPcs == {"idle", "pipes", "scan", "fork", "write", "top", "select",
              "read", "check", "wait", "finish"}
\* "forked": child 1 before its exec; "forked2": after its own fork();
\* "returned": child 1 left create through its return statement.
GsStates == {"none", "forked", "forked2", "reading", "rendering", "returned", "dead"}
DvipsStates == {"none", "forked", "running", "dead"}

TypeOK ==
  /\ pc \in WorkerPcs /\ doc \in Docs \cup {"none"}
  /\ ok \in BOOLEAN /\ result \in {"none", "pass", "fail"}
  /\ disp \in {"app", "dfl", "handle_sigterm"}
  /\ oldhandler \in {"app", "dfl", "handle_sigterm"}
  /\ got_sig_term \in BOOLEAN /\ errno \in {"intr", "other"}
  /\ DOMAIN proc = {"gs", "dvips"}
  /\ proc["gs"] \in GsStates /\ proc["dvips"] \in DvipsStates
  /\ fds \in [Procs -> SUBSET Ends]
  /\ outpipe \in 0..PipeCap /\ dvipipe \in 0..PipeCap
  /\ written \in 0..Blocks /\ dviwritten \in 0..DviBlocks /\ data \in 0..Blocks
  /\ calls \in 0..MaxCalls /\ terms \in 0..MaxTerm /\ others \in 0..MaxOther
  /\ leaked \in Nat /\ pending \in BOOLEAN /\ lostkill \in BOOLEAN
  /\ loop \in {"no", "entered", "interrupted"}

Init ==
  /\ pc = "idle" /\ doc = "none" /\ ok = FALSE /\ result = "none"
  /\ disp \in Handlers /\ oldhandler = disp
  /\ got_sig_term = FALSE /\ errno = "other"
  /\ proc = [p \in {"gs", "dvips"} |-> "none"]
  /\ fds = [p \in Procs |-> {}]
  /\ outpipe = 0 /\ dvipipe = 0 /\ written = 0 /\ dviwritten = 0 /\ data = 0
  /\ calls = 0 /\ terms = 0 /\ others = 0 /\ leaked = 0
  /\ pending = FALSE /\ lostkill = FALSE /\ loop = "no"

-----------------------------------------------------------------------------
(* Pipes: who holds an end, and what that makes a reader or a writer see. *)
Holders(e) == {p \in Procs : e \in fds[p]}
Eof(blocks, writeEnd) == blocks = 0 /\ Holders(writeEnd) = {}
Readable(blocks, writeEnd) == blocks > 0 \/ Holders(writeEnd) = {}

Dies(p) == /\ proc' = [proc EXCEPT ![p] = "dead"]
           /\ fds' = [fds EXCEPT ![p] = {}]

(***************************************************************************)
(* The worker                                                              *)
(***************************************************************************)

\* Leaving create: whatever the worker still holds stays open for good.
Return(r) ==
  /\ pc' = "idle"
  /\ result' = r
  /\ leaked' = leaked + Cardinality(fds["worker"])
  /\ doc' = "none"

\* The locals of create: nothing received yet.
NewLocals_Kept == ok' = FALSE /\ data' = data   \* mutant: data outlives the call
NewLocals == ok' = FALSE /\ data' = 0

\* create is entered: SIGTERM is caught from here on.
Create(d) ==
  /\ pc = "idle" /\ calls < MaxCalls
  /\ calls' = calls + 1 /\ doc' = d
  /\ oldhandler' = disp /\ disp' = "handle_sigterm"
  /\ NewLocals
  /\ pc' = "pipes"
  \* the pipes of an earlier call, and a dvips that outlived it, are of no
  \* concern to this call: its descriptors are new ones
  /\ fds' = [p \in Procs |-> {}]
  /\ proc' = [proc EXCEPT !["dvips"] = "none"]
  /\ outpipe' = 0 /\ dvipipe' = 0 /\ written' = 0 /\ dviwritten' = 0
  /\ lostkill' = FALSE /\ loop' = "no"
  \* errno keeps an EINTR of the call before, unless a later failure replaced it
  /\ errno' \in {errno, "other"}
  /\ UNCHANGED <<result, leaked, got_sig_term, terms, others, pending>>

PipesOk ==
  /\ pc = "pipes"
  /\ fds' = [fds EXCEPT !["worker"] = input \cup output]
  /\ pc' = IF doc = "dvi" THEN "fork" ELSE "scan"
  /\ UNCHANGED <<doc, ok, result, data, calls, leaked, signalVars, proc, outpipe,
                 dvipipe, written, dviwritten, lostkill>>

\* pipe(input) or pipe(output) fails: create returns, its handler stays.
PipesFail ==
  /\ pc = "pipes"
  /\ Return("fail")
  /\ UNCHANGED <<ok, data, calls, signalVars, childVars>>

\* The file is scanned for DSC comments; an unreadable file or one that
\* starts with PJL or ^D ends the call on the spot.
ScanRejects ==
  /\ pc = "scan" /\ doc \in {"unreadable", "mess"}
  /\ Return("fail")
  /\ UNCHANGED <<ok, data, calls, signalVars, childVars>>

\* getEPSIPreview succeeds: the embedded preview is the thumbnail.
EmbeddedPreview ==
  /\ pc = "scan" /\ doc = "epsi"
  /\ Return("pass")
  /\ UNCHANGED <<ok, data, calls, signalVars, childVars>>

\* No preview that could be used: Ghostscript is needed.
NeedsGs ==
  /\ pc = "scan" /\ doc \in {"ps", "epsi"}
  /\ pc' = "fork"
  /\ UNCHANGED <<doc, ok, result, data, calls, leaked, signalVars, childVars>>

Fork1 ==
  /\ pc = "fork"
  /\ proc' = [proc EXCEPT !["gs"] = "forked"]
  /\ fds' = [fds EXCEPT !["gs"] = fds["worker"]]
  /\ pc' = "write"
  /\ UNCHANGED <<doc, ok, result, data, calls, leaked, signalVars, outpipe, dvipipe,
                 written, dviwritten, lostkill>>

\* What is closed when there is no child.
UnusedEnds_Mut == {"input0", "input1"}   \* mutant: output[1] forgotten
UnusedEnds == {"input0", "input1", "output1"}

Fork1Fails ==
  /\ pc = "fork"
  /\ fds' = [fds EXCEPT !["worker"] = @ \ UnusedEnds]
  /\ pc' = "finish"
  /\ UNCHANGED <<doc, ok, result, data, calls, leaked, signalVars, proc, outpipe,
                 dvipipe, written, dviwritten, lostkill>>

\* What the parent closes around writing the prolog.
ParentCloses_Mut == {"input0", "output1"}   \* mutant: close(input[1]) forgotten
ParentCloses == {"input0", "output1", "input1"}

\* The parent keeps only the read end of output.  The prolog fits any pipe;
\* its write is refused when the child is gone (SIGPIPE is ignored or caught
\* by the worker, so write() returns -1).
WriteProlog ==
  /\ pc = "write"
  /\ pc' = IF \E p \in Procs \ {"worker"} : "input0" \in fds[p]
           THEN "top" ELSE "check"
  /\ fds' = [fds EXCEPT !["worker"] = @ \ ParentCloses]
  /\ UNCHANGED <<doc, ok, result, data, calls, leaked, signalVars, proc, outpipe,
                 dvipipe, written, dviwritten, lostkill>>

\* mutant: the flag is cleared nowhere
LoopTop_Keep ==
  /\ pc = "top"
  /\ loop' = IF loop = "no" THEN "entered" ELSE loop
  /\ pc' = "select"
  /\ UNCHANGED <<doc, ok, result, data, calls, leaked, disp, oldhandler, got_sig_term, errno,
                 terms, others, pending, childVars>>

LoopTop ==
  /\ pc = "top"
  /\ got_sig_term' = FALSE
  /\ loop' = IF loop = "no" THEN "entered" ELSE loop
  /\ pc' = "select"
  /\ UNCHANGED <<doc, ok, result, data, calls, leaked, disp, oldhandler, errno, terms,
                 others, pending, childVars>>

SelectReady ==
  /\ pc = "select" /\ Readable(outpipe, "output1")
  /\ pc' = "read"
  /\ UNCHANGED <<doc, ok, result, data, calls, leaked, signalVars, childVars>>

\* What the loop does after select() returned 0 or -1.
\* mutant: the flag is not looked at
AfterSelect_Eintr(err, term) == IF err = "intr" THEN "top" ELSE "check"
AfterSelect_Retry(err, term) == IF ~term THEN "top" ELSE "check"        \* mutant
AfterSelect(err, term) == IF err = "intr" /\ ~term THEN "top" ELSE "check"

\* 20 s without a byte: select() returns 0 and leaves errno as it was.
SelectTimeout ==
  /\ pc = "select" /\ ~Readable(outpipe, "output1")
  /\ pc' = AfterSelect(errno, got_sig_term)
  /\ UNCHANGED <<doc, ok, result, data, calls, leaked, signalVars, childVars>>

\* mutant: a read that empties the pipe is taken for the last one
Read_Short ==
  /\ pc = "read"
  /\ outpipe' = IF outpipe > 0 THEN outpipe - 1 ELSE 0
  /\ data' = IF outpipe > 0 THEN data + 1 ELSE data
  /\ ok' = (outpipe' = 0)
  /\ pc' = IF ok' THEN "check" ELSE "top"
  /\ UNCHANGED <<doc, result, calls, leaked, signalVars, proc, fds, dvipipe, written,
                 dviwritten, lostkill>>

Read ==
  /\ pc = "read"
  /\ IF outpipe > 0
     THEN /\ outpipe' = outpipe - 1 /\ data' = data + 1
          /\ pc' = "top" /\ UNCHANGED ok
     ELSE /\ ok' = TRUE
          /\ pc' = "check" /\ UNCHANGED <<outpipe, data>>
  /\ UNCHANGED <<doc, result, calls, leaked, signalVars, proc, fds, dvipipe, written,
                 dviwritten, lostkill>>

\* kill(pid, SIGTERM) unless everything was received.  The child inherits
\* handle_sigterm and keeps it until its exec: before that the signal only
\* sets the child's copy of the flag.  "returned" has the worker's own
\* handler back, which may or may not end that process.
Kill ==
  /\ pc = "check" /\ pc' = "wait"
  /\ \/ /\ ~ok /\ proc["gs"] \in {"reading", "rendering"}
        /\ Dies("gs") /\ UNCHANGED lostkill
     \/ /\ ~ok /\ proc["gs"] \in {"forked", "forked2"}
        /\ lostkill' = TRUE /\ UNCHANGED <<proc, fds>>
     \/ /\ ~ok /\ proc["gs"] = "returned"
        /\ \/ Dies("gs") \/ UNCHANGED <<proc, fds>>
        /\ UNCHANGED lostkill
     \/ /\ ok \/ proc["gs"] = "dead"
        /\ UNCHANGED <<proc, fds, lostkill>>
  /\ UNCHANGED <<doc, ok, result, data, calls, leaked, signalVars, outpipe, dvipipe,
                 written, dviwritten>>

\* mutant: waitpid() does not wait
Wait_NoHang ==
  /\ pc = "wait"
  /\ proc' = [proc EXCEPT !["gs"] = IF @ = "dead" THEN "none" ELSE @]
  /\ pc' = "finish"
  /\ UNCHANGED <<doc, ok, result, data, calls, leaked, signalVars, fds, outpipe,
                 dvipipe, written, dviwritten, lostkill>>

Wait ==
  /\ pc = "wait" /\ proc["gs"] = "dead"
  /\ proc' = [proc EXCEPT !["gs"] = "none"]
  /\ pc' = "finish"
  /\ UNCHANGED <<doc, ok, result, data, calls, leaked, signalVars, fds, outpipe,
                 dvipipe, written, dviwritten, lostkill>>

\* QImage::loadFromData, with and without what gs prints before the image:
\* a truncated image does not load.
LoadFromData == IF data = Blocks THEN "pass" ELSE "fail"

\* A caught SIGTERM is passed on to the handler found at entry, and that
\* handler is installed again.
Finish ==
  /\ pc = "finish"
  /\ pc' = "idle" /\ doc' = "none" /\ result' = LoadFromData
  /\ fds' = [fds EXCEPT !["worker"] = @ \ {"output0"}]
  /\ leaked' = leaked + Cardinality(fds["worker"] \ {"output0"})
  /\ LET passOn == got_sig_term /\ oldhandler # "dfl" IN
     /\ pending' = (pending /\ ~(passOn /\ oldhandler = "app"))
     /\ got_sig_term' = (got_sig_term \/ (passOn /\ oldhandler = "handle_sigterm"))
  /\ disp' = oldhandler
  /\ UNCHANGED <<ok, data, calls, oldhandler, errno, terms, others, loop, proc, outpipe,
                 dvipipe, written, dviwritten, lostkill>>

Worker ==
  \/ PipesOk \/ PipesFail \/ ScanRejects \/ EmbeddedPreview \/ NeedsGs
  \/ Fork1 \/ Fork1Fails \/ WriteProlog \/ LoopTop
  \/ SelectReady \/ SelectTimeout \/ Read \/ Kill \/ Wait \/ Finish

(***************************************************************************)
(* Signals                                                                 *)
(***************************************************************************)

\* handle_sigterm runs.  A blocked select() returns -1 with EINTR; a signal
\* that arrives before select() is entered, or anywhere else (SA_RESTART),
\* only sets the flag.
Sigterm ==
  /\ terms < MaxTerm /\ disp = "handle_sigterm"
  /\ terms' = terms + 1
  /\ got_sig_term' = TRUE /\ pending' = TRUE
  /\ \/ /\ pc = "select" /\ ~Readable(outpipe, "output1")
        /\ errno' = "intr" /\ loop' = "interrupted"
        /\ pc' = AfterSelect(errno', got_sig_term')
     \/ UNCHANGED <<pc, errno, loop>>
  /\ UNCHANGED <<doc, ok, result, data, calls, leaked, disp, oldhandler, others,
                 childVars>>

\* Another signal of the worker interrupts select().
OtherSignal ==
  /\ others < MaxOther /\ pc = "select" /\ ~Readable(outpipe, "output1")
  /\ others' = others + 1
  /\ errno' = "intr"
  /\ pc' = AfterSelect(errno', got_sig_term)
  /\ UNCHANGED <<doc, ok, result, data, calls, leaked, disp, oldhandler, got_sig_term,
                 terms, pending, loop, childVars>>

(***************************************************************************)
(* Child 1: gs                                                             *)
(***************************************************************************)
childUnchanged == UNCHANGED <<workerVars, signalVars, lostkill>>

\* PS: reopen stdin/stdout on the pipes and exec gs, or _exit(1).
ExecGs ==
  /\ proc["gs"] = "forked" /\ doc # "dvi"
  /\ \/ /\ proc' = [proc EXCEPT !["gs"] = "reading"]
        /\ fds' = [fds EXCEPT !["gs"] = @ \ {"input1", "output0"}]
     \/ Dies("gs")
  /\ UNCHANGED <<outpipe, dvipipe, written, dviwritten>> /\ childUnchanged

\* DVI: pipe(dvipipe), whose failure is not noticed, and the second fork().
Fork2 ==
  /\ proc["gs"] = "forked" /\ doc = "dvi"
  /\ proc' = [proc EXCEPT !["gs"] = "forked2", !["dvips"] = "forked"]
  /\ \E new \in {dvi, {}} :
       fds' = [fds EXCEPT !["gs"] = @ \cup new, !["dvips"] = fds["gs"] \cup new]
  /\ UNCHANGED <<outpipe, dvipipe, written, dviwritten>> /\ childUnchanged

\* fork() (2) fails: the child closes dvipipe, runs on to the end of create,
\* closes output[0] and returns into the worker's event loop.  When pipe(dvipipe)
\* failed as well, its two closes can hit any two descriptors.
Fork2Fails ==
  /\ proc["gs"] = "forked" /\ doc = "dvi"
  /\ proc' = [proc EXCEPT !["gs"] = "returned"]
  /\ \E lost \in SUBSET fds["gs"] :
       /\ Cardinality(lost) <= 2
       /\ fds' = [fds EXCEPT !["gs"] = @ \ (lost \cup {"output0"})]
  /\ UNCHANGED <<outpipe, dvipipe, written, dviwritten>> /\ childUnchanged

\* The descriptors close(dvipipe[1]) can hit besides its own: none, or, when
\* pipe(dvipipe) failed and the variable was never set, any one of them.
Misclosed == IF "dvipipe1" \in fds["gs"] THEN {{}}
             ELSE {{}} \cup {{e} : e \in fds["gs"]}

\* gs with its standard input on dvipipe; without one it finds end-of-file.
ExecGsDvi ==
  /\ proc["gs"] = "forked2"
  /\ \/ /\ proc' = [proc EXCEPT !["gs"] = "reading"]
        /\ \E lost \in Misclosed :
             fds' = [fds EXCEPT !["gs"] =
                       @ \ ({"input1", "output0", "dvipipe1"} \cup lost)]
     \/ Dies("gs")
  /\ UNCHANGED <<outpipe, dvipipe, written, dviwritten>> /\ childUnchanged

\* gs consumes its standard input up to end-of-file, then renders.
GsReads ==
  /\ proc["gs"] = "reading"
  /\ \/ /\ doc = "dvi" /\ dvipipe > 0
        /\ dvipipe' = dvipipe - 1 /\ UNCHANGED proc
     \/ /\ IF doc = "dvi" THEN Eof(dvipipe, "dvipipe1") ELSE Eof(0, "input1")
        /\ proc' = [proc EXCEPT !["gs"] = "rendering"] /\ UNCHANGED dvipipe
  /\ UNCHANGED <<fds, outpipe, written, dviwritten>> /\ childUnchanged

GsWrites ==
  /\ proc["gs"] = "rendering" /\ written < Blocks /\ outpipe < PipeCap
  /\ "output1" \in fds["gs"] /\ Holders("output0") # {}
  /\ outpipe' = outpipe + 1 /\ written' = written + 1
  /\ UNCHANGED <<proc, fds, dvipipe, dviwritten>> /\ childUnchanged

\* gs ends: done, failed, or stopped by SIGPIPE.
GsExits ==
  /\ proc["gs"] \in {"reading", "rendering"}
  /\ Dies("gs")
  /\ UNCHANGED <<outpipe, dvipipe, written, dviwritten>> /\ childUnchanged

\* The second worker that came out of a failed fork() (2) goes away.
ReturnedExits ==
  /\ proc["gs"] = "returned"
  /\ Dies("gs")
  /\ UNCHANGED <<outpipe, dvipipe, written, dviwritten>> /\ childUnchanged

(***************************************************************************)
(* Child 2: dvips                                                          *)
(***************************************************************************)
DvipsCloses_Mut == input \cup {"output0", "dvipipe0"}  \* mutant: keeps output[1]
DvipsCloses == input \cup output \cup {"dvipipe0"}

ExecDvips ==
  /\ proc["dvips"] = "forked"
  /\ \/ /\ proc' = [proc EXCEPT !["dvips"] = "running"]
        /\ fds' = [fds EXCEPT !["dvips"] = @ \ DvipsCloses]
     \/ Dies("dvips")
  /\ UNCHANGED <<outpipe, dvipipe, written, dviwritten>> /\ childUnchanged

DvipsWrites ==
  /\ proc["dvips"] = "running" /\ dviwritten < DviBlocks /\ dvipipe < PipeCap
  /\ Holders("dvipipe0") # {}
  /\ dvipipe' = dvipipe + 1 /\ dviwritten' = dviwritten + 1
  /\ UNCHANGED <<proc, fds, outpipe, written>> /\ childUnchanged

\* dvips ends when it is done, fails, or writes to a pipe nobody reads.
DvipsExits ==
  /\ proc["dvips"] = "running"
  /\ Dies("dvips")
  /\ UNCHANGED <<outpipe, dvipipe, written, dviwritten>> /\ childUnchanged

Gs == \/ ExecGs \/ Fork2 \/ Fork2Fails \/ ExecGsDvi \/ GsReads \/ GsWrites
      \/ GsExits \/ ReturnedExits
Dvips == ExecDvips \/ DvipsWrites \/ DvipsExits

Next ==
  \/ \E d \in Docs : Create(d)
  \/ Worker \/ Sigterm \/ OtherSignal \/ Gs \/ Dvips

Spec == Init /\ [][Next]_vars

\* The worker and the set-up code of the children keep running, and so does
\* the timer of select(); gs and dvips may be silent for ever.
Fairness == /\ WF_vars(Worker)
            /\ WF_vars(ExecGs \/ Fork2 \/ Fork2Fails \/ ExecGsDvi)
            /\ WF_vars(ExecDvips)

LiveSpec == Spec /\ Fairness

(***************************************************************************)
(* Properties                                                              *)
(***************************************************************************)

\* What the worker has read and what waits in the pipe is what gs wrote; and
\* when the worker concludes that it got everything it did: the pipe is empty
\* and no process can add to it.  (create: read(), count == 0, ok = true)
ReceivedAll ==
  /\ data + outpipe = written
  /\ ok => outpipe = 0 /\ Holders("output1") = {}

\* The worker and gs never wait for one another: while the worker waits for
\* output and gs for input, dvips is there to provide it.  (the close() calls
\* of create, on both sides of each fork)
NoMutualWait ==
  (pc = "select" /\ ~Readable(outpipe, "output1") /\ proc["gs"] = "reading")
    => \/ IF doc = "dvi" THEN Readable(dvipipe, "dvipipe1") ELSE Eof(0, "input1")
       \/ proc["dvips"] \in {"forked", "running"}

\* The worker sits out the 20 s only while gs, or a dvips that has not got to
\* its exec, is alive: otherwise it sees end-of-file at once.
TimeoutWhileProducing ==
  [][SelectTimeout => \/ proc["gs"] \notin {"none", "dead"}
                      \/ proc["dvips"] = "forked"]_vars

\* A call that got as far as fork() closes every descriptor it opened, on
\* each of the ways that lead to the end of create.
NothingLeftOpen == [][pc = "finish" => leaked' = leaked]_vars

\* A SIGTERM that finds create waiting in select() is not lost: whatever the
\* children do and whichever signals follow, the call passes it on at its end to
\* the application's handler.  (The flag is cleared at the top of every round, so it
\* must not come to another round.)
InterruptPropagated ==
  [][Finish /\ loop = "interrupted" /\ oldhandler = "app" => ~pending']_vars

\* A flag that an earlier call left set neither ends the loop of this one nor has
\* it pass on a SIGTERM a second time: in a call that gets to its loop, the flag
\* stands for a SIGTERM not yet passed on.  (In one that does not, because fork() or
\* writing the prolog failed, it may be old.)
FlagIsNew == pc # "idle" /\ loop # "no" /\ got_sig_term => pending

\* The defects through which a call can hang, each reachable: a kill() that
\* met a child before its exec, a stale EINTR that turns every timeout into
\* another round, a child that returned from create, and a gs whose stdout
\* was closed in place of an unset dvipipe[1].
Hung == \/ lostkill
        \/ errno = "intr"
        \/ proc["gs"] = "returned"
        \/ proc["gs"] \in {"reading", "rendering"} /\ "output1" \notin fds["gs"]

\* Short of those four, every call returns, even if gs runs for ever.
CreateReturns == (pc # "idle") ~> (pc = "idle" \/ Hung)

(***************************************************************************)
(* A call of create as its caller sees it: at most one renderer, started   *)
(* after the call began and gone before it returns.                        *)
(***************************************************************************)
spawned == pc \in {"write", "top", "select", "read", "check", "wait"}
Call == INSTANCE ThumbnailCall
          WITH phase <- IF pc = "idle" THEN "idle" ELSE "busy",
               renderer <- CASE proc["gs"] = "none" -> "none"
                             [] proc["gs"] = "dead" -> "dead"
                             [] OTHER -> "alive",
               started <- spawned \/ pc = "finish",
               answer <- result
CallSpec == Call!Spec

\* create implements the abstract call.
ImplementsCall == CallSpec

-----------------------------------------------------------------------------
(* What comments of the code say, and the code does not do. *)

\* create puts the handler it replaced back before it returns.
HandlerRestored == pc = "idle" => disp \in Handlers

\* "propagate the signal. Other things might rely on it": a call that runs to
\* its end has passed the SIGTERMs it caught on.
SigtermPropagated == [][Finish => ~pending']_vars

\* "error, timeout or master wants us to quit": a timeout ends the loop.
TimeoutEndsLoop == [][SelectTimeout => pc' = "check"]_vars

\* "10. Parent process (1) store data in a QImage": only the worker gets to
\* the end of create.
OnlyParentReturns == proc["gs"] # "returned"

\* "gs would run forever after we were dead": once the worker has sent gs its
\* SIGTERM, gs does not render.
KillStopsGs == pc = "wait" /\ ~ok => proc["gs"] # "rendering"

=============================================================================
