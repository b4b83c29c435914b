--------------------------- MODULE GSCreatorProofs ---------------------------
(***************************************************************************)
(* Proofs about GSCreator, for every image size, pipe capacity and number  *)
(* of calls and signals.  The safety theorems follow from one inductive    *)
(* invariant, Inv: the types, where each process is relative to the        *)
(* others (Control), which pipe ends each of them may hold there           *)
(* (Descriptors), and where the image data is (Transfer).                  *)
(***************************************************************************)
EXTENDS GSCreator, TLAPS, FiniteSetTheorems

\* From fork() (1) to waitpid() there is a gs, and only then; dvips belongs
\* to a DVI call and is not started before gs.
Control ==
  /\ pc \in {"idle", "pipes", "scan", "fork", "finish"} => proc["gs"] = "none"
  /\ pc \in {"write", "top", "select", "read", "check", "wait"} => proc["gs"] # "none"
  /\ pc \in {"pipes", "scan", "fork"} => proc["dvips"] = "none"
  /\ pc # "idle" /\ doc # "dvi" => proc["dvips"] = "none"
  /\ proc["gs"] = "forked" => proc["dvips"] = "none"

Descriptors ==
  /\ pc \in {"scan", "fork", "write"} => fds["worker"] = input \cup output
  /\ pc \in {"top", "select", "read", "check", "wait", "finish"} =>
       fds["worker"] = {"output0"}
  /\ proc["gs"] \in {"none", "dead"} => fds["gs"] = {}
  /\ proc["gs"] = "forked" => fds["gs"] = input \cup output
  /\ proc["gs"] \in {"reading", "rendering"} =>
       fds["gs"] \subseteq {"input0", "output1", "dvipipe0"}
  /\ proc["dvips"] \in {"none", "dead"} => fds["dvips"] = {}
  /\ proc["dvips"] = "running" => fds["dvips"] \subseteq {"dvipipe1"}
  /\ pc = "pipes" => fds["worker"] = {}
  /\ fds["worker"] \cap dvi = {}

Transfer ==
  /\ data + outpipe = written
  /\ pc \notin {"check", "wait", "finish", "idle"} => ~ok
  /\ pc = "read" => Readable(outpipe, "output1")
  /\ ok => outpipe = 0 /\ Holders("output1") = {}

Inv == TypeOK /\ Control /\ Descriptors /\ Transfer

\* The descriptors a process holds can be counted.
LEMMA LeakIsNat == TypeOK => /\ Cardinality(fds["worker"]) \in Nat
                             /\ Cardinality(fds["worker"] \ {"output0"}) \in Nat
<1>1. IsFiniteSet(Ends)
  <2>1. IsFiniteSet({"input0"}) /\ IsFiniteSet({"input1"}) /\ IsFiniteSet({"output0"})
        /\ IsFiniteSet({"output1"}) /\ IsFiniteSet({"dvipipe0"}) /\ IsFiniteSet({"dvipipe1"})
    BY FS_Singleton
  <2>2. Ends = {"input0"} \cup {"input1"} \cup {"output0"} \cup {"output1"}
               \cup {"dvipipe0"} \cup {"dvipipe1"}
    BY DEF Ends, input, output, dvi
  <2>3. QED  BY <2>1, <2>2, FS_Union
<1>2. ASSUME TypeOK
      PROVE /\ fds["worker"] \subseteq Ends
            /\ fds["worker"] \ {"output0"} \subseteq Ends
  BY <1>2 DEF TypeOK, Procs
<1>3. QED  BY <1>1, <1>2, FS_Subset, FS_CardinalityType

\* The worker's steps preserve the invariant.
LEMMA WorkerStep == Inv /\ Worker => Inv'
<1> SUFFICES ASSUME TypeOK, Control, Descriptors, Transfer, Worker PROVE Inv'
  BY DEF Inv
<1> USE DEF workerVars, signalVars, childVars, childUnchanged, TypeOK, Procs, Ends, input, output, dvi
<1>1. CASE PipesOk
  <2>1. TypeOK'
    BY <1>1 DEF PipesOk, WorkerPcs, GsStates, DvipsStates
  <2>2. Control'
    BY <1>1 DEF PipesOk, Control
  <2>3. Descriptors'
    BY <1>1 DEF PipesOk, Control, Descriptors
  <2>4. Transfer'
    BY <1>1 DEF PipesOk, Control, Descriptors, Transfer, Holders, Readable
  <2>5. QED  BY <2>1, <2>2, <2>3, <2>4 DEF Inv
<1>2. CASE PipesFail
  <2>1. TypeOK'
    BY <1>2, LeakIsNat DEF PipesFail, Return, WorkerPcs, GsStates, DvipsStates
  <2>2. Control'
    BY <1>2 DEF PipesFail, Return, Control
  <2>3. Descriptors'
    BY <1>2 DEF PipesFail, Return, Control, Descriptors
  <2>4. Transfer'
    BY <1>2 DEF PipesFail, Return, Control, Descriptors, Transfer, Holders, Readable
  <2>5. QED  BY <2>1, <2>2, <2>3, <2>4 DEF Inv
<1>3. CASE ScanRejects
  <2>1. TypeOK'
    BY <1>3, LeakIsNat DEF ScanRejects, Return, WorkerPcs, GsStates, DvipsStates
  <2>2. Control'
    BY <1>3 DEF ScanRejects, Return, Control
  <2>3. Descriptors'
    BY <1>3 DEF ScanRejects, Return, Control, Descriptors
  <2>4. Transfer'
    BY <1>3 DEF ScanRejects, Return, Control, Descriptors, Transfer, Holders, Readable
  <2>5. QED  BY <2>1, <2>2, <2>3, <2>4 DEF Inv
<1>4. CASE EmbeddedPreview
  <2>1. TypeOK'
    BY <1>4, LeakIsNat DEF EmbeddedPreview, Return, WorkerPcs, GsStates, DvipsStates
  <2>2. Control'
    BY <1>4 DEF EmbeddedPreview, Return, Control
  <2>3. Descriptors'
    BY <1>4 DEF EmbeddedPreview, Return, Control, Descriptors
  <2>4. Transfer'
    BY <1>4 DEF EmbeddedPreview, Return, Control, Descriptors, Transfer, Holders, Readable
  <2>5. QED  BY <2>1, <2>2, <2>3, <2>4 DEF Inv
<1>5. CASE NeedsGs
  <2>1. TypeOK'
    BY <1>5 DEF NeedsGs, WorkerPcs, GsStates, DvipsStates
  <2>2. Control'
    BY <1>5 DEF NeedsGs, Control
  <2>3. Descriptors'
    BY <1>5 DEF NeedsGs, Control, Descriptors
  <2>4. Transfer'
    BY <1>5 DEF NeedsGs, Control, Descriptors, Transfer, Holders, Readable
  <2>5. QED  BY <2>1, <2>2, <2>3, <2>4 DEF Inv
<1>6. CASE Fork1
  <2>1. TypeOK'
    BY <1>6 DEF Fork1, WorkerPcs, GsStates, DvipsStates
  <2>2. Control'
    BY <1>6 DEF Fork1, Control
  <2>3. Descriptors'
    BY <1>6 DEF Fork1, Control, Descriptors
  <2>4. Transfer'
    BY <1>6 DEF Fork1, Control, Descriptors, Transfer, Holders, Readable
  <2>5. QED  BY <2>1, <2>2, <2>3, <2>4 DEF Inv
<1>7. CASE Fork1Fails
  <2>1. TypeOK'
    BY <1>7 DEF Fork1Fails, UnusedEnds, WorkerPcs, GsStates, DvipsStates
  <2>2. Control'
    BY <1>7 DEF Fork1Fails, UnusedEnds, Control
  <2>3. Descriptors'
    BY <1>7 DEF Fork1Fails, UnusedEnds, Control, Descriptors
  <2>4. Transfer'
    BY <1>7 DEF Fork1Fails, UnusedEnds, Control, Descriptors, Transfer, Holders, Readable
  <2>5. QED  BY <2>1, <2>2, <2>3, <2>4 DEF Inv
<1>8. CASE WriteProlog
  <2>1. TypeOK'
    BY <1>8 DEF WriteProlog, ParentCloses, WorkerPcs, GsStates, DvipsStates
  <2>2. Control'
    BY <1>8 DEF WriteProlog, ParentCloses, Control
  <2>3. Descriptors'
    BY <1>8 DEF WriteProlog, ParentCloses, Control, Descriptors
  <2>4. Transfer'
    BY <1>8 DEF WriteProlog, ParentCloses, Control, Descriptors, Transfer, Holders, Readable
  <2>5. QED  BY <2>1, <2>2, <2>3, <2>4 DEF Inv
<1>9. CASE LoopTop
  <2>1. TypeOK'
    <3>1. got_sig_term' \in BOOLEAN
      BY <1>9, Zenon DEF LoopTop
    <3>2. QED  BY <1>9, <3>1 DEF LoopTop, WorkerPcs, GsStates, DvipsStates
  <2>2. Control'
    BY <1>9 DEF LoopTop, Control
  <2>3. Descriptors'
    BY <1>9 DEF LoopTop, Control, Descriptors
  <2>4. Transfer'
    BY <1>9 DEF LoopTop, Control, Descriptors, Transfer, Holders, Readable
  <2>5. QED  BY <2>1, <2>2, <2>3, <2>4 DEF Inv
<1>10. CASE SelectReady
  <2>1. TypeOK'
    BY <1>10 DEF SelectReady, WorkerPcs, GsStates, DvipsStates
  <2>2. Control'
    BY <1>10 DEF SelectReady, Control
  <2>3. Descriptors'
    BY <1>10 DEF SelectReady, Control, Descriptors
  <2>4. Transfer'
    BY <1>10 DEF SelectReady, Control, Descriptors, Transfer, Holders, Readable
  <2>5. QED  BY <2>1, <2>2, <2>3, <2>4 DEF Inv
<1>11. CASE SelectTimeout
  <2>1. TypeOK'
    BY <1>11 DEF SelectTimeout, AfterSelect, WorkerPcs, GsStates, DvipsStates
  <2>2. Control'
    BY <1>11 DEF SelectTimeout, AfterSelect, Control
  <2>3. Descriptors'
    BY <1>11 DEF SelectTimeout, AfterSelect, Control, Descriptors
  <2>4. Transfer'
    BY <1>11 DEF SelectTimeout, AfterSelect, Control, Descriptors, Transfer, Holders, Readable
  <2>5. QED  BY <2>1, <2>2, <2>3, <2>4 DEF Inv
<1>12. CASE Read
  <2>1. TypeOK'
    <3>1. ok' \in BOOLEAN
      BY <1>12, Zenon DEF Read
    <3>2. QED  BY <1>12, SizesAssumption, <3>1 DEF Read, WorkerPcs, GsStates, DvipsStates, Transfer
  <2>2. Control'
    BY <1>12 DEF Read, Control
  <2>3. Descriptors'
    BY <1>12 DEF Read, Control, Descriptors
  <2>4. Transfer'
    BY <1>12 DEF Read, Control, Descriptors, Transfer, Holders, Readable
  <2>5. QED  BY <2>1, <2>2, <2>3, <2>4 DEF Inv
<1>13. CASE Kill
  <2>1. TypeOK'
    <3>1. lostkill' \in BOOLEAN
      BY <1>13, Zenon DEF Kill
    <3>2. QED  BY <1>13, <3>1 DEF Kill, Dies, WorkerPcs, GsStates, DvipsStates
  <2>2. Control'
    BY <1>13 DEF Kill, Dies, Control
  <2>3. Descriptors'
    BY <1>13 DEF Kill, Dies, Control, Descriptors
  <2>4. Transfer'
    BY <1>13 DEF Kill, Dies, Control, Descriptors, Transfer, Holders, Readable
  <2>5. QED  BY <2>1, <2>2, <2>3, <2>4 DEF Inv
<1>14. CASE Wait
  <2>1. TypeOK'
    BY <1>14 DEF Wait, WorkerPcs, GsStates, DvipsStates
  <2>2. Control'
    BY <1>14 DEF Wait, Control
  <2>3. Descriptors'
    BY <1>14 DEF Wait, Control, Descriptors
  <2>4. Transfer'
    BY <1>14 DEF Wait, Control, Descriptors, Transfer, Holders, Readable
  <2>5. QED  BY <2>1, <2>2, <2>3, <2>4 DEF Inv
<1>15. CASE Finish
  <2>1. TypeOK'
    BY <1>15, LeakIsNat DEF Finish, LoadFromData, WorkerPcs, GsStates, DvipsStates, Transfer
  <2>2. Control'
    BY <1>15 DEF Finish, LoadFromData, Control
  <2>3. Descriptors'
    BY <1>15 DEF Finish, LoadFromData, Control, Descriptors
  <2>4. Transfer'
    BY <1>15 DEF Finish, LoadFromData, Control, Descriptors, Transfer, Holders, Readable
  <2>5. QED  BY <2>1, <2>2, <2>3, <2>4 DEF Inv
<1>16. QED  BY <1>1, <1>2, <1>3, <1>4, <1>5, <1>6, <1>7, <1>8, <1>9, <1>10, <1>11, <1>12, <1>13, <1>14, <1>15 DEF Worker

\* So do signals and the beginning of a call.
LEMMA SignalStep == Inv /\ (Sigterm \/ OtherSignal \/ (\E d \in Docs : Create(d))) => Inv'
<1> SUFFICES ASSUME TypeOK, Control, Descriptors, Transfer, (Sigterm \/ OtherSignal \/ (\E d \in Docs : Create(d))) PROVE Inv'
  BY DEF Inv
<1> USE DEF workerVars, signalVars, childVars, childUnchanged, TypeOK, Procs, Ends, input, output, dvi
<1>1. CASE Sigterm
  <2>1. TypeOK'
    BY <1>1, SizesAssumption DEF Sigterm, AfterSelect, WorkerPcs, GsStates, DvipsStates
  <2>2. Control'
    BY <1>1 DEF Sigterm, AfterSelect, Control
  <2>3. Descriptors'
    BY <1>1 DEF Sigterm, AfterSelect, Control, Descriptors
  <2>4. Transfer'
    BY <1>1 DEF Sigterm, AfterSelect, Control, Descriptors, Transfer, Holders, Readable
  <2>5. QED  BY <2>1, <2>2, <2>3, <2>4 DEF Inv
<1>2. CASE OtherSignal
  <2>1. TypeOK'
    BY <1>2, SizesAssumption DEF OtherSignal, AfterSelect, WorkerPcs, GsStates, DvipsStates
  <2>2. Control'
    BY <1>2 DEF OtherSignal, AfterSelect, Control
  <2>3. Descriptors'
    BY <1>2 DEF OtherSignal, AfterSelect, Control, Descriptors
  <2>4. Transfer'
    BY <1>2 DEF OtherSignal, AfterSelect, Control, Descriptors, Transfer, Holders, Readable
  <2>5. QED  BY <2>1, <2>2, <2>3, <2>4 DEF Inv
<1>3. ASSUME NEW d \in Docs, Create(d) PROVE Inv'
  <2>1. TypeOK'
    <3>1. ok' \in BOOLEAN /\ lostkill' \in BOOLEAN
      BY <1>3, Zenon DEF Create, NewLocals
    <3>2. QED  BY <1>3, SizesAssumption, <3>1 DEF Create, NewLocals, WorkerPcs, GsStates, DvipsStates
  <2>2. Control'
    BY <1>3 DEF Create, NewLocals, Control
  <2>3. Descriptors'
    BY <1>3 DEF Create, NewLocals, Control, Descriptors
  <2>4. Transfer'
    BY <1>3 DEF Create, NewLocals, Control, Descriptors, Transfer, Holders, Readable
  <2>5. QED  BY <2>1, <2>2, <2>3, <2>4 DEF Inv
<1>4. QED  BY <1>1, <1>2, <1>3

\* So do the steps of gs, and of the code that runs in its process before exec.
LEMMA GsStep == Inv /\ Gs => Inv'
<1> SUFFICES ASSUME TypeOK, Control, Descriptors, Transfer, Gs PROVE Inv'
  BY DEF Inv
<1> USE DEF workerVars, signalVars, childVars, childUnchanged, TypeOK, Procs, Ends, input, output, dvi
<1>1. CASE ExecGs
  <2>1. TypeOK'
    BY <1>1 DEF ExecGs, Dies, WorkerPcs, GsStates, DvipsStates
  <2>2. Control'
    BY <1>1 DEF ExecGs, Dies, Control
  <2>3. Descriptors'
    BY <1>1 DEF ExecGs, Dies, Control, Descriptors
  <2>4. Transfer'
    BY <1>1 DEF ExecGs, Dies, Control, Descriptors, Transfer, Holders, Readable
  <2>5. QED  BY <2>1, <2>2, <2>3, <2>4 DEF Inv
<1>2. CASE Fork2
  <2>1. TypeOK'
    <3>1. PICK new \in {dvi, {}} :
            fds' = [fds EXCEPT !["gs"] = fds["gs"] \cup new, !["dvips"] = fds["gs"] \cup new]
      BY <1>2 DEF Fork2
    <3>2. fds' \in [Procs -> SUBSET Ends]
      <4>1. fds["gs"] \cup new \subseteq Ends
        BY <3>1
      <4>2. QED  BY <3>1, <4>1
    <3>3. proc'["gs"] = "forked2" /\ proc'["dvips"] = "forked"
          /\ DOMAIN proc' = {"gs", "dvips"}
      BY <1>2 DEF Fork2
    <3>4. UNCHANGED <<workerVars, signalVars, lostkill, outpipe, dvipipe, written, dviwritten>>
      BY <1>2 DEF Fork2
    <3>5. QED  BY <3>2, <3>3, <3>4 DEF WorkerPcs, GsStates, DvipsStates
  <2>2. Control'
    BY <1>2 DEF Fork2, Control
  <2>3. Descriptors'
    BY <1>2 DEF Fork2, Control, Descriptors
  <2>4. Transfer'
    BY <1>2 DEF Fork2, Control, Descriptors, Transfer, Holders, Readable
  <2>5. QED  BY <2>1, <2>2, <2>3, <2>4 DEF Inv
<1>3. CASE Fork2Fails
  <2>1. TypeOK'
    <3>1. PICK lost \in SUBSET fds["gs"] :
            fds' = [fds EXCEPT !["gs"] = fds["gs"] \ (lost \cup {"output0"})]
      BY <1>3 DEF Fork2Fails
    <3>2. QED  BY <1>3, <3>1 DEF Fork2Fails, WorkerPcs, GsStates, DvipsStates
  <2>2. Control'
    BY <1>3 DEF Fork2Fails, Control
  <2>3. Descriptors'
    BY <1>3 DEF Fork2Fails, Control, Descriptors
  <2>4. Transfer'
    BY <1>3 DEF Fork2Fails, Control, Descriptors, Transfer, Holders, Readable
  <2>5. QED  BY <2>1, <2>2, <2>3, <2>4 DEF Inv
<1>4. CASE ExecGsDvi
  <2>1. TypeOK'
    BY <1>4 DEF ExecGsDvi, Dies, Misclosed, WorkerPcs, GsStates, DvipsStates
  <2>2. Control'
    BY <1>4 DEF ExecGsDvi, Dies, Misclosed, Control
  <2>3. Descriptors'
    BY <1>4 DEF ExecGsDvi, Dies, Misclosed, Control, Descriptors
  <2>4. Transfer'
    BY <1>4 DEF ExecGsDvi, Dies, Misclosed, Control, Descriptors, Transfer, Holders, Readable
  <2>5. QED  BY <2>1, <2>2, <2>3, <2>4 DEF Inv
<1>5. CASE GsReads
  <2>1. TypeOK'
    BY <1>5, SizesAssumption DEF GsReads, Eof, WorkerPcs, GsStates, DvipsStates
  <2>2. Control'
    BY <1>5 DEF GsReads, Eof, Control
  <2>3. Descriptors'
    BY <1>5 DEF GsReads, Eof, Control, Descriptors
  <2>4. Transfer'
    BY <1>5 DEF GsReads, Eof, Control, Descriptors, Transfer, Holders, Readable
  <2>5. QED  BY <2>1, <2>2, <2>3, <2>4 DEF Inv
<1>6. CASE GsWrites
  <2>1. TypeOK'
    BY <1>6, SizesAssumption DEF GsWrites, WorkerPcs, GsStates, DvipsStates, Transfer
  <2>2. Control'
    BY <1>6 DEF GsWrites, Control
  <2>3. Descriptors'
    BY <1>6 DEF GsWrites, Control, Descriptors
  <2>4. Transfer'
    BY <1>6 DEF GsWrites, Control, Descriptors, Transfer, Holders, Readable
  <2>5. QED  BY <2>1, <2>2, <2>3, <2>4 DEF Inv
<1>7. CASE GsExits
  <2>1. TypeOK'
    BY <1>7 DEF GsExits, Dies, WorkerPcs, GsStates, DvipsStates
  <2>2. Control'
    BY <1>7 DEF GsExits, Dies, Control
  <2>3. Descriptors'
    BY <1>7 DEF GsExits, Dies, Control, Descriptors
  <2>4. Transfer'
    BY <1>7 DEF GsExits, Dies, Control, Descriptors, Transfer, Holders, Readable
  <2>5. QED  BY <2>1, <2>2, <2>3, <2>4 DEF Inv
<1>8. CASE ReturnedExits
  <2>1. TypeOK'
    BY <1>8 DEF ReturnedExits, Dies, WorkerPcs, GsStates, DvipsStates
  <2>2. Control'
    BY <1>8 DEF ReturnedExits, Dies, Control
  <2>3. Descriptors'
    BY <1>8 DEF ReturnedExits, Dies, Control, Descriptors
  <2>4. Transfer'
    BY <1>8 DEF ReturnedExits, Dies, Control, Descriptors, Transfer, Holders, Readable
  <2>5. QED  BY <2>1, <2>2, <2>3, <2>4 DEF Inv
<1>9. QED  BY <1>1, <1>2, <1>3, <1>4, <1>5, <1>6, <1>7, <1>8 DEF Gs

\* So do those of dvips.
LEMMA DvipsStep == Inv /\ Dvips => Inv'
<1> SUFFICES ASSUME TypeOK, Control, Descriptors, Transfer, Dvips PROVE Inv'
  BY DEF Inv
<1> USE DEF workerVars, signalVars, childVars, childUnchanged, TypeOK, Procs, Ends, input, output, dvi
<1>1. CASE ExecDvips
  <2>1. TypeOK'
    BY <1>1 DEF ExecDvips, Dies, DvipsCloses, WorkerPcs, GsStates, DvipsStates
  <2>2. Control'
    BY <1>1 DEF ExecDvips, Dies, DvipsCloses, Control
  <2>3. Descriptors'
    BY <1>1 DEF ExecDvips, Dies, DvipsCloses, Control, Descriptors
  <2>4. Transfer'
    BY <1>1 DEF ExecDvips, Dies, DvipsCloses, Control, Descriptors, Transfer, Holders, Readable
  <2>5. QED  BY <2>1, <2>2, <2>3, <2>4 DEF Inv
<1>2. CASE DvipsWrites
  <2>1. TypeOK'
    BY <1>2, SizesAssumption DEF DvipsWrites, WorkerPcs, GsStates, DvipsStates
  <2>2. Control'
    BY <1>2 DEF DvipsWrites, Control
  <2>3. Descriptors'
    BY <1>2 DEF DvipsWrites, Control, Descriptors
  <2>4. Transfer'
    BY <1>2 DEF DvipsWrites, Control, Descriptors, Transfer, Holders, Readable
  <2>5. QED  BY <2>1, <2>2, <2>3, <2>4 DEF Inv
<1>3. CASE DvipsExits
  <2>1. TypeOK'
    BY <1>3 DEF DvipsExits, Dies, WorkerPcs, GsStates, DvipsStates
  <2>2. Control'
    BY <1>3 DEF DvipsExits, Dies, Control
  <2>3. Descriptors'
    BY <1>3 DEF DvipsExits, Dies, Control, Descriptors
  <2>4. Transfer'
    BY <1>3 DEF DvipsExits, Dies, Control, Descriptors, Transfer, Holders, Readable
  <2>5. QED  BY <2>1, <2>2, <2>3, <2>4 DEF Inv
<1>4. QED  BY <1>1, <1>2, <1>3 DEF Dvips

LEMMA StutterStep == Inv /\ UNCHANGED vars => Inv'
  BY DEF Inv, TypeOK, Control, Descriptors, Transfer, Holders, Readable, vars, workerVars,
         signalVars, childVars

LEMMA InitInv == Init => Inv
<1> SUFFICES ASSUME Init PROVE Inv
  OBVIOUS
<1> USE DEF Init
<1>1. ok \in BOOLEAN /\ got_sig_term \in BOOLEAN /\ pending \in BOOLEAN /\ lostkill \in BOOLEAN
  BY Zenon
<1>2. fds \in [Procs -> SUBSET Ends] /\ \A p \in Procs : fds[p] = {}
  OBVIOUS
<1>3. TypeOK
  BY <1>1, <1>2, HandlersAssumption, SizesAssumption
     DEF TypeOK, WorkerPcs, GsStates, DvipsStates
<1>4. Control /\ Descriptors
  BY <1>2 DEF Control, Descriptors, Procs
<1>5. Transfer
  BY <1>2 DEF Transfer, Holders
<1>6. QED  BY <1>3, <1>4, <1>5 DEF Inv

LEMMA NextInv == Inv /\ [Next]_vars => Inv'
  BY WorkerStep, SignalStep, GsStep, DvipsStep, StutterStep DEF Next

\* Inv is an invariant of create.
THEOREM Invariance == Spec => []Inv
<1>1. QED  BY InitInv, NextInv, PTL DEF Spec

\* Every variable keeps its type: in particular no pipe is overfilled, and the
\* worker never holds more data than the image has.
THEOREM TypeCorrect == Spec => []TypeOK
<1>1. Inv => TypeOK
  BY DEF Inv
<1>2. QED  BY Invariance, <1>1, PTL

\* No block of the image is lost or read twice, and ok means all of it.
THEOREM Received == Spec => []ReceivedAll
<1>1. Inv => ReceivedAll
  BY DEF Inv, Transfer, ReceivedAll
<1>2. QED  BY Invariance, <1>1, PTL

\* The worker and gs never wait for each other.
THEOREM MutualWait == Spec => []NoMutualWait
<1>1. ASSUME Inv, pc = "select", ~Readable(outpipe, "output1"), proc["gs"] = "reading",
             ~(proc["dvips"] \in {"forked", "running"})
      PROVE IF doc = "dvi" THEN Readable(dvipipe, "dvipipe1") ELSE Eof(0, "input1")
  <2> USE <1>1 DEF Inv, TypeOK, Control, Descriptors, Procs, Ends, input, output, dvi
  <2>1. fds["dvips"] = {} /\ fds["worker"] = {"output0"}
        /\ fds["gs"] \subseteq {"input0", "output1", "dvipipe0"}
    BY DEF DvipsStates
  <2>2. Holders("dvipipe1") = {} /\ Holders("input1") = {}
    BY <2>1 DEF Holders
  <2>3. QED  BY <2>2 DEF Readable, Eof
<1>2. Inv => NoMutualWait
  BY <1>1 DEF NoMutualWait
<1>3. QED  BY Invariance, <1>2, PTL

\* The 20 s are waited out only while somebody can still produce output.
THEOREM Timeouts == Spec => TimeoutWhileProducing
<1>1. ASSUME Inv, SelectTimeout, proc["gs"] \in {"none", "dead"}
      PROVE proc["dvips"] = "forked"
  <2> USE <1>1 DEF Inv, TypeOK, Descriptors, SelectTimeout, Readable, Holders, Procs, DvipsStates
  <2>1. PICK p \in Procs : "output1" \in fds[p]
    OBVIOUS
  <2>2. p = "dvips"
    BY <2>1
  <2>3. QED  BY <2>1, <2>2
<1>2. Inv /\ [Next]_vars =>
        [SelectTimeout => \/ proc["gs"] \notin {"none", "dead"}
                          \/ proc["dvips"] = "forked"]_vars
  BY <1>1
<1>3. QED  BY Invariance, <1>2, PTL DEF Spec, TimeoutWhileProducing

\* A call that reached fork() leaves no descriptor open.
THEOREM Leaks == Spec => NothingLeftOpen
<1>1. ASSUME Inv, Next, pc = "finish" PROVE leaked' = leaked
  <2>1. CASE Finish
    <3>1. fds["worker"] \ {"output0"} = {}
      BY <1>1 DEF Inv, Descriptors
    <3>2. QED  BY <1>1, <2>1, <3>1, FS_EmptySet DEF Finish, Inv, TypeOK
  <2>2. CASE ~Finish
    BY <1>1, <2>2 DEF Next, Create, Worker, PipesOk, PipesFail, ScanRejects, EmbeddedPreview,
       NeedsGs, Fork1, Fork1Fails, WriteProlog, LoopTop, SelectReady, SelectTimeout, Read,
       Kill, Wait, Sigterm, OtherSignal, Gs, ExecGs, Fork2, Fork2Fails, ExecGsDvi, GsReads,
       GsWrites, GsExits, ReturnedExits, Dvips, ExecDvips, DvipsWrites, DvipsExits,
       childUnchanged, workerVars
  <2>3. QED  BY <2>1, <2>2
<1>2. Inv /\ [Next]_vars => [pc = "finish" => leaked' = leaked]_vars
  BY <1>1
<1>3. QED  BY Invariance, <1>2, PTL DEF Spec, NothingLeftOpen

(***************************************************************************)
(* Signals.  Once a SIGTERM has ended its select(), a call only goes on to *)
(* its end, with the flag set; and in the loop a flag that is set is one   *)
(* that was set since.  Nothing else of the state is needed for that.      *)
(***************************************************************************)
Interrupted ==
  loop = "interrupted" /\ pc # "idle" =>
    pc \in {"check", "wait", "finish"} /\ got_sig_term /\ pending

SignalInv == Interrupted /\ FlagIsNew

LEMMA InitSignals == Init => SignalInv
  BY DEF Init, SignalInv, Interrupted, FlagIsNew

\* A call begins with neither, and before its loop and behind it the flag and what
\* is pending change together.
LEMMA NextSignals == SignalInv /\ [Next]_vars => SignalInv'
<1> SUFFICES ASSUME SignalInv, [Next]_vars PROVE SignalInv'
  OBVIOUS
<1> USE DEF SignalInv, Interrupted, FlagIsNew
<1>1. ASSUME NEW d \in Docs, Create(d) PROVE SignalInv'
  BY <1>1 DEF Create
<1>2. CASE PipesOk \/ NeedsGs \/ Fork1 \/ Fork1Fails \/ WriteProlog
  BY <1>2 DEF PipesOk, NeedsGs, Fork1, Fork1Fails, WriteProlog, signalVars
<1>3. CASE PipesFail \/ ScanRejects \/ EmbeddedPreview
  BY <1>3 DEF PipesFail, ScanRejects, EmbeddedPreview, Return
<1>4. CASE LoopTop
  BY <1>4 DEF LoopTop
<1>5. CASE SelectReady \/ SelectTimeout \/ Read \/ Kill \/ Wait
  BY <1>5 DEF SelectReady, SelectTimeout, Read, Kill, Wait, signalVars
<1>6. CASE Finish
  BY <1>6 DEF Finish
<1>7. CASE Sigterm
  BY <1>7 DEF Sigterm, AfterSelect
<1>8. CASE OtherSignal
  BY <1>8 DEF OtherSignal
<1>9. CASE Gs \/ Dvips \/ UNCHANGED vars
  BY <1>9 DEF Gs, ExecGs, Fork2, Fork2Fails, ExecGsDvi, GsReads, GsWrites, GsExits,
     ReturnedExits, Dvips, ExecDvips, DvipsWrites, DvipsExits, childUnchanged, workerVars,
     signalVars, vars
<1>10. QED
  BY <1>1, <1>2, <1>3, <1>4, <1>5, <1>6, <1>7, <1>8, <1>9 DEF Next, Worker

\* A SIGTERM that ends select() is passed on at the end of the call.
THEOREM InterruptsArePassedOn == Spec => InterruptPropagated
<1>1. SignalInv /\ [Next]_vars =>
        [Finish /\ loop = "interrupted" /\ oldhandler = "app" => ~pending']_vars
  BY DEF SignalInv, Interrupted, Finish
<1>2. QED  BY InitSignals, NextSignals, <1>1, PTL DEF Spec, InterruptPropagated

\* No call that gets to its loop takes the flag of an earlier one for its own.
THEOREM FlagsAreNew == Spec => []FlagIsNew
<1>1. SignalInv => FlagIsNew
  BY DEF SignalInv
<1>2. QED  BY InitSignals, NextSignals, <1>1, PTL DEF Spec

(***************************************************************************)
(* create implements the abstract call.                                    *)
(***************************************************************************)
LEMMA InitImplements == Init => Call!Init
  BY DEF Init, Call!Init, spawned

\* A step of a child is a step of the renderer, its end, or no step at all.
LEMMA ChildImplements == Inv /\ (Gs \/ Dvips) => [Call!Next]_(Call!vars)
<1> SUFFICES ASSUME TypeOK, Gs \/ Dvips PROVE [Call!Next]_(Call!vars)
  BY DEF Inv
<1> USE DEF TypeOK, GsStates, childUnchanged, workerVars, spawned, Call!Next, Call!vars, Call!End
<1>1. ASSUME UNCHANGED workerVars,
             \/ proc'["gs"] = proc["gs"]
             \/ proc["gs"] \notin {"none", "dead"} /\ proc'["gs"] # "none"
      PROVE [Call!Next]_(Call!vars)
  BY <1>1
<1>2. CASE Gs
  BY <1>1, <1>2 DEF Gs, ExecGs, Fork2, Fork2Fails, ExecGsDvi, GsReads, GsWrites, GsExits,
     ReturnedExits, Dies
<1>3. CASE Dvips
  BY <1>1, <1>3 DEF Dvips, ExecDvips, DvipsWrites, DvipsExits, Dies
<1>4. QED  BY <1>2, <1>3

\* Entering and leaving create, fork() and waitpid() are steps of the abstract
\* call; everything else the worker does is invisible there.
LEMMA WorkerImplements == Inv /\ Worker => [Call!Next]_(Call!vars)
<1> SUFFICES ASSUME TypeOK, Control, Worker PROVE [Call!Next]_(Call!vars)
  BY DEF Inv
<1> USE DEF TypeOK, Control, spawned, Call!Next, Call!vars
<1>1. CASE PipesFail \/ ScanRejects \/ EmbeddedPreview
  <2>1. Call!Answer
    BY <1>1 DEF PipesFail, ScanRejects, EmbeddedPreview, Return, Call!Answer, childVars
  <2>2. QED  BY <2>1
<1>2. CASE Fork1
  <2>1. Call!Start
    BY <1>2 DEF Fork1, Call!Start
  <2>2. QED  BY <2>1
<1>3. CASE Fork1Fails
  <2>1. Call!GiveUp
    BY <1>3 DEF Fork1Fails, Call!GiveUp
  <2>2. QED  BY <2>1
<1>4. CASE Kill
  <2>1. Call!End \/ UNCHANGED Call!vars
    BY <1>4 DEF Kill, Dies, Call!End
  <2>2. QED  BY <2>1
<1>5. CASE Wait
  <2>1. Call!Reap
    BY <1>5 DEF Wait, Call!Reap
  <2>2. QED  BY <2>1
<1>6. CASE Finish
  <2>1. Call!Answer
    BY <1>6 DEF Finish, LoadFromData, Call!Answer
  <2>2. QED  BY <2>1
<1>7. CASE \/ PipesOk \/ NeedsGs \/ WriteProlog \/ LoopTop \/ SelectReady
           \/ SelectTimeout \/ Read
  <2>1. UNCHANGED Call!vars
    BY <1>7 DEF PipesOk, NeedsGs, WriteProlog, LoopTop, SelectReady, SelectTimeout,
       AfterSelect, Read, childVars
  <2>2. QED  BY <2>1
<1>8. QED  BY <1>1, <1>2, <1>3, <1>4, <1>5, <1>6, <1>7 DEF Worker

LEMMA NextImplements == Inv /\ [Next]_vars => [Call!Next]_(Call!vars)
<1> SUFFICES ASSUME Inv, [Next]_vars PROVE [Call!Next]_(Call!vars)
  OBVIOUS
<1>1. ASSUME NEW d \in Docs, Create(d) PROVE Call!Begin
  BY <1>1 DEF Inv, Control, TypeOK, Create, Call!Begin, spawned
<1>2. CASE Sigterm \/ OtherSignal
  BY <1>2 DEF Sigterm, OtherSignal, AfterSelect, childVars, Call!vars, spawned
<1>3. CASE UNCHANGED vars
  BY <1>3 DEF vars, workerVars, childVars, Call!vars, spawned
<1>4. QED
  BY <1>1, <1>2, <1>3, WorkerImplements, ChildImplements DEF Next, Call!Next

\* At most one gs per call, and none that outlives it.
THEOREM Implements == Spec => ImplementsCall
<1>1. QED
  BY InitImplements, NextImplements, Invariance, PTL
     DEF Spec, ImplementsCall, CallSpec, Call!Spec
=============================================================================
