--------------------------- MODULE DscLinesProofs ---------------------------
(***************************************************************************)
(* Proofs about DscLines: for a buffer of any size, blocks of any size and *)
(* files of any content, the buffer stays a window on the file, and the    *)
(* lines are those of a reader that has the whole file.                    *)
(***************************************************************************)
EXTENDS DscLines, SequenceTheorems, TLAPS

\* The buffer shows the file from offset to the end of what was read.
Window ==
  /\ Len(seen) = offset + Len(data)
  /\ \A i \in 1..Len(data) : data[i] = seen[offset + i]

\* Where the program stands, and what it knows there.
Place ==
  /\ pc \in {"type", "first"} => ~typed
  /\ pc = "lines" => typed
  /\ pc = "type" => index <= Len(data)
  /\ pc \in {"first", "lines"} => index <= Len(data) \/ skip_bytes = 0
  /\ ~typed => skip_lines = 0

LInv == TypeOK /\ Window /\ Place

LEMMA Constant ==
  /\ N \in Nat /\ N >= 2 /\ Word \in Nat /\ N < Word
  /\ UelLength \in 2..Half /\ HeaderLength \in 2..Half /\ PsBegin \in Nat /\ PsEnd \in Nat
  /\ Half \in Nat /\ Counts \subseteq Int
BY BufferAssumption, HeaderAssumption, CountsAssumption DEF Half, UelLength

LEMMA Types ==
  ASSUME LInv
  PROVE  /\ index \in Nat /\ offset \in Nat /\ data \in Seq(Symbols) /\ seen \in Seq(Symbols)
         /\ Len(data) \in Nat /\ Len(data) <= N /\ Len(seen) = offset + Len(data)
         /\ input \in Seq(Symbols) /\ skip_bytes \in Int /\ skip_lines \in Int
BY Constant DEF LInv, TypeOK, Window

-----------------------------------------------------------------------------
(* What is left in the buffer. *)

LEMMA UnreadIs ==
  ASSUME LInv
  PROVE  /\ Unread \in Seq(Symbols)
         /\ Len(Unread) = IF index <= Len(data) THEN Len(data) - index ELSE 0
         /\ \A i \in 1..Len(Unread) : Unread[i] = seen[offset + index + i]
         /\ Unread # <<>> => index < Len(data)
         /\ Unread = <<>> => index >= Len(data)
<1>1. /\ index \in Nat /\ offset \in Nat /\ data \in Seq(Symbols) /\ Len(data) \in Nat
  BY Types
<1>2. /\ Unread \in Seq(Symbols)
      /\ Len(Unread) = IF index + 1 <= Len(data) THEN Len(data) - index ELSE 0
      /\ \A i \in 1..Len(data) - index : Unread[i] = data[index + i]
  <2>1. \A i \in index+1..Len(data) : data[i] \in Symbols
    BY <1>1
  <2> QED
    BY <1>1, <2>1, SubSeqProperties DEF Unread
<1>3. ASSUME NEW i \in 1..Len(Unread)
      PROVE  Unread[i] = seen[offset + index + i]
  <2>1. i \in 1..Len(data) - index /\ index + i \in 1..Len(data)
    BY <1>1, <1>2
  <2>2. data[index + i] = seen[offset + (index + i)]
    BY <2>1 DEF LInv, Window
  <2>3. offset + (index + i) = offset + index + i
    BY <1>1, <2>1
  <2> QED
    BY <1>2, <2>1, <2>2, <2>3
<1>4. Unread = <<>> <=> Len(Unread) = 0
  BY <1>2, EmptySeq
<1> QED
  BY <1>1, <1>2, <1>3, <1>4

LEMMA TextIs ==
  ASSUME LInv, Unread # <<>>
  PROVE  /\ Lf \in {0, 1} /\ Text \in Seq(Symbols)
         /\ Len(Text) = Len(data) - index - Lf /\ Len(Text) \in Nat
         /\ \A i \in 1..Len(Text) : Text[i] = seen[offset + index + Lf + i]
         /\ Lf = IF last_cr /\ seen[offset + index + 1] = "LF" THEN 1 ELSE 0
         /\ index < Len(data)
<1>1. /\ index \in Nat /\ offset \in Nat /\ Len(data) \in Nat /\ index < Len(data)
      /\ Unread \in Seq(Symbols) /\ Len(Unread) = Len(data) - index
      /\ \A i \in 1..Len(Unread) : Unread[i] = seen[offset + index + i]
  BY Types, UnreadIs
<1>2. Lf = (IF last_cr /\ seen[offset + index + 1] = "LF" THEN 1 ELSE 0) /\ Lf \in {0, 1}
  BY <1>1 DEF Lf
<1>3. /\ Text \in Seq(Symbols)
      /\ Len(Text) = IF 1 + Lf <= Len(Unread) THEN Len(Unread) - Lf ELSE 0
      /\ \A i \in 1..Len(Unread) - Lf : Text[i] = Unread[Lf + i]
  <2>1. \A i \in 1 + Lf..Len(Unread) : Unread[i] \in Symbols
    BY <1>1, <1>2
  <2>2. 1 + Lf \in Int /\ Len(Unread) \in Int
    BY <1>1, <1>2
  <2>3. /\ Text \in Seq(Symbols)
        /\ Len(Text) = IF 1 + Lf <= Len(Unread) THEN Len(Unread) - (1 + Lf) + 1 ELSE 0
        /\ \A i \in 1..Len(Unread) - (1 + Lf) + 1 : Text[i] = Unread[1 + Lf + i - 1]
    BY <2>1, <2>2, SubSeqProperties DEF Text
  <2> QED
    BY <1>1, <1>2, <2>3
<1>4. Len(Text) = Len(data) - index - Lf /\ Len(Text) \in Nat
  <2> DEFINE u == Len(Unread)
             t == Len(Text)
  <2>1. u \in Nat /\ u >= 1 /\ u = Len(data) - index
    BY <1>1
  <2>2. t = IF 1 + Lf <= u THEN u - Lf ELSE 0
    BY <1>3
  <2> HIDE DEF u, t
  <2>3. ASSUME Lf = 0 PROVE t = u - Lf /\ t \in Nat
    BY <2>1, <2>2, <2>3
  <2>4. ASSUME Lf = 1 PROVE t = u - Lf /\ t \in Nat
    BY <2>1, <2>2, <2>4
  <2>5. t = u - Lf /\ t \in Nat
    BY <1>2, <2>3, <2>4
  <2> QED
    BY <2>1, <2>5 DEF t
<1>5. ASSUME NEW i \in 1..Len(Text)
      PROVE  Text[i] = seen[offset + index + Lf + i]
  <2>1. i \in 1..Len(Unread) - Lf /\ Lf + i \in 1..Len(Unread)
    BY <1>1, <1>2, <1>4
  <2>2. offset + index + (Lf + i) = offset + index + Lf + i
    BY <1>1, <1>2, <2>1
  <2> QED
    BY <1>1, <1>3, <2>1, <2>2
<1> HIDE DEF Text, Lf
<1>6. \A i \in 1..Len(Text) : Text[i] = seen[offset + index + Lf + i]
  BY <1>5
<1> QED
  BY <1>1, <1>2, <1>3, <1>4, <1>6

\* A line is only taken where something is left.
LEMMA NoText ==
  ASSUME LInv, Unread = <<>>
  PROVE  Text = <<>>
<1>1. Lf = 0 /\ Len(Unread) = 0
  BY DEF Lf
<1> QED
  BY <1>1, SubSeqEmpty DEF Text

\* What is taken as a line is a line of the file, or a piece of one.
LEMMA TakenLine ==
  ASSUME LInv, NEW n \in 1..Len(Text), LineLength(Text, n)
  PROVE  LET from == offset + index + Lf
         IN  /\ from \in Nat /\ from + n \in Nat /\ from < from + n /\ from + n <= Len(seen)
             /\ index + Lf + n \in Nat /\ index + Lf + n <= Len(data)
             /\ Text[1] = seen[from + 1] /\ Text[n] = seen[from + n]
             /\ Reader!Line(from, from + n)
             /\ Reader!Complete(from, from + n) <=> (Text[n] \in Eol \/ CtrlZ(Text, n))
<1> DEFINE from == offset + index + Lf
<1>0. Unread # <<>>
  <2>1. Len(Text) = 0 => FALSE
    OBVIOUS
  <2> QED
    BY <2>1, NoText, EmptySeq
<1>1. /\ index \in Nat /\ offset \in Nat /\ Len(data) \in Nat /\ Len(seen) = offset + Len(data)
      /\ Half \in Nat
  BY Types, Constant
<1>2. /\ Lf \in {0, 1} /\ Len(Text) = Len(data) - index - Lf /\ Len(Text) \in Nat
      /\ \A i \in 1..Len(Text) : Text[i] = seen[from + i]
  BY <1>0, TextIs
<1>3. Lf \in Nat
  BY <1>2
<1>4. /\ from \in Nat /\ from + n \in Nat /\ from < from + n /\ from + n <= Len(seen)
      /\ index + Lf + n \in Nat /\ index + Lf + n <= Len(data)
      /\ n \in Nat /\ 1 <= n /\ n <= Len(Text)
  <2> DEFINE t == Len(Text)
             u == Len(data)
  <2>1. t \in Nat /\ t = u - index - Lf /\ n \in 1..t /\ Len(seen) = offset + u /\ u \in Nat
    BY <1>1, <1>2
  <2> HIDE DEF t, u, from
  <2>2. n \in Nat /\ 1 <= n /\ n <= t
    BY <2>1
  <2>3. from = offset + index + Lf /\ from \in Nat
    BY <1>1, <1>3 DEF from
  <2>4. from + n \in Nat /\ from < from + n /\ index + Lf + n \in Nat
    BY <1>1, <1>3, <2>2, <2>3
  <2>5. index + Lf + n <= u
    BY <1>1, <1>3, <2>1, <2>2
  <2>6. from + n <= offset + u
    BY <1>1, <1>3, <2>1, <2>2, <2>3, <2>5
  <2> QED
    BY <2>1, <2>2, <2>3, <2>4, <2>5, <2>6 DEF t, u
<1> HIDE DEF from
<1>5. Text[1] = seen[from + 1] /\ Text[n] = seen[from + n]
  BY <1>2, <1>4
<1>6. \A i \in from+1..from+n : i - from \in 1..n /\ i - from \in 1..Len(Text)
                               /\ seen[i] = Text[i - from]
  <2> TAKE i \in from+1..from+n
  <2>1. i - from \in 1..n /\ i - from \in 1..Len(Text) /\ from + (i - from) = i
    BY <1>2, <1>4
  <2> QED
    BY <1>2, <2>1
<1>7. \A k \in 1..n : from + k \in from+1..from+n
  BY <1>4
<1>8. CtrlZ(Text, n) <=> \E i \in from+1..from+n : seen[i] = "^Z"
  <2>1. ASSUME NEW k \in 1..n, Text[k] = "^Z"
        PROVE  \E i \in from+1..from+n : seen[i] = "^Z"
    <3>1. from + k \in from+1..from+n /\ seen[from + k] = Text[k]
      BY <1>2, <1>4, <1>7
    <3> QED
      BY <2>1, <3>1
  <2> QED
    BY <1>6, <2>1 DEF CtrlZ
<1>9. Reader!Line(from, from + n)
  <2>1. CASE Text[n] = "LF" /\ \A i \in 1..n-1 : Text[i] \notin Eol
    <3>1. \A i \in from+1..from+n-1 : seen[i] \notin Eol
      <4> TAKE i \in from+1..from+n-1
      <4>1. i \in from+1..from+n /\ i - from \in 1..n-1
        BY <1>4
      <4> QED
        BY <1>6, <2>1, <4>1
    <3> QED
      BY <1>4, <1>5, <2>1, <3>1 DEF Reader!Line, Reader!Eol, Eol
  <2>2. CASE Text[n] = "CR" /\ \A i \in 1..n-1 : Text[i] \notin Eol
    <3>1. \A i \in from+1..from+n-1 : seen[i] \notin Eol
      <4> TAKE i \in from+1..from+n-1
      <4>1. i \in from+1..from+n /\ i - from \in 1..n-1
        BY <1>4
      <4> QED
        BY <1>6, <2>2, <4>1
    <3> QED
      BY <1>4, <1>5, <2>2, <3>1 DEF Reader!Line, Reader!Eol, Eol
  <2>3. CASE n > 1 /\ Text[n - 1] = "CR" /\ Text[n] = "LF" /\ \A i \in 1..n-2 : Text[i] \notin Eol
    <3>1. \A i \in from+1..from+n-2 : seen[i] \notin Eol
      <4> TAKE i \in from+1..from+n-2
      <4>1. i \in from+1..from+n /\ i - from \in 1..n-2
        BY <1>4
      <4> QED
        BY <1>6, <2>3, <4>1
    <3>2. from + 1 < from + n /\ seen[from + n - 1] = "CR"
      <4>1. n - 1 \in 1..n /\ from + (n - 1) = from + n - 1
        BY <1>4, <2>3
      <4> QED
        BY <1>2, <1>4, <2>3, <4>1
    <3> QED
      BY <1>4, <1>5, <2>3, <3>1, <3>2 DEF Reader!Line, Reader!Eol, Eol
  <2>4. CASE NoEol(Text) /\ (CtrlZ(Text, n) \/ n >= Half)
    <3>1. \A i \in from+1..from+n : seen[i] \notin Eol
      BY <1>6, <2>4 DEF NoEol
    <3>2. from + n - from >= Half \/ \E i \in from+1..from+n : seen[i] = "^Z"
      BY <1>1, <1>4, <1>8, <2>4
    <3> QED
      BY <1>4, <3>1, <3>2 DEF Reader!Line, Reader!Eol, Eol
  <2> QED
    BY <2>1, <2>2, <2>3, <2>4 DEF LineLength, Ends
<1>10. Reader!Complete(from, from + n) <=> (Text[n] \in Eol \/ CtrlZ(Text, n))
  BY <1>5, <1>8 DEF Reader!Complete, Reader!Eol, Eol
<1> QED
  BY <1>4, <1>5, <1>9, <1>10 DEF from

-----------------------------------------------------------------------------
(* The invariant. *)

LEMMA InitInv == Init => LInv
<1> SUFFICES ASSUME Init
             PROVE  LInv
  OBVIOUS
<1>1. 0 \in 0..Word-1 /\ 0 <= N
  BY Constant
<1>2. TypeOK
  <2>1. /\ file \in Seq(Symbols) /\ seen \in Seq(Symbols) /\ block \in Seq(Symbols)
        /\ input \in Seq(Symbols) /\ data \in Seq(Symbols) /\ Len(data) <= N
        /\ lines \in Seq([from : Nat, to : Nat, scanned : BOOLEAN])
    BY <1>1 DEF Init
  <2>2. /\ index \in 0..Word-1 /\ offset \in Nat /\ size \in Sizes
        /\ skip_bytes \in Int /\ skip_lines \in Int /\ skip_document \in Nat
    BY <1>1 DEF Init
  <2>3. /\ stop \in BOOLEAN /\ eol \in BOOLEAN /\ last_cr \in BOOLEAN
        /\ typed \in BOOLEAN /\ ctrld \in BOOLEAN /\ pjl \in BOOLEAN
        /\ skip_pjl \in BOOLEAN /\ doseps \in BOOLEAN
    BY DEF Init
  <2> QED
    BY <2>1, <2>2, <2>3 DEF Init, TypeOK
<1>3. Window
  BY DEF Init, Window
<1>4. Place
  BY DEF Init, Place
<1> QED
  BY <1>2, <1>3, <1>4 DEF LInv

\* Nothing but the index moves in the buffer.
LEMMA WindowStays ==
  LInv /\ UNCHANGED bufferVars => Window'
BY DEF LInv, Window, bufferVars

\* dsc_scan_data returns.
LEMMA ReturnType ==
  ASSUME LInv, NEW i \in {"OK", "PSADOBE", "PAGE", "NOTDSC"}, Return(i)
  PROVE  /\ UNCHANGED <<file, size, block>> /\ stop' \in BOOLEAN
         /\ input' \in Seq(Symbols) /\ id' \in {"OK", "PSADOBE", "PAGE", "NOTDSC"}
         /\ pc' = "handler"
BY DEF LInv, TypeOK, Return

LEMMA LeaveType ==
  ASSUME LInv, Leave
  PROVE  /\ UNCHANGED <<file, size, block>> /\ stop' \in BOOLEAN
         /\ input' \in Seq(Symbols) /\ id' \in {"OK", "PSADOBE", "PAGE", "NOTDSC"}
         /\ pc' = "handler"
BY DEF LInv, TypeOK, Leave, clientVars

Shows(s, d, o) == Len(s) = o + Len(d) /\ \A i \in 1..Len(d) : d[i] = s[o + i]

\* A window still shows the same when both grow alike.
LEMMA WindowGrows ==
  ASSUME NEW s \in Seq(Symbols), NEW d \in Seq(Symbols), NEW a \in Seq(Symbols), NEW o \in Nat,
         Shows(s, d, o)
  PROVE  /\ s \o a \in Seq(Symbols) /\ d \o a \in Seq(Symbols) /\ Len(d \o a) = Len(d) + Len(a)
         /\ Shows(s \o a, d \o a, o)
<1>0. Len(s) = o + Len(d) /\ \A i \in 1..Len(d) : d[i] = s[o + i]
  BY DEF Shows
<1>1. Len(s) \in Nat /\ Len(d) \in Nat /\ Len(a) \in Nat
  OBVIOUS
<1>2. /\ d \o a \in Seq(Symbols) /\ Len(d \o a) = Len(d) + Len(a)
      /\ s \o a \in Seq(Symbols) /\ Len(s \o a) = Len(s) + Len(a)
  BY ConcatProperties
<1>3. \A i \in 1..Len(d) + Len(a) :
        (d \o a)[i] = IF i <= Len(d) THEN d[i] ELSE a[i - Len(d)]
  BY ConcatProperties
<1>4. \A i \in 1..Len(s) + Len(a) :
        (s \o a)[i] = IF i <= Len(s) THEN s[i] ELSE a[i - Len(s)]
  BY ConcatProperties
<1>5. ASSUME NEW i \in 1..Len(d) + Len(a)
      PROVE  (d \o a)[i] = (s \o a)[o + i]
  <2>1. o + i \in 1..Len(s) + Len(a)
    BY <1>0, <1>1
  <2>2. CASE i <= Len(d)
    <3>1. o + i <= Len(s) /\ i \in 1..Len(d)
      BY <1>0, <1>1, <2>2
    <3>2. (d \o a)[i] = d[i]
      BY <1>3, <2>2
    <3>3. (s \o a)[o + i] = s[o + i]
      BY <1>4, <2>1, <3>1
    <3> QED
      BY <1>0, <3>1, <3>2, <3>3
  <2>3. CASE ~(i <= Len(d))
    <3>1. ~(o + i <= Len(s)) /\ o + i - Len(s) = i - Len(d)
      BY <1>0, <1>1, <2>3
    <3>2. (d \o a)[i] = a[i - Len(d)]
      BY <1>3, <2>3
    <3>3. (s \o a)[o + i] = a[o + i - Len(s)]
      BY <1>4, <2>1, <3>1
    <3> QED
      BY <3>1, <3>2, <3>3
  <2> QED
    BY <2>2, <2>3
<1>6. \A i \in 1..Len(d \o a) : (d \o a)[i] = (s \o a)[o + i]
  BY <1>2, <1>5
<1>7. Len(s \o a) = o + Len(d \o a)
  BY <1>0, <1>1, <1>2
<1> QED
  BY <1>2, <1>6, <1>7 DEF Shows

LEMMA ReadBlockInv ==
  ASSUME LInv, NEW d \in Documents, NEW n \in 1..size, ReadBlock(d, n)
  PROVE  LInv'
<1> DEFINE last == Least(Len(file) + n, Len(d.start))
           known == SubSeq(d.start, Len(file) + 1, last)
<1>1. /\ d.start \in Seq(Symbols) /\ d.of \subseteq Symbols /\ Len(d.start) \in Nat
      /\ file \in Seq(Symbols) /\ Len(file) \in Nat /\ n \in Nat
  BY SymbolsAssumption, SizesAssumption DEF LInv, TypeOK
<1>2. last \in Nat /\ last <= Len(d.start) /\ last <= Len(file) + n
  BY <1>1 DEF Least
<1>3. known \in Seq(Symbols) /\ Len(known) \in Nat /\ Len(known) <= n
  <2> HIDE DEF last
  <2>1. \A i \in Len(file) + 1..last : d.start[i] \in Symbols
    BY <1>1, <1>2
  <2>2. /\ known \in Seq(Symbols)
        /\ Len(known) = IF Len(file) + 1 <= last THEN last - (Len(file) + 1) + 1 ELSE 0
    BY <1>1, <1>2, <2>1, SubSeqProperties
  <2> HIDE DEF known
  <2> QED
    BY <1>1, <1>2, <2>2
<1> HIDE DEF known, last
<1>4. PICK m \in [1..n - Len(known) -> d.of] :
        block' = known \o m /\ file' = file \o known \o m
  BY DEF ReadBlock, known, last
<1>5. m \in Seq(Symbols)
  <2>1. n - Len(known) \in Nat
    BY <1>1, <1>3
  <2>2. m \in [1..n - Len(known) -> Symbols]
    BY <1>1
  <2> QED
    BY <2>1, <2>2
<1>6. block' \in Seq(Symbols) /\ file' \in Seq(Symbols)
  BY <1>1, <1>3, <1>4, <1>5, ConcatProperties
<1>7. /\ UNCHANGED <<size, stop, input, index, lines, id, pc>> /\ UNCHANGED bufferVars
      /\ UNCHANGED lineVars /\ UNCHANGED skipVars /\ UNCHANGED typeVars
  BY DEF ReadBlock
<1>8. TypeOK'
  BY <1>6, <1>7 DEF LInv, TypeOK, bufferVars, lineVars, skipVars, typeVars
<1>9. Place'
  BY <1>7 DEF LInv, Place, bufferVars, skipVars, typeVars
<1> QED
  BY <1>7, <1>8, <1>9, WindowStays DEF LInv

LEMMA CallInv ==
  ASSUME LInv, Call
  PROVE  LInv'
<1>1. PICK n \in 1..Len(block) :
        /\ block' = SubSeq(block, n + 1, Len(block))
        /\ IF id = "NOTDSC" THEN UNCHANGED <<input, id, pc>>
           ELSE input' = SubSeq(block, 1, n) /\ id' = "OK" /\ pc' = "append"
  BY DEF Call
<1>2. block \in Seq(Symbols) /\ Len(block) \in Nat /\ n \in Nat /\ n <= Len(block)
  BY DEF LInv, TypeOK
<1>3. block' \in Seq(Symbols) /\ SubSeq(block, 1, n) \in Seq(Symbols)
  <2>1. \A i \in n + 1..Len(block) : block[i] \in Symbols
    BY <1>2
  <2>2. \A i \in 1..n : block[i] \in Symbols
    BY <1>2
  <2>3. n + 1 \in Int /\ Len(block) \in Int /\ 1 \in Int /\ n \in Int
    BY <1>2
  <2>4. SubSeq(block, n + 1, Len(block)) \in Seq(Symbols)
    BY <2>1, <2>3, SubSeqProperties
  <2>5. SubSeq(block, 1, n) \in Seq(Symbols)
    BY <2>2, <2>3, SubSeqProperties
  <2> QED
    BY <1>1, <2>4, <2>5
<1>4. /\ UNCHANGED <<file, size, stop, index, lines>> /\ UNCHANGED bufferVars
      /\ UNCHANGED lineVars /\ UNCHANGED skipVars /\ UNCHANGED typeVars
  BY DEF Call
<1>5. /\ input' \in Seq(Symbols) /\ id' \in {"OK", "PSADOBE", "PAGE", "NOTDSC"}
      /\ pc' \in {"handler", "append"}
  <2>1. /\ input \in Seq(Symbols) /\ id \in {"OK", "PSADOBE", "PAGE", "NOTDSC"}
        /\ pc = "handler"
    BY DEF LInv, TypeOK, Call
  <2> QED
    BY <1>1, <1>3, <2>1
<1>6. TypeOK'
  BY <1>3, <1>4, <1>5 DEF LInv, TypeOK, bufferVars, lineVars, skipVars, typeVars
<1>7. Place'
  BY <1>4, <1>5 DEF LInv, Place, bufferVars, skipVars, typeVars
<1> QED
  BY <1>4, <1>6, <1>7, WindowStays DEF LInv

\* Moving what is left in the buffer, and appending to it.
LEMMA AppendInv ==
  ASSUME LInv, AppendData
  PROVE  /\ LInv' /\ Appended \in Seq(Symbols) /\ seen' = seen \o Appended
         /\ offset' + index' = offset + index /\ seen' \in Seq(Symbols)
<1> DEFINE free == N - Len(Kept)
           k == Least(Len(input), free)
<1>1. /\ index \in Nat /\ offset \in Nat /\ data \in Seq(Symbols) /\ seen \in Seq(Symbols)
      /\ Len(data) \in Nat /\ Len(data) <= N /\ Len(seen) = offset + Len(data)
      /\ input \in Seq(Symbols) /\ Len(input) \in Nat /\ N \in Nat /\ index <= Len(data)
  BY Types, Constant DEF AppendData
<1>2. /\ Kept \in Seq(Symbols) /\ Len(Kept) \in Nat /\ Len(Kept) <= N
      /\ offset' \in Nat /\ index' \in Nat /\ index' <= Len(Kept)
      /\ Len(seen) = offset' + Len(Kept) /\ offset' + index' = offset + index
      /\ \A i \in 1..Len(Kept) : Kept[i] = seen[offset' + i]
  <2>1. CASE Len(data) > Half
    <3>1. Kept = Unread /\ index' = 0 /\ offset' = offset + index
      BY <2>1 DEF Kept, Unread, AppendData
    <3>2. /\ Unread \in Seq(Symbols) /\ Len(Unread) = Len(data) - index
          /\ \A i \in 1..Len(Unread) : Unread[i] = seen[offset + index + i]
      BY <1>1, UnreadIs
    <3> HIDE DEF Unread
    <3>3. Len(Kept) = Len(data) - index /\ Kept \in Seq(Symbols)
      BY <3>1, <3>2
    <3>4. Len(Kept) \in Nat /\ Len(Kept) <= N /\ Len(seen) = offset' + Len(Kept)
      BY <1>1, <3>1, <3>3
    <3> QED
      BY <1>1, <3>1, <3>2, <3>3, <3>4
  <2>2. CASE ~(Len(data) > Half)
    <3>1. Kept = data /\ index' = index /\ offset' = offset
      BY <2>2 DEF Kept, AppendData
    <3> QED
      BY <1>1, <3>1 DEF LInv, Window
  <2> QED
    BY <2>1, <2>2
<1>3. k \in Nat /\ k <= Len(input) /\ Len(Kept) + k <= N
  BY <1>1, <1>2 DEF Least
<1> HIDE DEF k
<1>4. Appended \in Seq(Symbols) /\ Len(Appended) = k
  <2>1. \A i \in 1..k : input[i] \in Symbols
    BY <1>1, <1>3
  <2>2. /\ Appended \in Seq(Symbols) /\ Len(Appended) = IF 1 <= k THEN k - 1 + 1 ELSE 0
    BY <1>3, <2>1, SubSeqProperties DEF Appended, k
  <2> QED
    BY <1>3, <2>2
<1>5. /\ data' = Kept \o Appended /\ seen' = seen \o Appended
      /\ input' = SubSeq(input, Len(Appended) + 1, Len(input))
  BY DEF AppendData
<1> HIDE DEF Kept, Appended
<1>6. /\ data' \in Seq(Symbols) /\ Len(data') = Len(Kept) + k /\ seen' \in Seq(Symbols)
      /\ Window'
  <2>1. /\ seen \o Appended \in Seq(Symbols) /\ Kept \o Appended \in Seq(Symbols)
        /\ Len(Kept \o Appended) = Len(Kept) + Len(Appended)
        /\ Shows(seen \o Appended, Kept \o Appended, offset')
    <3>1. /\ seen \in Seq(Symbols) /\ Kept \in Seq(Symbols) /\ Appended \in Seq(Symbols)
          /\ offset' \in Nat /\ Shows(seen, Kept, offset')
      BY <1>1, <1>2, <1>4 DEF Shows
    <3> QED
      BY <3>1, WindowGrows
  <2> QED
    BY <1>4, <1>5, <2>1 DEF Window, Shows
<1>8. /\ Len(Kept) \in Nat /\ k \in Nat /\ Len(Kept) + k <= N
      /\ index' \in Nat /\ index' <= Len(Kept)
  BY <1>2, <1>3
<1>9. Len(data') = Len(Kept) + k
  BY <1>6
<1>11. input' \in Seq(Symbols)
  <2>1. \A i \in Len(Appended) + 1..Len(input) : input[i] \in Symbols
    BY <1>1, <1>3, <1>4
  <2>2. Len(Appended) + 1 \in Int /\ Len(input) \in Int
    BY <1>1, <1>3, <1>4
  <2> QED
    BY <1>5, <2>1, <2>2, SubSeqProperties
<1>12. Len(data') \in Nat /\ Len(data') <= N /\ index' <= Len(data') /\ index' \in 0..Word-1
  BY <1>8, <1>9, Constant
<1>13. TypeOK'
  BY <1>2, <1>6, <1>11, <1>12 DEF LInv, TypeOK, AppendData, clientVars, lineVars, skipVars,
     typeVars
<1>14. Place'
  BY <1>12 DEF LInv, Place, AppendData, typeVars, skipVars
<1> QED
  BY <1>2, <1>4, <1>5, <1>6, <1>13, <1>14 DEF LInv

-----------------------------------------------------------------------------
(* The steps of dsc_scan_type: the reader finds where PostScript begins. *)

Ids == {"OK", "PSADOBE", "PAGE", "NOTDSC"}

LEMMA EndsLater ==
  ASSUME LInv, offset' = offset, index' \in Nat, index <= index', doseps => doseps'
  PROVE  Reader!Ending
<1>1. index \in Nat /\ offset \in Nat /\ PsEnd \in Nat
  BY Types, Constant
<1>2. ASSUME offset + index > PsEnd
      PROVE  offset + index' > PsEnd
  <2> DEFINE j == index'
  <2>1. j \in Nat /\ index <= j
    OBVIOUS
  <2> HIDE DEF j
  <2>2. offset + j > PsEnd
    BY <1>1, <1>2, <2>1
  <2> QED
    BY <2>2, Zenon DEF j
<1>3. Over => Over'
  BY <1>2, Zenon DEF Over
<1>4. Over \in BOOLEAN /\ Over' \in BOOLEAN
  BY DEF Over
<1> QED
  BY <1>3, <1>4, Zenon DEF Reader!Ending

LEMMA TypeStep ==
  ASSUME LInv, pc = "type", UNCHANGED bufferVars, UNCHANGED lineVars,
         UNCHANGED <<file, size, block, skip_lines, skip_document, lines>>,
         index' \in Nat, index <= index', index' <= Len(data), skip_bytes' \in Int,
         stop' \in BOOLEAN, input' \in Seq(Symbols), id' \in Ids,
         typed' \in BOOLEAN, ctrld' \in BOOLEAN, pjl' \in BOOLEAN, skip_pjl' \in BOOLEAN,
         doseps' \in BOOLEAN, doseps => doseps',
         pc' \in {"handler", "type", "first", "lines"},
         IF typed' THEN pc' = "lines" ELSE pc' # "lines"
  PROVE  LInv' /\ Reader!Begin
<1>1. ~typed
  BY DEF LInv, Place
<1>2. index' \in 0..Word-1
  BY Types, Constant
<1>3. TypeOK'
  BY <1>2 DEF LInv, TypeOK, bufferVars, lineVars, Ids
<1>4. Place'
  BY <1>1 DEF LInv, Place, bufferVars
<1>5. LInv'
  BY <1>3, <1>4, WindowStays DEF LInv
<1>6. Reader!Ending
  BY EndsLater DEF bufferVars
<1>7. (offset + index)' \in offset + index..Len(seen)
  BY Types DEF bufferVars
<1>8. Reader!Begin
  BY <1>1, <1>6, <1>7 DEF Reader!Begin, bufferVars, lineVars
<1> QED
  BY <1>5, <1>8

LEMMA StartIs ==
  ASSUME LInv, pc = "type"
  PROVE  /\ index \in Nat /\ Len(data) \in Nat /\ index <= Len(data)
         /\ Ctrl \in {0, 1} /\ Len(Start) \in Nat /\ index + Ctrl + Len(Start) = Len(data)
<1>1. index \in Nat /\ Len(data) \in Nat /\ index <= Len(data)
  BY Types DEF LInv, Place
<1>2. Unread \in Seq(Symbols) /\ Len(Unread) = Len(data) - index
  BY <1>1, UnreadIs
<1>3. Ctrl \in {0, 1} /\ Ctrl <= Len(Unread)
  <2>1. Unread # <<>> => Len(Unread) >= 1
    BY <1>2
  <2> HIDE DEF Unread
  <2> QED
    BY <1>1, <1>2, <2>1 DEF Ctrl
<1>4. Len(Start) = IF 1 + Ctrl <= Len(Unread) THEN Len(Unread) - (1 + Ctrl) + 1 ELSE 0
  <2>1. \A i \in 1 + Ctrl..Len(Unread) : Unread[i] \in Symbols
    BY <1>2, <1>3
  <2>2. 1 + Ctrl \in Int /\ Len(Unread) \in Int
    BY <1>1, <1>2, <1>3
  <2> QED
    BY <2>1, <2>2, SubSeqProperties DEF Start
<1> DEFINE u == Len(Unread)
           t == Len(Start)
<1>5. u = Len(data) - index /\ Ctrl <= u /\ t = IF 1 + Ctrl <= u THEN u - (1 + Ctrl) + 1 ELSE 0
  BY <1>2, <1>3, <1>4
<1>6. u \in Nat
  BY <1>2
<1> HIDE DEF u, t
<1>7. ASSUME Ctrl = 0 PROVE t = u - Ctrl
  BY <1>5, <1>6, <1>7
<1>8. ASSUME Ctrl = 1 PROVE t = u - Ctrl
  BY <1>5, <1>6, <1>8
<1>9. t \in Nat /\ index + Ctrl + t = Len(data)
  <2>1. t = u - Ctrl /\ Ctrl \in Nat /\ Ctrl <= u /\ u = Len(data) - index
    BY <1>3, <1>5, <1>7, <1>8
  <2> QED
    BY <1>1, <1>6, <2>1
<1> QED
  BY <1>1, <1>3, <1>9 DEF t

LEMMA Within ==
  ASSUME NEW i \in Nat, NEW c \in Nat, NEW t \in Nat, NEW d \in Nat, i + c + t = d,
         NEW h \in Nat, h <= t
  PROVE  i + c + h \in Nat /\ i <= i + c + h /\ i + c + h <= d
OBVIOUS

LEMMA TypingStep ==
  ASSUME LInv, Typing
  PROVE  LInv' /\ Reader!Begin
<1>0. /\ pc = "type"
      /\ stop \in BOOLEAN /\ input \in Seq(Symbols) /\ id \in Ids /\ skip_bytes \in Int
      /\ typed \in BOOLEAN /\ ctrld \in BOOLEAN /\ pjl \in BOOLEAN /\ skip_pjl \in BOOLEAN
      /\ doseps \in BOOLEAN /\ ~typed
  <2>1. pc = "type"
    BY DEF Typing, SkipPjlMore, SkipPjlEnd, ScanType, TypeMore, TypePjl, TypeDosEps, TypePdf,
           TypeByLine
  <2> QED
    BY <2>1 DEF LInv, TypeOK, Place, Ids
<1>1. /\ index \in Nat /\ Len(data) \in Nat /\ index <= Len(data)
      /\ Ctrl \in {0, 1} /\ Ctrl \in Nat /\ Len(Start) \in Nat /\ index + Ctrl + Len(Start) = Len(data)
  BY <1>0, StartIs
<1>2. ASSUME NEW i \in Nat, NeedMore(i), index <= i, i <= Len(data),
             UNCHANGED <<typed, pjl, skip_pjl, doseps>>, ctrld' \in BOOLEAN
      PROVE  LInv' /\ Reader!Begin
  <2>1. /\ index' = i /\ UNCHANGED bufferVars /\ UNCHANGED lineVars
        /\ UNCHANGED skipVars /\ UNCHANGED lines
        /\ UNCHANGED <<file, size, block>> /\ stop' \in BOOLEAN
        /\ input' \in Seq(Symbols) /\ id' \in Ids /\ pc' = "handler"
    BY <1>2, ReturnType DEF NeedMore, Ids
  <2> QED
    BY <1>0, <1>2, <2>1, TypeStep DEF skipVars
<1>3. ScanType => ctrld' \in BOOLEAN /\ ~skip_pjl
  BY DEF ScanType
<1>4. CASE SkipPjlMore
  <2>1. UNCHANGED <<typed, pjl, skip_pjl, doseps>> /\ ctrld' \in BOOLEAN
    BY <1>0, <1>4 DEF SkipPjlMore, typeVars
  <2>2. Len(Unread) = Len(data) - index
    BY <1>1, UnreadIs
  <2>3. CASE NeedMore(index)
    BY <1>1, <1>2, <2>1, <2>3
  <2>4. CASE NeedMore(Len(data))
    BY <1>1, <1>2, <2>1, <2>4
  <2>5. CASE Len(Unread) >= 2 /\ NeedMore(Len(data) - 1)
    <3>1. Len(data) - 1 \in Nat /\ index <= Len(data) - 1 /\ Len(data) - 1 <= Len(data)
      BY <1>1, <2>2, <2>5
    <3> QED
      BY <1>2, <2>1, <2>5, <3>1
  <2>6. CASE \E r \in 1..Len(Unread)-1 : NeedMore(index + r)
    <3>1. PICK r \in 1..Len(Unread)-1 : NeedMore(index + r)
      BY <2>6
    <3>2. index + r \in Nat /\ index <= index + r /\ index + r <= Len(data)
      BY <1>1, <2>2
    <3> QED
      BY <1>2, <2>1, <3>1, <3>2
  <2> QED
    BY <1>4, <2>3, <2>4, <2>5, <2>6 DEF SkipPjlMore
<1>5. CASE SkipPjlEnd
  <2>1. Len(Unread) = Len(data) - index
    BY <1>1, UnreadIs
  <2>2. PICK r \in 1..Len(Unread)-1 : index' = index + r
    BY <1>5 DEF SkipPjlEnd
  <2>3. index' \in Nat /\ index <= index' /\ index' <= Len(data)
    BY <1>1, <2>1, <2>2
  <2> QED
    BY <1>0, <1>5, <2>3, TypeStep DEF SkipPjlEnd, clientVars, skipVars
<1>6. CASE TypeMore
  <2>1. index + Ctrl \in Nat /\ index <= index + Ctrl /\ index + Ctrl <= Len(data)
    BY <1>1
  <2> QED
    BY <1>2, <1>3, <1>6, <2>1 DEF TypeMore
<1>7. CASE TypePjl
  <2>1. UelLength \in Nat /\ UelLength <= Len(Start)
    <3>1. TypeNeeds <= Len(Start) /\ Start # <<>> /\ Start[1] = "ESC"
      BY <1>1, <1>7, Constant, EmptySeq DEF TypePjl, TypeNeeds, IsUel
    <3>2. TypeNeeds = UelLength
      BY <3>1, Zenon DEF TypeNeeds
    <3> QED
      BY <3>1, <3>2, Constant
  <2>2. index' \in Nat /\ index <= index' /\ index' <= Len(data)
    <3>1. /\ index + Ctrl + UelLength \in Nat /\ index <= index + Ctrl + UelLength
          /\ index + Ctrl + UelLength <= Len(data)
      BY <1>1, <2>1, Within
    <3>2. index' = index + Ctrl + UelLength
      BY <1>7 DEF TypePjl
    <3> QED
      BY <3>1, <3>2
  <2> QED
    BY <1>0, <1>3, <1>7, <2>2, TypeStep DEF TypePjl, clientVars, skipVars
<1>8. CASE TypeDosEps
  <2>1. HeaderLength \in Nat /\ HeaderLength <= Len(Start)
    <3>1. TypeNeeds <= Len(Start) /\ Start # <<>> /\ Start[1] = "C5D0D3C6"
      BY <1>1, <1>8, Constant, EmptySeq DEF TypeDosEps, TypeNeeds
    <3>2. TypeNeeds = HeaderLength
      BY <3>1, Zenon DEF TypeNeeds
    <3> QED
      BY <3>1, <3>2, Constant
  <2>2. index' \in Nat /\ index <= index' /\ index' <= Len(data)
    <3>1. /\ index + Ctrl + HeaderLength \in Nat /\ index <= index + Ctrl + HeaderLength
          /\ index + Ctrl + HeaderLength <= Len(data)
      BY <1>1, <2>1, Within
    <3>2. index' = index + Ctrl + HeaderLength
      BY <1>8 DEF TypeDosEps
    <3> QED
      BY <3>1, <3>2
  <2>3. skip_bytes' \in Int
    BY <1>8, Constant DEF TypeDosEps
  <2> QED
    BY <1>0, <1>3, <1>8, <2>2, <2>3, TypeStep DEF TypeDosEps, Goto, clientVars, skipVars
<1>9. CASE TypePdf
  <2>1. index' \in Nat /\ index <= index' /\ index' <= Len(data)
    BY <1>1, <1>9 DEF TypePdf
  <2> QED
    BY <1>0, <1>3, <1>9, <2>1, TypeStep DEF TypePdf, Goto, clientVars, skipVars
<1>10. CASE TypeByLine
  <2>1. index' \in Nat /\ index <= index' /\ index' <= Len(data)
    BY <1>1, <1>10 DEF TypeByLine
  <2> QED
    BY <1>0, <1>3, <1>10, <2>1, TypeStep DEF TypeByLine, Goto, clientVars, skipVars
<1> QED
  BY <1>4, <1>5, <1>6, <1>7, <1>8, <1>9, <1>10 DEF Typing

-----------------------------------------------------------------------------
(* The steps of dsc_read_line. *)

LineRecord == [from : Nat, to : Nat, scanned : BOOLEAN]

LEMMA NoLineType ==
  ASSUME LInv, Reading, NoLine
  PROVE  /\ UNCHANGED <<file, size, block>> /\ stop' \in BOOLEAN
         /\ input' \in Seq(Symbols) /\ id' \in Ids /\ pc' \in {"handler", "append"}
<1>1. /\ stop \in BOOLEAN /\ input \in Seq(Symbols) /\ id \in Ids
  BY DEF LInv, TypeOK, Ids
<1>2. ASSUME NEW i, i \in Ids, Return(i)
      PROVE  /\ UNCHANGED <<file, size, block>> /\ stop' \in BOOLEAN
             /\ input' \in Seq(Symbols) /\ id' \in Ids /\ pc' \in {"handler", "append"}
  BY <1>2, ReturnType DEF Ids
<1>3. "OK" \in Ids
  BY DEF Ids
<1> QED
  BY <1>1, <1>2, <1>3, Zenon DEF NoLine, Goto, clientVars

LEMMA ReadingStep ==
  ASSUME LInv, UNCHANGED bufferVars, UNCHANGED <<file, size, block>>,
         index' \in 0..Word-1, index' <= Len(data) \/ skip_bytes' = 0,
         eol' \in BOOLEAN, last_cr' \in BOOLEAN,
         skip_bytes' \in Int, skip_lines' \in Int, skip_document' \in Nat,
         lines' \in Seq(LineRecord), stop' \in BOOLEAN, input' \in Seq(Symbols), id' \in Ids,
         typed' \in BOOLEAN, UNCHANGED <<ctrld, pjl, skip_pjl, doseps>>,
         pc' \in {"handler", "append", "first", "lines"},
         pc' = "first" => ~typed', pc' = "lines" => typed', ~typed' => skip_lines' = 0
  PROVE  LInv'
<1>1. TypeOK'
  BY DEF LInv, TypeOK, bufferVars, Ids, LineRecord
<1>2. Place'
  BY DEF LInv, Place, bufferVars
<1> QED
  BY <1>1, <1>2, WindowStays DEF LInv

LEMMA ReadingType ==
  ASSUME LInv, Reading
  PROVE  /\ eol \in BOOLEAN /\ last_cr \in BOOLEAN /\ skip_document \in Nat
         /\ lines \in Seq(LineRecord) /\ typed \in BOOLEAN /\ doseps \in BOOLEAN
         /\ skip_lines \in Int /\ skip_bytes \in Int /\ SkipsLeft \in Int
         /\ stop \in BOOLEAN /\ input \in Seq(Symbols) /\ id \in Ids
         /\ pc \in {"first", "lines"} /\ (pc = "first" <=> ~typed)
         /\ index \in 0..Word-1 /\ (index <= Len(data) \/ skip_bytes = 0)
         /\ (pc = "first" => skip_lines = 0 /\ SkipsLeft = 0)
BY DEF LInv, TypeOK, Place, Reading, LineRecord, Ids, SkipsLeft

ReaderStep == Reader!Next \/ UNCHANGED Reader!vars

LEMMA ReaderStays ==
  ASSUME UNCHANGED <<seen, offset, index, typed, doseps, lines, last_cr, eol>>,
         UNCHANGED skipVars
  PROVE  UNCHANGED Reader!vars
BY DEF Reader!vars, Over, skipVars

LEMMA ReaderReading ==
  Reader!Begin \/ Reader!DropLf \/ Reader!Skip \/ Reader!Derail \/ Reader!Read => ReaderStep
BY DEF ReaderStep, Reader!Next

LEMMA ModRange ==
  ASSUME NEW a \in Int, NEW w \in Nat, w > 0
  PROVE  a % w \in 0..w-1
OBVIOUS

LEMMA SkipBytesStep ==
  ASSUME LInv, SkipBytes
  PROVE  LInv' /\ ReaderStep
<1> DEFINE n == Least(skip_bytes, Len(data) - index)
<1>1. /\ Reading /\ skip_bytes # 0 /\ skip_bytes' = skip_bytes - n
      /\ index' = (index + n) % Word
      /\ UNCHANGED bufferVars /\ UNCHANGED lineVars /\ UNCHANGED typeVars
      /\ UNCHANGED <<skip_lines, skip_document, lines>>
      /\ IF skip_bytes' # 0 THEN NoLine ELSE Goto(pc)
  BY DEF SkipBytes
<1>2. /\ index \in Nat /\ index <= Len(data) /\ Len(data) \in Nat /\ Len(data) < Word
      /\ skip_bytes \in Int /\ Word \in Nat /\ offset \in Nat /\ Len(seen) = offset + Len(data)
  BY <1>1, Types, Constant, ReadingType
<1>3. n \in Int /\ n = IF skip_bytes <= Len(data) - index THEN skip_bytes ELSE Len(data) - index
  BY <1>2 DEF Least
<1> HIDE DEF n
<1>4. index' \in 0..Word-1
  <2>1. index + n \in Int /\ Word > 0
    BY <1>2, <1>3
  <2>2. (index + n) % Word \in 0..Word-1
    BY <1>2, <2>1, ModRange
  <2> QED
    BY <1>1, <2>2
<1>5. /\ UNCHANGED <<file, size, block>> /\ stop' \in BOOLEAN /\ input' \in Seq(Symbols)
      /\ id' \in Ids /\ pc' \in {"handler", "append", pc}
  BY <1>1, NoLineType, ReadingType DEF Goto, clientVars
<1>6. CASE skip_bytes < 0
  <2>1. n = skip_bytes
    BY <1>2, <1>3, <1>6
  <2>2. skip_bytes' = 0
    BY <1>1, <1>2, <2>1
  <2>3. LInv'
    BY <1>1, <1>4, <1>5, <2>2, ReadingType, ReadingStep DEF lineVars, typeVars
  <2>4. (offset + index)' \in Nat
    BY <1>1, <1>2, <1>4 DEF bufferVars
  <2>5. Over' \in BOOLEAN
    BY DEF Over
  <2>6. Reader!Derail
    BY <1>1, <1>6, <2>2, <2>4, <2>5 DEF Reader!Derail, bufferVars, lineVars, typeVars
  <2> QED
    BY <2>3, <2>6, ReaderReading
<1>7. CASE skip_bytes > 0
  <2>1. n \in Nat /\ n <= skip_bytes /\ index + n \in Nat /\ index + n <= Len(data)
    BY <1>2, <1>3, <1>7
  <2>2. index' = index + n
    BY <1>1, <1>2, <2>1
  <2>3. skip_bytes' \in Int /\ index' <= Len(data)
    BY <1>1, <1>2, <2>1, <2>2
  <2>4. LInv'
    <3>1. /\ eol' \in BOOLEAN /\ last_cr' \in BOOLEAN /\ skip_lines' \in Int
          /\ skip_document' \in Nat /\ lines' \in Seq(LineRecord) /\ typed' \in BOOLEAN
          /\ pc' = "first" => ~typed'
          /\ pc' = "lines" => typed'
          /\ ~typed' => skip_lines' = 0
      BY <1>1, <1>5, ReadingType DEF lineVars, typeVars
    <3>2. /\ UNCHANGED bufferVars /\ UNCHANGED <<ctrld, pjl, skip_pjl, doseps>>
          /\ pc' \in {"handler", "append", "first", "lines"}
      BY <1>1, <1>5, ReadingType DEF typeVars
    <3> QED
      BY <1>4, <1>5, <2>3, <3>1, <3>2, ReadingStep
  <2>5. CASE n = 0
    <3>1. index' = index /\ skip_bytes' = skip_bytes
      BY <1>1, <1>2, <2>2, <2>5
    <3> QED
      BY <1>1, <2>4, <3>1, ReaderStays
      DEF ReaderStep, bufferVars, lineVars, typeVars, skipVars
  <2>6. CASE n # 0
    <3>1. n \in 1..skip_bytes /\ offset + index + n <= Len(seen)
      BY <1>2, <2>1, <2>6
    <3>2. offset + (index + n) = offset + index + n
      BY <1>2, <2>1
    <3>3. (offset + index)' = offset + index + n
      BY <1>1, <2>2, <3>2 DEF bufferVars
    <3>4. index + n \in Nat /\ index <= index + n
      BY <1>2, <2>1
    <3>5. Reader!Ending
      BY <1>1, <2>2, <3>4, EndsLater DEF bufferVars, typeVars
    <3>6. Reader!Skip
      BY <1>1, <3>1, <3>3, <3>5 DEF Reader!Skip, bufferVars, lineVars, typeVars
    <3> QED
      BY <2>4, <3>6, ReaderReading
  <2> QED
    BY <2>5, <2>6
<1> QED
  BY <1>1, <1>2, <1>6, <1>7

LEMMA ExhaustedStep ==
  ASSUME LInv, Exhausted
  PROVE  LInv' /\ ReaderStep
<1>1. /\ Reading /\ NoLine /\ UNCHANGED bufferVars /\ UNCHANGED lineVars
      /\ UNCHANGED typeVars /\ UNCHANGED skipVars /\ UNCHANGED <<index, lines>>
  BY DEF Exhausted
<1>2. LInv'
  BY <1>1, NoLineType, ReadingType, ReadingStep DEF lineVars, typeVars, skipVars
<1> QED
  BY <1>1, <1>2, ReaderStays DEF ReaderStep, bufferVars, lineVars, typeVars

LEMMA IncompleteStep ==
  ASSUME LInv, Incomplete
  PROVE  LInv' /\ ReaderStep
<1>1. /\ Reading /\ skip_bytes = 0 /\ Unread # <<>> /\ NoLine /\ UNCHANGED bufferVars
      /\ UNCHANGED typeVars /\ UNCHANGED <<skip_bytes, skip_document, lines>>
      /\ index' = index + Lf /\ last_cr' = FALSE /\ eol' = FALSE /\ skip_lines' = SkipsLeft
  BY DEF Incomplete
<1>2. /\ Lf \in {0, 1} /\ index < Len(data)
      /\ Lf = IF last_cr /\ seen[offset + index + 1] = "LF" THEN 1 ELSE 0
  BY <1>1, TextIs
<1>3. /\ index \in Nat /\ offset \in Nat /\ Len(data) \in Nat /\ Len(data) < Word
      /\ Len(seen) = offset + Len(data) /\ Word \in Nat
  BY Types, Constant
<1> HIDE DEF Lf
<1>4. index + Lf \in 0..Word-1 /\ index <= index + Lf /\ index + Lf <= Len(data)
  BY <1>2, <1>3
<1>5. LInv'
  BY <1>1, <1>4, NoLineType, ReadingType, ReadingStep DEF typeVars
<1>6. Reader!Ending
  <2>1. index' \in Nat /\ index <= index'
    BY <1>1, <1>4
  <2> QED
    BY <1>1, <2>1, EndsLater DEF bufferVars, typeVars
<1>7. SkipsLeft' = SkipsLeft
  BY <1>1 DEF SkipsLeft
<1>8. CASE last_cr
  <2>1. offset + index < Len(seen) /\ offset + (index + 1) = offset + index + 1
    BY <1>2, <1>3
  <2>2. (offset + index)' = IF seen[offset + index + 1] = "LF" THEN offset + index + 1
                            ELSE offset + index
    <3>1. CASE seen[offset + index + 1] = "LF"
      <4>1. Lf = 1
        BY <1>2, <1>8, <3>1
      <4> QED
        BY <1>1, <2>1, <3>1, <4>1 DEF bufferVars
    <3>2. CASE seen[offset + index + 1] # "LF"
      <4>1. Lf = 0 /\ index + 0 = index
        BY <1>2, <1>3, <1>8, <3>2
      <4> QED
        BY <1>1, <3>2, <4>1 DEF bufferVars
    <3> QED
      BY <3>1, <3>2
  <2>3. Reader!DropLf
    BY <1>1, <1>6, <1>7, <1>8, <2>1, <2>2
    DEF Reader!DropLf, SkipsLeft, bufferVars, typeVars
  <2> QED
    BY <1>5, <2>3, ReaderReading
<1>9. CASE ~last_cr
  <2>1. Lf = 0 /\ index + 0 = index
    BY <1>2, <1>3, <1>9
  <2>2. index' = index /\ last_cr' = last_cr
    BY <1>1, <1>9, <2>1, ReadingType
  <2>3. UNCHANGED Reader!vars
    BY <1>1, <1>7, <2>2 DEF Reader!vars, SkipsLeft, Over, bufferVars, typeVars
  <2> QED
    BY <1>5, <2>3 DEF ReaderStep
<1> QED
  BY <1>8, <1>9

From == offset + index + Lf

LEMMA TakeFacts ==
  ASSUME LInv, NEW n \in 1..Len(Text), Take(n), UNCHANGED doseps
  PROVE  /\ From \in Nat /\ From + n \in Nat /\ From + n \in From+1..Len(seen)
         /\ Text[1] = seen[From + 1] /\ Text[n] = seen[From + n]
         /\ index' \in 0..Word-1 /\ index' <= Len(data) /\ (offset + index)' = From + n
         /\ eol' \in BOOLEAN /\ last_cr' \in BOOLEAN /\ last_cr' = (seen[From + n] = "CR")
         /\ eol' = Reader!Complete(From, From + n) /\ Reader!Line(From, From + n)
         /\ From = IF last_cr /\ offset + index < Len(seen) /\ seen[offset + index + 1] = "LF"
                   THEN offset + index + 1 ELSE offset + index
         /\ Reader!Ending /\ Reading /\ skip_bytes = 0 /\ UNCHANGED bufferVars
<1>1. /\ Reading /\ skip_bytes = 0 /\ LineLength(Text, n) /\ index' = index + Lf + n
      /\ last_cr' = (Text[n] = "CR") /\ eol' = (Text[n] \in Eol \/ CtrlZ(Text, n))
      /\ UNCHANGED bufferVars
  BY DEF Take
<1>2. /\ From \in Nat /\ From + n \in Nat /\ From < From + n /\ From + n <= Len(seen)
      /\ index + Lf + n \in Nat /\ index + Lf + n <= Len(data)
      /\ Text[1] = seen[From + 1] /\ Text[n] = seen[From + n]
      /\ Reader!Line(From, From + n)
      /\ Reader!Complete(From, From + n) <=> (Text[n] \in Eol \/ CtrlZ(Text, n))
  BY <1>1, TakenLine DEF From
<1>3. Unread # <<>>
  <2>1. Len(Text) = 0 => FALSE
    OBVIOUS
  <2> QED
    BY <2>1, NoText, EmptySeq
<1>4. /\ Lf \in {0, 1} /\ index < Len(data)
      /\ Lf = IF last_cr /\ seen[offset + index + 1] = "LF" THEN 1 ELSE 0
  BY <1>3, TextIs
<1>5. /\ index \in Nat /\ offset \in Nat /\ Len(data) \in Nat /\ Len(data) < Word
      /\ Len(seen) = offset + Len(data) /\ Word \in Nat /\ Len(seen) \in Nat
  BY Types, Constant
<1> DEFINE t == Len(Text)
<1>6. n \in Nat /\ n >= 1
  <2>1. t \in Nat
    BY <1>3, TextIs
  <2> HIDE DEF t
  <2>2. n \in 1..t
    BY DEF t
  <2> QED
    BY <2>1, <2>2
<1> HIDE DEF Lf
<1>7. index + Lf + n \in 0..Word-1 /\ index <= index + Lf + n
      /\ offset + (index + Lf + n) = offset + index + Lf + n
  BY <1>2, <1>4, <1>5, <1>6
<1>8. (offset + index)' = From + n
  BY <1>1, <1>7 DEF From, bufferVars
<1>9. Reader!Ending
  <2>1. index' \in Nat /\ index <= index'
    BY <1>1, <1>2, <1>7
  <2> QED
    BY <1>1, <2>1, EndsLater DEF bufferVars
<1>10. From = IF last_cr /\ offset + index < Len(seen) /\ seen[offset + index + 1] = "LF"
              THEN offset + index + 1 ELSE offset + index
  <2>1. offset + index < Len(seen) /\ offset + index + 0 = offset + index
    BY <1>4, <1>5
  <2> QED
    BY <1>4, <2>1 DEF From
<1>11. eol' = Reader!Complete(From, From + n)
  BY <1>1, <1>2 DEF Reader!Complete
<1>12. From + n \in From+1..Len(seen)
  BY <1>2, <1>5, <1>6
<1>13. index' \in 0..Word-1 /\ index' <= Len(data)
  BY <1>1, <1>2, <1>7
<1>14. /\ eol' \in BOOLEAN /\ last_cr' \in BOOLEAN
  BY <1>1
<1>15. last_cr' = (seen[From + n] = "CR")
  BY <1>1, <1>2
<1> QED
  BY <1>1, <1>2, <1>8, <1>9, <1>10, <1>11, <1>12, <1>13, <1>14, <1>15

LEMMA ReadsLine ==
  ASSUME LInv, NEW n \in 1..Len(Text), Take(n), UNCHANGED doseps, typed' = TRUE,
         Reader!Deliver(From, From + n) \/ Reader!SkipLine(From, From + n)
  PROVE  ReaderStep
<1>1. /\ From + n \in From+1..Len(seen) /\ (offset + index)' = From + n
      /\ last_cr' = (seen[From + n] = "CR") /\ Reader!Line(From, From + n)
      /\ From = IF last_cr /\ offset + index < Len(seen) /\ seen[offset + index + 1] = "LF"
                THEN offset + index + 1 ELSE offset + index
      /\ Reader!Ending /\ skip_bytes = 0 /\ UNCHANGED bufferVars
  BY TakeFacts
<1> HIDE DEF From
<1>2. seen' = seen
  BY <1>1 DEF bufferVars
<1>3. Reader!Read
  BY <1>1, <1>2, Zenon DEF Reader!Read
<1> QED
  BY <1>3, ReaderReading

LEMMA SkipLineStep ==
  ASSUME LInv, SkipLine
  PROVE  LInv' /\ ReaderStep
<1>1. PICK n \in 1..Len(Text) : Take(n)
  BY DEF SkipLine
<1>2. /\ SkipsLeft # 0 /\ skip_lines' = SkipsLeft /\ Goto(pc)
      /\ UNCHANGED <<skip_bytes, skip_document, lines>> /\ UNCHANGED typeVars
  BY DEF SkipLine
<1>3. /\ index' \in 0..Word-1 /\ index' <= Len(data) /\ eol' \in BOOLEAN /\ last_cr' \in BOOLEAN
      /\ eol' = Reader!Complete(From, From + n) /\ Reading /\ UNCHANGED bufferVars
  BY <1>1, <1>2, TakeFacts DEF typeVars
<1>4. pc = "lines" /\ typed
  BY <1>2, <1>3, ReadingType
<1>5. LInv'
  <2>1. SkipsLeft \in Int /\ skip_bytes \in Int /\ skip_document \in Nat
        /\ lines \in Seq(LineRecord) /\ stop \in BOOLEAN /\ input \in Seq(Symbols) /\ id \in Ids
    BY <1>3, ReadingType
  <2>2. /\ UNCHANGED <<file, size, block>> /\ UNCHANGED <<stop, input, id>> /\ pc' = "lines"
    BY <1>2, <1>4 DEF Goto, clientVars
  <2> QED
    BY <1>2, <1>3, <1>4, <2>1, <2>2, ReadingStep DEF typeVars
<1>6. Reader!SkipLine(From, From + n)
  BY <1>2, <1>3 DEF Reader!SkipLine, SkipsLeft
<1> QED
  BY <1>1, <1>2, <1>4, <1>5, <1>6, ReadsLine DEF typeVars

LEMMA EmbeddingType ==
  ASSUME LInv, Reading, NEW first, Embedding(first)
  PROVE  skip_document' \in Nat /\ skip_bytes' \in Int /\ skip_lines' \in Int
<1>1. skip_document \in Nat
  BY ReadingType
<1>2. skip_document' \in Nat
  <2>1. skip_document' = CASE first = "BeginDocument" -> skip_document + 1
                           [] first = "EndDocument" /\ skip_document # 0 -> skip_document - 1
                           [] OTHER -> skip_document
    BY DEF Embedding
  <2>2. CASE first = "BeginDocument"
    <3>1. skip_document' = skip_document + 1
      BY <2>1, <2>2, Zenon
    <3> QED
      BY <1>1, <3>1
  <2>3. CASE first # "BeginDocument" /\ first = "EndDocument" /\ skip_document # 0
    <3>1. skip_document' = skip_document - 1
      BY <2>1, <2>3, Zenon
    <3> QED
      BY <1>1, <2>3, <3>1
  <2>4. CASE first # "BeginDocument" /\ ~(first = "EndDocument" /\ skip_document # 0)
    <3>1. skip_document' = skip_document
      BY <2>1, <2>4, Zenon
    <3> QED
      BY <1>1, <3>1
  <2> QED
    BY <2>2, <2>3, <2>4
<1>3. PICK c \in Counts : /\ skip_bytes' = IF first = "BeginDataBytes" THEN c ELSE 0
                          /\ skip_lines' = IF first = "BeginDataLines" /\ c # 0 THEN c + 1 ELSE 0
  BY DEF Embedding
<1>4. c \in Int
  BY Constant
<1> QED
  BY <1>2, <1>3, <1>4

LEMMA Delivers ==
  ASSUME LInv, NEW n \in 1..Len(Text), Take(n), UNCHANGED doseps, SkipsLeft = 0,
         Embedding(Text[1]), NEW b, AddLine(n, b),
         b = (typed /\ ~Over' /\ skip_document' = 0 /\ Text[1] \notin Reader!Embedding)
  PROVE  Reader!Deliver(From, From + n)
<1>1. /\ Text[1] = seen[From + 1] /\ eol' = Reader!Complete(From, From + n)
      /\ eol' \in BOOLEAN
  BY TakeFacts
<1>2. lines' = Append(lines, [from |-> From, to |-> From + n, scanned |-> b])
  BY DEF AddLine, From
<1> DEFINE first == seen[From + 1]
           left(k) == IF first # "BeginDataLines" \/ k \in {0, -1} THEN 0
                      ELSE IF Reader!Complete(From, From + n) THEN k ELSE k + 1
<1>3. skip_document' = CASE first = "BeginDocument" -> skip_document + 1
                         [] first = "EndDocument" /\ skip_document # 0 -> skip_document - 1
                         [] OTHER -> skip_document
  BY <1>1, Zenon DEF Embedding
<1>4. PICK c \in Counts : /\ skip_bytes' = IF first = "BeginDataBytes" THEN c ELSE 0
                          /\ skip_lines' = IF first = "BeginDataLines" /\ c # 0 THEN c + 1 ELSE 0
  BY <1>1 DEF Embedding
<1> HIDE DEF From, first
<1>5. c \in Int
  BY Constant
<1>6. SkipsLeft' = left(c)
  <2>1. SkipsLeft' = IF eol' /\ skip_lines' # 0 THEN skip_lines' - 1 ELSE skip_lines'
    BY DEF SkipsLeft
  <2>2. CASE first # "BeginDataLines" \/ c = 0
    <3>1. skip_lines' = 0
      BY <1>4, <2>2
    <3> QED
      BY <2>1, <2>2, <3>1
  <2>3. CASE first = "BeginDataLines" /\ c # 0
    <3> DEFINE d == skip_lines'
               r == SkipsLeft'
               e == eol'
    <3>1. d = c + 1
      BY <1>4, <2>3
    <3>2. r = (IF e /\ d # 0 THEN d - 1 ELSE d)
          /\ e = Reader!Complete(From, From + n) /\ e \in BOOLEAN
      BY <1>1, <2>1
    <3> HIDE DEF d, r, e
    <3>3. ASSUME c = -1 PROVE r = 0
      BY <1>5, <3>1, <3>2, <3>3
    <3>4. ASSUME c # -1 PROVE r = IF e THEN c ELSE c + 1
      BY <1>5, <3>1, <3>2, <3>4
    <3>5. r = left(c)
      BY <2>3, <3>2, <3>3, <3>4
    <3> QED
      BY <3>5 DEF r
  <2> QED
    BY <2>2, <2>3
<1>7. b = (typed /\ ~Over' /\ skip_document' = 0 /\ first \notin Reader!Embedding)
  BY <1>1 DEF first
<1>8. SkipsLeft = 0
  OBVIOUS
<1> HIDE DEF left
<1> QED
  BY <1>2, <1>3, <1>4, <1>6, <1>7, <1>8, Zenon DEF Reader!Deliver, SkipsLeft, left, first

LEMMA LineAdded ==
  ASSUME LInv, Reading, NEW n \in 1..Len(Text), Take(n), NEW b \in BOOLEAN, AddLine(n, b),
         UNCHANGED doseps
  PROVE  lines' \in Seq(LineRecord)
<1>1. From \in Nat /\ From + n \in Nat /\ lines \in Seq(LineRecord)
  BY TakeFacts, ReadingType
<1> HIDE DEF From
<1>2. [from |-> From, to |-> From + n, scanned |-> b] \in LineRecord
  BY <1>1 DEF LineRecord
<1>3. lines' = Append(lines, [from |-> From, to |-> From + n, scanned |-> b])
  BY DEF AddLine, From
<1> QED
  BY <1>1, <1>2, <1>3, AppendProperties

LEMMA FirstLineStep ==
  ASSUME LInv, FirstLine
  PROVE  LInv' /\ ReaderStep
<1>1. /\ pc = "first" /\ SkipsLeft = 0 /\ typed' = TRUE /\ Embedding(Text[1])
      /\ UNCHANGED <<ctrld, pjl, skip_pjl, doseps>>
  BY DEF FirstLine
<1>2. PICK n \in 1..Len(Text) : Take(n) /\ AddLine(n, FALSE)
  BY DEF FirstLine
<1>3. /\ UNCHANGED <<file, size, block>> /\ stop' \in BOOLEAN
      /\ input' \in Seq(Symbols) /\ id' \in Ids /\ pc' \in {"handler", "lines"}
  <2>1. Reading
    BY <1>1 DEF Reading
  <2>2. CASE Text[1] = "%!PS-Adobe"
    <3>1. pc' = "lines" /\ id' = "PSADOBE" /\ UNCHANGED <<clientVars, input>>
      BY <2>2 DEF FirstLine
    <3> QED
      BY <2>1, <3>1, ReadingType DEF Ids, clientVars
  <2>3. CASE Text[1] # "%!PS-Adobe"
    <3>1. Return("NOTDSC")
      BY <2>3 DEF FirstLine
    <3> QED
      BY <3>1, ReturnType DEF Ids
  <2> QED
    BY <2>2, <2>3
<1>4. Reading /\ typed = FALSE
  BY <1>1, ReadingType DEF Reading
<1>5. LInv'
  <2>1. lines' \in Seq(LineRecord)
    BY <1>1, <1>2, <1>4, LineAdded
  <2>2. skip_document' \in Nat /\ skip_bytes' \in Int /\ skip_lines' \in Int
    BY <1>1, <1>4, EmbeddingType
  <2>3. /\ index' \in 0..Word-1 /\ index' <= Len(data) /\ eol' \in BOOLEAN
        /\ last_cr' \in BOOLEAN /\ UNCHANGED bufferVars
    BY <1>1, <1>2, TakeFacts
  <2> QED
    BY <1>1, <1>3, <2>1, <2>2, <2>3, ReadingStep
<1>6. Reader!Deliver(From, From + n)
  <2>1. FALSE = (typed /\ ~Over' /\ skip_document' = 0 /\ Text[1] \notin Reader!Embedding)
    BY <1>4
  <2> QED
    BY <1>1, <1>2, <2>1, Delivers
<1> QED
  BY <1>1, <1>2, <1>5, <1>6, ReadsLine

LEMMA NextLineStep ==
  ASSUME LInv, NextLine
  PROVE  LInv' /\ ReaderStep
<1>1. pc = "lines" /\ SkipsLeft = 0 /\ UNCHANGED typeVars
  BY DEF NextLine
<1>2. PICK n \in 1..Len(Text) :
       /\ Take(n) /\ Embedding(Text[1])
       /\ IF Behind(n)
            THEN AddLine(n, FALSE) /\ Leave
            ELSE IF skip_document' # 0 \/ NotScanned(Text[1])
            THEN AddLine(n, FALSE) /\ Goto(pc)
            ELSE AddLine(n, TRUE) /\ pc' = pc /\ UNCHANGED <<clientVars, input>>
                 /\ id' = IF Text[1] = "Page" THEN "PAGE" ELSE "OK"
  BY DEF NextLine
<1>3. Reading /\ typed = TRUE /\ doseps' = doseps /\ typed' = TRUE
  BY <1>1, ReadingType DEF Reading, typeVars
<1>4. /\ index' \in 0..Word-1 /\ index' <= Len(data) /\ eol' \in BOOLEAN
      /\ last_cr' \in BOOLEAN /\ UNCHANGED bufferVars /\ (offset + index)' = From + n
  BY <1>2, <1>3, TakeFacts
<1>5. Behind(n) <=> Over'
  <2>1. Behind(n) = (doseps /\ From + n > PsEnd)
    BY DEF Behind, From
  <2>2. Over' = (doseps' /\ (offset + index)' > PsEnd)
    BY DEF Over
  <2> QED
    BY <1>3, <1>4, <2>1, <2>2
<1>6. NotScanned(Text[1]) <=> Text[1] \in Reader!Embedding
  BY DEF NotScanned, Reader!Embedding
<1> DEFINE b == ~Over' /\ skip_document' = 0 /\ Text[1] \notin Reader!Embedding
<1>7. AddLine(n, b)
  <2>1. CASE b
    <3>1. AddLine(n, TRUE)
      BY <1>2, <1>5, <1>6, <2>1
    <3>2. b = TRUE
      BY <2>1
    <3> QED
      BY <3>1, <3>2
  <2>2. CASE ~b
    <3>1. AddLine(n, FALSE)
      BY <1>2, <1>5, <1>6, <2>2
    <3>2. b = FALSE
      BY <2>2
    <3> QED
      BY <3>1, <3>2
  <2> QED
    BY <2>1, <2>2
<1>8. b \in BOOLEAN
  OBVIOUS
<1>9. b = (typed /\ ~Over' /\ skip_document' = 0 /\ Text[1] \notin Reader!Embedding)
  BY <1>3
<1> HIDE DEF b
<1>10. Reader!Deliver(From, From + n)
  BY <1>1, <1>2, <1>3, <1>7, <1>9, Delivers
<1>11. /\ UNCHANGED <<file, size, block>> /\ stop' \in BOOLEAN
       /\ input' \in Seq(Symbols) /\ id' \in Ids /\ pc' \in {"handler", "lines"}
  <2>1. stop \in BOOLEAN /\ input \in Seq(Symbols) /\ id \in Ids
    BY <1>3, ReadingType
  <2>2. CASE Leave
    BY <2>1, <2>2, LeaveType DEF Ids
  <2>3. CASE Goto(pc)
    BY <1>1, <2>1, <2>3 DEF Goto, clientVars
  <2>4. CASE /\ pc' = pc /\ UNCHANGED <<clientVars, input>>
             /\ id' = IF Text[1] = "Page" THEN "PAGE" ELSE "OK"
    BY <1>1, <2>1, <2>4 DEF Ids, clientVars
  <2> QED
    BY <1>2, <2>2, <2>3, <2>4
<1>12. LInv'
  <2>1. lines' \in Seq(LineRecord)
    BY <1>2, <1>3, <1>7, <1>8, LineAdded
  <2>2. skip_document' \in Nat /\ skip_bytes' \in Int /\ skip_lines' \in Int
    BY <1>2, <1>3, EmbeddingType
  <2> QED
    BY <1>1, <1>3, <1>4, <1>11, <2>1, <2>2, ReadingStep DEF typeVars
<1> QED
  BY <1>2, <1>3, <1>10, <1>12, ReadsLine

-----------------------------------------------------------------------------
(* The other steps, and the theorems. *)

LEMMA ClientStep ==
  ASSUME LInv, (\E d \in Documents, n \in 1..size : ReadBlock(d, n)) \/ Call \/ IndexInvalid
  PROVE  LInv' /\ ReaderStep
<1>1. CASE \E d \in Documents, n \in 1..size : ReadBlock(d, n)
  <2>1. PICK d \in Documents, n \in 1..size : ReadBlock(d, n)
    BY <1>1
  <2>2. LInv'
    BY <2>1, ReadBlockInv
  <2>3. UNCHANGED Reader!vars
    BY <2>1, ReaderStays DEF ReadBlock, bufferVars, lineVars, typeVars
  <2> QED
    BY <2>2, <2>3 DEF ReaderStep
<1>2. CASE Call
  <2>1. UNCHANGED Reader!vars
    BY <1>2, ReaderStays DEF Call, bufferVars, lineVars, typeVars
  <2> QED
    BY <1>2, <2>1, CallInv DEF ReaderStep
<1>3. CASE IndexInvalid
  <2>1. UNCHANGED Reader!vars
    BY <1>3, ReaderStays DEF IndexInvalid, bufferVars, lineVars, typeVars
  <2>2. /\ UNCHANGED <<file, size, block>> /\ stop' \in BOOLEAN
        /\ input' \in Seq(Symbols) /\ id' \in {"OK", "PSADOBE", "PAGE", "NOTDSC"}
        /\ pc' = "handler"
    BY <1>3, LeaveType DEF IndexInvalid
  <2>3. LInv'
    BY <1>3, <2>2 DEF IndexInvalid, LInv, TypeOK, Window, Place, bufferVars, lineVars, skipVars,
       typeVars
  <2> QED
    BY <2>1, <2>3 DEF ReaderStep
<1> QED
  BY <1>1, <1>2, <1>3

LEMMA AppendStep ==
  ASSUME LInv, AppendData
  PROVE  LInv' /\ ReaderStep
<1>1. /\ LInv' /\ Appended \in Seq(Symbols) /\ seen' = seen \o Appended
      /\ offset' + index' = offset + index /\ seen' \in Seq(Symbols)
  BY AppendInv
<1>2. /\ UNCHANGED lineVars /\ UNCHANGED skipVars /\ UNCHANGED lines /\ UNCHANGED typeVars
  BY DEF AppendData
<1>3. seen \in Seq(Symbols) /\ Len(seen) \in Nat
  BY Types
<1> HIDE DEF Appended
<1>4. (offset + index)' = offset + index
  BY <1>1
<1>5. UNCHANGED <<Over, offset + index, typed, lines, last_cr, skip_bytes, SkipsLeft,
                  skip_document>>
  BY <1>2, <1>4 DEF Over, SkipsLeft, lineVars, skipVars, typeVars
<1>6. CASE Appended = <<>>
  <2>1. seen' = seen
    BY <1>1, <1>3, <1>6, ConcatEmptySeq
  <2> QED
    BY <1>1, <1>5, <2>1 DEF ReaderStep, Reader!vars, SkipsLeft
<1>7. CASE Appended # <<>>
  <2>1. Len(Appended) \in Nat /\ Len(Appended) # 0
    BY <1>1, <1>7, EmptySeq
  <2>2. /\ Len(seen \o Appended) = Len(seen) + Len(Appended)
        /\ SubSeq(seen \o Appended, 1, Len(seen)) = seen
    BY <1>1, <1>3, ConcatProperties
  <2>3. Len(seen) < Len(seen') /\ SubSeq(seen', 1, Len(seen)) = seen
    BY <1>1, <1>3, <2>1, <2>2
  <2>4. Reader!Grow
    BY <1>1, <1>5, <2>3 DEF Reader!Grow, SkipsLeft
  <2> QED
    BY <1>1, <2>4 DEF ReaderStep, Reader!Next
<1> QED
  BY <1>6, <1>7

LEMMA ScanStep ==
  ASSUME LInv, Next
  PROVE  LInv' /\ ReaderStep
<1>1. CASE Typing
  BY <1>1, TypingStep, ReaderReading
<1> QED
  BY <1>1, ClientStep, AppendStep, SkipBytesStep, ExhaustedStep, IncompleteStep, SkipLineStep,
     FirstLineStep, NextLineStep DEF Next, ScanData, ReadLine

LEMMA ScanStutter ==
  ASSUME LInv, UNCHANGED vars
  PROVE  LInv' /\ ReaderStep
<1>1. UNCHANGED <<seen, offset, index, typed, doseps, lines, last_cr, eol>> /\ UNCHANGED skipVars
  BY DEF vars, bufferVars, lineVars, typeVars
<1>2. UNCHANGED Reader!vars
  BY <1>1, ReaderStays
<1>3. LInv'
  BY DEF vars, clientVars, bufferVars, lineVars, skipVars, typeVars, LInv, TypeOK, Window, Place
<1> QED
  BY <1>2, <1>3 DEF ReaderStep

LEMMA ReaderInit ==
  ASSUME Init
  PROVE  Reader!Init
BY DEF Init, Reader!Init, Over

LEMMA ScanInvariant == Spec => []LInv
<1>1. LInv /\ [Next]_vars => LInv'
  BY ScanStep, ScanStutter
<1> QED
  BY <1>1, InitInv, PTL DEF Spec

\* Whatever is read, the buffer never holds more than its N bytes (CDSC_DATA_LENGTH),
\* the index stays within its word, and every variable has its type.
THEOREM BufferTypes == Spec => []TypeOK
<1>1. LInv => TypeOK
  BY DEF LInv
<1> QED
  BY <1>1, ScanInvariant, PTL

\* The buffer is a window on the file: what lies in it is what the file has at that
\* offset, however often it was moved and refilled (dsc_scan_data).
THEOREM BufferIsWindow == Spec => []Window
<1>1. LInv => Window
  BY DEF LInv
<1> QED
  BY <1>1, ScanInvariant, PTL

\* For a buffer of any size, blocks of any size and any file, dsc_scan_data delivers and
\* skips lines as a reader does that has the whole file in memory (DscReader).
THEOREM LinesOfTheFile == Spec => ImplementsReader
<1>1. LInv /\ [Next]_vars => [Reader!Next]_(Reader!vars)
  BY ScanStep, ScanStutter DEF ReaderStep
<1>2. Init => Reader!Init
  BY ReaderInit
<1> QED
  BY <1>1, <1>2, ScanInvariant, PTL DEF Spec, ImplementsReader, Reader!Spec
=============================================================================
