--------------------------- MODULE DscBufferProofs ---------------------------
(***************************************************************************)
(* More about DscLines: nothing that could be dealt with waits in the      *)
(* buffer, a comment that is waited for ends the reading, no byte of the   *)
(* file is lost, and the line that PostScript begins with is found.        *)
(***************************************************************************)
EXTENDS DscLinesProofs, WellFoundedInduction

-----------------------------------------------------------------------------
(* A text with an end-of-line has a first line. *)

LEMMA LeastOf ==
  ASSUME NEW T, T \subseteq Nat, T # {}
  PROVE  \E m \in T : \A k \in T : m <= k
<1>1. PICK m \in T : \A k \in T : <<k, m>> \notin OpToRel(<, Nat)
  BY NatLessThanWellFounded, WFMin
<1>2. ASSUME NEW k \in T
      PROVE  m <= k
  <2>1. <<k, m>> \notin OpToRel(<, Nat)
    BY <1>1
  <2>2. <<k, m>> \notin {ss \in Nat \X Nat : ss[1] < ss[2]}
    BY <2>1 DEF OpToRel
  <2>3. k \in Nat /\ m \in Nat
    OBVIOUS
  <2>4. ~(k < m)
    BY <2>2, <2>3
  <2> QED
    BY <2>3, <2>4
<1> QED
  BY <1>2

LEMMA FirstEol ==
  ASSUME NEW s \in Seq(Symbols), ~NoEol(s)
  PROVE  \E n \in 1..Len(s) : Ends(s, n)
<1> DEFINE ends == {i \in 1..Len(s) : s[i] \in Eol}
<1>1. ends \subseteq Nat /\ ends # {}
  BY DEF NoEol
<1>2. PICK r \in ends : \A k \in ends : r <= k
  BY <1>1, LeastOf
<1>3. Len(s) \in Nat /\ r \in 1..Len(s) /\ s[r] \in Eol /\ r \in Nat
  BY <1>1, <1>2
<1>4. \A i \in 1..r-1 : s[i] \notin Eol
  <2> TAKE i \in 1..r-1
  <2>1. i \in 1..Len(s) /\ ~(r <= i)
    BY <1>3
  <2> QED
    BY <1>2, <2>1
<1> HIDE DEF ends
<1>5. CASE s[r] = "LF"
  BY <1>3, <1>4, <1>5 DEF Ends
<1>6. CASE s[r] = "CR" /\ (r < Len(s) => s[r + 1] # "LF")
  BY <1>3, <1>4, <1>6 DEF Ends
<1>7. CASE s[r] = "CR" /\ r < Len(s) /\ s[r + 1] = "LF"
  <2> DEFINE q == r + 1
  <2>1. q \in 1..Len(s) /\ q > 1 /\ q - 1 = r /\ q - 2 = r - 1
    BY <1>3, <1>7
  <2>2. s[q - 1] = "CR" /\ s[q] = "LF" /\ \A i \in 1..q-2 : s[i] \notin Eol
    BY <1>4, <1>7, <2>1
  <2>3. Ends(s, q)
    BY <2>1, <2>2 DEF Ends
  <2> QED
    BY <2>1, <2>3
<1> QED
  BY <1>3, <1>5, <1>6, <1>7 DEF Eol

-----------------------------------------------------------------------------
(* Nothing that could be dealt with waits in the buffer. *)

\* What may wait: u is left in the buffer, its text is t, k bytes are to be skipped.
Settled(u, t, k) ==
  /\ NoEol(t) /\ ~CtrlZ(t, Len(t)) /\ Len(t) < Half
  /\ k # 0 => u = <<>>

LEMMA EmptySettled ==
  ASSUME NEW k
  PROVE  Settled(<<>>, <<>>, k)
<1>1. Half > 0
  BY BufferAssumption DEF Half
<1> QED
  BY <1>1 DEF Settled, NoEol, CtrlZ

LEMMA UnreadEmpty ==
  Unread = <<>> => Text = <<>>
<1> SUFFICES ASSUME Unread = <<>> PROVE Text = <<>>
  OBVIOUS
<1>1. Lf = 0 /\ Len(Unread) = 0
  BY DEF Lf
<1> QED
  BY <1>1, SubSeqEmpty DEF Text

\* The text of an incomplete line.
LEMMA IncompleteText ==
  ASSUME LInv, Unread # <<>>, \A n \in 1..Len(Text) : ~LineLength(Text, n)
  PROVE  NoEol(Text) /\ ~CtrlZ(Text, Len(Text)) /\ Len(Text) < Half
<1>1. Text \in Seq(Symbols) /\ Len(Text) \in Nat
  BY TextIs
<1>2. NoEol(Text)
  BY <1>1, FirstEol DEF LineLength
<1>3. Half \in Nat /\ Half > 0
  BY BufferAssumption DEF Half
<1>4. CASE Len(Text) = 0
  BY <1>2, <1>3, <1>4 DEF CtrlZ
<1>5. CASE Len(Text) # 0
  <2>1. Len(Text) \in 1..Len(Text) /\ Len(Text) > 0
    BY <1>1, <1>5
  <2>2. ~LineLength(Text, Len(Text))
    BY <2>1
  <2>3. ~CtrlZ(Text, Len(Text)) /\ ~(Len(Text) >= Half)
    BY <1>2, <2>1, <2>2 DEF LineLength
  <2> QED
    BY <1>1, <1>2, <1>3, <2>3
<1> QED
  BY <1>4, <1>5

LEMMA TextStays ==
  ASSUME UNCHANGED <<data, index, last_cr>>
  PROVE  Unread' = Unread /\ Text' = Text
BY DEF Unread, Text, Lf

LEMMA NothingIsHeld ==
  NothingHeldBack <=>
    (pc = "handler" /\ typed /\ id # "NOTDSC" /\ ~Over => Settled(Unread, Text, skip_bytes))
BY DEF NothingHeldBack, Settled

LEMMA NothingIsHeldThen ==
  NothingHeldBack' <=>
    (pc' = "handler" /\ typed' /\ id' # "NOTDSC" /\ ~Over' => Settled(Unread', Text', skip_bytes'))
BY DEF NothingHeldBack, Settled

LEMMA Part ==
  ASSUME NEW S, NEW s \in Seq(S), NEW m \in Int, m >= 1, NEW n \in Int, n <= Len(s), m <= n + 1
  PROVE  /\ SubSeq(s, m, n) \in Seq(S)
         /\ Len(SubSeq(s, m, n)) = IF m <= n THEN n - m + 1 ELSE 0
         /\ \A j \in 1..n - m + 1 : SubSeq(s, m, n)[j] = s[m + j - 1]
<1>1. \A j \in m..n : s[j] \in S
  OBVIOUS
<1> QED
  BY <1>1, SubSeqProperties

LEMMA RestOf ==
  ASSUME NEW S, NEW d \in Seq(S), NEW i \in Nat, NEW k \in Nat, i + k <= Len(d), NEW u,
         u = SubSeq(d, i + 1, Len(d))
  PROVE  SubSeq(u, 1 + k, Len(u)) = SubSeq(d, i + k + 1, Len(d))
<1> DEFINE l == Len(d)
           v == SubSeq(u, 1 + k, Len(u))
           w == SubSeq(d, i + k + 1, l)
<1>1. l \in Nat /\ i + k <= l /\ \A j \in 1..l : d[j] \in S
  OBVIOUS
<1>2. u \in Seq(S) /\ Len(u) = l - i /\ \A j \in 1..l - i : u[j] = d[i + j]
  <2> HIDE DEF l
  <2>1. u = SubSeq(d, i + 1, l) /\ l <= Len(d)
    BY DEF l
  <2>2. i + 1 \in Int /\ l \in Int /\ i + 1 >= 1 /\ i + 1 <= l + 1
    BY <1>1
  <2>3. /\ u \in Seq(S) /\ Len(u) = IF i + 1 <= l THEN l - (i + 1) + 1 ELSE 0
        /\ \A j \in 1..l - (i + 1) + 1 : u[j] = d[i + 1 + j - 1]
    BY <2>1, <2>2, Part
  <2>4. l - (i + 1) + 1 = l - i /\ \A j \in 1..l - i : i + 1 + j - 1 = i + j
    BY <1>1
  <2> QED
    BY <1>1, <2>3, <2>4
<1>3. /\ w \in Seq(S) /\ Len(w) = l - i - k /\ \A j \in 1..l - i - k : w[j] = d[i + k + j]
  <2> HIDE DEF l
  <2>1. i + k + 1 \in Int /\ l \in Int /\ i + k + 1 >= 1 /\ l <= Len(d) /\ i + k + 1 <= l + 1
    BY <1>1 DEF l
  <2>3. /\ w \in Seq(S) /\ Len(w) = IF i + k + 1 <= l THEN l - (i + k + 1) + 1 ELSE 0
        /\ \A j \in 1..l - (i + k + 1) + 1 : w[j] = d[i + k + 1 + j - 1]
    <3> DEFINE m == i + k + 1
    <3>1. m \in Int /\ l \in Int /\ m >= 1 /\ l <= Len(d) /\ m <= l + 1
      BY <2>1
    <3> HIDE DEF m, w
    <3>2. /\ SubSeq(d, m, l) \in Seq(S)
          /\ Len(SubSeq(d, m, l)) = IF m <= l THEN l - m + 1 ELSE 0
          /\ \A j \in 1..l - m + 1 : SubSeq(d, m, l)[j] = d[m + j - 1]
      BY <3>1, Part, SMTT(30)
    <3> QED
      BY <3>2 DEF m, w
  <2>4. l - (i + k + 1) + 1 = l - i - k /\ \A j \in 1..l - i - k : i + k + 1 + j - 1 = i + k + j
    BY <1>1
  <2> QED
    BY <1>1, <2>3, <2>4
<1>4. v \in Seq(S) /\ Len(v) = l - i - k /\ \A j \in 1..l - i - k : v[j] = u[k + j]
  <2> DEFINE n == l - i
  <2>1. n \in Nat /\ k <= n /\ Len(u) = n /\ v = SubSeq(u, 1 + k, n)
    BY <1>1, <1>2
  <2> HIDE DEF n, v
  <2>2. 1 + k \in Int /\ n \in Int
    BY <2>1
  <2>3. /\ v \in Seq(S) /\ Len(v) = IF 1 + k <= n THEN n - (1 + k) + 1 ELSE 0
        /\ \A j \in 1..n - (1 + k) + 1 : v[j] = u[1 + k + j - 1]
    BY <1>2, <2>1, <2>2, Part
  <2>4. /\ n - (1 + k) + 1 = n - k /\ \A j \in 1..n - k : 1 + k + j - 1 = k + j
        /\ (IF 1 + k <= n THEN n - (1 + k) + 1 ELSE 0) = n - k
    BY <2>1
  <2>5. v \in Seq(S) /\ Len(v) = n - k /\ \A j \in 1..n - k : v[j] = u[k + j]
    BY <2>3, <2>4
  <2> QED
    BY <2>5 DEF n
<1> HIDE DEF l, v, w
<1>5. \A j \in 1..Len(v) : v[j] = w[j]
  <2> TAKE j \in 1..Len(v)
  <2>1. j \in 1..l - i - k /\ k + j \in 1..l - i /\ i + (k + j) = i + k + j
    BY <1>1, <1>4
  <2> QED
    BY <1>2, <1>3, <1>4, <2>1
<1>6. v = w
  BY <1>3, <1>4, <1>5, SeqEqual
<1> QED
  BY <1>6 DEF v, w, l

\* Nothing is left.
LEMMA ExhaustedNext ==
  ASSUME LInv, UNCHANGED data, index' = Len(data)
  PROVE  Unread' = <<>> /\ Text' = <<>>
<1> DEFINE l == Len(data)
<1>1. l \in Nat
  BY Types
<1>2. Unread' = SubSeq(data, l + 1, l)
  BY DEF Unread
<1> HIDE DEF l
<1>3. Unread' = <<>>
  BY <1>1, <1>2, SubSeqEmpty
<1>4. Lf' = 0 /\ Len(Unread') = 0
  BY <1>3 DEF Lf
<1>5. Text' = SubSeq(Unread', 1 + 0, 0)
  BY <1>4 DEF Text
<1> QED
  BY <1>3, <1>5, SubSeqEmpty

\* When the \n after a \r was taken off, what is left is the text.
LEMMA TextKept ==
  ASSUME LInv, Unread # <<>>, UNCHANGED data, index' = index + Lf, last_cr' = FALSE
  PROVE  Text' = Text
<1>1. /\ Lf \in {0, 1} /\ index \in Nat /\ data \in Seq(Symbols) /\ index < Len(data)
      /\ Len(data) \in Nat
  BY TextIs, Types
<1> DEFINE i == index + Lf
<1>2. i \in Nat /\ i <= Len(data)
  BY <1>1
<1>3. Text = SubSeq(data, i + 1, Len(data))
  <2>1. Lf \in Nat /\ index + Lf <= Len(data)
    BY <1>1
  <2> HIDE DEF Lf
  <2> QED
    BY <1>1, <2>1, RestOf DEF Text, Unread
<1> DEFINE u == SubSeq(data, i + 1, Len(data))
<1>4. Unread' = u
  BY DEF Unread
<1>5. Text' = SubSeq(u, 1 + 0, Len(u))
  <2>1. Lf' = 0
    BY DEF Lf
  <2> QED
    BY <1>4, <2>1 DEF Text
<1> HIDE DEF i
<1>6. SubSeq(u, 1 + 0, Len(u)) = SubSeq(data, i + 0 + 1, Len(data))
  <2>1. i + 0 <= Len(data)
    BY <1>2
  <2> QED
    BY <1>1, <1>2, <2>1, RestOf
<1>7. i + 0 + 1 = i + 1
  BY <1>2
<1> QED
  BY <1>3, <1>5, <1>6, <1>7

LEMMA HeldSkipBytes ==
  ASSUME LInv, SkipBytes
  PROVE  NothingHeldBack'
<1> SUFFICES ASSUME pc' = "handler", typed'
             PROVE  Settled(Unread', Text', skip_bytes')
  BY NothingIsHeldThen
<1> DEFINE n == Least(skip_bytes, Len(data) - index)
<1>1. /\ Reading /\ skip_bytes # 0 /\ skip_bytes' = skip_bytes - n
      /\ index' = (index + n) % Word
      /\ UNCHANGED bufferVars /\ UNCHANGED typeVars
      /\ IF skip_bytes' # 0 THEN NoLine ELSE Goto(pc)
  BY DEF SkipBytes
<1>2. /\ index \in Nat /\ index <= Len(data) /\ Len(data) \in Nat /\ Len(data) < Word
      /\ skip_bytes \in Int /\ Word \in Nat
  BY <1>1, Types, Constant, ReadingType
<1>3. n \in Int /\ n = IF skip_bytes <= Len(data) - index THEN skip_bytes ELSE Len(data) - index
  BY <1>2 DEF Least
<1> HIDE DEF n
<1>4. skip_bytes' # 0
  <2>1. pc # "handler"
    BY <1>1 DEF Reading
  <2> QED
    BY <1>1, <2>1 DEF Goto
<1>5. n # skip_bytes
  BY <1>1, <1>2, <1>4
<1>6. index + n = Len(data)
  BY <1>2, <1>3, <1>5
<1>7. index' = Len(data)
  BY <1>1, <1>2, <1>6
<1>8. Unread' = <<>> /\ Text' = <<>>
  BY <1>1, <1>7, ExhaustedNext DEF bufferVars
<1> QED
  BY <1>8, EmptySettled

LEMMA HeldIncomplete ==
  ASSUME LInv, Incomplete
  PROVE  NothingHeldBack'
<1>1. /\ skip_bytes = 0 /\ skip_bytes' = 0 /\ Unread # <<>>
      /\ \A n \in 1..Len(Text) : ~LineLength(Text, n)
      /\ index' = index + Lf /\ last_cr' = FALSE /\ UNCHANGED data
  BY DEF Incomplete, bufferVars
<1>2. Text' = Text
  BY <1>1, TextKept
<1>3. NoEol(Text) /\ ~CtrlZ(Text, Len(Text)) /\ Len(Text) < Half
  BY <1>1, IncompleteText
<1>4. Settled(Unread', Text', skip_bytes')
  BY <1>1, <1>2, <1>3 DEF Settled
<1> QED
  BY <1>4, NothingIsHeldThen

\* The other ways to return: nothing is left, the file is rejected, or the line is behind
\* the PostScript section.
LEMMA HeldReturns ==
  ASSUME LInv, IndexInvalid \/ Typing \/ Exhausted \/ SkipLine \/ FirstLine \/ NextLine
  PROVE  NothingHeldBack'
<1> SUFFICES ASSUME pc' = "handler", typed', id' # "NOTDSC", ~Over'
             PROVE  Settled(Unread', Text', skip_bytes')
  BY NothingIsHeldThen
<1>1. ASSUME Unread = <<>>, UNCHANGED <<data, index, last_cr>>
      PROVE  Settled(Unread', Text', skip_bytes')
  BY <1>1, TextStays, UnreadEmpty, EmptySettled
<1>2. CASE IndexInvalid
  <2>1. /\ Unread \in Seq(Symbols) /\ index > Len(data)
        /\ Len(Unread) = IF index <= Len(data) THEN Len(data) - index ELSE 0
    BY <1>2, UnreadIs DEF IndexInvalid
  <2>2. Unread = <<>>
    <3>1. index \in Nat /\ Len(data) \in Nat
      BY Types
    <3>2. Len(Unread) = 0
      BY <2>1, <3>1
    <3> QED
      BY <2>1, <3>2, EmptySeq
  <2> QED
    BY <1>1, <1>2, <2>2 DEF IndexInvalid, bufferVars, lineVars
<1>3. CASE Typing
  <2>1. pc = "type" /\ ~typed
    <3>1. pc = "type"
      BY <1>3 DEF Typing, SkipPjlMore, SkipPjlEnd, ScanType, TypeMore, TypePjl, TypeDosEps,
                  TypePdf, TypeByLine
    <3> QED
      BY <3>1 DEF LInv, Place
  <2>2. typed' => pc' = "lines" \/ typed
    BY <1>3 DEF Typing, SkipPjlMore, SkipPjlEnd, TypeMore, TypePjl, TypeDosEps,
                TypePdf, TypeByLine, Goto, typeVars
  <2> QED
    BY <2>1, <2>2
<1>4. CASE Exhausted
  BY <1>1, <1>4 DEF Exhausted, bufferVars, lineVars
<1>5. CASE SkipLine
  <2>1. PICK n \in 1..Len(Text) : Take(n)
    BY <1>5 DEF SkipLine
  <2>2. pc' # "handler"
    BY <1>5, <2>1 DEF SkipLine, Take, Reading, Goto
  <2> QED
    BY <2>2
<1>6. CASE FirstLine
  BY <1>6 DEF FirstLine, Return
<1>7. CASE NextLine
  <2>1. PICK n \in 1..Len(Text) :
         /\ Take(n)
         /\ \/ Behind(n) /\ Leave
            \/ pc' = pc
    BY <1>7 DEF NextLine, Goto
  <2>2. doseps' = doseps /\ pc = "lines"
    BY <1>7 DEF NextLine, typeVars
  <2>3. (offset + index)' = From + n
    BY <2>1, <2>2, TakeFacts
  <2>4. Behind(n)
    BY <2>1, <2>2
  <2>5. Over'
    <3>1. doseps /\ From + n > PsEnd
      BY <2>4 DEF Behind, From
    <3>2. Over' = (doseps' /\ (offset + index)' > PsEnd)
      BY DEF Over
    <3> QED
      BY <2>2, <2>3, <3>1, <3>2
  <2> QED
    BY <2>5
<1> QED
  BY <1>2, <1>3, <1>4, <1>5, <1>6, <1>7

LEMMA HeldClient ==
  ASSUME LInv, NothingHeldBack,
         \/ (\E d \in Documents, n \in 1..size : ReadBlock(d, n)) \/ Call \/ AppendData
         \/ UNCHANGED vars
  PROVE  NothingHeldBack'
<1>1. ASSUME pc' = pc, UNCHANGED <<data, index, last_cr, offset, typed, id, doseps, skip_bytes>>
      PROVE  NothingHeldBack'
  <2>1. Over' = Over
    BY <1>1 DEF Over
  <2> QED
    BY <1>1, <2>1, TextStays, NothingIsHeld, NothingIsHeldThen
<1>2. CASE \E d \in Documents, n \in 1..size : ReadBlock(d, n)
  BY <1>1, <1>2 DEF ReadBlock, bufferVars, lineVars, skipVars, typeVars
<1>3. CASE Call
  <2>1. UNCHANGED bufferVars /\ UNCHANGED <<index, lines>> /\ UNCHANGED lineVars
        /\ UNCHANGED skipVars /\ UNCHANGED typeVars
    BY <1>3 DEF Call
  <2>2. UNCHANGED <<input, id, pc>> \/ pc' = "append"
    BY <1>3 DEF Call
  <2> QED
    BY <1>1, <2>1, <2>2, NothingIsHeldThen DEF bufferVars, lineVars, skipVars, typeVars
<1>4. CASE AppendData
  BY <1>4, NothingIsHeldThen DEF AppendData
<1>5. CASE UNCHANGED vars
  BY <1>1, <1>5 DEF vars, bufferVars, lineVars, skipVars, typeVars
<1> QED
  BY <1>2, <1>3, <1>4, <1>5

\* When the handler is done with a block, no complete line and nothing that is to be
\* skipped waits in the buffer of dsc_scan_data, however the file was cut into blocks:
\* what GSCreator asks for then is up to date.
THEOREM BufferSettled == Spec => []NothingHeldBack
<1>1. Init => NothingHeldBack
  BY DEF Init, NothingHeldBack
<1>2. LInv /\ NothingHeldBack /\ [Next]_vars => NothingHeldBack'
  BY HeldSkipBytes, HeldIncomplete, HeldReturns, HeldClient DEF Next, ScanData, ReadLine
<1> QED
  BY <1>1, <1>2, ScanInvariant, PTL DEF Spec

-----------------------------------------------------------------------------
(* Where the newlines of what is unread are: a piece of the handler has one at its end   *)
(* only, so that nothing follows the line that ends there.                               *)

At == offset + index

\* Of s behind a, with rest still to be appended: no newline, or one at the end only.
NoneLeft(s, a) == \A i \in a+1..Len(s) : s[i] # "LF"
OnlyLast(s, a, rest) == \A i \in a+1..Len(s) : s[i] = "LF" => i = Len(s) /\ rest = <<>>

\* While dsc_scan_type waits: one newline, or a part of a DOS EPS header.
Waits(s, a) ==
  \A i \in a+1..Len(s) : s[i] = "LF" =>
    \/ i = a + 1 /\ i = Len(s)
    \/ s[a + 1] = "C5D0D3C6" /\ Len(s) < a + HeaderLength
\* When it was called again.
AtType(s, a, rest) ==
  \A i \in a+1..Len(s) : s[i] = "LF" =>
    \/ i = Len(s) /\ rest = <<>>
    \/ i = a + 1
    \/ s[a + 1] = "C5D0D3C6" /\ i < a + HeaderLength
AtFirst(s, a, rest) ==
  \A i \in a+1..Len(s) : s[i] = "LF" => (i = Len(s) /\ rest = <<>>) \/ i = a + 1
\* In PJL: one may wait that another follows, or a %.
PjlWaits(s, a) == \A i \in a+1..Len(s) : s[i] = "LF" => i = Len(s)
PjlType(s, a, rest) ==
  \A i, j \in a+1..Len(s) : i < j /\ s[i] = "LF" /\ s[j] = "LF" => j = Len(s) /\ rest = <<>>

LEMMA Halves ==
  Half \in Nat /\ Half >= 2 /\ Half + Half <= N
<1>1. N \in Nat /\ Half \in Nat /\ 2 <= Half
  BY Constant
<1> QED
  BY <1>1 DEF Half

LEMMA LaterOn ==
  ASSUME NEW s \in Seq(Symbols), NEW a \in Nat, NEW b \in Nat, a <= b, NEW rest
  PROVE  /\ NoneLeft(s, a) => NoneLeft(s, b)
         /\ OnlyLast(s, a, rest) => OnlyLast(s, b, rest)
BY DEF NoneLeft, OnlyLast

\* What was appended to s has a newline as the last symbol only.
AtEnd(s, z, rest) == \A i \in Len(s)+1..Len(z) : z[i] = "LF" => i = Len(z) /\ rest = <<>>

\* A newline of a piece t, of which k symbols are appended to s, is the last symbol.
LEMMA PieceAppended ==
  ASSUME NEW s \in Seq(Symbols), NEW t \in Seq(Symbols), NEW k \in 0..Len(t),
         \A i \in 1..Len(t)-1 : t[i] # "LF",
         NEW z, z = s \o SubSeq(t, 1, k), NEW rest, rest = SubSeq(t, k + 1, Len(t))
  PROVE  /\ z \in Seq(Symbols) /\ Len(z) = Len(s) + k /\ rest \in Seq(Symbols)
         /\ \A i \in 1..Len(s) : z[i] = s[i]
         /\ AtEnd(s, z, rest)
         /\ Len(rest) = Len(t) - k /\ \A i \in 1..Len(rest) : rest[i] = t[k + i]
         /\ \A i \in 1..k : z[Len(s) + i] = t[i]
<1>1. Len(s) \in Nat /\ Len(t) \in Nat /\ k \in Nat /\ k <= Len(t)
  OBVIOUS
<1> DEFINE p == SubSeq(t, 1, k)
<1>2. p \in Seq(Symbols) /\ Len(p) = k /\ \A i \in 1..k : p[i] = t[i]
  <2>1. /\ p \in Seq(Symbols) /\ Len(p) = IF 1 <= k THEN k - 1 + 1 ELSE 0
        /\ \A i \in 1..k - 1 + 1 : p[i] = t[1 + i - 1]
    BY <1>1, Part
  <2> HIDE DEF p
  <2> QED
    BY <1>1, <2>1
<1>3. /\ rest \in Seq(Symbols) /\ Len(rest) = Len(t) - k
      /\ \A i \in 1..Len(rest) : rest[i] = t[k + i]
  <2>1. k + 1 \in Int /\ k + 1 >= 1 /\ k + 1 <= Len(t) + 1
    BY <1>1
  <2>2. /\ rest \in Seq(Symbols)
        /\ Len(rest) = IF k + 1 <= Len(t) THEN Len(t) - (k + 1) + 1 ELSE 0
        /\ \A i \in 1..Len(t) - (k + 1) + 1 : rest[i] = t[k + 1 + i - 1]
    BY <1>1, <2>1, Part
  <2> QED
    BY <1>1, <2>2
<1> HIDE DEF p
<1>4. /\ z \in Seq(Symbols) /\ Len(z) = Len(s) + k
      /\ \A i \in 1..Len(s) : z[i] = s[i]
      /\ \A i \in 1..k : z[Len(s) + i] = p[i]
  <2>1. z = s \o p
    BY DEF p
  <2> QED
    BY <1>1, <1>2, <2>1, ConcatProperties
<1>5. ASSUME NEW i \in Len(s)+1..Len(z), z[i] = "LF"
      PROVE  i = Len(z) /\ rest = <<>>
  <2> DEFINE j == i - Len(s)
  <2>1. j \in 1..k /\ Len(s) + j = i
    BY <1>1, <1>4
  <2>2. t[j] = "LF"
    BY <1>2, <1>4, <1>5, <2>1
  <2> HIDE DEF j
  <2>3. j = Len(t)
    <3>1. j \in 1..Len(t)-1 => t[j] # "LF"
      OBVIOUS
    <3> QED
      BY <1>1, <2>1, <2>2, <3>1
  <2> DEFINE l == Len(t)
             m == Len(s)
  <2> HIDE DEF l, m
  <2>4. k = Len(t) /\ i = Len(s) + k
    <3>1. k \in Nat /\ l \in Nat /\ m \in Nat /\ k <= l /\ j \in 1..k /\ m + j = i /\ j = l
      BY <1>1, <2>1, <2>3 DEF l, m
    <3>2. k = l /\ i = m + k
      BY <3>1
    <3> QED
      BY <3>2 DEF l, m
  <2>5. Len(rest) = 0
    BY <1>1, <1>3, <2>4
  <2> QED
    BY <1>3, <1>4, <2>4, <2>5, EmptySeq
<1>6. AtEnd(s, z, rest)
  BY <1>5 DEF AtEnd
<1> QED
  BY <1>2, <1>3, <1>4, <1>6

\* What is unread when a piece was appended to it.
LEMMA AfterAppend ==
  ASSUME NEW s \in Seq(Symbols), NEW a \in Nat, NEW z \in Seq(Symbols), NEW rest,
         Len(s) <= Len(z), \A i \in 1..Len(s) : z[i] = s[i],
         AtEnd(s, z, rest)
  PROVE  /\ NoneLeft(s, a) => OnlyLast(z, a, rest)
         /\ Waits(s, a) => AtType(z, a, rest)
         /\ PjlWaits(s, a) => PjlType(z, a, rest)
<1>1. /\ Len(s) \in Nat /\ Len(z) \in Nat /\ HeaderLength \in Nat
      /\ \A i \in Len(s)+1..Len(z) : z[i] = "LF" => i = Len(z) /\ rest = <<>>
  BY Constant DEF AtEnd
<1>2. \A i \in a+1..Len(z) : i \in 1..Len(z) /\ (i <= Len(s) => i \in 1..Len(s) /\ z[i] = s[i])
                              /\ (~(i <= Len(s)) => i \in Len(s)+1..Len(z))
  BY <1>1
<1>3. NoneLeft(s, a) => OnlyLast(z, a, rest)
  BY <1>1, <1>2 DEF NoneLeft, OnlyLast
<1>4. ASSUME Waits(s, a), NEW i \in a+1..Len(z), z[i] = "LF", ~(i = Len(z) /\ rest = <<>>)
      PROVE  i = a + 1 \/ (z[a + 1] = "C5D0D3C6" /\ i < a + HeaderLength)
  <2>1. i <= Len(s) /\ z[i] = s[i] /\ i \in a+1..Len(s) /\ a + 1 \in 1..Len(s) /\ z[a + 1] = s[a + 1]
    BY <1>1, <1>2, <1>4
  <2>2. \/ i = a + 1
        \/ s[a + 1] = "C5D0D3C6" /\ Len(s) < a + HeaderLength
    BY <1>4, <2>1 DEF Waits
  <2> QED
    BY <1>1, <2>1, <2>2
<1>5. ASSUME PjlWaits(s, a), NEW i \in a+1..Len(z), NEW j \in a+1..Len(z),
             i < j, z[i] = "LF", z[j] = "LF"
      PROVE  j = Len(z) /\ rest = <<>>
  <2>1. i <= Len(s) => i = Len(s)
    BY <1>1, <1>2, <1>5 DEF PjlWaits
  <2>2. j \in Len(s)+1..Len(z)
    BY <1>1, <1>5, <2>1
  <2> QED
    BY <1>1, <1>5, <2>2
<1> QED
  BY <1>3, <1>4, <1>5 DEF AtType, PjlType

-----------------------------------------------------------------------------
(* The pieces. *)

PieceEnd == file[Len(file) - Len(block)]
Pieces ==
  /\ Len(block) <= Len(file)
  /\ \A i \in 1..Len(block) : block[i] = file[Len(file) - Len(block) + i]
  /\ pc = "handler" => input = <<>>
  /\ pc = "append" => input # <<>>
  /\ \A i \in 1..Len(input)-1 : input[i] # "LF"
  /\ pc # "handler" =>
       /\ id # "NOTDSC"
       /\ IF input # <<>> THEN input[Len(input)] = PieceEnd
          ELSE Len(seen) > 0 /\ seen[Len(seen)] = PieceEnd

LEMMA Regroup ==
  ASSUME NEW a \in Seq(Symbols), NEW b \in Seq(Symbols), NEW c \in Seq(Symbols)
  PROVE  (a \o b) \o c = a \o (b \o c)
BY ConcatAssociative

LEMMA BlockRead ==
  ASSUME LInv, NEW d \in Documents, NEW n \in 1..size, ReadBlock(d, n)
  PROVE  block' \in Seq(Symbols) /\ file' = file \o block' /\ Len(block') = n /\ n \in Nat
         /\ file \in Seq(Symbols)
<1> DEFINE last == Least(Len(file) + n, Len(d.start))
           known == SubSeq(d.start, Len(file) + 1, last)
<1>1. /\ d.start \in Seq(Symbols) /\ d.of \subseteq Symbols /\ Len(d.start) \in Nat
      /\ file \in Seq(Symbols) /\ Len(file) \in Nat /\ n \in Nat
  BY SymbolsAssumption, SizesAssumption DEF LInv, TypeOK
<1>2. last \in Nat /\ last <= Len(d.start) /\ last <= Len(file) + n
  BY <1>1 DEF Least
<1>3. known \in Seq(Symbols) /\ Len(known) \in Nat /\ Len(known) <= n
  <2> HIDE DEF last
  <2>1. \A i \in Len(file) + 1..last : d.start[i] \in Symbols
    BY <1>1, <1>2
  <2>2. /\ known \in Seq(Symbols)
        /\ Len(known) = IF Len(file) + 1 <= last THEN last - (Len(file) + 1) + 1 ELSE 0
    BY <1>1, <1>2, <2>1, SubSeqProperties
  <2> HIDE DEF known
  <2> QED
    BY <1>1, <1>2, <2>2
<1> HIDE DEF known, last
<1>4. PICK m \in [1..n - Len(known) -> d.of] :
        block' = known \o m /\ file' = file \o known \o m
  BY DEF ReadBlock, known, last
<1>5. m \in Seq(Symbols) /\ Len(m) = n - Len(known)
  <2>1. n - Len(known) \in Nat
    BY <1>1, <1>3
  <2>2. m \in [1..n - Len(known) -> Symbols]
    BY <1>1
  <2> QED
    BY <2>1, <2>2
<1>6. block' \in Seq(Symbols) /\ Len(block') = Len(known) + Len(m)
  BY <1>3, <1>4, <1>5, ConcatProperties
<1>7. file' = file \o block'
  <2>1. (file \o known) \o m = file \o (known \o m)
    BY <1>1, <1>3, <1>5, Regroup
  <2> QED
    BY <1>4, <2>1
<1> QED
  BY <1>1, <1>3, <1>5, <1>6, <1>7

LEMMA PiecesRead ==
  ASSUME LInv, Pieces, NEW d \in Documents, NEW n \in 1..size, ReadBlock(d, n)
  PROVE  Pieces'
<1>1. pc = "handler" /\ UNCHANGED <<input, id, pc>>
  BY DEF ReadBlock
<1>2. /\ Len(block') = n /\ n \in Nat /\ block' \in Seq(Symbols) /\ file' = file \o block'
      /\ file \in Seq(Symbols) /\ file' \in Seq(Symbols)
  <2>1. LInv'
    BY ReadBlockInv
  <2> QED
    BY <2>1, BlockRead DEF LInv, TypeOK
<1>3. /\ Len(file') = Len(file) + Len(block')
      /\ \A i \in 1..Len(block') : file'[Len(file) + i] = block'[i]
  BY <1>2, ConcatProperties
<1> DEFINE f == Len(file)
           g == Len(block')
<1>4. f \in Nat /\ g \in Nat
  BY <1>2
<1>5. Len(block') <= Len(file') /\ Len(file') - Len(block') = f
  <2> HIDE DEF f, g
  <2>1. g <= f + g /\ (f + g) - g = f
    BY <1>4
  <2> QED
    BY <1>3, <2>1 DEF f, g
<1>6. \A i \in 1..Len(block') : block'[i] = file'[Len(file') - Len(block') + i]
  BY <1>3, <1>5
<1> QED
  BY <1>1, <1>5, <1>6 DEF Pieces

LEMMA Remaining ==
  ASSUME NEW n \in Nat, NEW l \in Nat, n >= 1, n <= l
  PROVE  /\ (IF n + 1 <= l THEN l - (n + 1) + 1 ELSE 0) = l - n
         /\ l - (n + 1) + 1 = l - n
         /\ \A i \in 1..l - n : n + 1 + i - 1 = n + i
OBVIOUS

LEMMA PiecesCall ==
  ASSUME LInv, Pieces, Call
  PROVE  Pieces'
<1>1. PICK n \in 1..Len(block) :
        /\ IsPiece(n) /\ block' = SubSeq(block, n + 1, Len(block))
        /\ IF id = "NOTDSC" THEN UNCHANGED <<input, id, pc>>
           ELSE input' = SubSeq(block, 1, n) /\ id' = "OK" /\ pc' = "append"
  BY DEF Call
<1>2. file' = file /\ pc = "handler"
  BY DEF Call
<1>3. /\ block \in Seq(Symbols) /\ Len(block) \in Nat /\ n \in Nat /\ n >= 1 /\ n <= Len(block)
      /\ file \in Seq(Symbols) /\ Len(file) \in Nat /\ Len(block) <= Len(file)
      /\ \A i \in 1..Len(block) : block[i] = file[Len(file) - Len(block) + i]
  BY DEF LInv, TypeOK, Pieces
<1>4. /\ block' \in Seq(Symbols) /\ Len(block') = Len(block) - n
      /\ \A i \in 1..Len(block) - n : block'[i] = block[n + i]
  <2>1. n + 1 \in Int /\ n + 1 >= 1 /\ n + 1 <= Len(block) + 1
    BY <1>3
  <2>2. /\ block' \in Seq(Symbols)
        /\ Len(block') = IF n + 1 <= Len(block) THEN Len(block) - (n + 1) + 1 ELSE 0
        /\ \A i \in 1..Len(block) - (n + 1) + 1 : block'[i] = block[n + 1 + i - 1]
    BY <1>1, <1>3, <2>1, Part
  <2> QED
    BY <1>3, <2>2, Remaining
<1>5. /\ Len(block') <= Len(file')
      /\ \A i \in 1..Len(block') : block'[i] = file'[Len(file') - Len(block') + i]
  <2>1. Len(block') <= Len(file')
    BY <1>2, <1>3, <1>4
  <2>2. ASSUME NEW i \in 1..Len(block')
        PROVE  block'[i] = file'[Len(file') - Len(block') + i]
    <3>1. i \in 1..Len(block) - n /\ n + i \in 1..Len(block)
      BY <1>3, <1>4
    <3>2. block'[i] = file[Len(file) - Len(block) + (n + i)]
      BY <1>3, <1>4, <3>1
    <3>3. Len(file) - Len(block) + (n + i) = Len(file) - Len(block') + i
      BY <1>3, <1>4, <3>1
    <3> QED
      BY <1>2, <3>2, <3>3
  <2> QED
    BY <2>1, <2>2
<1>6. CASE id = "NOTDSC"
  BY <1>1, <1>2, <1>5, <1>6 DEF Pieces
<1>7. CASE id # "NOTDSC"
  <2>1. input' = SubSeq(block, 1, n) /\ id' = "OK" /\ pc' = "append"
    BY <1>1, <1>7
  <2>2. input' \in Seq(Symbols) /\ Len(input') = n /\ \A i \in 1..n : input'[i] = block[i]
    <3>1. /\ SubSeq(block, 1, n) \in Seq(Symbols)
          /\ Len(SubSeq(block, 1, n)) = IF 1 <= n THEN n - 1 + 1 ELSE 0
          /\ \A i \in 1..n - 1 + 1 : SubSeq(block, 1, n)[i] = block[1 + i - 1]
      BY <1>3, Part
    <3> QED
      BY <1>3, <2>1, <3>1
  <2>3. input' # <<>>
    BY <1>3, <2>2, EmptySeq
  <2>4. \A i \in 1..Len(input')-1 : input'[i] # "LF"
    <3> SUFFICES ASSUME NEW i \in 1..Len(input')-1 PROVE input'[i] # "LF"
      OBVIOUS
    <3>1. i \in 1..n-1 /\ i \in 1..n
      BY <1>3, <2>2
    <3>2. block[i] # "LF"
      BY <1>1, <3>1 DEF IsPiece
    <3> QED
      BY <2>2, <3>1, <3>2
  <2>5. PieceEnd' = block[n]
    <3>1. Len(file') - Len(block') = Len(file) - Len(block) + n
      BY <1>2, <1>3, <1>4
    <3>2. block[n] = file[Len(file) - Len(block) + n]
      BY <1>3
    <3> QED
      BY <1>2, <3>1, <3>2 DEF PieceEnd
  <2>6. input'[Len(input')] = PieceEnd'
    BY <1>3, <2>2, <2>5
  <2> QED
    BY <1>5, <2>1, <2>3, <2>4, <2>6 DEF Pieces
<1> QED
  BY <1>6, <1>7

\* What is appended, and what is left of the piece.
LEMMA PieceTaken ==
  ASSUME LInv, Pieces, AppendData
  PROVE  \E k \in 0..Len(input) :
           /\ seen' = seen \o SubSeq(input, 1, k)
           /\ input' = SubSeq(input, k + 1, Len(input))
           /\ Len(input) \in Nat
<1> DEFINE free == N - Len(Kept)
           k == Least(Len(input), free)
<1>1. Len(input) \in Nat /\ N \in Nat
  BY Types, Constant
<1>2. Len(Kept) \in Nat /\ Len(Kept) <= N
  <2>1. /\ data \in Seq(Symbols) /\ Len(data) \in Nat /\ Len(data) <= N /\ index \in Nat
        /\ index <= Len(data)
    BY Types DEF AppendData
  <2>2. CASE Len(data) > Half
    <3>1. Kept = Unread
      BY <2>2 DEF Kept, Unread
    <3>2. Len(Unread) = Len(data) - index
      BY <2>1, UnreadIs
    <3>3. Len(data) - index \in Nat /\ Len(data) - index <= N
      BY <1>1, <2>1
    <3> QED
      BY <3>1, <3>2, <3>3
  <2>3. CASE ~(Len(data) > Half)
    BY <2>1, <2>3 DEF Kept
  <2> QED
    BY <2>2, <2>3
<1>3. k \in Nat /\ k <= Len(input)
  BY <1>1, <1>2 DEF Least
<1>4. Appended = SubSeq(input, 1, k)
  BY DEF Appended
<1> HIDE DEF k
<1>5. Len(Appended) = k
  <2>1. Len(SubSeq(input, 1, k)) = IF 1 <= k THEN k - 1 + 1 ELSE 0
    BY <1>1, <1>3, Types, Part
  <2> QED
    BY <1>3, <1>4, <2>1
<1>6. seen' = seen \o Appended /\ input' = SubSeq(input, Len(Appended) + 1, Len(input))
  BY DEF AppendData
<1>7. k \in 0..Len(input)
  BY <1>1, <1>3
<1> QED
  BY <1>1, <1>4, <1>5, <1>6, <1>7

LEMMA PiecesAppend ==
  ASSUME LInv, Pieces, AppendData
  PROVE  Pieces'
<1>1. PICK k \in 0..Len(input) :
        /\ seen' = seen \o SubSeq(input, 1, k)
        /\ input' = SubSeq(input, k + 1, Len(input))
  BY PieceTaken
<1>2. /\ input \in Seq(Symbols) /\ seen \in Seq(Symbols) /\ Len(input) \in Nat /\ Len(seen) \in Nat
      /\ \A i \in 1..Len(input)-1 : input[i] # "LF"
      /\ pc = "append" /\ input # <<>> /\ id # "NOTDSC" /\ input[Len(input)] = PieceEnd
  BY Types DEF Pieces, AppendData
<1>3. /\ Len(seen') = Len(seen) + k
      /\ Len(input') = Len(input) - k /\ \A i \in 1..Len(input') : input'[i] = input[k + i]
      /\ \A i \in 1..k : seen'[Len(seen) + i] = input[i]
  BY <1>1, <1>2, PieceAppended
<1>4. /\ UNCHANGED clientVars /\ id' = id /\ pc' \in {"lines", "type"}
      /\ PieceEnd' = PieceEnd
  BY DEF AppendData, clientVars, PieceEnd
<1>5. \A i \in 1..Len(input')-1 : input'[i] # "LF"
  <2> SUFFICES ASSUME NEW i \in 1..Len(input')-1 PROVE input'[i] # "LF"
    OBVIOUS
  <2>1. i \in 1..Len(input') /\ k + i \in 1..Len(input)-1
    BY <1>2, <1>3
  <2>2. input'[i] = input[k + i] /\ input[k + i] # "LF"
    BY <1>2, <1>3, <2>1
  <2> QED
    BY <2>2
<1>6. CASE input' # <<>>
  <2>1. input' \in Seq(Symbols) /\ Len(input') \in Nat /\ Len(input') # 0
    BY <1>1, <1>2, <1>6, PieceAppended, EmptySeq
  <2>2. Len(input') \in 1..Len(input') /\ k + Len(input') = Len(input)
    <3> DEFINE l == Len(input')
    <3>1. l \in Nat /\ l # 0 /\ l = Len(input) - k /\ k \in Nat /\ Len(input) \in Nat
      BY <1>2, <1>3, <2>1
    <3> HIDE DEF l
    <3>2. l \in 1..l /\ k + l = Len(input)
      BY <3>1
    <3> QED
      BY <3>2 DEF l
  <2>3. input'[Len(input')] = PieceEnd
    <3>1. input'[Len(input')] = input[k + Len(input')]
      BY <1>3, <2>2
    <3> QED
      BY <1>2, <2>2, <3>1
  <2> QED
    BY <1>2, <1>4, <1>5, <1>6, <2>3 DEF Pieces, clientVars
<1>7. CASE input' = <<>>
  <2>1. Len(input) # 0
    BY <1>2, EmptySeq
  <2>2. k = Len(input) /\ k >= 1
    <3>1. Len(input') = 0
      BY <1>7
    <3> QED
      BY <1>2, <1>3, <2>1, <3>1
  <2>3. Len(seen') > 0 /\ seen'[Len(seen')] = PieceEnd
    BY <1>2, <1>3, <2>2
  <2> QED
    BY <1>2, <1>4, <1>5, <1>7, <2>3 DEF Pieces, clientVars
<1> QED
  BY <1>6, <1>7

\* The steps of dsc_scan_data go on with the piece, or drop the rest of it.
LEMMA PiecesStay ==
  ASSUME Pieces, UNCHANGED <<file, block, seen>>,
         \/ pc' = "handler" /\ input' = <<>>
         \/ /\ pc # "handler" /\ input' = input /\ id' # "NOTDSC"
            /\ pc' # "handler" /\ (pc' = "append" => input # <<>>)
  PROVE  Pieces'
<1>1. PieceEnd' = PieceEnd
  BY DEF PieceEnd
<1>2. CASE pc' = "handler" /\ input' = <<>>
  <2>1. \A i \in 1..Len(<<>>)-1 : <<>>[i] # "LF"
    OBVIOUS
  <2> QED
    BY <1>2, <2>1 DEF Pieces
<1>3. CASE ~(pc' = "handler" /\ input' = <<>>)
  <2>1. pc # "handler" /\ input' = input /\ id' # "NOTDSC" /\ (pc' = "append" => input # <<>>)
    BY <1>3
  <2>2. /\ Len(block') <= Len(file')
        /\ \A i \in 1..Len(block') : block'[i] = file'[Len(file') - Len(block') + i]
    BY DEF Pieces
  <2>3. \A i \in 1..Len(input')-1 : input'[i] # "LF"
    BY <2>1 DEF Pieces
  <2>4. IF input' # <<>> THEN input'[Len(input')] = PieceEnd'
        ELSE Len(seen') > 0 /\ seen'[Len(seen')] = PieceEnd'
    BY <1>1, <2>1 DEF Pieces
  <2>5. pc' # "handler"
    BY <1>3, <2>1
  <2> QED
    BY <2>1, <2>2, <2>3, <2>4, <2>5 DEF Pieces
<1> QED
  BY <1>2, <1>3

LEMMA NoLinePieces ==
  ASSUME Pieces, Reading, NoLine
  PROVE  /\ UNCHANGED <<file, block>>
         /\ \/ pc' = "handler" /\ input' = <<>>
            \/ input' = input /\ id' = id /\ pc' = "append" /\ input # <<>> /\ pc = "lines"
BY DEF NoLine, Return, Goto, clientVars, Reading

LEMMA PiecesScan ==
  ASSUME LInv, Pieces, IndexInvalid \/ Typing \/ ReadLine
  PROVE  Pieces'
<1>1. CASE IndexInvalid
  BY <1>1, PiecesStay DEF IndexInvalid, Leave, bufferVars, clientVars
<1>2. CASE Typing
  <2>1. UNCHANGED <<file, block, seen>>
    BY <1>2 DEF Typing, SkipPjlMore, SkipPjlEnd, TypeMore, TypePjl, TypeDosEps, TypePdf,
                TypeByLine, NeedMore, Return, Goto, bufferVars, clientVars
  <2>2. pc = "type"
    BY <1>2 DEF Typing, SkipPjlMore, SkipPjlEnd, ScanType, TypeMore, TypePjl, TypeDosEps,
                TypePdf, TypeByLine
  <2>3. id # "NOTDSC"
    BY <2>2 DEF Pieces
  <2>4. \/ pc' = "handler" /\ input' = <<>>
        \/ input' = input /\ id' = id /\ pc' \notin {"append", "handler"}
    BY <1>2, <2>2 DEF Typing, SkipPjlMore, SkipPjlEnd, TypeMore, TypePjl, TypeDosEps, TypePdf,
                TypeByLine, NeedMore, Return, Goto
  <2> QED
    BY <2>1, <2>2, <2>3, <2>4, PiecesStay
<1>3. CASE SkipBytes \/ Exhausted \/ Incomplete
  <2>1. Reading /\ seen' = seen /\ (NoLine \/ Goto(pc))
    BY <1>3 DEF SkipBytes, Exhausted, Incomplete, bufferVars
  <2>2. pc # "handler" /\ id # "NOTDSC" /\ pc # "append"
    BY <2>1 DEF Pieces, Reading
  <2>3. CASE NoLine
    BY <2>1, <2>2, <2>3, NoLinePieces, PiecesStay
  <2>4. CASE Goto(pc)
    BY <2>1, <2>2, <2>4, PiecesStay DEF Goto, clientVars
  <2> QED
    BY <2>1, <2>3, <2>4
<1>4. CASE SkipLine \/ FirstLine \/ NextLine
  <2>1. PICK n \in 1..Len(Text) : Take(n)
    BY <1>4 DEF SkipLine, FirstLine, NextLine
  <2>2. Reading /\ seen' = seen
    BY <2>1 DEF Take, bufferVars
  <2>3. pc # "handler" /\ id # "NOTDSC" /\ pc # "append"
    BY <2>2 DEF Pieces, Reading
  <2>4. CASE SkipLine
    BY <2>2, <2>3, <2>4, PiecesStay DEF SkipLine, Goto, clientVars
  <2>5. CASE FirstLine
    <3>1. /\ UNCHANGED <<file, block>>
          /\ \/ pc' = "handler" /\ input' = <<>>
             \/ pc' = "lines" /\ input' = input /\ id' = "PSADOBE"
      BY <2>5 DEF FirstLine, Return, clientVars
    <3> QED
      BY <2>2, <2>3, <3>1, PiecesStay
  <2>6. CASE NextLine
    <3>1. /\ UNCHANGED <<file, block>>
          /\ \/ pc' = "handler" /\ input' = <<>>
             \/ pc' = pc /\ input' = input /\ id' \in {id, "PAGE", "OK"}
      BY <2>3, <2>6 DEF NextLine, Leave, Goto, clientVars
    <3> QED
      BY <2>2, <2>3, <3>1, PiecesStay
  <2> QED
    BY <1>4, <2>4, <2>5, <2>6
<1> QED
  BY <1>1, <1>2, <1>3, <1>4 DEF ReadLine

LEMMA PiecesStep ==
  ASSUME LInv, Pieces, [Next]_vars
  PROVE  Pieces'
<1>1. CASE UNCHANGED vars
  BY <1>1 DEF Pieces, PieceEnd, vars, clientVars, bufferVars
<1> QED
  BY <1>1, PiecesRead, PiecesCall, PiecesAppend, PiecesScan DEF Next, ScanData

-----------------------------------------------------------------------------
(* What a step leaves of what was read, and of the lines. *)

Pages == {l \in 1..Len(lines) : lines[l].scanned /\ seen[lines[l].from + 1] = "Page"}

LinesIn ==
  \A l \in 1..Len(lines) : lines[l].from + 1 \in 1..Len(seen) /\ lines[l].to \in 1..Len(seen)

\* What is known before the first line is there, and when a count is negative.
Facts ==
  /\ ~typed => lines = <<>> /\ ~last_cr /\ skip_bytes >= 0
  /\ pc = "first" => ~skip_pjl
  /\ skip_pjl => pjl
  /\ skip_bytes < 0 =>
       /\ lines # <<>> /\ At = lines[Len(lines)].to /\ skip_lines = 0
       /\ last_cr => seen[At] = "CR"

LEMMA SeenStep ==
  ASSUME LInv, [Next]_vars
  PROVE  /\ Len(seen) \in Nat /\ Len(seen') \in Nat /\ Len(seen) <= Len(seen')
         /\ \A i \in 1..Len(seen) : seen'[i] = seen[i]
         /\ AppendData \/ seen' = seen
<1>1. seen \in Seq(Symbols)
  BY Types
<1>2. CASE AppendData
  <2>1. Appended \in Seq(Symbols) /\ seen' = seen \o Appended
    BY <1>2, AppendInv
  <2> HIDE DEF Appended
  <2>2. Len(seen') = Len(seen) + Len(Appended) /\ \A i \in 1..Len(seen) : seen'[i] = seen[i]
    BY <1>1, <2>1, ConcatProperties
  <2> QED
    BY <1>1, <1>2, <2>1, <2>2
<1>3. CASE ~AppendData
  <2>1. seen' = seen
    <3>1. CASE UNCHANGED vars
      BY <3>1 DEF vars, bufferVars
    <3>2. CASE (\E d \in Documents, n \in 1..size : ReadBlock(d, n)) \/ Call
      BY <3>2 DEF ReadBlock, Call, bufferVars
    <3>3. CASE IndexInvalid
      BY <3>3 DEF IndexInvalid, bufferVars
    <3>4. CASE Typing
      BY <3>4 DEF Typing, SkipPjlMore, SkipPjlEnd, TypeMore, TypePjl, TypeDosEps, TypePdf,
                  TypeByLine, NeedMore, bufferVars
    <3>5. CASE ReadLine
      BY <3>5 DEF ReadLine, SkipBytes, Exhausted, Incomplete, SkipLine, FirstLine, NextLine,
                  Take, bufferVars
    <3> QED
      BY <1>3, <3>1, <3>2, <3>3, <3>4, <3>5 DEF Next, ScanData
  <2> QED
    BY <1>1, <2>1
<1> QED
  BY <1>2, <1>3

\* A line is added behind the others; reading goes on where it ends.
LEMMA AddedLine ==
  ASSUME LInv, NEW n \in 1..Len(Text), Take(n), NEW b \in BOOLEAN, AddLine(n, b),
         UNCHANGED doseps
  PROVE  /\ Len(lines) \in Nat /\ Len(lines') = Len(lines) + 1
         /\ \A l \in 1..Len(lines) : lines'[l] = lines[l]
         /\ lines'[Len(lines) + 1] = [from |-> From, to |-> From + n, scanned |-> b]
         /\ From \in Nat /\ From + 1 \in 1..Len(seen) /\ From + n \in 1..Len(seen)
         /\ At \in Nat /\ At <= From /\ At' = From + n /\ At <= At'
         /\ Text[1] = seen[From + 1] /\ Text[n] = seen[From + n] /\ seen' = seen
<1>1. /\ From \in Nat /\ From + n \in Nat /\ From + n \in From+1..Len(seen)
      /\ Text[1] = seen[From + 1] /\ Text[n] = seen[From + n]
      /\ (offset + index)' = From + n
      /\ From = IF last_cr /\ offset + index < Len(seen) /\ seen[offset + index + 1] = "LF"
                THEN offset + index + 1 ELSE offset + index
      /\ Reading /\ UNCHANGED bufferVars
  BY TakeFacts
<1>2. lines \in Seq(LineRecord)
  BY <1>1, ReadingType
<1>3. lines' = Append(lines, [from |-> From, to |-> From + n, scanned |-> b])
  BY DEF AddLine, From
<1>4. index \in Nat /\ offset \in Nat /\ seen \in Seq(Symbols) /\ Len(seen) \in Nat
  BY Types
<1> HIDE DEF From
<1> DEFINE r == [from |-> From, to |-> From + n, scanned |-> b]
<1>5. r \in LineRecord
  BY <1>1 DEF LineRecord
<1>6. /\ Len(lines') = Len(lines) + 1 /\ Len(lines) \in Nat
      /\ \A l \in 1..Len(lines) : lines'[l] = lines[l]
      /\ lines'[Len(lines) + 1] = r
  <2> HIDE DEF r
  <2>1. lines' = Append(lines, r)
    BY <1>3 DEF r
  <2> QED
    BY <1>2, <1>5, <2>1, AppendProperties
<1>7. At \in Nat /\ At <= From
  BY <1>1, <1>4 DEF At
<1>8. From + 1 \in 1..Len(seen) /\ From + n \in 1..Len(seen) /\ From <= From + n
  BY <1>1, <1>4
<1>9. At' = From + n
  BY <1>1 DEF At
<1>10. At <= From + n
  BY <1>1, <1>7, <1>8
<1> QED
  BY <1>1, <1>6, <1>7, <1>8, <1>9, <1>10 DEF bufferVars

\* A line that the section scanners are given.
Scans(n) ==
  /\ pc = "lines" /\ ~Behind(n) /\ Embedding(Text[1]) /\ ~NotScanned(Text[1])
  /\ pc' = pc /\ UNCHANGED <<clientVars, input>> /\ UNCHANGED typeVars
  /\ id' = IF Text[1] = "Page" THEN "PAGE" ELSE "OK"

LEMMA LinesStep ==
  ASSUME LInv, [Next]_vars
  PROVE  \/ lines' = lines
         \/ \E n \in 1..Len(Text), b \in BOOLEAN :
              /\ Take(n) /\ AddLine(n, b) /\ UNCHANGED doseps
              /\ b => Scans(n)
<1>1. CASE UNCHANGED vars
  BY <1>1 DEF vars
<1>2. CASE (\E d \in Documents, n \in 1..size : ReadBlock(d, n)) \/ Call \/ AppendData
           \/ IndexInvalid
  BY <1>2 DEF ReadBlock, Call, AppendData, IndexInvalid
<1>3. CASE Typing
  BY <1>3 DEF Typing, SkipPjlMore, SkipPjlEnd, TypeMore, TypePjl, TypeDosEps, TypePdf,
              TypeByLine, NeedMore
<1>4. CASE SkipBytes \/ Exhausted \/ Incomplete \/ SkipLine
  BY <1>4 DEF SkipBytes, Exhausted, Incomplete, SkipLine
<1>5. CASE FirstLine
  BY <1>5 DEF FirstLine
<1>6. CASE NextLine
  <2>1. PICK n \in 1..Len(Text) :
         /\ Take(n) /\ Embedding(Text[1])
         /\ IF Behind(n)
              THEN AddLine(n, FALSE) /\ Leave
              ELSE IF skip_document' # 0 \/ NotScanned(Text[1])
              THEN AddLine(n, FALSE) /\ Goto(pc)
              ELSE AddLine(n, TRUE) /\ pc' = pc /\ UNCHANGED <<clientVars, input>>
                   /\ id' = IF Text[1] = "Page" THEN "PAGE" ELSE "OK"
    BY <1>6 DEF NextLine
  <2>2. UNCHANGED typeVars /\ UNCHANGED doseps /\ pc = "lines"
    BY <1>6 DEF NextLine, typeVars
  <2>3. AddLine(n, FALSE) \/ (AddLine(n, TRUE) /\ Scans(n))
    BY <2>1, <2>2 DEF Scans
  <2> QED
    BY <2>1, <2>2, <2>3
<1> QED
  BY <1>1, <1>2, <1>3, <1>4, <1>5, <1>6 DEF Next, ScanData, ReadLine

LEMMA LinesGrow ==
  ASSUME LInv, LinesIn, [Next]_vars
  PROVE  /\ Len(lines) \in Nat /\ Len(lines') \in Nat /\ Len(lines) <= Len(lines')
         /\ \A l \in 1..Len(lines) : lines'[l] = lines[l]
         /\ LinesIn'
<1>1. /\ Len(seen) \in Nat /\ Len(seen') \in Nat /\ Len(seen) <= Len(seen')
      /\ Len(lines) \in Nat
  BY SeenStep DEF LInv, TypeOK
<1>2. CASE lines' = lines
  BY <1>1, <1>2 DEF LinesIn
<1>3. CASE lines' # lines
  <2>1. PICK n \in 1..Len(Text), b \in BOOLEAN : Take(n) /\ AddLine(n, b) /\ UNCHANGED doseps
    BY <1>3, LinesStep
  <2> DEFINE m == Len(lines)
  <2>2. /\ Len(lines') = m + 1 /\ \A l \in 1..m : lines'[l] = lines[l]
        /\ lines'[m + 1] = [from |-> From, to |-> From + n, scanned |-> b]
        /\ From + 1 \in 1..Len(seen) /\ From + n \in 1..Len(seen) /\ seen' = seen
    BY <2>1, AddedLine
  <2>3. lines'[m + 1].from = From /\ lines'[m + 1].to = From + n
    BY <2>2
  <2> HIDE DEF From
  <2>4. ASSUME NEW l \in 1..Len(lines')
        PROVE  lines'[l].from + 1 \in 1..Len(seen') /\ lines'[l].to \in 1..Len(seen')
    <3>1. l \in 1..m \/ l = m + 1
      BY <1>1, <2>2
    <3> QED
      BY <2>2, <2>3, <3>1 DEF LinesIn
  <2> QED
    BY <1>1, <2>2, <2>4 DEF LinesIn
<1> QED
  BY <1>2, <1>3

LEMMA PagesGrow ==
  ASSUME LInv, LinesIn, [Next]_vars
  PROVE  /\ Pages \subseteq Pages'
         /\ \A l \in 1..Len(lines) : lines'[l] = lines[l] /\ seen'[lines'[l].to] = seen[lines[l].to]
                                     /\ (l \in Pages' => l \in Pages)
<1> SUFFICES ASSUME NEW l \in 1..Len(lines)
             PROVE  /\ l \in Pages => l \in Pages'
                    /\ lines'[l] = lines[l] /\ seen'[lines'[l].to] = seen[lines[l].to]
                    /\ l \in Pages' => l \in Pages
  BY DEF Pages
<1>1. lines'[l] = lines[l] /\ l \in 1..Len(lines')
  BY LinesGrow
<1>2. /\ seen'[lines[l].from + 1] = seen[lines[l].from + 1]
      /\ seen'[lines[l].to] = seen[lines[l].to]
  BY SeenStep DEF LinesIn
<1> QED
  BY <1>1, <1>2 DEF Pages

\* The hypotheses on what was read hold before if they hold after a step.
LEMMA ApartBefore ==
  ASSUME LInv, LinesIn, [Next]_vars, LinesApart', PjlByLf'
  PROVE  LinesApart /\ PjlByLf
<1>1. LinesApart
  <2> SUFFICES ASSUME NEW l \in 1..Len(lines)-1
               PROVE  lines[l].to <= lines[l + 1].from
    BY DEF LinesApart
  <2>1. /\ l \in 1..Len(lines) /\ l + 1 \in 1..Len(lines) /\ l \in 1..Len(lines')-1
        /\ lines'[l] = lines[l] /\ lines'[l + 1] = lines[l + 1]
    BY LinesGrow
  <2> QED
    BY <2>1 DEF LinesApart
<1>2. pjl => pjl'
  <2>1. CASE UNCHANGED vars
    BY <2>1 DEF vars, typeVars
  <2>2. CASE (\E d \in Documents, n \in 1..size : ReadBlock(d, n)) \/ Call \/ AppendData
             \/ IndexInvalid
    BY <2>2 DEF ReadBlock, Call, AppendData, IndexInvalid, typeVars
  <2>3. CASE Typing
    BY <2>3 DEF Typing, SkipPjlMore, SkipPjlEnd, TypeMore, TypePjl, TypeDosEps, TypePdf,
                TypeByLine, typeVars
  <2>4. CASE ReadLine
    BY <2>4 DEF ReadLine, SkipBytes, Exhausted, Incomplete, SkipLine, FirstLine, NextLine, typeVars
  <2> QED
    BY <2>1, <2>2, <2>3, <2>4 DEF Next, ScanData
<1>3. PjlByLf
  BY <1>2, SeenStep DEF PjlByLf
<1> QED
  BY <1>1, <1>3

LEMMA FactsStay ==
  ASSUME LInv, Facts, UNCHANGED <<typed, lines, skip_pjl, pjl>>, At' = At, seen' = seen,
         last_cr' = last_cr \/ last_cr' = FALSE,
         skip_bytes' = skip_bytes, skip_lines' = skip_lines \/ skip_bytes >= 0,
         pc' = "first" => pc = "first"
  PROVE  Facts'
BY Types DEF Facts

LEMMA FactsTyping ==
  ASSUME LInv, Facts, Typing
  PROVE  Facts'
<1>1. pc = "type" /\ ~typed
  <2>1. pc = "type"
    BY DEF Typing, SkipPjlMore, SkipPjlEnd, ScanType, TypeMore, TypePjl, TypeDosEps,
           TypePdf, TypeByLine
  <2> QED
    BY <2>1 DEF LInv, Place
<1>2. lines = <<>> /\ ~last_cr /\ skip_bytes >= 0
  BY <1>1 DEF Facts
<1>3. lines' = lines /\ last_cr' = last_cr
  BY DEF Typing, SkipPjlMore, SkipPjlEnd, TypeMore, TypePjl, TypeDosEps, TypePdf, TypeByLine,
         NeedMore, lineVars
<1>4. ~(skip_bytes' < 0) /\ skip_bytes' >= 0
  <2>1. CASE TypeDosEps
    <3>1. skip_bytes' = PsBegin - HeaderLength
      BY <2>1 DEF TypeDosEps
    <3> QED
      BY <3>1, Constant, HeaderAssumption
  <2>2. CASE ~TypeDosEps
    <3>1. skip_bytes' = skip_bytes
      BY <2>2 DEF Typing, SkipPjlMore, SkipPjlEnd, TypeMore, TypePjl, TypePdf, TypeByLine,
                  NeedMore, skipVars
    <3> QED
      BY <1>2, <3>1, Types
  <2> QED
    BY <2>1, <2>2
<1>5. pc' = "first" => ~skip_pjl'
  BY <1>1 DEF Typing, SkipPjlMore, SkipPjlEnd, ScanType, TypeMore, TypePjl, TypeDosEps, TypePdf,
              TypeByLine, NeedMore, Return, Goto
<1>6. skip_pjl' => pjl'
  BY DEF Facts, Typing, SkipPjlMore, SkipPjlEnd, TypeMore, TypePjl, TypeDosEps, TypePdf,
         TypeByLine, typeVars
<1> QED
  BY <1>2, <1>3, <1>4, <1>5, <1>6 DEF Facts

LEMMA FactsSkipBytes ==
  ASSUME LInv, Facts, SkipBytes
  PROVE  Facts'
<1> DEFINE n == Least(skip_bytes, Len(data) - index)
<1>1. /\ skip_bytes' = skip_bytes - n /\ UNCHANGED lineVars /\ UNCHANGED typeVars
      /\ lines' = lines
      /\ IF skip_bytes' # 0 THEN NoLine ELSE Goto(pc)
      /\ Reading /\ skip_bytes # 0
  BY DEF SkipBytes
<1>2. skip_bytes \in Int /\ index \in Nat /\ Len(data) \in Nat /\ index <= Len(data)
  BY <1>1, Types, ReadingType
<1>3. n \in Int /\ n <= skip_bytes
  BY <1>2 DEF Least
<1>4. skip_bytes' >= 0 /\ ~(skip_bytes' < 0)
  BY <1>1, <1>2, <1>3
<1>5. pc' = "first" => pc = "first"
  BY <1>1 DEF NoLine, Return, Goto
<1> HIDE DEF n
<1> QED
  BY <1>1, <1>4, <1>5 DEF Facts, lineVars, typeVars

LEMMA FactsLine ==
  ASSUME LInv, Facts, FirstLine \/ NextLine
  PROVE  Facts'
<1>1. PICK n \in 1..Len(Text), b \in BOOLEAN :
        Take(n) /\ AddLine(n, b) /\ UNCHANGED doseps /\ Embedding(Text[1])
  BY DEF FirstLine, NextLine, typeVars
<1>2. /\ typed' = TRUE /\ pc' # "first" /\ skip_pjl' = skip_pjl /\ pjl' = pjl
  <2>1. typed' = TRUE /\ skip_pjl' = skip_pjl /\ pjl' = pjl
    <3>1. CASE FirstLine
      BY <3>1 DEF FirstLine
    <3>2. CASE NextLine
      <4>1. typed = TRUE
        BY <3>2 DEF NextLine, LInv, Place, TypeOK
      <4> QED
        BY <3>2, <4>1 DEF NextLine, typeVars
    <3> QED
      BY <3>1, <3>2
  <2>2. pc' # "first"
    BY DEF FirstLine, NextLine, Return, Leave, Goto
  <2> QED
    BY <2>1, <2>2
<1>3. skip_bytes' < 0 => skip_lines' = 0
  <2>1. PICK c \in Counts :
          /\ skip_bytes' = IF Text[1] = "BeginDataBytes" THEN c ELSE 0
          /\ skip_lines' = IF Text[1] = "BeginDataLines" /\ c # 0 THEN c + 1 ELSE 0
    BY <1>1 DEF Embedding
  <2> QED
    BY <2>1
<1> DEFINE m == Len(lines)
<1>4. /\ Len(lines') = m + 1 /\ m \in Nat /\ lines'[m + 1].to = From + n /\ At' = From + n
      /\ seen' = seen /\ last_cr' = (seen[From + n] = "CR")
  <2>1. /\ Len(lines') = m + 1 /\ m \in Nat /\ At' = From + n /\ seen' = seen
        /\ lines'[m + 1] = [from |-> From, to |-> From + n, scanned |-> b]
    BY <1>1, AddedLine
  <2>2. last_cr' = (seen[From + n] = "CR")
    BY <1>1, TakeFacts
  <2> HIDE DEF From
  <2> QED
    BY <2>1, <2>2
<1> HIDE DEF m, From
<1>5. lines' # <<>> /\ At' = lines'[Len(lines')].to /\ (last_cr' => seen'[At'] = "CR")
  <2>1. lines' # <<>>
    <3>1. lines' = <<>> => Len(lines') = 0
      OBVIOUS
    <3> QED
      BY <1>4, <3>1
  <2>2. At' = lines'[Len(lines')].to
    BY <1>4
  <2>3. last_cr' => seen'[At'] = "CR"
    BY <1>4
  <2> QED
    BY <2>1, <2>2, <2>3
<1> QED
  BY <1>2, <1>3, <1>5 DEF Facts

LEMMA FactsStep ==
  ASSUME LInv, LinesIn, Facts, [Next]_vars
  PROVE  Facts'
<1>1. CASE UNCHANGED vars
  BY <1>1, FactsStay DEF vars, bufferVars, lineVars, skipVars, typeVars, At
<1>2. CASE (\E d \in Documents, n \in 1..size : ReadBlock(d, n)) \/ Call \/ IndexInvalid
  <2>1. UNCHANGED bufferVars /\ UNCHANGED <<index, lines>> /\ UNCHANGED lineVars
        /\ UNCHANGED skipVars /\ UNCHANGED typeVars /\ (pc' = "first" => pc = "first")
    BY <1>2 DEF ReadBlock, Call, IndexInvalid, Leave
  <2> QED
    BY <2>1, FactsStay DEF bufferVars, lineVars, skipVars, typeVars, At
<1>3. CASE AppendData
  <2>1. At' = At
    BY <1>3, AppendInv DEF At
  <2>2. UNCHANGED lineVars /\ UNCHANGED skipVars /\ UNCHANGED lines /\ UNCHANGED typeVars
        /\ pc' # "first"
    BY <1>3 DEF AppendData
  <2>3. skip_bytes < 0 /\ last_cr => seen'[At'] = "CR"
    <3> SUFFICES ASSUME skip_bytes < 0, last_cr PROVE seen'[At'] = "CR"
      OBVIOUS
    <3>1. lines # <<>> /\ At = lines[Len(lines)].to /\ seen[At] = "CR"
      BY DEF Facts
    <3>2. Len(lines) \in 1..Len(lines)
      BY <3>1, EmptySeq DEF LInv, TypeOK
    <3>3. At \in 1..Len(seen)
      BY <3>1, <3>2 DEF LinesIn
    <3> QED
      BY <2>1, <3>1, <3>3, SeenStep
  <2> QED
    BY <2>1, <2>2, <2>3 DEF Facts, lineVars, skipVars, typeVars
<1>4. CASE Exhausted
  <2>1. UNCHANGED bufferVars /\ UNCHANGED <<index, lines>> /\ UNCHANGED lineVars
        /\ UNCHANGED skipVars /\ UNCHANGED typeVars /\ (pc' = "first" => pc = "first")
    BY <1>4 DEF Exhausted, NoLine, Return, Goto
  <2> QED
    BY <2>1, FactsStay DEF bufferVars, lineVars, skipVars, typeVars, At
<1>5. CASE Incomplete
  <2>1. /\ last_cr' = FALSE /\ skip_bytes' = skip_bytes /\ skip_bytes = 0
        /\ UNCHANGED typeVars /\ UNCHANGED lines /\ pc' # "first"
    BY <1>5 DEF Incomplete, NoLine, Return, Goto
  <2> QED
    BY <2>1 DEF Facts, typeVars
<1>6. CASE SkipLine
  <2>1. PICK n \in 1..Len(Text) : Take(n)
    BY <1>6 DEF SkipLine
  <2>2. /\ Reading /\ skip_bytes = 0 /\ SkipsLeft # 0 /\ skip_bytes' = skip_bytes /\ pc' = pc
        /\ UNCHANGED lines /\ UNCHANGED typeVars
    BY <1>6, <2>1 DEF SkipLine, Take, Goto
  <2>3. typed /\ pc # "first"
    BY <2>2, ReadingType
  <2> QED
    BY <2>2, <2>3 DEF Facts, typeVars
<1> QED
  BY <1>1, <1>2, <1>3, <1>4, <1>5, <1>6, FactsTyping, FactsSkipBytes, FactsLine
  DEF Next, ScanData, ReadLine

\* GSCreator is told of a page when there is one.
Asked == id = "PAGE" \/ stop => Pages # {}

LEMMA AskedStep ==
  ASSUME LInv, LinesIn, Asked, [Next]_vars
  PROVE  Asked'
<1> SUFFICES ASSUME id' = "PAGE" \/ stop'
             PROVE  Pages' # {}
  BY DEF Asked
<1>1. CASE id = "PAGE" \/ stop
  BY <1>1, PagesGrow DEF Asked
<1>2. ASSUME NEW i, Return(i), i # "PAGE" \/ i = id
      PROVE  id = "PAGE" \/ stop
  BY <1>2 DEF Return
<1>3. CASE ~NextLine
  <2>1. CASE UNCHANGED vars
    BY <1>1, <2>1 DEF vars, clientVars
  <2>2. CASE (\E d \in Documents, n \in 1..size : ReadBlock(d, n)) \/ Call \/ AppendData
             \/ IndexInvalid
    BY <1>1, <2>2 DEF ReadBlock, Call, AppendData, IndexInvalid, Leave, clientVars
  <2>3. CASE Typing
    BY <1>1, <1>2, <2>3 DEF Typing, SkipPjlMore, SkipPjlEnd, TypeMore, TypePjl, TypeDosEps,
                TypePdf, TypeByLine, NeedMore, Goto, clientVars
  <2>4. CASE SkipBytes \/ Exhausted \/ Incomplete \/ SkipLine
    BY <1>1, <1>2, <2>4 DEF SkipBytes, Exhausted, Incomplete, SkipLine, NoLine, Goto, clientVars
  <2>5. CASE FirstLine
    BY <1>1, <1>2, <2>5 DEF FirstLine, clientVars
  <2> QED
    BY <1>3, <2>1, <2>2, <2>3, <2>4, <2>5 DEF Next, ScanData, ReadLine
<1>4. CASE NextLine
  <2>1. PICK n \in 1..Len(Text) :
         /\ Take(n) /\ UNCHANGED doseps
         /\ \/ Leave \/ Goto(pc)
            \/ /\ AddLine(n, TRUE) /\ UNCHANGED <<clientVars, input>>
               /\ id' = IF Text[1] = "Page" THEN "PAGE" ELSE "OK"
    BY <1>4 DEF NextLine, typeVars
  <2>2. CASE Leave \/ Goto(pc)
    BY <1>1, <2>2 DEF Leave, Goto, clientVars
  <2>3. CASE /\ AddLine(n, TRUE) /\ UNCHANGED <<clientVars, input>>
             /\ id' = IF Text[1] = "Page" THEN "PAGE" ELSE "OK"
    <3>1. CASE stop
      BY <1>1, <3>1
    <3>2. CASE ~stop
      <4>1. Text[1] = "Page"
        BY <2>3, <3>2 DEF clientVars
      <4>2. /\ Len(lines) \in Nat /\ Len(lines') = Len(lines) + 1
            /\ lines'[Len(lines) + 1] = [from |-> From, to |-> From + n, scanned |-> TRUE]
            /\ Text[1] = seen[From + 1] /\ seen' = seen
        BY <2>1, <2>3, AddedLine
      <4> HIDE DEF From
      <4>3. Len(lines) + 1 \in Pages'
        BY <4>1, <4>2 DEF Pages
      <4> QED
        BY <4>3
    <3> QED
      BY <3>1, <3>2
  <2> QED
    BY <2>1, <2>2, <2>3
<1> QED
  BY <1>3, <1>4

\* Reading was moved back into the last line: the next line begins there.
LfAt == IF last_cr /\ At < Len(seen) /\ seen[At + 1] = "LF" THEN 1 ELSE 0
Derailed ==
  /\ lines # <<>> /\ typed /\ skip_bytes = 0 /\ skip_lines = 0
  /\ At + LfAt < lines[Len(lines)].to

\* Where newlines are in what is unread, at each place of dsc_scan_data.
Placed ==
  /\ typed /\ ~Over /\ ~Derailed /\ id # "NOTDSC" =>
       IF pc \in {"handler", "append"} THEN NoneLeft(seen, At) ELSE OnlyLast(seen, At, input)
  /\ ~typed /\ ~skip_pjl =>
       /\ pc \in {"handler", "append"} => Waits(seen, At)
       /\ pc = "type" => AtType(seen, At, input)
       /\ pc = "first" => AtFirst(seen, At, input)
  /\ ~typed /\ skip_pjl =>
       /\ pc \in {"handler", "append"} => PjlWaits(seen, At)
       /\ pc = "type" => PjlType(seen, At, input)

LEMMA Places ==
  ASSUME LInv
  PROVE  At \in Nat /\ Len(seen) \in Nat /\ seen \in Seq(Symbols) /\ Len(seen) - At = Len(data) - index
BY Types DEF At

LEMMA PlacesThen ==
  ASSUME LInv'
  PROVE  /\ offset' \in Nat /\ index' \in Nat /\ At' = offset' + index' /\ At' \in Nat
         /\ Len(seen') \in Nat /\ seen' \in Seq(Symbols)
<1>1. TypeOK'
  BY DEF LInv
<1>2. offset' \in Nat /\ index' \in 0..Word-1 /\ seen' \in Seq(Symbols)
  BY <1>1 DEF TypeOK
<1>3. At' = offset' + index'
  BY DEF At
<1>4. index' \in Nat
  BY <1>2, Constant
<1>5. At' \in Nat
  <2> DEFINE o == offset'
             i == index'
  <2>1. o \in Nat /\ i \in Nat /\ At' = o + i
    BY <1>2, <1>3, <1>4
  <2> HIDE DEF o, i
  <2> QED
    BY <2>1
<1>6. Len(seen') \in Nat
  BY <1>2
<1> QED
  BY <1>2, <1>3, <1>4, <1>5, <1>6

\* Nothing is wrong where no newline is left.
LEMMA NoneEnough ==
  ASSUME LInv', NoneLeft(seen', At')
  PROVE  Placed'
<1>1. At' \in Nat /\ Len(seen') \in Nat
  BY PlacesThen
<1>2. /\ OnlyLast(seen', At', input') /\ Waits(seen', At') /\ AtType(seen', At', input')
      /\ AtFirst(seen', At', input') /\ PjlWaits(seen', At') /\ PjlType(seen', At', input')
  BY DEF NoneLeft, OnlyLast, Waits, AtType, AtFirst, PjlWaits, PjlType
<1> QED
  BY <1>2 DEF Placed

LEMMA NothingEnough ==
  ASSUME LInv', At' >= Len(seen')
  PROVE  Placed'
<1>1. At' \in Nat /\ Len(seen') \in Nat
  BY PlacesThen
<1>2. NoneLeft(seen', At')
  <2>1. At' + 1..Len(seen') = {}
    BY <1>1
  <2> QED
    BY <2>1 DEF NoneLeft
<1> QED
  BY <1>2, NoneEnough

LEMMA DerailedStays ==
  ASSUME LInv, LinesIn, Derailed, At' = At, UNCHANGED <<lines, typed, last_cr>>,
         UNCHANGED skipVars, Len(seen') \in Nat, Len(seen) <= Len(seen'),
         \A i \in 1..Len(seen) : seen'[i] = seen[i]
  PROVE  Derailed'
<1>1. Len(lines) \in 1..Len(lines)
  BY EmptySeq DEF Derailed, LInv, TypeOK
<1>2. lines[Len(lines)].to \in 1..Len(seen) /\ At \in Nat /\ Len(seen) \in Nat
  BY <1>1, Places DEF LinesIn
<1>3. LfAt \in {0, 1} /\ At + LfAt < lines[Len(lines)].to
  BY DEF Derailed, LfAt
<1>4. At < Len(seen) /\ At < Len(seen') /\ At + 1 \in 1..Len(seen)
  BY <1>2, <1>3
<1>5. LfAt' = LfAt
  BY <1>4 DEF LfAt
<1> QED
  BY <1>5 DEF Derailed, skipVars

LEMMA PlacedClient ==
  ASSUME LInv, LInv', Placed,
         \/ (\E d \in Documents, n \in 1..size : ReadBlock(d, n)) \/ Call \/ UNCHANGED vars
  PROVE  Placed'
<1>1. UNCHANGED bufferVars /\ UNCHANGED <<index, lines>> /\ UNCHANGED lineVars
      /\ UNCHANGED skipVars /\ UNCHANGED typeVars
  BY DEF ReadBlock, Call, vars, bufferVars, lineVars, skipVars, typeVars
<1>2. \/ UNCHANGED <<input, id, pc>>
      \/ pc = "handler" /\ pc' = "append" /\ id # "NOTDSC"
  BY DEF ReadBlock, Call, vars
<1>3. At' = At /\ Over' = Over /\ LfAt' = LfAt
  BY <1>1 DEF At, Over, LfAt, bufferVars, lineVars, typeVars
<1>4. Derailed' = Derailed
  BY <1>1, <1>3 DEF Derailed, skipVars, typeVars
<1> QED
  BY <1>1, <1>2, <1>3, <1>4 DEF Placed, bufferVars, typeVars

LEMMA PlacedAppend ==
  ASSUME LInv, LInv', Pieces, LinesIn, Placed, AppendData
  PROVE  Placed'
<1>1. PICK k \in 0..Len(input) :
        /\ seen' = seen \o SubSeq(input, 1, k)
        /\ input' = SubSeq(input, k + 1, Len(input))
  BY PieceTaken
<1>2. /\ seen \in Seq(Symbols) /\ input \in Seq(Symbols) /\ At \in Nat
      /\ \A i \in 1..Len(input)-1 : input[i] # "LF"
  BY Types, Places DEF Pieces
<1>3. /\ seen' \in Seq(Symbols) /\ Len(seen) <= Len(seen')
      /\ \A i \in 1..Len(seen) : seen'[i] = seen[i]
      /\ AtEnd(seen, seen', input')
  <2>1. seen' \in Seq(Symbols) /\ Len(seen') = Len(seen) + k
    BY <1>1, <1>2, PieceAppended
  <2>2. \A i \in 1..Len(seen) : seen'[i] = seen[i]
    BY <1>1, <1>2, PieceAppended
  <2>3. AtEnd(seen, seen', input')
    BY <1>1, <1>2, PieceAppended
  <2> QED
    BY <1>2, <2>1, <2>2, <2>3
<1>4. /\ NoneLeft(seen, At) => OnlyLast(seen', At, input')
      /\ Waits(seen, At) => AtType(seen', At, input')
      /\ PjlWaits(seen, At) => PjlType(seen', At, input')
  BY <1>2, <1>3, AfterAppend
<1>5. /\ pc = "append" /\ pc' = IF typed THEN "lines" ELSE "type"
      /\ UNCHANGED <<id, lines>> /\ UNCHANGED lineVars /\ UNCHANGED skipVars /\ UNCHANGED typeVars
  BY DEF AppendData
<1>6. At' = At
  BY AppendInv DEF At
<1>7. Over' = Over
  BY <1>5, <1>6 DEF Over, At, typeVars
<1>8. Derailed => Derailed'
  BY <1>3, <1>5, <1>6, DerailedStays DEF lineVars, typeVars
<1> QED
  BY <1>4, <1>5, <1>6, <1>7, <1>8 DEF Placed, typeVars

LEMMA PlacedSkipBytes ==
  ASSUME LInv, LInv', Facts, LinesIn, Pieces, Placed, SkipBytes
  PROVE  Placed'
<1> DEFINE n == Least(skip_bytes, Len(data) - index)
<1>1. /\ skip_bytes' = skip_bytes - n /\ index' = (index + n) % Word
      /\ UNCHANGED bufferVars /\ UNCHANGED lineVars /\ UNCHANGED typeVars
      /\ lines' = lines /\ skip_lines' = skip_lines
      /\ IF skip_bytes' # 0 THEN NoLine ELSE Goto(pc)
      /\ Reading /\ skip_bytes # 0
  BY DEF SkipBytes
<1>2. /\ skip_bytes \in Int /\ index \in Nat /\ Len(data) \in Nat /\ index <= Len(data)
      /\ Len(data) < Word /\ Word \in Nat /\ offset \in Nat /\ Len(seen) = offset + Len(data)
      /\ index' \in Nat /\ pc \in {"first", "lines"} /\ (pc = "first" <=> ~typed)
  BY <1>1, Types, Constant, ReadingType DEF LInv, TypeOK
<1>3. n = IF skip_bytes <= Len(data) - index THEN skip_bytes ELSE Len(data) - index
  BY DEF Least
<1> HIDE DEF n
<1>4. At = offset + index /\ At' = offset + index' /\ At \in Nat /\ At' \in Nat
      /\ Len(seen) \in Nat /\ seen \in Seq(Symbols)
  BY <1>1, <1>2, Types DEF At, bufferVars
<1>5. ASSUME skip_bytes' # 0
      PROVE  Placed'
  <2>1. n # skip_bytes
    BY <1>1, <1>2, <1>5
  <2>2. index + n = Len(data)
    BY <1>2, <1>3, <2>1
  <2>3. index' = Len(data)
    BY <1>1, <1>2, <2>2
  <2>4. At' >= Len(seen')
    BY <1>1, <1>2, <1>4, <2>3 DEF bufferVars
  <2> QED
    BY <2>4, NothingEnough
<1>6. ASSUME skip_bytes' = 0
      PROVE  n = skip_bytes /\ n \in Int /\ pc' = pc /\ UNCHANGED <<input, id>>
  BY <1>1, <1>2, <1>3, <1>6 DEF Goto
<1>7. ~Derailed
  BY <1>1 DEF Derailed
<1>8. ASSUME At <= At'
      PROVE  Over => Over'
  BY <1>1, <1>4, <1>8, Constant DEF Over, At, typeVars
<1>9. ASSUME skip_bytes' = 0, ~typed
      PROVE  Placed'
  <2>1. pc = "first" /\ ~skip_pjl /\ skip_bytes > 0
    BY <1>1, <1>2, <1>9 DEF Facts
  <2>2. AtFirst(seen, At, input)
    BY <1>9, <2>1 DEF Placed
  <2>3. index + n <= Len(data) /\ index + n \in Nat /\ n > 0
    BY <1>2, <1>3, <1>6, <1>9, <2>1
  <2>4. index' = index + n
    BY <1>1, <1>2, <2>3
  <2>5. At < At'
    BY <1>2, <1>4, <1>6, <1>9, <2>3, <2>4
  <2>6. AtFirst(seen, At', input)
    BY <1>4, <2>2, <2>5 DEF AtFirst
  <2> QED
    BY <1>1, <1>6, <1>9, <2>1, <2>6 DEF Placed, bufferVars, typeVars
<1>10. ASSUME skip_bytes' = 0, typed, At <= At'
       PROVE  Placed'
  <2>1. pc = "lines"
    BY <1>2, <1>10
  <2>2. OnlyLast(seen, At, input) => OnlyLast(seen, At', input)
    BY <1>4, <1>10, LaterOn
  <2> QED
    BY <1>1, <1>6, <1>7, <1>8, <1>10, <2>1, <2>2 DEF Placed, bufferVars, typeVars
<1>11. ASSUME skip_bytes' = 0, typed, ~(At <= At')
       PROVE  Placed'
  <2>1. skip_bytes < 0
    <3> SUFFICES ASSUME skip_bytes > 0 PROVE FALSE
      BY <1>1, <1>2
    <3>1. index + n <= Len(data) /\ index + n \in Nat /\ n > 0
      BY <1>2, <1>3, <1>6, <1>11
    <3>2. index' = index + n
      BY <1>1, <1>2, <3>1
    <3> QED
      BY <1>2, <1>4, <1>6, <1>11, <3>1, <3>2
  <2>2. lines # <<>> /\ At = lines[Len(lines)].to /\ skip_lines = 0 /\ (last_cr => seen[At] = "CR")
    BY <2>1 DEF Facts
  <2>3. At' + LfAt' < At
    <3>1. LfAt' = IF last_cr /\ At' < Len(seen) /\ seen[At' + 1] = "LF" THEN 1 ELSE 0
      BY <1>1 DEF LfAt, bufferVars, lineVars
    <3>2. CASE At' + 1 = At
      <4>1. ~(last_cr /\ seen[At' + 1] = "LF")
        BY <2>2, <3>2
      <4> QED
        BY <1>4, <3>1, <3>2, <4>1
    <3>3. CASE At' + 1 # At
      BY <1>4, <1>11, <3>1, <3>3
    <3> QED
      BY <3>2, <3>3
  <2>4. Derailed'
    BY <1>1, <1>11, <2>2, <2>3 DEF Derailed, typeVars
  <2>5. typed'
    BY <1>1, <1>11 DEF typeVars
  <2> QED
    BY <2>4, <2>5 DEF Placed
<1> QED
  BY <1>5, <1>9, <1>10, <1>11

LEMMA PlacedIncomplete ==
  ASSUME LInv, LInv', Incomplete
  PROVE  Placed'
<1>1. /\ Unread # <<>> /\ (\A n \in 1..Len(Text) : ~LineLength(Text, n))
      /\ index' = index + Lf /\ UNCHANGED bufferVars
  BY DEF Incomplete
<1>2. NoEol(Text)
  BY <1>1, IncompleteText
<1>3. /\ Len(Text) = Len(data) - index - Lf /\ Len(Text) \in Nat /\ Lf \in {0, 1}
      /\ \A i \in 1..Len(Text) : Text[i] = seen[offset + index + Lf + i]
  BY <1>1, TextIs
<1>4. /\ index \in Nat /\ offset \in Nat /\ Len(data) \in Nat /\ Len(seen) = offset + Len(data)
  BY Types
<1> HIDE DEF Lf, Text
<1>5. At' = offset + index + Lf /\ seen' = seen
  BY <1>1, <1>3, <1>4 DEF At, bufferVars
<1>6. NoneLeft(seen', At')
  <2> SUFFICES ASSUME NEW i \in At'+1..Len(seen)
               PROVE  seen[i] # "LF"
    BY <1>5 DEF NoneLeft
  <2> DEFINE j == i - At'
  <2>1. j \in 1..Len(Text) /\ offset + index + Lf + j = i
    BY <1>3, <1>4, <1>5
  <2>2. Text[j] = seen[i] /\ Text[j] \notin Eol
    BY <1>2, <1>3, <2>1 DEF NoEol
  <2> QED
    BY <2>2 DEF Eol
<1> QED
  BY <1>6, NoneEnough

LEMMA PlacedIdle ==
  ASSUME LInv, LInv', IndexInvalid \/ Exhausted
  PROVE  Placed'
<1>1. index >= Len(data) /\ UNCHANGED bufferVars /\ UNCHANGED index
  <2>1. CASE IndexInvalid
    BY <2>1, Types DEF IndexInvalid
  <2>2. CASE Exhausted
    BY <2>2, UnreadIs DEF Exhausted
  <2> QED
    BY <2>1, <2>2
<1>2. At' = At /\ seen' = seen
  BY <1>1 DEF At, bufferVars
<1>3. At' >= Len(seen')
  BY <1>1, <1>2, Types DEF At
<1> QED
  BY <1>3, NothingEnough

\* A line taken where reading was moved back begins within the line before it.
LEMMA NotDerailed ==
  ASSUME LInv, LinesApart', NEW n \in 1..Len(Text), Take(n), NEW b \in BOOLEAN, AddLine(n, b),
         UNCHANGED doseps
  PROVE  ~Derailed
<1> SUFFICES ASSUME Derailed PROVE FALSE
  OBVIOUS
<1> DEFINE m == Len(lines)
<1>1. /\ m \in Nat /\ Len(lines') = m + 1
      /\ \A l \in 1..m : lines'[l] = lines[l]
      /\ lines'[m + 1] = [from |-> From, to |-> From + n, scanned |-> b] /\ From \in Nat
  BY AddedLine
<1>2. From = At + LfAt
  <2>1. From = IF last_cr /\ offset + index < Len(seen) /\ seen[offset + index + 1] = "LF"
               THEN offset + index + 1 ELSE offset + index
    BY TakeFacts
  <2>2. At \in Nat /\ At = offset + index
    BY Places DEF At
  <2> HIDE DEF From
  <2> QED
    BY <2>1, <2>2 DEF LfAt
<1> HIDE DEF From
<1>3. m \in 1..m /\ m \in 1..Len(lines')-1
  <2>1. m # 0
    BY EmptySeq DEF Derailed, LInv, TypeOK
  <2> QED
    BY <1>1, <2>1
<1>4. lines[m].to <= From
  BY <1>1, <1>3 DEF LinesApart
<1>5. lines[m].to \in Nat
  <2>1. lines \in Seq(LineRecord)
    BY DEF LInv, TypeOK, LineRecord
  <2>2. lines[m] \in LineRecord
    BY <1>3, <2>1
  <2> QED
    BY <2>2 DEF LineRecord
<1> QED
  BY <1>1, <1>2, <1>4, <1>5 DEF Derailed

LEMMA PlacedSkipLine ==
  ASSUME LInv, LInv', Placed, SkipLine
  PROVE  Placed'
<1>1. PICK n \in 1..Len(Text) : Take(n)
  BY DEF SkipLine
<1>2. /\ SkipsLeft # 0 /\ UNCHANGED typeVars /\ UNCHANGED lines /\ pc' = pc /\ UNCHANGED <<input, id>>
      /\ doseps' = doseps /\ Reading
  BY <1>1 DEF SkipLine, Goto, typeVars, Take
<1>3. typed /\ pc = "lines" /\ skip_lines # 0
  BY <1>2, ReadingType DEF SkipsLeft
<1>4. /\ From \in Nat /\ From + n \in From+1..Len(seen) /\ (offset + index)' = From + n
      /\ UNCHANGED bufferVars
      /\ From = IF last_cr /\ offset + index < Len(seen) /\ seen[offset + index + 1] = "LF"
                THEN offset + index + 1 ELSE offset + index
  BY <1>1, <1>2, TakeFacts
<1> HIDE DEF From
<1>5. At \in Nat /\ At' \in Nat /\ At <= At' /\ At = offset + index /\ At' = (offset + index)'
      /\ Len(seen) \in Nat /\ seen \in Seq(Symbols)
  <2>1. At \in Nat /\ Len(seen) \in Nat /\ seen \in Seq(Symbols)
    BY Places
  <2>2. At = offset + index /\ At' = (offset + index)'
    BY DEF At
  <2>3. From >= At /\ At' = From + n /\ From + n \in From+1..Len(seen)
    <3>1. From = At \/ From = At + 1
      BY <1>4, <2>2
    <3> QED
      BY <1>4, <2>1, <2>2, <3>1
  <2>4. At' > From /\ At' \in Nat
    BY <1>4, <2>1, <2>3
  <2> QED
    BY <1>4, <2>1, <2>2, <2>3, <2>4
<1>6. ~Derailed
  BY <1>3 DEF Derailed
<1>7. Over => Over'
  BY <1>2, <1>5, Constant DEF Over, At
<1>8. OnlyLast(seen, At, input) => OnlyLast(seen, At', input)
  BY <1>5, LaterOn
<1> QED
  BY <1>2, <1>3, <1>4, <1>6, <1>7, <1>8 DEF Placed, typeVars, bufferVars

LEMMA PlacedFirstLine ==
  ASSUME LInv, LInv', Facts, Placed, FirstLine
  PROVE  Placed'
<1>1. PICK n \in 1..Len(Text) : Take(n) /\ AddLine(n, FALSE)
  BY DEF FirstLine
<1>2. /\ pc = "first" /\ typed' = TRUE /\ doseps' = doseps
      /\ \/ pc' = "lines" /\ UNCHANGED input
         \/ id' = "NOTDSC"
  BY DEF FirstLine, Return
<1>3. /\ From + n \in From+1..Len(seen) /\ From \in Nat /\ At' = From + n /\ At <= From
      /\ At \in Nat /\ seen' = seen
  <2>1. From + n \in From+1..Len(seen)
    BY <1>1, <1>2, TakeFacts
  <2>2. /\ From \in Nat /\ At' = From + n /\ At <= From /\ At \in Nat /\ seen' = seen
    BY <1>1, <1>2, AddedLine
  <2> QED
    BY <2>1, <2>2
<1> HIDE DEF From
<1>4. AtFirst(seen, At, input)
  BY <1>2 DEF Placed, Facts, LInv, Place
<1>5. OnlyLast(seen, At', input)
  BY <1>3, <1>4, Places DEF AtFirst, OnlyLast
<1> QED
  BY <1>2, <1>3, <1>5 DEF Placed

LEMMA PlacedNextLine ==
  ASSUME LInv, LInv', Pieces, Placed, LinesApart', NextLine
  PROVE  Placed'
<1>1. PICK n \in 1..Len(Text), b \in BOOLEAN :
         /\ Take(n) /\ AddLine(n, b)
         /\ Behind(n) \/ (pc' = pc /\ UNCHANGED input)
  BY DEF NextLine, Goto
<1>2. /\ pc = "lines" /\ doseps' = doseps /\ UNCHANGED typeVars
  BY DEF NextLine, typeVars
<1>3. typed /\ id # "NOTDSC"
  BY <1>2 DEF LInv, Place, TypeOK, Pieces
<1>4. ~Derailed
  BY <1>1, <1>2, NotDerailed
<1>5. /\ At \in Nat /\ At <= At' /\ At' = From + n /\ From \in Nat /\ seen' = seen
      /\ At' \in Nat
  <2> QED
    BY <1>1, <1>2, PlacesThen, AddedLine
<1>6. Behind(n) => Over'
  <2>1. Behind(n) => doseps /\ From + n > PsEnd
    BY DEF Behind, From
  <2>2. Over' = (doseps' /\ At' > PsEnd)
    BY DEF Over, At
  <2> HIDE DEF From
  <2> QED
    BY <1>2, <1>5, <2>1, <2>2
<1> HIDE DEF From
<1>7. Over => Over'
  BY <1>2, <1>5, Constant DEF Over, At
<1>8. OnlyLast(seen, At, input) => OnlyLast(seen, At', input)
  BY <1>5, Places, LaterOn
<1> QED
  BY <1>1, <1>2, <1>3, <1>4, <1>5, <1>6, <1>7, <1>8 DEF Placed, typeVars

\* What dsc_scan_type looks at.
LEMMA StartSymbols ==
  ASSUME LInv, pc = "type"
  PROVE  /\ At \in Nat /\ Len(Start) \in Nat /\ Ctrl \in {0, 1} /\ At + Ctrl \in Nat
         /\ Len(seen) = At + Ctrl + Len(Start)
         /\ \A i \in 1..Len(Start) : Start[i] = seen[At + Ctrl + i]
         /\ Ctrl = 1 => seen[At + 1] = "^D"
         /\ Start \in Seq(Symbols)
<1>1. /\ index \in Nat /\ Len(data) \in Nat /\ index <= Len(data)
      /\ Ctrl \in {0, 1} /\ Len(Start) \in Nat /\ index + Ctrl + Len(Start) = Len(data)
  BY StartIs
<1>2. /\ Unread \in Seq(Symbols) /\ Len(Unread) = Len(data) - index
      /\ \A i \in 1..Len(Unread) : Unread[i] = seen[offset + index + i]
      /\ offset \in Nat /\ Len(seen) = offset + Len(data)
  BY <1>1, UnreadIs, Types
<1>3. Ctrl = 1 => Unread # <<>> /\ Unread[1] = "^D"
  BY DEF Ctrl
<1> HIDE DEF Unread, Ctrl
<1>4. At = offset + index /\ At \in Nat
  BY <1>1, <1>2 DEF At
<1>5. Len(seen) = At + Ctrl + Len(Start) /\ At + Ctrl \in Nat
  BY <1>1, <1>2, <1>4
<1>6. Ctrl = 1 => seen[At + 1] = "^D"
  <2> SUFFICES ASSUME Ctrl = 1 PROVE seen[At + 1] = "^D"
    OBVIOUS
  <2>1. 1 \in 1..Len(Unread)
    BY <1>2, <1>3, EmptySeq
  <2> QED
    BY <1>2, <1>3, <1>4, <2>1
<1> DEFINE u == Len(Unread)
<1>7. u \in Nat /\ Ctrl \in Nat /\ Ctrl <= u /\ Len(Start) = u - Ctrl
  BY <1>1, <1>2
<1>8. /\ SubSeq(Unread, 1 + Ctrl, u) \in Seq(Symbols)
      /\ \A j \in 1..u - (1 + Ctrl) + 1 : SubSeq(Unread, 1 + Ctrl, u)[j] = Unread[1 + Ctrl + j - 1]
  <2>1. 1 + Ctrl \in Int /\ u \in Int /\ 1 + Ctrl >= 1 /\ u <= Len(Unread) /\ 1 + Ctrl <= u + 1
    BY <1>7
  <2> HIDE DEF u
  <2>2. u <= Len(Unread)
    BY <2>1
  <2> DEFINE m == 1 + Ctrl
  <2>3. m \in Int /\ m >= 1 /\ m <= u + 1
    BY <2>1
  <2> HIDE DEF m
  <2>4. /\ SubSeq(Unread, m, u) \in Seq(Symbols)
        /\ \A j \in 1..u - m + 1 : SubSeq(Unread, m, u)[j] = Unread[m + j - 1]
    BY <1>2, <2>1, <2>2, <2>3, Part
  <2> QED
    BY <2>4 DEF m
<1>9. Start = SubSeq(Unread, 1 + Ctrl, u)
  BY DEF Start
<1>10. \A i \in 1..Len(Start) : Start[i] = seen[At + Ctrl + i]
  <2> SUFFICES ASSUME NEW i \in 1..Len(Start) PROVE Start[i] = seen[At + Ctrl + i]
    OBVIOUS
  <2>1. i \in 1..u - (1 + Ctrl) + 1 /\ 1 + Ctrl + i - 1 = Ctrl + i /\ Ctrl + i \in 1..u
        /\ At + (Ctrl + i) = At + Ctrl + i
    BY <1>4, <1>7
  <2>2. Start[i] = Unread[Ctrl + i]
    BY <1>8, <1>9, <2>1
  <2> HIDE DEF Start
  <2> QED
    BY <1>2, <1>4, <2>1, <2>2
<1> QED
  BY <1>1, <1>4, <1>5, <1>6, <1>8, <1>9, <1>10

\* A run of newlines and what follows it.
LEMMA EolRunIs ==
  ASSUME LInv, pc = "type", PjlByLf, pjl, NEW r \in 1..Len(Unread)-1, EolRun(Unread, r),
         PjlType(seen, At, input)
  PROVE  /\ At + r \in Nat /\ At + r < Len(seen) /\ seen[At + r] = "LF"
         /\ \A i \in At + r + 1..Len(seen) : seen[i] = "LF" => i = Len(seen) /\ input = <<>>
<1>1. /\ index \in Nat /\ offset \in Nat /\ Len(data) \in Nat /\ Len(seen) = offset + Len(data)
      /\ index <= Len(data)
  BY Types DEF LInv, Place
<1>2. /\ Unread \in Seq(Symbols) /\ Len(Unread) = Len(data) - index
      /\ \A i \in 1..Len(Unread) : Unread[i] = seen[offset + index + i]
  BY <1>1, UnreadIs
<1>3. /\ Unread[r] \in Eol /\ (r < Len(Unread) => Unread[r + 1] \notin Eol)
  BY DEF EolRun
<1> HIDE DEF Unread
<1>4. /\ r \in 1..Len(Unread) /\ r < Len(Unread) /\ r + 1 \in 1..Len(Unread) /\ r \in Nat
      /\ At \in Nat /\ At = offset + index /\ At + r \in 1..Len(seen) /\ At + r < Len(seen)
  BY <1>1, <1>2 DEF At
<1>5. seen[At + r] = "LF"
  <2>1. seen[At + r] \in Eol /\ seen[At + r] # "CR"
    BY <1>2, <1>3, <1>4 DEF PjlByLf
  <2> QED
    BY <2>1 DEF Eol
<1>6. ASSUME NEW i \in At + r + 1..Len(seen), seen[i] = "LF"
      PROVE  i = Len(seen) /\ input = <<>>
  <2>1. At + r \in At+1..Len(seen) /\ i \in At+1..Len(seen) /\ At + r < i
    BY <1>4
  <2> QED
    BY <1>5, <1>6, <2>1 DEF PjlType
<1> QED
  BY <1>4, <1>5, <1>6

LEMMA PlacedSkipPjl ==
  ASSUME LInv, LInv', Facts, PjlByLf, Placed, SkipPjlMore \/ SkipPjlEnd
  PROVE  Placed'
<1>1. pc = "type" /\ skip_pjl /\ pjl /\ ~typed /\ UNCHANGED bufferVars
  <2>1. pc = "type" /\ skip_pjl /\ UNCHANGED bufferVars
    BY DEF SkipPjlMore, SkipPjlEnd, NeedMore
  <2> QED
    BY <2>1 DEF Facts, LInv, Place
<1>2. PjlType(seen, At, input)
  BY <1>1 DEF Placed
<1>3. /\ index \in Nat /\ offset \in Nat /\ Len(data) \in Nat /\ Len(seen) = offset + Len(data)
      /\ index <= Len(data) /\ At = offset + index
      /\ Unread \in Seq(Symbols) /\ Len(Unread) = Len(data) - index
  <2>1. index <= Len(data)
    BY <1>1 DEF LInv, Place
  <2> QED
    BY <2>1, Types, UnreadIs DEF At
<1>4. At' = offset + index' /\ At' \in Nat /\ seen' = seen
  BY <1>1, <1>3, PlacesThen DEF bufferVars
<1>5. CASE SkipPjlMore
  <2>1. UNCHANGED typeVars /\ pc' = "handler"
    BY <1>5 DEF SkipPjlMore, NeedMore, Return
  <2>2. \/ Len(Unread) < 2 /\ index' = index
        \/ index' = Len(data)
        \/ index' = Len(data) - 1
        \/ \E r \in 1..Len(Unread)-1 : EolRun(Unread, r) /\ index' = index + r
    BY <1>5 DEF SkipPjlMore, NeedMore
  <2>3. PjlWaits(seen, At')
    <3>1. CASE (Len(Unread) < 2 /\ index' = index) \/ index' = Len(data) \/ index' = Len(data) - 1
      <4> HIDE DEF Unread
      <4>1. Len(seen) <= At' + 1
        BY <1>3, <1>4, <3>1
      <4> QED
        BY <1>3, <1>4, <4>1 DEF PjlWaits
    <3>2. CASE \E r \in 1..Len(Unread)-1 : EolRun(Unread, r) /\ index' = index + r
      <4>1. PICK r \in 1..Len(Unread)-1 : EolRun(Unread, r) /\ index' = index + r
        BY <3>2
      <4>2. /\ At + r \in Nat /\ At + r < Len(seen)
            /\ \A i \in At + r + 1..Len(seen) : seen[i] = "LF" => i = Len(seen) /\ input = <<>>
        BY <1>1, <1>2, <4>1, EolRunIs
      <4> HIDE DEF Unread
      <4>3. At' = At + r
        BY <1>3, <1>4, <4>1
      <4> QED
        BY <1>3, <4>2, <4>3 DEF PjlWaits
    <3> QED
      BY <2>2, <3>1, <3>2
  <2> QED
    BY <1>1, <1>4, <2>1, <2>3 DEF Placed, typeVars
<1>6. CASE SkipPjlEnd
  <2>1. /\ UNCHANGED typed /\ ~skip_pjl' /\ pc' = "type" /\ UNCHANGED input
    BY <1>1, <1>6 DEF SkipPjlEnd
  <2>2. PICK r \in 1..Len(Unread)-1 : EolRun(Unread, r) /\ index' = index + r
    BY <1>6 DEF SkipPjlEnd
  <2>3. /\ At + r \in Nat /\ At + r < Len(seen)
        /\ \A i \in At + r + 1..Len(seen) : seen[i] = "LF" => i = Len(seen) /\ input = <<>>
    BY <1>1, <1>2, <2>2, EolRunIs
  <2> HIDE DEF Unread
  <2>4. At' = At + r
    BY <1>3, <1>4, <2>2
  <2>5. AtType(seen, At', input)
    BY <2>3, <2>4 DEF AtType
  <2> QED
    BY <1>1, <1>4, <2>1, <2>5 DEF Placed
<1> QED
  BY <1>5, <1>6

LEMMA PlacedType ==
  ASSUME LInv, LInv', Facts, Placed,
         TypeMore \/ TypePjl \/ TypeDosEps \/ TypePdf \/ TypeByLine
  PROVE  Placed'
<1>1. pc = "type" /\ ~skip_pjl /\ ~typed /\ UNCHANGED bufferVars
  <2>1. pc = "type" /\ ~skip_pjl /\ UNCHANGED bufferVars
    BY DEF ScanType, TypeMore, TypePjl, TypeDosEps, TypePdf, TypeByLine, NeedMore
  <2> QED
    BY <2>1 DEF LInv, Place
<1>2. AtType(seen, At, input)
  BY <1>1 DEF Placed
<1> DEFINE a == At + Ctrl
<1>3. /\ At \in Nat /\ Len(Start) \in Nat /\ Ctrl \in {0, 1} /\ a \in Nat
      /\ Len(seen) = a + Len(Start)
      /\ \A i \in 1..Len(Start) : Start[i] = seen[a + i]
      /\ Ctrl = 1 => seen[At + 1] = "^D"
      /\ HeaderLength \in Nat
  BY <1>1, StartSymbols, Constant
<1>4. index \in Nat /\ offset \in Nat /\ At = offset + index
  BY Types DEF At
<1> HIDE DEF Start, Ctrl
<1>5. AtType(seen, a, input)
  <2>1. CASE Ctrl = 0
    BY <1>2, <1>3, <2>1
  <2>2. CASE Ctrl = 1
    BY <1>2, <1>3, <2>2 DEF AtType
  <2> QED
    BY <1>3, <2>1, <2>2
<1>6. Start # <<>> => Len(Start) # 0 /\ Start[1] = seen[a + 1]
  <2>1. Start \in Seq(Symbols)
    BY <1>1, StartSymbols
  <2>2. Start # <<>> => Len(Start) # 0
    BY <2>1, EmptySeq
  <2> QED
    BY <1>3, <2>2
<1> HIDE DEF a
<1>7. At' = offset + index' /\ At' \in Nat /\ seen' = seen
  BY <1>1, PlacesThen DEF bufferVars
<1>8. Len(Start) >= TypeNeeds => Start # <<>>
  <2>1. Start = <<>> => TypeNeeds = 1 /\ Len(Start) = 0
    BY DEF TypeNeeds
  <2> QED
    BY <2>1
<1>9. CASE TypeMore
  <2>1. /\ Len(Start) < TypeNeeds /\ index' = index + Ctrl /\ pc' = "handler"
        /\ UNCHANGED <<typed, skip_pjl>>
    BY <1>9 DEF TypeMore, NeedMore, Return
  <2>2. At' = a
    BY <1>3, <1>4, <1>7, <2>1 DEF a
  <2>3. \/ Len(Start) <= 1
        \/ Start[1] = "C5D0D3C6" /\ Len(Start) < HeaderLength
    <3>1. CASE Start = <<>>
      BY <3>1
    <3>2. CASE Start # <<>> /\ Start[1] = "ESC"
      <4>1. TypeNeeds = 2
        BY <3>2 DEF TypeNeeds, UelLength
      <4> QED
        BY <1>3, <2>1, <4>1
    <3>3. CASE Start # <<>> /\ Start[1] = "C5D0D3C6"
      <4>1. TypeNeeds = HeaderLength
        BY <3>3 DEF TypeNeeds
      <4> QED
        BY <2>1, <3>3, <4>1
    <3>4. CASE Start # <<>> /\ Start[1] # "ESC" /\ Start[1] # "C5D0D3C6"
      <4>1. TypeNeeds = 2
        BY <3>4 DEF TypeNeeds
      <4> QED
        BY <1>3, <2>1, <4>1
    <3> QED
      BY <3>1, <3>2, <3>3, <3>4
  <2>4. Waits(seen, a)
    <3>1. CASE Len(Start) <= 1
      BY <1>3, <3>1 DEF Waits
    <3>2. CASE Len(Start) > 1 /\ Start[1] = "C5D0D3C6" /\ Len(Start) < HeaderLength
      <4>1. Start[1] = seen[a + 1]
        BY <1>3, <3>2
      <4>2. Len(seen) < a + HeaderLength
        BY <1>3, <3>2
      <4> QED
        BY <3>2, <4>1, <4>2 DEF Waits
    <3> QED
      BY <1>3, <2>3, <3>1, <3>2
  <2> QED
    BY <1>1, <1>7, <2>1, <2>2, <2>4 DEF Placed
<1>10. CASE TypePjl
  <2>1. /\ Len(Start) >= TypeNeeds /\ IsUel /\ skip_pjl' = TRUE /\ typed' = typed
        /\ index' = index + Ctrl + UelLength /\ pc' = pc /\ input' = input
    BY <1>10 DEF TypePjl
  <2>2. seen[a + 1] = "ESC"
    BY <1>6, <1>8, <2>1 DEF IsUel
  <2>3. At' = a + 2
    BY <1>3, <1>4, <1>7, <2>1 DEF a, UelLength
  <2>4. PjlType(seen, At', input)
    BY <1>3, <1>5, <2>2, <2>3 DEF AtType, PjlType
  <2> QED
    BY <1>1, <1>7, <2>1, <2>4 DEF Placed
<1>11. CASE TypeDosEps
  <2>1. /\ Len(Start) >= TypeNeeds /\ skip_pjl' = skip_pjl /\ typed' = typed
        /\ index' = index + Ctrl + HeaderLength /\ pc' = "first" /\ input' = input
    BY <1>11 DEF TypeDosEps, Goto
  <2>2. At' = a + HeaderLength
    BY <1>3, <1>4, <1>7, <2>1 DEF a
  <2>3. HeaderLength >= 2
    BY Constant, Halves
  <2>4. AtFirst(seen, At', input)
    BY <1>3, <1>5, <2>2, <2>3 DEF AtType, AtFirst
  <2> QED
    BY <1>1, <1>7, <2>1, <2>4 DEF Placed
<1>12. CASE TypePdf
  <2>1. /\ Len(Start) >= TypeNeeds /\ Start[1] = "%PDF-" /\ typed' = TRUE
        /\ index' = index + Ctrl /\ pc' = "lines" /\ input' = input
    BY <1>12 DEF TypePdf, Goto
  <2>2. At' = a
    BY <1>3, <1>4, <1>7, <2>1 DEF a
  <2>3. seen[a + 1] = "%PDF-"
    BY <1>6, <1>8, <2>1
  <2>4. OnlyLast(seen, At', input)
    BY <1>3, <1>5, <2>2, <2>3 DEF AtType, OnlyLast
  <2> QED
    BY <1>7, <2>1, <2>4 DEF Placed
<1>13. CASE TypeByLine
  <2>1. /\ Len(Start) >= TypeNeeds /\ Start[1] # "C5D0D3C6"
        /\ skip_pjl' = skip_pjl /\ typed' = typed
        /\ index' = index + Ctrl /\ pc' = "first" /\ input' = input
    BY <1>13 DEF TypeByLine, Goto
  <2>2. At' = a
    BY <1>3, <1>4, <1>7, <2>1 DEF a
  <2>3. seen[a + 1] # "C5D0D3C6"
    BY <1>6, <1>8, <2>1
  <2>4. AtFirst(seen, At', input)
    BY <1>5, <2>2, <2>3 DEF AtType, AtFirst
  <2> QED
    BY <1>1, <1>7, <2>1, <2>4 DEF Placed
<1> QED
  BY <1>9, <1>10, <1>11, <1>12, <1>13

\* A page whose line ends with \n was noticed, or is when this call returns.
Pending ==
  /\ pc = "lines" /\ id = "PAGE" /\ input = <<>> /\ skip_bytes = 0
  /\ At >= Len(seen) /\ seen[Len(seen)] = "LF"
Reported == \A l \in Pages : seen[lines[l].to] = "LF" => stop \/ Pending

LEMMA StopsStay ==
  ASSUME stop, [Next]_vars
  PROVE  stop'
<1>1. ASSUME NEW i, Return(i)
      PROVE  stop'
  BY <1>1 DEF Return
<1>2. CASE UNCHANGED vars
  BY <1>2 DEF vars, clientVars
<1>3. CASE (\E d \in Documents, n \in 1..size : ReadBlock(d, n)) \/ Call \/ AppendData
           \/ IndexInvalid
  BY <1>3 DEF ReadBlock, Call, AppendData, IndexInvalid, Leave, clientVars
<1>4. CASE Typing
  BY <1>1, <1>4 DEF Typing, SkipPjlMore, SkipPjlEnd, TypeMore, TypePjl, TypeDosEps,
                    TypePdf, TypeByLine, NeedMore, Goto, clientVars
<1>5. CASE SkipBytes \/ Exhausted \/ Incomplete \/ SkipLine
  BY <1>1, <1>5 DEF SkipBytes, Exhausted, Incomplete, SkipLine, NoLine, Goto, clientVars
<1>6. CASE FirstLine
  BY <1>1, <1>6 DEF FirstLine, clientVars
<1>7. CASE NextLine
  BY <1>7 DEF NextLine, Leave, Goto, clientVars
<1> QED
  BY <1>2, <1>3, <1>4, <1>5, <1>6, <1>7 DEF Next, ScanData, ReadLine

\* Nothing is left: dsc_scan_data returns the page, and the piece ended with its line.
LEMMA PendingStep ==
  ASSUME LInv, Pieces, Pending, [Next]_vars
  PROVE  stop' \/ Pending'
<1>1. /\ pc = "lines" /\ id = "PAGE" /\ input = <<>> /\ skip_bytes = 0
      /\ At >= Len(seen) /\ seen[Len(seen)] = "LF"
  BY DEF Pending
<1>2. Unread = <<>>
  <2>1. index >= Len(data)
    BY <1>1, Types DEF At
  <2> QED
    BY <2>1, UnreadIs, Types
<1>3. Text = <<>>
  BY <1>2, NoText
<1>4. CASE UNCHANGED vars
  BY <1>1, <1>4 DEF Pending, vars, bufferVars, skipVars, At
<1>5. CASE Exhausted
  <2>1. Return(id)
    BY <1>1, <1>5 DEF Exhausted, NoLine
  <2>2. PieceEnd = "LF"
    BY <1>1 DEF Pieces
  <2> QED
    BY <1>1, <2>1, <2>2 DEF Return, PieceEnd
<1>6. CASE ~Exhausted /\ ~UNCHANGED vars
  <2>1. ~(\E d \in Documents, n \in 1..size : ReadBlock(d, n)) /\ ~Call /\ ~AppendData /\ ~IndexInvalid
    BY <1>1 DEF ReadBlock, Call, AppendData, IndexInvalid
  <2>2. ~Typing
    BY <1>1 DEF Typing, SkipPjlMore, SkipPjlEnd, ScanType, TypeMore, TypePjl, TypeDosEps, TypePdf,
                TypeByLine
  <2>3. ~SkipBytes /\ ~Incomplete
    BY <1>1, <1>2 DEF SkipBytes, Incomplete
  <2>4. ~SkipLine /\ ~FirstLine /\ ~NextLine
    <3>1. 1..Len(Text) = {}
      BY <1>3
    <3> QED
      BY <3>1 DEF SkipLine, FirstLine, NextLine
  <2> QED
    BY <1>6, <2>1, <2>2, <2>3, <2>4 DEF Next, ScanData, ReadLine
<1> QED
  BY <1>4, <1>5, <1>6

\* The line of a page that ends with \n is the last of its piece.
LEMMA PageTaken ==
  ASSUME LInv, Pieces, Placed, LinesApart', NEW n \in 1..Len(Text), Take(n), AddLine(n, TRUE),
         Scans(n), Text[1] = "Page", Text[n] = "LF"
  PROVE  Pending'
<1>1. /\ pc = "lines" /\ ~Behind(n) /\ Embedding("Page") /\ pc' = pc /\ input' = input
      /\ id' = "PAGE" /\ doseps' = doseps
  BY DEF Scans, typeVars
<1>2. typed /\ id # "NOTDSC"
  BY <1>1 DEF LInv, Place, TypeOK, Pieces
<1>3. ~Derailed
  BY <1>1, NotDerailed
<1>4. /\ At \in Nat /\ At <= From /\ From \in Nat /\ At' = From + n /\ Text[n] = seen[From + n]
      /\ From + n \in 1..Len(seen) /\ seen' = seen
  BY <1>1, AddedLine
<1>5. From + n \in From+1..Len(seen)
  BY <1>1, TakeFacts
<1>6. ~Over
  <2>1. ~(doseps /\ From + n > PsEnd)
    BY <1>1 DEF Behind, From
  <2> HIDE DEF From
  <2>2. From + n >= At
    BY <1>4, <1>5
  <2> QED
    BY <1>4, <2>1, <2>2, Constant DEF Over, At
<1> HIDE DEF From
<1>7. OnlyLast(seen, At, input)
  BY <1>1, <1>2, <1>3, <1>6 DEF Placed
<1>8. From + n = Len(seen) /\ input = <<>>
  <2>1. From + n \in At+1..Len(seen)
    BY <1>4, <1>5
  <2> QED
    BY <1>4, <1>7, <2>1 DEF OnlyLast
<1>9. skip_bytes' = 0
  BY <1>1 DEF Embedding
<1> QED
  BY <1>1, <1>4, <1>8, <1>9 DEF Pending

LEMMA ReportedStep ==
  ASSUME LInv, Pieces, LinesIn, Placed, Reported, LinesApart', [Next]_vars
  PROVE  Reported'
<1> SUFFICES ASSUME NEW l \in Pages', seen'[lines'[l].to] = "LF"
             PROVE  stop' \/ Pending'
  BY DEF Reported
<1>1. CASE l \in 1..Len(lines)
  <2>1. l \in Pages /\ seen[lines[l].to] = "LF"
    BY <1>1, PagesGrow
  <2> QED
    BY <2>1, StopsStay, PendingStep DEF Reported
<1>2. CASE l \notin 1..Len(lines)
  <2>1. l \in 1..Len(lines') /\ lines'[l].scanned /\ seen'[lines'[l].from + 1] = "Page"
    BY DEF Pages
  <2>2. PICK n \in 1..Len(Text), b \in BOOLEAN :
          Take(n) /\ AddLine(n, b) /\ UNCHANGED doseps /\ (b => Scans(n))
    BY <1>2, <2>1, LinesStep
  <2>3. /\ Len(lines) \in Nat /\ Len(lines') = Len(lines) + 1
        /\ lines'[Len(lines) + 1] = [from |-> From, to |-> From + n, scanned |-> b]
        /\ Text[1] = seen[From + 1] /\ Text[n] = seen[From + n] /\ seen' = seen
    BY <2>2, AddedLine
  <2> HIDE DEF From
  <2>4. l = Len(lines) + 1
    BY <1>2, <2>1, <2>3
  <2>5. b = TRUE /\ Text[1] = "Page" /\ Text[n] = "LF"
    BY <2>1, <2>3, <2>4
  <2> QED
    BY <2>2, <2>5, PageTaken
<1> QED
  BY <1>1, <1>2

LEMMA PlacedStep ==
  ASSUME LInv, LInv', Pieces, LinesIn, Facts, Placed, LinesApart', PjlByLf,
         [Next]_vars
  PROVE  Placed'
BY PlacedClient, PlacedAppend, PlacedSkipBytes, PlacedIncomplete, PlacedIdle, PlacedSkipLine,
   PlacedFirstLine, PlacedNextLine, PlacedSkipPjl, PlacedType
DEF Next, ScanData, Typing, ReadLine

\* What a call, the lines and the newlines are about; the last where the pieces of the
\* handler are lines.
Arranged ==
  /\ LInv /\ Pieces /\ LinesIn /\ Facts /\ Asked
  /\ LinesApart /\ PjlByLf => Placed /\ Reported

LEMMA ArrangedFirst ==
  ASSUME Init
  PROVE  Arranged
<1>1. LInv
  BY InitInv
<1>2. Pieces
  BY DEF Init, Pieces
<1>3. LinesIn /\ Facts /\ Asked /\ Reported
  BY DEF Init, LinesIn, Facts, Asked, Reported, Pages
<1>4. Placed
  <2>1. At = 0 /\ Len(seen) = 0
    BY DEF Init, At
  <2> QED
    BY <2>1 DEF Init, Placed, Waits
<1> QED
  BY <1>1, <1>2, <1>3, <1>4 DEF Arranged

LEMMA ArrangedStep ==
  ASSUME Arranged, [Next]_vars
  PROVE  Arranged'
<1> USE DEF Arranged
<1>1. LInv'
  BY ScanStep, ScanStutter
<1>2. Pieces' /\ LinesIn' /\ Facts' /\ Asked'
  BY PiecesStep, LinesGrow, FactsStep, AskedStep
<1>3. ASSUME LinesApart', PjlByLf'
      PROVE  Placed' /\ Reported'
  <2>1. LinesApart /\ PjlByLf
    BY <1>3, ApartBefore
  <2> QED
    BY <1>1, <1>3, <2>1, PlacedStep, ReportedStep
<1> QED
  BY <1>1, <1>2, <1>3

\* A comment that GSCreator waits for ends the reading when its line ends with \n, wherever
\* the blocks, the pieces and the buffer divide it: the piece ends with the line, so that
\* dsc_scan_data returns this comment and not a later one.
THEOREM CommentsEndReading == Spec => []CommentsReported
<1>1. Arranged => CommentsReported
  <2> SUFFICES ASSUME Arranged, pc = "handler"
               PROVE  /\ LinesApart /\ PjlByLf /\ (\E l \in Pages : seen[lines[l].to] = "LF") => stop
                      /\ stop => Pages # {}
    BY DEF CommentsReported, Pages
  <2> QED
    BY DEF Arranged, Reported, Pending, Asked
<1> QED
  BY ArrangedFirst, ArrangedStep, <1>1, PTL DEF Spec

-----------------------------------------------------------------------------
(* No byte is lost. *)

\* Of PJL, no more than half a buffer is behind a newline.
NewlinesNear == \A i \in At+1..Len(seen) : seen[i] = "LF" => Len(seen) - i <= Half

\* What is in a block, in the rest of a call and in the buffer where it stands.
Room ==
  /\ Len(block) <= Half
  /\ pc = "handler" => input = <<>>
  /\ pc # "handler" => id # "NOTDSC"
  /\ ~typed => skip_bytes >= 0 /\ index <= Len(data)
  /\ ~typed /\ PjlByLf =>
       /\ pc \in {"handler", "append"} => Len(data) - index <= Half /\ Len(input) <= Half
       /\ pc \in {"type", "first"} => input = <<>>
       /\ pc = "type" /\ skip_pjl => NewlinesNear

SmallBlocks == \A s \in Sizes : s <= Half

LEMMA RoomClient ==
  ASSUME LInv, Room, SmallBlocks,
         (\E d \in Documents, n \in 1..size : ReadBlock(d, n)) \/ Call \/ UNCHANGED vars
  PROVE  Room'
<1>1. CASE \E d \in Documents, n \in 1..size : ReadBlock(d, n)
  <2>1. PICK d \in Documents, n \in 1..size : ReadBlock(d, n)
    BY <1>1
  <2>2. Len(block') = n /\ n \in Nat
    BY <2>1, BlockRead
  <2>3. size \in Nat /\ size <= Half /\ n <= size
    BY <2>1, SizesAssumption DEF SmallBlocks, LInv, TypeOK
  <2>4. Len(block') <= Half
    BY <2>2, <2>3, Halves
  <2>5. /\ UNCHANGED <<size, stop, input, index, lines, id, pc>> /\ UNCHANGED bufferVars
        /\ UNCHANGED lineVars /\ UNCHANGED skipVars /\ UNCHANGED typeVars
    BY <2>1 DEF ReadBlock
  <2>6. pc = "handler" /\ UNCHANGED <<data, seen, skip_bytes, typed, skip_pjl, pjl>>
    BY <2>1, <2>5 DEF ReadBlock, bufferVars, skipVars, typeVars
  <2>7. PjlByLf' <=> PjlByLf
    BY <2>6 DEF PjlByLf
  <2> QED
    BY <2>4, <2>5, <2>6, <2>7 DEF Room
<1>2. CASE Call
  <2>1. PICK n \in 1..Len(block) :
          /\ block' = SubSeq(block, n + 1, Len(block))
          /\ IF id = "NOTDSC" THEN UNCHANGED <<input, id, pc>>
             ELSE input' = SubSeq(block, 1, n) /\ id' = "OK" /\ pc' = "append"
    BY <1>2 DEF Call
  <2>2. /\ pc = "handler" /\ UNCHANGED index /\ UNCHANGED bufferVars /\ UNCHANGED skipVars
        /\ UNCHANGED typeVars
    BY <1>2 DEF Call
  <2>3. /\ block \in Seq(Symbols) /\ Len(block) \in Nat /\ n \in Nat /\ n >= 1 /\ n <= Len(block)
        /\ Len(block) <= Half /\ Half \in Nat
    BY Halves DEF LInv, TypeOK, Room
  <2>4. Len(SubSeq(block, n + 1, Len(block))) <= Half
    <3>1. n + 1 \in Int /\ n + 1 >= 1 /\ Len(block) <= Len(block) /\ n + 1 <= Len(block) + 1
      BY <2>3
    <3>2. Len(SubSeq(block, n + 1, Len(block))) =
            IF n + 1 <= Len(block) THEN Len(block) - (n + 1) + 1 ELSE 0
      BY <2>3, <3>1, Part
    <3> QED
      BY <2>3, <3>2
  <2>5. Len(SubSeq(block, 1, n)) <= Half
    <3>1. Len(SubSeq(block, 1, n)) = IF 1 <= n THEN n - 1 + 1 ELSE 0
      BY <2>3, Part
    <3> QED
      BY <2>3, <3>1
  <2>6. CASE id = "NOTDSC"
    BY <2>1, <2>2, <2>4, <2>6 DEF Room, PjlByLf, bufferVars, skipVars, typeVars
  <2>7. CASE id # "NOTDSC"
    BY <2>1, <2>2, <2>4, <2>5, <2>7 DEF Room, PjlByLf, bufferVars, skipVars, typeVars
  <2> QED
    BY <2>6, <2>7
<1>3. CASE UNCHANGED vars
  BY <1>3 DEF Room, PjlByLf, NewlinesNear, At, vars, clientVars, bufferVars, skipVars, typeVars
<1> QED
  BY <1>1, <1>2, <1>3

\* Before the first line there are no lines to be apart.
LEMMA PlacedBefore ==
  ASSUME Arranged, ~typed, PjlByLf
  PROVE  Placed
<1>1. lines = <<>>
  BY DEF Arranged, Facts
<1>2. 1..Len(lines)-1 = {}
  BY <1>1
<1> QED
  BY <1>2 DEF Arranged, LinesApart

LEMMA RoomAppend ==
  ASSUME LInv, Arranged, Room, AppendData
  PROVE  Room'
<1>1. /\ index \in Nat /\ data \in Seq(Symbols) /\ Len(data) \in Nat /\ index <= Len(data)
      /\ input \in Seq(Symbols) /\ Len(input) \in Nat
  BY Types DEF AppendData
<1>2. LInv' /\ id' = id /\ block' = block /\ UNCHANGED skipVars /\ UNCHANGED typeVars
      /\ pc = "append" /\ pc' = IF typed THEN "lines" ELSE "type"
  BY AppendInv DEF AppendData, clientVars
<1>3. ASSUME ~typed, PjlByLf
      PROVE  input' = <<>>
  <2>1. Len(data) - index <= Half /\ Len(input) <= Half
    BY <1>2, <1>3 DEF Room
  <2>2. Len(Kept) \in Nat /\ Len(Kept) <= Half
    <3>1. CASE Len(data) > Half
      <4>1. Kept = Unread
        BY <3>1 DEF Kept, Unread
      <4>2. Len(Unread) = Len(data) - index
        BY <1>1, UnreadIs
      <4> HIDE DEF Unread, Kept
      <4> QED
        BY <1>1, <2>1, <4>1, <4>2
    <3>2. CASE ~(Len(data) > Half)
      <4>1. Kept = data
        BY <3>2 DEF Kept
      <4> QED
        BY <1>1, <3>2, <4>1, Halves
    <3> QED
      BY <3>1, <3>2
  <2> DEFINE k == Least(Len(input), N - Len(Kept))
             l == Len(input)
  <2> HIDE DEF Kept
  <2>3. k = l
    BY <1>1, <2>1, <2>2, Halves, Constant DEF Least
  <2>4. l \in Nat /\ input' = SubSeq(input, Len(SubSeq(input, 1, k)) + 1, l)
    BY <1>1 DEF AppendData, Appended
  <2> HIDE DEF k
  <2>5. SubSeq(input, 1, k) = input
    BY <1>1, <2>3, SubSeqFull
  <2>6. input' = SubSeq(input, l + 1, l)
    BY <2>4, <2>5
  <2> HIDE DEF l
  <2>7. l + 1 \in Int /\ l \in Int /\ l < l + 1
    BY <2>4
  <2>8. SubSeq(input, l + 1, l) = <<>>
    BY <2>7, SubSeqEmpty
  <2> QED
    BY <2>6, <2>8
<1>4. ~typed => index' <= Len(data')
  BY <1>2 DEF LInv, Place
<1>5. PjlByLf' => PjlByLf
  BY <1>2, SeenStep DEF PjlByLf, Next, ScanData, typeVars
<1>6. ASSUME ~typed, PjlByLf, skip_pjl
      PROVE  NewlinesNear'
  <2>1. PICK k \in 0..Len(input) :
          /\ seen' = seen \o SubSeq(input, 1, k)
          /\ input' = SubSeq(input, k + 1, Len(input))
    BY PieceTaken DEF Arranged
  <2>2. seen \in Seq(Symbols) /\ \A i \in 1..Len(input)-1 : input[i] # "LF"
    BY Types DEF Arranged, Pieces
  <2>3. /\ Len(seen') = Len(seen) + k /\ AtEnd(seen, seen', input')
        /\ \A i \in 1..Len(seen) : seen'[i] = seen[i]
    <3>1. Len(seen') = Len(seen) + k
      BY <1>1, <2>1, <2>2, PieceAppended
    <3>2. \A i \in 1..Len(seen) : seen'[i] = seen[i]
      BY <1>1, <2>1, <2>2, PieceAppended
    <3>3. AtEnd(seen, seen', input')
      BY <1>1, <2>1, <2>2, PieceAppended
    <3> QED
      BY <3>1, <3>2, <3>3
  <2>4. PjlWaits(seen, At)
    BY <1>2, <1>6, PlacedBefore DEF Placed
  <2>5. At' = At /\ At \in Nat /\ Len(seen) \in Nat
    BY AppendInv, Places DEF At
  <2>6. Len(input) <= Half
    BY <1>2, <1>6 DEF Room
  <2> SUFFICES ASSUME NEW i \in At'+1..Len(seen'), seen'[i] = "LF"
               PROVE  Len(seen') - i <= Half
    BY DEF NewlinesNear
  <2>7. CASE i <= Len(seen)
    <3>1. i \in At+1..Len(seen) /\ seen[i] = "LF"
      BY <2>3, <2>5, <2>7
    <3>2. i = Len(seen)
      BY <2>4, <3>1 DEF PjlWaits
    <3> QED
      BY <1>1, <2>3, <2>5, <2>6, <3>2, Halves
  <2>8. CASE ~(i <= Len(seen))
    <3>1. i \in Len(seen)+1..Len(seen')
      BY <2>3, <2>5, <2>8
    <3>2. i = Len(seen')
      BY <2>3, <3>1 DEF AtEnd
    <3> QED
      BY <2>3, <2>5, <3>2, Halves
  <2> QED
    BY <2>7, <2>8
<1> QED
  BY <1>2, <1>3, <1>4, <1>5, <1>6 DEF Room, skipVars, typeVars

LEMMA RoomTyping ==
  ASSUME LInv, Arranged, Room, Typing
  PROVE  Room'
<1>1. pc = "type" /\ ~typed
  <2>1. pc = "type"
    BY DEF Typing, SkipPjlMore, SkipPjlEnd, ScanType, TypeMore, TypePjl, TypeDosEps,
           TypePdf, TypeByLine
  <2> QED
    BY <2>1 DEF LInv, Place
<1>2. index' <= Len(data)
  <2>1. (offset + index)' \in offset + index..Len(seen)
    BY TypingStep DEF Reader!Begin
  <2>2. offset' = offset
    BY DEF Typing, SkipPjlMore, SkipPjlEnd, TypeMore, TypePjl, TypeDosEps, TypePdf, TypeByLine,
           NeedMore, bufferVars
  <2>3. index' \in 0..Word-1
    BY TypingStep DEF LInv, TypeOK
  <2> DEFINE j == index'
             l == Len(data)
  <2>4. offset + j \in offset + index..Len(seen) /\ j \in Nat
    BY <2>1, <2>2, <2>3
  <2>5. offset \in Nat /\ index \in Nat /\ l \in Nat /\ Len(seen) = offset + l
    BY Types
  <2> HIDE DEF j, l
  <2>6. j <= l
    BY <2>4, <2>5
  <2> QED
    BY <2>6 DEF j, l
<1>3. /\ data' = data /\ block' = block
      /\ pc' = "handler" => input' = <<>>
      /\ pc' # "handler" => id' = id /\ input' = input
      /\ seen' = seen /\ (pjl => pjl')
  <2>1. data' = data /\ block' = block /\ seen' = seen
    BY DEF Typing, SkipPjlMore, SkipPjlEnd, TypeMore, TypePjl, TypeDosEps, TypePdf, TypeByLine,
           NeedMore, Return, Goto, bufferVars, clientVars
  <2>2. (pc' = "handler" /\ input' = <<>>) \/ (id' = id /\ input' = input)
    BY DEF Typing, SkipPjlMore, SkipPjlEnd, TypeMore, TypePjl, TypeDosEps, TypePdf, TypeByLine,
           NeedMore, Return, Goto
  <2>3. pc' = "handler" => input' = <<>>
    BY <1>1, <2>2, Halves DEF Typing, SkipPjlMore, SkipPjlEnd, TypeMore, TypePjl, TypeDosEps,
       TypePdf, TypeByLine, NeedMore, Return, Goto
  <2>4. pjl' = pjl \/ pjl' = TRUE
    BY DEF Typing, SkipPjlMore, SkipPjlEnd, TypeMore, TypePjl, TypeDosEps, TypePdf, TypeByLine,
           typeVars
  <2> QED
    BY <2>1, <2>2, <2>3, <2>4
<1>4. skip_bytes' >= 0
  <2>1. skip_bytes' = skip_bytes \/ skip_bytes' = PsBegin - HeaderLength
    BY DEF Typing, SkipPjlMore, SkipPjlEnd, TypeMore, TypePjl, TypeDosEps, TypePdf, TypeByLine,
           NeedMore, skipVars
  <2>2. PsBegin - HeaderLength >= 0
    BY HeaderAssumption, Constant
  <2> QED
    BY <1>1, <2>1, <2>2 DEF Room
<1>5. ASSUME TypeMore
      PROVE  Len(data) - index' <= Half
  <2>1. TypeMore
    BY <1>5
  <2>2. Len(Start) <= Half
    <3>1. /\ Ctrl \in Nat /\ Len(Start) \in Nat
      BY <1>1, StartIs
    <3>2. TypeNeeds \in {1, 2, UelLength, HeaderLength}
      BY Zenon DEF TypeNeeds
    <3>3. Len(Start) < TypeNeeds
      BY <2>1 DEF TypeMore
    <3> QED
      BY <3>1, <3>2, <3>3, Halves, Constant
  <2>3. index' = index + Ctrl
    BY <2>1 DEF TypeMore, NeedMore
  <2>4. Len(data) - (index + Ctrl) <= Half
    <3>1. /\ index \in Nat /\ Ctrl \in Nat /\ Len(Start) \in Nat
          /\ index + Ctrl + Len(Start) = Len(data)
      BY <1>1, StartIs
    <3> DEFINE t == Len(Start)
               l == Len(data)
    <3>2. t \in Nat /\ t <= Half /\ index + Ctrl + t = l
      BY <2>2, <3>1
    <3> HIDE DEF t, l
    <3>3. l - (index + Ctrl) <= Half
      BY <3>1, <3>2, Halves
    <3> QED
      BY <3>3 DEF l
  <2> QED
    BY <2>3, <2>4
<1>6. PjlByLf' => PjlByLf
  BY <1>3 DEF PjlByLf
<1>7. Len(<<>>) = 0 /\ 0 <= Half
  BY Halves
<1>8. pc' # "append"
  BY DEF Typing, SkipPjlMore, SkipPjlEnd, TypeMore, TypePjl, TypeDosEps, TypePdf, TypeByLine,
         NeedMore, Return, Goto, ScanType
<1>9. Len(block') <= Half /\ (pc' # "handler" => id' # "NOTDSC")
  BY <1>1, <1>3 DEF Room
<1>10. ASSUME PjlByLf, pc' \in {"type", "first"}
       PROVE  input' = <<>>
  BY <1>1, <1>3, <1>10 DEF Room
<1>11. ASSUME PjlByLf, SkipPjlMore
       PROVE  Len(data) - index' <= Half
  <2>1. /\ index \in Nat /\ offset \in Nat /\ Len(data) \in Nat /\ index <= Len(data)
        /\ Len(seen) = offset + Len(data) /\ At = offset + index /\ Len(Unread) = Len(data) - index
    BY <1>1, Types, UnreadIs DEF LInv, Place, At
  <2>2. \/ Len(Unread) < 2 /\ index' = index
        \/ index' = Len(data)
        \/ index' = Len(data) - 1
        \/ \E r \in 1..Len(Unread)-1 : EolRun(Unread, r) /\ index' = index + r
    BY <1>11 DEF SkipPjlMore, NeedMore
  <2>3. CASE \E r \in 1..Len(Unread)-1 : EolRun(Unread, r) /\ index' = index + r
    <3>1. PICK r \in 1..Len(Unread)-1 : EolRun(Unread, r) /\ index' = index + r
      BY <2>3
    <3>2. skip_pjl /\ pjl
      BY <1>11 DEF SkipPjlMore, Arranged, Facts
    <3>3. PjlType(seen, At, input) /\ NewlinesNear
      BY <1>1, <1>11, <3>2, PlacedBefore DEF Placed, Room
    <3>4. At + r < Len(seen) /\ seen[At + r] = "LF"
      BY <1>1, <1>11, <3>1, <3>2, <3>3, EolRunIs
    <3> HIDE DEF Unread
    <3>5. At + r \in At+1..Len(seen)
      BY <2>1, <3>4
    <3>6. Len(seen) - (At + r) <= Half
      BY <3>3, <3>4, <3>5 DEF NewlinesNear
    <3>7. Len(seen) - (At + r) = Len(data) - (index + r)
      BY <2>1
    <3> QED
      BY <3>1, <3>6, <3>7
  <2> HIDE DEF Unread
  <2>4. CASE (Len(Unread) < 2 /\ index' = index) \/ index' = Len(data) \/ index' = Len(data) - 1
    <3>1. Len(data) - index' <= 1
      BY <2>1, <2>4
    <3> QED
      BY <2>1, <2>4, <3>1, Halves
  <2> QED
    BY <2>2, <2>3, <2>4
<1>12. ASSUME PjlByLf, pc' = "handler"
       PROVE  Len(data') - index' <= Half /\ Len(input') <= Half
  <2>1. TypeMore \/ SkipPjlMore
    BY <1>1, <1>12, Halves DEF Typing, SkipPjlEnd, TypePjl, TypeDosEps, TypePdf, TypeByLine, Goto
  <2> QED
    BY <1>3, <1>5, <1>7, <1>11, <1>12, <2>1
<1>13. ASSUME PjlByLf, pc' = "type", skip_pjl'
       PROVE  NewlinesNear'
  <2>1. TypePjl
    BY <1>13 DEF Typing, SkipPjlMore, SkipPjlEnd, ScanType, TypeMore, TypePjl, TypeDosEps, TypePdf,
                 TypeByLine, NeedMore, Return, Goto
  <2>2. AtType(seen, At, input)
    BY <1>1, <1>13, <2>1, PlacedBefore DEF Placed, TypePjl, ScanType
  <2>3. /\ At \in Nat /\ Len(seen) \in Nat /\ Ctrl \in {0, 1} /\ Len(Start) \in Nat
        /\ Len(seen) = At + Ctrl + Len(Start)
        /\ \A i \in 1..Len(Start) : Start[i] = seen[At + Ctrl + i]
        /\ Ctrl = 1 => seen[At + 1] = "^D"
    BY <1>1, StartSymbols, Places
  <2>4. Len(Start) >= 1 /\ Start[1] = "ESC" /\ index' = index + Ctrl + 2
    <3>1. Start[1] = "ESC" /\ Len(Start) >= TypeNeeds /\ index' = index + Ctrl + 2
      BY <2>1 DEF TypePjl, IsUel, UelLength
    <3>2. TypeNeeds \in {1, 2, UelLength, HeaderLength}
      BY Zenon DEF TypeNeeds
    <3> QED
      BY <2>3, <3>1, <3>2, Halves, Constant
  <2>5. At' = At + Ctrl + 2
    <3>1. offset' = offset /\ index \in Nat /\ offset \in Nat
      BY <2>1, Types DEF TypePjl, bufferVars
    <3> HIDE DEF Ctrl
    <3> QED
      BY <2>3, <2>4, <3>1 DEF At
  <2>6. seen[At + Ctrl + 1] = "ESC"
    BY <2>3, <2>4
  <2> HIDE DEF Start, Ctrl
  <2> SUFFICES ASSUME NEW i \in At'+1..Len(seen), seen[i] = "LF"
               PROVE  Len(seen) - i <= Half
    BY <1>3 DEF NewlinesNear
  <2>7. i \in At+1..Len(seen) /\ i # At + 1
    BY <2>3, <2>5
  <2>8. seen[At + 1] \in {"^D", "ESC"}
    BY <2>3, <2>6
  <2>9. i = Len(seen)
    BY <2>2, <2>7, <2>8 DEF AtType
  <2> QED
    BY <2>3, <2>9, Halves
<1> QED
  BY <1>2, <1>3, <1>4, <1>6, <1>8, <1>9, <1>10, <1>12, <1>13 DEF Room

LEMMA NoLineRoom ==
  ASSUME LInv, Room, Reading, NoLine
  PROVE  /\ block' = block /\ pc' \in {"handler", "append"}
         /\ pc' = "handler" => input' = <<>>
         /\ pc' # "handler" => id' = id /\ pc = "lines"
BY DEF NoLine, Return, Goto, clientVars, Reading

LEMMA RoomReading ==
  ASSUME LInv, Room, Reading, UNCHANGED <<data, seen, block, pjl>>,
         pc' = "handler" => input' = <<>>,
         pc' # "handler" => id' # "NOTDSC",
         \/ typed' = TRUE
         \/ /\ pc = "first" /\ pc' \in {"handler", "first"}
            /\ skip_bytes' >= 0 /\ index' <= Len(data)
            /\ pc' = "handler" => Len(data) - index' <= Half
            /\ pc' = "first" => input' = input
  PROVE  Room'
<1>1. Len(block') <= Half /\ (PjlByLf' <=> PjlByLf)
  BY DEF Room, PjlByLf
<1>2. CASE typed'
  BY <1>1, <1>2 DEF Room
<1>3. CASE ~typed'
  <2>1. /\ pc = "first" /\ pc' \in {"handler", "first"}
        /\ skip_bytes' >= 0 /\ index' <= Len(data)
        /\ pc' = "handler" => Len(data) - index' <= Half
        /\ pc' = "first" => input' = input
    BY <1>3
  <2>2. ~typed
    BY <2>1, ReadingType
  <2>3. PjlByLf' /\ pc' \in {"type", "first"} => input' = <<>>
    BY <1>1, <2>1, <2>2 DEF Room
  <2>4. ASSUME pc' \in {"handler", "append"}
        PROVE  Len(data') - index' <= Half /\ Len(input') <= Half
    <3>1. pc' = "handler" /\ input' = <<>> /\ Len(<<>>) = 0 /\ 0 <= Half
      BY <2>1, <2>4, Halves
    <3>2. Len(data) - index' <= Half /\ data' = data
      BY <2>1, <3>1
    <3> QED
      BY <3>1, <3>2
  <2>5. skip_bytes' >= 0 /\ index' <= Len(data')
    BY <2>1
  <2> QED
    BY <1>1, <2>3, <2>4, <2>5, Zenon DEF Room
<1> QED
  BY <1>2, <1>3

LEMMA RoomSkipBytes ==
  ASSUME LInv, Room, SkipBytes
  PROVE  Room'
<1> DEFINE n == Least(skip_bytes, Len(data) - index)
<1>1. /\ Reading /\ skip_bytes # 0 /\ skip_bytes' = skip_bytes - n
      /\ index' = (index + n) % Word
      /\ UNCHANGED bufferVars /\ UNCHANGED typeVars
      /\ IF skip_bytes' # 0 THEN NoLine ELSE Goto(pc)
  BY DEF SkipBytes
<1>2. /\ index \in Nat /\ index <= Len(data) /\ Len(data) \in Nat /\ Len(data) < Word
      /\ skip_bytes \in Int /\ Word \in Nat
  BY <1>1, Types, Constant, ReadingType
<1>3. n \in Int /\ n = IF skip_bytes <= Len(data) - index THEN skip_bytes ELSE Len(data) - index
  BY <1>2 DEF Least
<1> HIDE DEF n
<1>4. id # "NOTDSC"
  BY <1>1 DEF Room, Reading
<1>5. /\ block' = block /\ (pc' = "handler" => input' = <<>>)
      /\ (pc' # "handler" => id' # "NOTDSC")
      /\ (pc = "first" => pc' \in {"handler", "first"})
      /\ (pc' = "first" => input' = input)
      /\ (pc' = "handler" => skip_bytes' # 0)
  <2>1. CASE skip_bytes' # 0
    <3>1. NoLine
      BY <1>1, <2>1
    <3> QED
      BY <1>1, <1>4, <2>1, <3>1, NoLineRoom
  <2>2. CASE skip_bytes' = 0
    BY <1>1, <1>4, <2>2 DEF Goto, Reading, clientVars
  <2> QED
    BY <2>1, <2>2
<1>6. CASE typed
  <2>1. typed' = TRUE
    BY <1>1, <1>6, ReadingType DEF typeVars
  <2> QED
    BY <1>1, <1>5, <2>1, RoomReading DEF bufferVars, typeVars
<1>7. CASE ~typed
  <2>1. pc = "first" /\ skip_bytes >= 0
    BY <1>1, <1>7, ReadingType DEF Room
  <2>2. n \in Nat /\ n <= skip_bytes /\ index + n \in Nat /\ index + n <= Len(data)
    BY <1>2, <1>3, <2>1
  <2>3. index' = index + n /\ skip_bytes' >= 0
    BY <1>1, <1>2, <2>2
  <2>4. ASSUME skip_bytes' # 0
        PROVE  Len(data) - index' <= Half
    <3>1. n # skip_bytes
      BY <1>1, <1>2, <2>4
    <3>2. index + n = Len(data)
      BY <1>2, <1>3, <3>1
    <3>3. Len(data) - (index + n) <= Half
      BY <1>2, <3>2, Halves
    <3> QED
      BY <2>3, <3>3
  <2>5. index' <= Len(data)
    BY <2>2, <2>3
  <2> QED
    BY <1>1, <1>5, <2>1, <2>3, <2>4, <2>5, RoomReading DEF bufferVars, typeVars
<1> QED
  BY <1>6, <1>7

LEMMA RoomNoLine ==
  ASSUME LInv, Room, Exhausted \/ Incomplete
  PROVE  Room'
<1>1. /\ Reading /\ skip_bytes = 0 /\ NoLine /\ UNCHANGED <<data, seen, pjl, typed>>
      /\ skip_bytes' = 0
  BY DEF Exhausted, Incomplete, bufferVars, typeVars, skipVars
<1>2. id # "NOTDSC"
  BY <1>1 DEF Room, Reading
<1>3. /\ block' = block /\ pc' \in {"handler", "append"}
      /\ pc' = "handler" => input' = <<>>
      /\ pc' # "handler" => id' = id /\ pc = "lines"
  BY <1>1, NoLineRoom
<1>4. CASE typed
  <2>1. typed' = TRUE
    BY <1>1, <1>4, ReadingType
  <2> QED
    BY <1>1, <1>2, <1>3, <2>1, RoomReading
<1>5. CASE ~typed
  <2>1. pc = "first" /\ index <= Len(data) /\ index \in Nat /\ Len(data) \in Nat
    BY <1>1, <1>5, ReadingType, Types DEF Room
  <2>2. index' <= Len(data) /\ Len(data) - index' <= Half
    <3>1. CASE Exhausted
      <4>1. index' = index /\ index >= Len(data)
        BY <3>1, UnreadIs DEF Exhausted
      <4>2. Len(data) - index <= Half
        BY <2>1, <4>1, Halves
      <4> QED
        BY <2>1, <4>1, <4>2
    <3>2. CASE Incomplete
      <4>1. /\ Unread # <<>> /\ index' = index + Lf
            /\ \A n \in 1..Len(Text) : ~LineLength(Text, n)
        BY <3>2 DEF Incomplete
      <4>2. Len(Text) < Half /\ Len(Text) = Len(data) - index - Lf /\ Lf \in {0, 1}
            /\ index < Len(data)
        BY <4>1, IncompleteText, TextIs
      <4> HIDE DEF Lf
      <4>3. index + Lf <= Len(data) /\ Len(data) - (index + Lf) <= Half
        BY <2>1, <4>2, Halves
      <4> QED
        BY <4>1, <4>3
    <3> QED
      BY <3>1, <3>2
  <2>3. pc' = "handler" /\ input' = <<>> /\ skip_bytes' >= 0
    BY <1>1, <1>3, <2>1
  <2>4. UNCHANGED <<data, seen, block, pjl>>
    BY <1>1, <1>3
  <2> QED
    BY <1>1, <2>1, <2>2, <2>3, <2>4, RoomReading
<1> QED
  BY <1>4, <1>5

LEMMA RoomLine ==
  ASSUME LInv, Room, SkipLine \/ FirstLine \/ NextLine \/ IndexInvalid
  PROVE  Room'
<1>1. CASE IndexInvalid
  <2>1. pc = "append" /\ index > Len(data) /\ Leave /\ UNCHANGED typeVars
    BY <1>1 DEF IndexInvalid
  <2>2. typed = TRUE
    <3>1. index \in Nat /\ Len(data) \in Nat /\ ~(index <= Len(data))
      BY <2>1, Types
    <3>2. typed \in BOOLEAN
      BY DEF LInv, TypeOK
    <3> QED
      BY <3>1, <3>2 DEF Room
  <2>3. block' = block /\ pc' = "handler" /\ input' = <<>> /\ typed' = typed
    BY <2>1 DEF Leave, clientVars, typeVars
  <2>4. typed' /\ pc' = "handler" /\ input' = <<>> /\ Len(block') <= Half
    BY <2>2, <2>3 DEF Room
  <2> QED
    BY <2>4 DEF Room
<1>2. CASE SkipLine \/ FirstLine \/ NextLine
  <2>1. PICK n \in 1..Len(Text) : Take(n)
    BY <1>2 DEF SkipLine, FirstLine, NextLine
  <2>2. Reading /\ data' = data /\ seen' = seen
    BY <2>1 DEF Take, bufferVars
  <2>3. id # "NOTDSC"
    BY <2>2 DEF Room, Reading
  <2>4. CASE SkipLine
    <3>1. pc = "lines" /\ typed
      BY <2>2, <2>4, ReadingType DEF SkipLine
    <3>2. pc' = pc /\ block' = block /\ id' = id /\ typed' = TRUE /\ UNCHANGED pjl
      BY <2>2, <2>4, <3>1, ReadingType DEF SkipLine, Goto, clientVars, typeVars
    <3> QED
      BY <2>2, <2>3, <3>1, <3>2, RoomReading
  <2>5. CASE FirstLine
    <3>1. block' = block /\ typed' = TRUE /\ UNCHANGED pjl
          /\ (pc' = "handler" => input' = <<>>) /\ (pc' # "handler" => id' = "PSADOBE")
      BY <2>5 DEF FirstLine, Return, clientVars
    <3> QED
      BY <2>2, <3>1, RoomReading
  <2>6. CASE NextLine
    <3>1. pc = "lines" /\ typed = TRUE
      BY <2>2, <2>6, ReadingType DEF NextLine
    <3>2. UNCHANGED typeVars
      BY <2>6 DEF NextLine
    <3>3. block' = block /\ (pc' = "handler" => input' = <<>>)
          /\ (pc' # "handler" => id' = id \/ id' \in {"PAGE", "OK"})
      BY <2>6, <3>1 DEF NextLine, Leave, Goto, clientVars
    <3> QED
      BY <2>2, <2>3, <3>1, <3>2, <3>3, RoomReading DEF typeVars
  <2> QED
    BY <1>2, <2>4, <2>5, <2>6
<1> QED
  BY <1>1, <1>2

Bytes == Whole => file = seen \o input \o block

\* What is whole after a step was whole before it.
Settles ==
  /\ doseps => doseps'
  /\ pjl => pjl'
  /\ size' = size
  /\ \A i \in 1..Len(seen) : i \in 1..Len(seen') /\ seen'[i] = seen[i]
  /\ \A i \in 1..Len(lines) : i \in 1..Len(lines') /\ lines'[i] = lines[i]
  /\ index <= Len(data) \/ ~(index' <= Len(data'))
  /\ id # "NOTDSC" \/ id' = "NOTDSC"

LEMMA WholeBefore ==
  Settles /\ Whole' => Whole
BY DEF Settles, Whole, PjlByLf

LEMMA SameLines ==
  ASSUME LInv, UNCHANGED <<doseps, pjl, size, lines, data, seen>>,
         index <= Len(data) \/ index' = index,
         id # "NOTDSC" \/ id' = "NOTDSC"
  PROVE  Settles
<1>1. index <= Len(data) \/ ~(index' <= Len(data'))
  OBVIOUS
<1> QED
  BY <1>1 DEF Settles

LEMMA BytesStay ==
  ASSUME Room, Bytes, Settles, UNCHANGED <<seen, file, block>>,
         input' = input \/ (input = <<>> /\ input' = <<>>) \/ ~Whole'
  PROVE  Bytes'
BY WholeBefore DEF Bytes

LEMMA Sequences ==
  ASSUME LInv
  PROVE  /\ file \in Seq(Symbols) /\ seen \in Seq(Symbols) /\ input \in Seq(Symbols)
         /\ block \in Seq(Symbols) /\ <<>> \in Seq(Symbols)
BY EmptySeq DEF LInv, TypeOK

LEMMA BytesRead ==
  ASSUME LInv, Room, Bytes, NEW d \in Documents, NEW n \in 1..size, ReadBlock(d, n)
  PROVE  Bytes'
<1>1. /\ input = <<>> /\ block = <<>> /\ input' = <<>> /\ seen' = seen
      /\ UNCHANGED <<doseps, pjl, size, lines, data, index, id>>
  BY DEF ReadBlock, Room, bufferVars, typeVars
<1>2. block' \in Seq(Symbols) /\ file' = file \o block' /\ seen \in Seq(Symbols)
  BY BlockRead, Sequences
<1> SUFFICES ASSUME Whole' PROVE file' = (seen' \o input') \o block'
  BY DEF Bytes
<1>3. Settles
  BY <1>1, SameLines
<1>4. file = (seen \o <<>>) \o <<>>
  BY <1>1, <1>3, WholeBefore DEF Bytes
<1>5. seen \o <<>> = seen
  BY <1>2, ConcatEmptySeq
<1>6. file = seen
  BY <1>4, <1>5
<1> QED
  BY <1>1, <1>2, <1>5, <1>6

LEMMA BytesCall ==
  ASSUME LInv, Room, Bytes, Call
  PROVE  Bytes'
<1>1. PICK n \in 1..Len(block) :
        /\ block' = SubSeq(block, n + 1, Len(block))
        /\ IF id = "NOTDSC" THEN UNCHANGED <<input, id, pc>>
           ELSE input' = SubSeq(block, 1, n) /\ id' = "OK" /\ pc' = "append"
  BY DEF Call
<1>2. input = <<>> /\ UNCHANGED <<file, doseps, pjl, size, lines, data, index, seen>>
  BY DEF Call, Room, bufferVars, typeVars
<1> SUFFICES ASSUME Whole' PROVE file' = (seen' \o input') \o block'
  BY DEF Bytes
<1>3. id # "NOTDSC"
  BY <1>1 DEF Whole
<1>4. Settles
  BY <1>2, <1>3, SameLines
<1>5. file = (seen \o <<>>) \o block
  BY <1>2, <1>4, WholeBefore DEF Bytes
<1>6. seen \in Seq(Symbols) /\ block \in Seq(Symbols) /\ Len(block) \in Nat
  BY Sequences
<1> DEFINE l == Len(block)
           a == SubSeq(block, 1, n)
           b == SubSeq(block, n + 1, l)
<1>7. a \o b = block
  <2>1. SubSeq(block, 1, n) \o SubSeq(block, n + 1, l) = SubSeq(block, 1, l)
    <3>1. l \in Nat /\ n \in Nat /\ n <= l /\ n >= 1
      BY <1>6
    <3>2. 1 \in 1..Len(block)+1 /\ n \in 1-1..Len(block) /\ l \in n..Len(block)
      BY <3>1
    <3> HIDE DEF l
    <3> QED
      BY <1>6, <3>2, ConcatAdjacentSubSeq
  <2>2. SubSeq(block, 1, l) = block
    BY <1>6, SubSeqFull
  <2> QED
    BY <2>1, <2>2
<1>8. a \in Seq(Symbols) /\ b \in Seq(Symbols)
  <2>1. LInv'
    BY CallInv
  <2>2. block' \in Seq(Symbols) /\ input' \in Seq(Symbols)
    BY <2>1 DEF LInv, TypeOK
  <2> QED
    BY <1>1, <1>3, <2>2
<1>9. input' = a /\ block' = b
  BY <1>1, <1>3
<1> HIDE DEF a, b
<1>10. (seen \o a) \o b = seen \o (a \o b)
  BY <1>6, <1>8, Regroup
<1>11. seen \o <<>> = seen
  BY <1>6, ConcatEmptySeq
<1> QED
  BY <1>2, <1>5, <1>7, <1>9, <1>10, <1>11

LEMMA BytesAppend ==
  ASSUME LInv, Room, Bytes, AppendData
  PROVE  Bytes'
<1>1. /\ pc = "append" /\ index <= Len(data) /\ id' = id
      /\ UNCHANGED <<file, block, doseps, pjl, size, lines>>
      /\ input' = SubSeq(input, Len(Appended) + 1, Len(input)) /\ seen' = seen \o Appended
  BY DEF AppendData, clientVars, typeVars
<1>2. LInv' /\ Appended \in Seq(Symbols)
  BY AppendInv
<1>3. /\ seen \in Seq(Symbols) /\ block \in Seq(Symbols) /\ input \in Seq(Symbols)
      /\ Len(input) \in Nat /\ Len(Kept) \in Nat /\ Len(Kept) <= N /\ N \in Nat
  <2>1. Len(Kept) \in Nat /\ Len(Kept) <= N
    <3>1. Len(data) \in Nat /\ Len(data) <= N /\ index \in Nat
      BY Types
    <3>2. Len(Unread) = Len(data) - index
      BY <1>1, UnreadIs
    <3> HIDE DEF Unread
    <3>3. Len(Unread) \in Nat /\ Len(Unread) <= N
      BY <1>1, <3>1, <3>2, Constant
    <3> QED
      BY <3>1, <3>3 DEF Kept, Unread
  <2> QED
    BY <2>1, Sequences, Constant
<1> DEFINE l == Len(input)
           k == Least(l, N - Len(Kept))
           rest == SubSeq(input, k + 1, l)
<1>4. l \in Nat /\ k \in Nat /\ k <= l
  BY <1>3 DEF Least
<1>5. Appended = SubSeq(input, 1, k)
  BY DEF Appended
<1> HIDE DEF k, Kept
<1>6. Len(Appended) = k
  <2>1. 1 \in Int /\ k \in Int /\ 1 >= 1 /\ k <= Len(input) /\ 1 <= k + 1
    BY <1>4
  <2>2. Len(SubSeq(input, 1, k)) = IF 1 <= k THEN k - 1 + 1 ELSE 0
    BY <1>3, <2>1, Part
  <2> QED
    BY <1>4, <1>5, <2>2
<1>7. input' = rest
  BY <1>1, <1>6
<1>8. Appended \o rest = input
  <2>1. 1 \in 1..Len(input)+1 /\ k \in 1-1..Len(input) /\ l \in k..Len(input)
    BY <1>4
  <2>2. SubSeq(input, 1, l) = input
    BY <1>3, SubSeqFull
  <2> HIDE DEF l
  <2>3. SubSeq(input, 1, k) \o SubSeq(input, k + 1, l) = SubSeq(input, 1, l)
    BY <1>3, <2>1, ConcatAdjacentSubSeq
  <2> QED
    BY <1>5, <2>2, <2>3
<1>9. rest \in Seq(Symbols)
  BY <1>2, <1>7 DEF LInv, TypeOK
<1> HIDE DEF rest, Appended
<1> SUFFICES ASSUME Whole' PROVE file' = (seen' \o input') \o block'
  BY DEF Bytes
<1>10. id # "NOTDSC"
  BY <1>1 DEF Room
<1>11. Settles
  <2>1. \A i \in 1..Len(seen) : i \in 1..Len(seen') /\ seen'[i] = seen[i]
    BY SeenStep DEF Next, ScanData
  <2> QED
    BY <1>1, <1>10, <2>1 DEF Settles
<1>12. file = (seen \o input) \o block
  <2>1. Whole
    BY <1>11, WholeBefore
  <2> QED
    BY <2>1, Zenon DEF Bytes
<1>13. (seen \o Appended) \o rest = seen \o (Appended \o rest)
  BY <1>2, <1>3, <1>9, Regroup, SMTT(30)
<1>14. file' = file /\ block' = block
  BY <1>1
<1> QED
  BY <1>1, <1>7, <1>8, <1>12, <1>13, <1>14

LEMMA BytesTyping ==
  ASSUME LInv, Room, Bytes, Typing
  PROVE  Bytes'
<1>1. pc = "type" /\ ~typed /\ index <= Len(data) /\ id # "NOTDSC"
  <2>1. pc = "type"
    BY DEF Typing, SkipPjlMore, SkipPjlEnd, ScanType, TypeMore, TypePjl, TypeDosEps,
           TypePdf, TypeByLine
  <2> QED
    BY <2>1 DEF LInv, Place, Room
<1>2. /\ UNCHANGED <<seen, file, block, size, lines>>
      /\ input' = input \/ input' = <<>>
  BY DEF Typing, SkipPjlMore, SkipPjlEnd, TypeMore, TypePjl, TypeDosEps, TypePdf, TypeByLine,
         NeedMore, Return, Goto, bufferVars, clientVars
<1>3. (pjl' = pjl \/ pjl' = TRUE) /\ (doseps' = doseps \/ doseps' = TRUE)
  BY DEF Typing, SkipPjlMore, SkipPjlEnd, TypeMore, TypePjl, TypeDosEps, TypePdf, TypeByLine,
         typeVars
<1>4. Settles
  BY <1>1, <1>2, <1>3 DEF Settles
<1>5. ASSUME Whole'
      PROVE  input' = input \/ (input = <<>> /\ input' = <<>>)
  <2>1. PjlByLf
    BY <1>4, <1>5, WholeBefore DEF Whole, PjlByLf
  <2> QED
    BY <1>1, <1>2, <2>1 DEF Room
<1> QED
  BY <1>2, <1>4, <1>5, BytesStay

\* Where nothing is taken, nothing is dropped.
LEMMA NoLineBytes ==
  ASSUME LInv, Room, Reading, NoLine, seen' = seen, UNCHANGED typeVars
  PROVE  input' = input \/ (input = <<>> /\ input' = <<>>) \/ ~Whole'
<1>1. CASE pc = "first"
  <2>1. input' = <<>> /\ ~typed
    BY <1>1, ReadingType DEF NoLine, Return
  <2>2. Whole' => PjlByLf
    BY DEF Whole, PjlByLf, typeVars
  <2> QED
    BY <1>1, <2>1, <2>2 DEF Room
<1>2. CASE pc # "first"
  BY <1>2 DEF NoLine, Return, Goto
<1> QED
  BY <1>1, <1>2

LEMMA BytesNoLine ==
  ASSUME LInv, Room, Bytes, IndexInvalid \/ SkipBytes \/ Exhausted \/ Incomplete
  PROVE  Bytes'
<1>1. CASE IndexInvalid
  <2>1. index \in Nat /\ Len(data) \in Nat /\ index > Len(data)
        /\ UNCHANGED <<data, index>>
    BY <1>1, Types DEF IndexInvalid, bufferVars
  <2>2. ~(index' <= Len(data'))
    BY <2>1
  <2> QED
    BY <2>2 DEF Bytes, Whole
<1>2. CASE SkipBytes \/ Exhausted \/ Incomplete
  <2>1. /\ Reading /\ (NoLine \/ Goto(pc))
        /\ UNCHANGED bufferVars /\ UNCHANGED lines /\ UNCHANGED typeVars
    BY <1>2 DEF SkipBytes, Exhausted, Incomplete
  <2>2. id # "NOTDSC"
    BY <2>1 DEF Room, Reading
  <2>3. index <= Len(data) \/ index' = index
    <3>1. CASE SkipBytes
      BY <2>1, <3>1, ReadingType DEF SkipBytes
    <3>2. CASE Exhausted
      BY <3>2 DEF Exhausted
    <3>3. CASE Incomplete
      <4>1. index < Len(data)
        BY <3>3, TextIs DEF Incomplete
      <4> QED
        BY <4>1, Types
    <3> QED
      BY <1>2, <3>1, <3>2, <3>3
  <2>4. UNCHANGED <<seen, file, block, size>>
    BY <2>1 DEF NoLine, Return, Goto, bufferVars, clientVars
  <2>5. Settles
    BY <2>1, <2>2, <2>3, <2>4, SameLines DEF typeVars, bufferVars
  <2>6. input' = input \/ (input = <<>> /\ input' = <<>>) \/ ~Whole'
    BY <2>1, <2>4, NoLineBytes DEF Goto
  <2> QED
    BY <2>4, <2>5, <2>6, BytesStay
<1> QED
  BY <1>1, <1>2

LEMMA BytesLine ==
  ASSUME LInv, Room, Bytes, SkipLine \/ FirstLine \/ NextLine
  PROVE  Bytes'
<1>1. PICK n \in 1..Len(Text) :
        /\ Take(n)
        /\ \/ SkipLine
           \/ FirstLine /\ AddLine(n, FALSE)
           \/ NextLine /\ \/ AddLine(n, FALSE) /\ Behind(n) /\ Leave
                          \/ AddLine(n, FALSE) /\ Goto(pc)
                          \/ AddLine(n, TRUE) /\ UNCHANGED <<clientVars, input>>
  BY DEF SkipLine, FirstLine, NextLine
<1>2. Reading /\ UNCHANGED bufferVars
  BY <1>1 DEF Take
<1>3. doseps' = doseps /\ pjl' = pjl
  BY <1>1 DEF SkipLine, FirstLine, NextLine, typeVars
<1>4. index <= Len(data)
  <2>1. Unread # <<>>
    <3>1. Len(Text) = 0 => FALSE
      OBVIOUS
    <3> QED
      BY <3>1, UnreadEmpty, EmptySeq
  <2>2. index < Len(data) /\ index \in Nat /\ Len(data) \in Nat
    BY <2>1, TextIs, Types
  <2> QED
    BY <2>2
<1>5. id # "NOTDSC" /\ lines \in Seq(LineRecord)
  BY <1>2, ReadingType DEF Room, Reading
<1>6. UNCHANGED <<seen, file, block, size>>
  BY <1>1, <1>2 DEF SkipLine, FirstLine, Return, Leave, Goto, bufferVars, clientVars
<1>7. From \in Nat /\ From + n \in Nat
  BY <1>1, <1>3, TakeFacts
<1>8. ASSUME NEW b \in BOOLEAN, AddLine(n, b)
      PROVE  /\ \A i \in 1..Len(lines) : i \in 1..Len(lines') /\ lines'[i] = lines[i]
             /\ Len(lines) + 1 \in 1..Len(lines') /\ lines'[Len(lines) + 1].to = From + n
  <2> DEFINE r == [from |-> From, to |-> From + n, scanned |-> b]
             m == Len(lines)
  <2>1. r \in LineRecord /\ r.to = From + n
    BY <1>7 DEF LineRecord
  <2>2. lines' = Append(lines, r)
    BY <1>8 DEF AddLine, From
  <2> HIDE DEF r, From
  <2>3. /\ Len(lines') = Len(lines) + 1
        /\ \A i \in 1..Len(lines) : lines'[i] = lines[i]
        /\ lines'[Len(lines) + 1] = r
    BY <1>5, <2>1, <2>2, AppendProperties
  <2>4. m \in Nat
    BY <1>5
  <2>5. m + 1 \in 1..m+1 /\ \A i \in 1..m : i \in 1..m+1
    <3> HIDE DEF m
    <3> QED
      BY <2>4
  <2>6. 1..Len(lines') = 1..m+1
    BY <2>3
  <2> QED
    BY <2>1, <2>3, <2>5, <2>6 DEF m
<1>9. \A i \in 1..Len(lines) : i \in 1..Len(lines') /\ lines'[i] = lines[i]
  <2>1. CASE SkipLine
    BY <2>1 DEF SkipLine
  <2>2. CASE ~SkipLine
    <3>1. AddLine(n, FALSE) \/ AddLine(n, TRUE)
      BY <1>1, <2>2
    <3> QED
      BY <1>8, <3>1
  <2> QED
    BY <2>1, <2>2
<1>10. Settles
  BY <1>3, <1>4, <1>5, <1>6, <1>9 DEF Settles
<1>11. input' = input \/ ~Whole'
  <2>1. CASE SkipLine
    BY <2>1 DEF SkipLine, Goto
  <2>2. CASE FirstLine
    <3>1. input' = input \/ Return("NOTDSC")
      BY <2>2 DEF FirstLine
    <3> QED
      BY <3>1 DEF Return, Whole
  <2>3. CASE AddLine(n, FALSE) /\ Behind(n) /\ Leave
    <3>1. doseps' /\ From + n > PsEnd
      BY <1>3, <2>3 DEF Behind, From
    <3>2. Len(lines) + 1 \in 1..Len(lines') /\ lines'[Len(lines) + 1].to = From + n
      BY <1>8, <2>3
    <3>3. ~(From + n <= PsEnd)
      BY <1>7, <3>1, Constant
    <3> QED
      BY <3>1, <3>2, <3>3 DEF Whole
  <2>4. CASE Goto(pc) \/ UNCHANGED <<clientVars, input>>
    BY <2>4 DEF Goto
  <2> QED
    BY <1>1, <2>1, <2>2, <2>3, <2>4
<1> QED
  BY <1>6, <1>10, <1>11, BytesStay

LEMMA BytesStutter ==
  ASSUME LInv, Room, Bytes, UNCHANGED vars
  PROVE  Bytes'
BY DEF Bytes, Whole, PjlByLf, vars, clientVars, bufferVars, typeVars

\* In blocks of at most half the buffer, as GSCreator's are, every byte that is read is in
\* the buffer, in the rest of a call or in the block, or was dealt with, at its offset: none
\* is lost or repeated by the moves of dsc_scan_data and the cuts of the handler.
THEOREM BytesOfTheFile ==
  ASSUME SmallBlocks
  PROVE  Spec => []BufferIsFile
<1> DEFINE Inv == Arranged /\ Room /\ Bytes
<1>1. Init => Inv
  <2> SUFFICES ASSUME Init PROVE Inv
    OBVIOUS
  <2>1. Arranged
    BY ArrangedFirst
  <2>2. Len(<<>>) = 0 /\ 0 <= Half
    BY Halves
  <2>3. Room
    BY <2>2, Halves DEF Init, Room
  <2>4. Bytes
    <3>1. <<>> \o <<>> \o <<>> = <<>>
      OBVIOUS
    <3> QED
      BY <3>1 DEF Init, Bytes
  <2> QED
    BY <2>1, <2>3, <2>4
<1>2. Inv /\ [Next]_vars => Inv'
  <2> SUFFICES ASSUME Arranged, Room, Bytes, [Next]_vars PROVE Inv'
    OBVIOUS
  <2>1. Arranged' /\ LInv
    BY ArrangedStep DEF Arranged
  <2>2. Room'
    BY <2>1, RoomClient, RoomAppend, RoomTyping, RoomSkipBytes, RoomNoLine, RoomLine
    DEF Next, ScanData, ReadLine
  <2>3. Bytes'
    BY <2>1, BytesRead, BytesCall, BytesAppend, BytesTyping, BytesNoLine, BytesLine, BytesStutter
    DEF Next, ScanData, ReadLine
  <2> QED
    BY <2>1, <2>2, <2>3
<1>3. Inv => BufferIsFile
  BY DEF Arranged, LInv, Window, Bytes, BufferIsFile
<1> QED
  BY <1>1, <1>2, <1>3, PTL DEF Spec

-----------------------------------------------------------------------------
(* Where PostScript begins.  Before the first line the position is known from what *)
(* the file begins with, as far as it was read.                                    *)

\* Enough is read behind a to say which header is there.
Decided(s, a) == Len(s) > a /\ (s[a + 1] = "ESC" => Len(s) > a + 1)

\* No header but a ^D was found.
Bare ==
  /\ skip_bytes = 0 /\ ~skip_pjl /\ At = IF ctrld THEN 1 ELSE 0
  /\ typed \/ pc = "first" =>
       /\ At = CtrlD(seen) /\ Decided(seen, At)
       /\ ~DosEpsAt(seen, At) /\ ~UelAt(seen, At)
\* In PJL no line that was passed begins with a %; the one that ended it does.
InPjl ==
  /\ ~doseps /\ skip_bytes = 0 /\ At >= CtrlD(seen) + 2
  /\ typed => ~skip_pjl
  /\ CtrlD(seen) = 1 => ctrld
  /\ \A i \in 1..At-1 : ~PercentLine(seen, i)
  /\ IF skip_pjl THEN seen[At] \notin Eol \/ (At < Len(seen) /\ ~PercentLine(seen, At))
                 ELSE At < Len(seen) /\ PercentLine(seen, At)
\* The rest of the preview of a DOS EPS file is to be skipped.
InDosEps ==
  /\ DosEpsAt(seen, CtrlD(seen)) /\ ~skip_pjl
  /\ CtrlD(seen) = 1 => ctrld
  /\ At >= CtrlD(seen) + HeaderLength /\ At + skip_bytes = CtrlD(seen) + PsBegin

Searching ==
  /\ skip_lines = 0 /\ ~last_cr /\ skip_bytes >= 0 /\ At <= Len(seen)
  /\ IF pjl THEN InPjl ELSE IF doseps THEN InDosEps ELSE Bare
Begun ==
  /\ BeginsAt(seen, lines[1].from) /\ Decided(seen, CtrlD(seen))
  /\ CtrlD(seen) = 1 => ctrld
  /\ UelAt(seen, CtrlD(seen)) => pjl
Heading ==
  /\ ctrld => CtrlD(seen) = 1
  /\ pjl => UelAt(seen, CtrlD(seen))
  /\ IF lines = <<>> THEN Searching ELSE Begun

LEMMA CtrlDType ==
  ASSUME NEW s \in Seq(Symbols)
  PROVE  /\ CtrlD(s) \in {0, 1} /\ Len(s) \in Nat
         /\ CtrlD(s) = 1 <=> Len(s) >= 1 /\ s[1] = "^D"
         /\ s = <<>> <=> Len(s) = 0
<1>1. Len(s) \in Nat /\ (s = <<>> <=> Len(s) = 0)
  BY EmptySeq
<1> QED
  BY <1>1 DEF CtrlD

LEMMA Grown ==
  ASSUME NEW s \in Seq(Symbols), NEW z \in Seq(Symbols), Len(s) <= Len(z),
         \A i \in 1..Len(s) : z[i] = s[i]
  PROVE  /\ OneHeader(z) => OneHeader(s)
         /\ Len(s) >= 1 => CtrlD(z) = CtrlD(s)
         /\ \A a \in Nat : /\ DosEpsAt(s, a) => DosEpsAt(z, a)
                           /\ UelAt(s, a) => UelAt(z, a)
                           /\ Decided(s, a) => /\ Decided(z, a)
                                               /\ DosEpsAt(z, a) <=> DosEpsAt(s, a)
                                               /\ UelAt(z, a) <=> UelAt(s, a)
         /\ \A i \in 1..Len(s)-1 : PercentLine(z, i) <=> PercentLine(s, i)
         /\ \A a : Decided(s, CtrlD(s)) /\ BeginsAt(s, a) => BeginsAt(z, a)
<1>1. Len(s) \in Nat /\ Len(z) \in Nat /\ CtrlD(s) \in {0, 1} /\ CtrlD(z) \in {0, 1}
  BY CtrlDType
<1>2. Len(s) >= 1 => CtrlD(z) = CtrlD(s)
  BY <1>1, CtrlDType
<1>3. ASSUME NEW a \in Nat
      PROVE  /\ DosEpsAt(s, a) => DosEpsAt(z, a)
             /\ UelAt(s, a) => UelAt(z, a)
             /\ Decided(s, a) => /\ Decided(z, a)
                                 /\ DosEpsAt(z, a) <=> DosEpsAt(s, a)
                                 /\ UelAt(z, a) <=> UelAt(s, a)
  <2>1. /\ Len(s) > a => Len(z) > a /\ z[a + 1] = s[a + 1]
        /\ Len(s) > a + 1 => Len(z) > a + 1 /\ z[a + 2] = s[a + 2]
    BY <1>1
  <2> QED
    BY <1>1, <2>1 DEF DosEpsAt, UelAt, Decided
<1>4. ASSUME NEW i \in 1..Len(s)-1
      PROVE  PercentLine(z, i) <=> PercentLine(s, i)
  <2>1. z[i] = s[i] /\ z[i + 1] = s[i + 1]
    BY <1>1
  <2> QED
    BY <2>1 DEF PercentLine
<1>5. OneHeader(z) => OneHeader(s)
  <2> SUFFICES ASSUME OneHeader(z) PROVE OneHeader(s)
    OBVIOUS
  <2>1. CtrlD(s) = 1 => Len(s) >= 1
    BY CtrlDType
  <2>2. CtrlD(s) = 1 /\ Len(s) > 1 => s[2] # "^D"
    BY <1>1, <1>2, <2>1 DEF OneHeader
  <2>3. ASSUME DosEpsAt(s, CtrlD(s)),
               NEW a \in CtrlD(s) + HeaderLength..CtrlD(s) + PsBegin
        PROVE  ~DosEpsAt(s, a) /\ ~UelAt(s, a) /\ (Len(s) > a => s[a + 1] # "^D")
    <3>1. a \in Nat /\ CtrlD(s) \in Nat
      BY <1>1, Constant
    <3>2. Len(s) >= 1
      BY <1>1, <2>3 DEF DosEpsAt
    <3>3. DosEpsAt(z, CtrlD(z)) /\ CtrlD(z) = CtrlD(s)
      BY <1>2, <1>3, <2>3, <3>1, <3>2
    <3>4. ~DosEpsAt(z, a) /\ ~UelAt(z, a) /\ (Len(z) > a => z[a + 1] # "^D")
      BY <2>3, <3>3 DEF OneHeader
    <3>5. Len(s) > a => Len(z) > a /\ z[a + 1] = s[a + 1]
      BY <1>1, <3>1
    <3> QED
      BY <1>3, <3>1, <3>4, <3>5
  <2> QED
    BY <2>2, <2>3 DEF OneHeader
<1>6. ASSUME NEW a, Decided(s, CtrlD(s)), BeginsAt(s, a)
      PROVE  BeginsAt(z, a)
  <2> DEFINE c == CtrlD(s)
  <2>1. c \in Nat /\ Len(s) >= 1
    BY <1>1, <1>6 DEF Decided
  <2>2. CtrlD(z) = c
    BY <1>2, <2>1
  <2>3. (DosEpsAt(z, c) <=> DosEpsAt(s, c)) /\ (UelAt(z, c) <=> UelAt(s, c))
    BY <1>3, <1>6, <2>1
  <2>4. ASSUME a \in 1..Len(s)-1, PercentLine(s, a), \A i \in 1..a-1 : ~PercentLine(s, i)
        PROVE  a \in 1..Len(z)-1 /\ PercentLine(z, a) /\ \A i \in 1..a-1 : ~PercentLine(z, i)
    <3>1. a \in 1..Len(z)-1 /\ \A i \in 1..a-1 : i \in 1..Len(s)-1
      BY <1>1, <2>4
    <3> QED
      BY <1>4, <2>4, <3>1
  <2> QED
    BY <1>6, <2>2, <2>3, <2>4 DEF BeginsAt
<1> QED
  BY <1>2, <1>3, <1>4, <1>5, <1>6

LEMMA SearchType ==
  ASSUME LInv
  PROVE  /\ seen \in Seq(Symbols) /\ Len(seen) \in Nat /\ At \in Nat /\ CtrlD(seen) \in {0, 1}
         /\ skip_bytes \in Int /\ ctrld \in BOOLEAN /\ pjl \in BOOLEAN /\ doseps \in BOOLEAN
         /\ skip_pjl \in BOOLEAN /\ typed \in BOOLEAN /\ HeaderLength \in Nat /\ HeaderLength >= 2
<1>1. seen \in Seq(Symbols) /\ Len(seen) \in Nat /\ At \in Nat /\ skip_bytes \in Int
  BY Places, Types
<1>2. HeaderLength \in Nat /\ HeaderLength >= 2
  BY Constant
<1> QED
  BY <1>1, <1>2, CtrlDType DEF LInv, TypeOK

\* What was found stays so when more is read, and when other lines follow.
LEMMA BegunStays ==
  ASSUME LInv, LInv', Heading, lines # <<>>,
         Len(seen) <= Len(seen'), \A i \in 1..Len(seen) : seen'[i] = seen[i],
         lines' # <<>>, lines'[1] = lines[1], UNCHANGED <<ctrld, pjl>>
  PROVE  Heading'
<1>1. seen \in Seq(Symbols) /\ seen' \in Seq(Symbols)
  BY SearchType, PlacesThen
<1>2. Begun
  BY DEF Heading
<1>3. Len(seen) >= 1 /\ Len(seen) \in Nat /\ CtrlD(seen) \in Nat
  BY <1>1, <1>2, CtrlDType DEF Begun, Decided
<1>4. CtrlD(seen') = CtrlD(seen)
  BY <1>1, <1>3, Grown
<1>5. /\ UelAt(seen, CtrlD(seen)) <=> UelAt(seen', CtrlD(seen))
      /\ Decided(seen', CtrlD(seen))
      /\ BeginsAt(seen', lines[1].from)
  BY <1>1, <1>2, <1>3, Grown DEF Begun
<1>6. (CtrlD(seen))' = CtrlD(seen)
  BY <1>4 DEF CtrlD
<1>7. Begun'
  BY <1>2, <1>4, <1>5 DEF Begun
<1> QED
  BY <1>4, <1>5, <1>7 DEF Heading

\* A step that reads nothing and moves nothing.
LEMMA SearchStays ==
  ASSUME Searching, UNCHANGED <<seen, lines, skip_bytes, typed, ctrld, pjl, skip_pjl, doseps>>,
         skip_lines' = 0, ~last_cr', At' = At, typed \/ (pc' = "first" => pc = "first")
  PROVE  Searching'
<1>1. InPjl => InPjl'
  BY Zenon DEF InPjl
<1>2. InDosEps => InDosEps'
  BY Zenon DEF InDosEps
<1>3. Bare => Bare'
  BY Zenon DEF Bare
<1> QED
  BY <1>1, <1>2, <1>3 DEF Searching

LEMMA HeadingAppend ==
  ASSUME LInv, LInv', Heading, Facts, AppendData
  PROVE  Heading'
<1>1. /\ UNCHANGED lineVars /\ UNCHANGED skipVars /\ UNCHANGED lines /\ UNCHANGED typeVars
      /\ pc = "append" /\ pc' = IF typed THEN "lines" ELSE "type"
  BY DEF AppendData
<1>2. /\ Len(seen') \in Nat /\ Len(seen) <= Len(seen')
      /\ \A i \in 1..Len(seen) : seen'[i] = seen[i]
  BY SeenStep DEF Next, ScanData
<1>3. At' = At
  <2>1. offset' + index' = offset + index
    BY AppendInv
  <2> QED
    BY <2>1 DEF At
<1>4. UNCHANGED <<skip_bytes, skip_lines, last_cr, typed, ctrld, pjl, skip_pjl, doseps>>
  BY <1>1 DEF lineVars, skipVars, typeVars
<1>5. CASE lines # <<>>
  BY <1>1, <1>2, <1>4, <1>5, BegunStays
<1>6. CASE lines = <<>>
  <2>1. Searching /\ (ctrld => CtrlD(seen) = 1) /\ (pjl => UelAt(seen, CtrlD(seen)))
    BY <1>6 DEF Heading
  <2>2. /\ seen \in Seq(Symbols) /\ seen' \in Seq(Symbols) /\ Len(seen) \in Nat /\ At \in Nat
        /\ CtrlD(seen) \in Nat /\ HeaderLength \in Nat
    BY SearchType, PlacesThen
  <2>3. ctrld \/ pjl \/ (doseps /\ InDosEps) => Len(seen) >= 1
    BY <2>1, <2>2, CtrlDType DEF UelAt, DosEpsAt, InDosEps
  <2>4. Len(seen) >= 1 => CtrlD(seen') = CtrlD(seen)
    BY <1>2, <2>2, Grown
  <2>5. /\ \A a \in Nat : /\ DosEpsAt(seen, a) => DosEpsAt(seen', a)
                          /\ UelAt(seen, a) => UelAt(seen', a)
                          /\ Decided(seen, a) => /\ Decided(seen', a)
                                                 /\ DosEpsAt(seen', a) <=> DosEpsAt(seen, a)
                                                 /\ UelAt(seen', a) <=> UelAt(seen, a)
        /\ \A i \in 1..Len(seen)-1 : PercentLine(seen', i) <=> PercentLine(seen, i)
    BY <1>2, <2>2, Grown
  <2>6. At' <= Len(seen')
    BY <1>2, <1>3, <2>1, <2>2 DEF Searching
  <2>7. (ctrld' => CtrlD(seen') = 1) /\ (pjl' => UelAt(seen', CtrlD(seen')))
    BY <1>4, <2>1, <2>2, <2>3, <2>4, <2>5
  <2>8. ASSUME pjl PROVE InPjl'
    <3>1. InPjl /\ CtrlD(seen') = CtrlD(seen) /\ At <= Len(seen) /\ At >= 1
      BY <2>1, <2>2, <2>3, <2>4, <2>8 DEF Searching, InPjl
    <3>2. \A i \in 1..At-1 : ~PercentLine(seen', i)
      BY <2>2, <2>5, <3>1 DEF InPjl
    <3>3. At < Len(seen) => (PercentLine(seen', At) <=> PercentLine(seen, At)) /\ At < Len(seen')
      BY <1>2, <2>2, <2>5, <3>1
    <3>4. seen'[At] = seen[At]
      BY <1>2, <2>2, <3>1
    <3>5. (CtrlD(seen))' = CtrlD(seen)
      BY <3>1 DEF CtrlD
    <3> QED
      BY <1>3, <1>4, <3>1, <3>2, <3>3, <3>4, <3>5, Zenon DEF InPjl
  <2>9. ASSUME ~pjl, doseps PROVE InDosEps'
    <3>1. InDosEps
      BY <2>1, <2>9 DEF Searching
    <3>2. CtrlD(seen') = CtrlD(seen) /\ DosEpsAt(seen', CtrlD(seen))
      BY <2>2, <2>3, <2>4, <2>5, <2>9, <3>1 DEF InDosEps
    <3> QED
      BY <1>3, <1>4, <3>1, <3>2 DEF InDosEps
  <2>10. ASSUME ~pjl, ~doseps PROVE Bare'
    <3>1. Bare
      BY <2>1, <2>10 DEF Searching
    <3>2. pc' # "first"
      BY <1>1
    <3>3. ASSUME typed
          PROVE  /\ At = CtrlD(seen') /\ Decided(seen', At)
                 /\ ~DosEpsAt(seen', At) /\ ~UelAt(seen', At)
      <4>1. Len(seen) >= 1
        BY <2>2, <3>1, <3>3 DEF Bare, Decided
      <4> QED
        BY <2>2, <2>4, <2>5, <3>1, <3>3, <4>1 DEF Bare
    <3> QED
      BY <1>3, <1>4, <3>1, <3>2, <3>3 DEF Bare
  <2>11. Searching'
    BY <1>4, <2>1, <2>6, <2>8, <2>9, <2>10 DEF Searching
  <2> QED
    BY <1>1, <1>6, <2>7, <2>11 DEF Heading
<1> QED
  BY <1>5, <1>6

LEMMA HeadingSkipBytes ==
  ASSUME LInv, LInv', Heading, SkipBytes
  PROVE  Heading'
<1> DEFINE n == Least(skip_bytes, Len(data) - index)
<1>1. /\ skip_bytes' = skip_bytes - n /\ index' = (index + n) % Word
      /\ UNCHANGED bufferVars /\ UNCHANGED lineVars /\ UNCHANGED typeVars
      /\ lines' = lines /\ skip_lines' = skip_lines
      /\ Reading /\ skip_bytes # 0
  BY DEF SkipBytes
<1>2. /\ skip_bytes \in Int /\ index \in Nat /\ Len(data) \in Nat /\ index <= Len(data)
      /\ Len(data) < Word /\ Word \in Nat /\ offset \in Nat /\ Len(seen) = offset + Len(data)
  BY <1>1, Types, Constant, ReadingType
<1>3. n = IF skip_bytes <= Len(data) - index THEN skip_bytes ELSE Len(data) - index
  BY DEF Least
<1> HIDE DEF n
<1>4. seen' = seen /\ Len(seen) \in Nat /\ At = offset + index /\ At' = offset + index'
  BY <1>1, <1>2 DEF At, bufferVars
<1>5. CASE lines # <<>>
  BY <1>1, <1>4, <1>5, BegunStays DEF typeVars
<1>6. CASE lines = <<>>
  <2>1. Searching /\ InDosEps /\ ~pjl /\ doseps
    BY <1>1, <1>6 DEF Heading, Searching, InPjl, Bare
  <2>2. skip_bytes >= 0
    BY <2>1 DEF Searching
  <2>3. n \in Nat /\ n <= skip_bytes /\ index + n \in Nat /\ index + n <= Len(data)
    BY <1>2, <1>3, <2>2
  <2>4. index' = index + n
    BY <1>1, <1>2, <2>3
  <2>5. At \in Nat /\ At' = At + n /\ At' <= Len(seen)
    BY <1>2, <1>4, <2>3, <2>4
  <2>6. skip_bytes' >= 0 /\ At' + skip_bytes' = At + skip_bytes
    BY <1>1, <1>2, <2>3, <2>5
  <2>7. CtrlD(seen) \in Nat /\ HeaderLength \in Nat
    BY SearchType
  <2>8. InDosEps'
    <3>1. At' >= CtrlD(seen) + HeaderLength
      BY <2>1, <2>3, <2>5, <2>7 DEF InDosEps
    <3> QED
      BY <1>1, <1>4, <2>1, <2>6, <3>1 DEF InDosEps, typeVars
  <2>9. Searching'
    BY <1>1, <1>4, <2>1, <2>5, <2>6, <2>8 DEF Searching, lineVars, typeVars
  <2> QED
    BY <1>1, <1>4, <1>6, <2>9 DEF Heading, typeVars
<1> QED
  BY <1>5, <1>6

\* Nothing is taken from the buffer.
LEMMA HeadingIdle ==
  ASSUME LInv, LInv', Heading,
         \/ (\E d \in Documents, n \in 1..size : ReadBlock(d, n)) \/ Call \/ IndexInvalid
         \/ Exhausted \/ Incomplete \/ UNCHANGED vars
  PROVE  Heading'
<1>1. /\ UNCHANGED bufferVars /\ UNCHANGED lines /\ UNCHANGED skip_bytes /\ UNCHANGED typeVars
      /\ typed \/ (pc' = "first" => pc = "first")
  BY DEF ReadBlock, Call, IndexInvalid, Exhausted, Incomplete, NoLine, Return, Leave, Goto, Reading,
         skipVars, vars
<1>2. seen' = seen /\ Len(seen) \in Nat
  BY <1>1, SearchType DEF bufferVars
<1>3. CASE lines # <<>>
  BY <1>1, <1>2, <1>3, BegunStays DEF typeVars
<1>4. CASE lines = <<>>
  <2>1. Searching
    BY <1>4 DEF Heading
  <2>2. skip_lines = 0 /\ ~last_cr
    BY <2>1 DEF Searching
  <2>3. Lf = 0 /\ SkipsLeft = 0
    BY <2>2 DEF Lf, SkipsLeft
  <2>4. index' = index /\ skip_lines' = 0 /\ ~last_cr'
    <3>1. CASE Incomplete
      <4>1. index' = index + Lf /\ last_cr' = FALSE /\ skip_lines' = SkipsLeft
        BY <3>1 DEF Incomplete
      <4>2. index + 0 = index
        BY Types
      <4> QED
        BY <2>3, <4>1, <4>2
    <3>2. CASE ~Incomplete
      <4>1. UNCHANGED index /\ UNCHANGED skipVars /\ UNCHANGED lineVars
        BY <3>2 DEF ReadBlock, Call, IndexInvalid, Exhausted, vars
      <4> QED
        BY <2>2, <4>1 DEF skipVars, lineVars
    <3> QED
      BY <3>1, <3>2
  <2>5. At' = At
    BY <1>1, <2>4 DEF At, bufferVars
  <2>6. Searching'
    BY <1>1, <1>2, <2>1, <2>4, <2>5, SearchStays DEF typeVars
  <2> QED
    BY <1>1, <1>2, <1>4, <2>6 DEF Heading, typeVars
<1> QED
  BY <1>3, <1>4

LEMMA HeadingSkipLine ==
  ASSUME LInv, LInv', Heading, SkipLine
  PROVE  Heading'
<1>1. /\ SkipsLeft # 0 /\ UNCHANGED typeVars /\ UNCHANGED lines /\ UNCHANGED bufferVars
  BY DEF SkipLine, Take
<1>2. lines # <<>>
  <2>1. lines = <<>> => SkipsLeft = 0
    BY DEF Heading, Searching, SkipsLeft
  <2> QED
    BY <1>1, <2>1
<1>3. seen' = seen /\ Len(seen) \in Nat
  BY <1>1, SearchType DEF bufferVars
<1> QED
  BY <1>1, <1>2, <1>3, BegunStays DEF typeVars

LEMMA HeadingLine ==
  ASSUME LInv, LInv', Facts, Heading, FirstLine \/ NextLine
  PROVE  Heading'
<1>1. PICK n \in 1..Len(Text), b \in BOOLEAN :
        Take(n) /\ AddLine(n, b) /\ UNCHANGED doseps
  BY DEF FirstLine, NextLine, typeVars
<1>2. /\ UNCHANGED <<ctrld, pjl, skip_pjl>> /\ (pc = "first" \/ typed)
      /\ UNCHANGED bufferVars /\ skip_bytes = 0
  <2>1. UNCHANGED <<ctrld, pjl, skip_pjl>> /\ UNCHANGED bufferVars /\ skip_bytes = 0
    BY <1>1 DEF FirstLine, NextLine, typeVars, Take
  <2>2. pc = "first" \/ typed
    BY DEF FirstLine, NextLine, LInv, Place
  <2> QED
    BY <2>1, <2>2
<1>3. seen' = seen /\ Len(seen) \in Nat
  BY <1>2, SearchType DEF bufferVars
<1> DEFINE m == Len(lines)
<1>4. /\ m \in Nat /\ Len(lines') = m + 1 /\ \A l \in 1..m : lines'[l] = lines[l]
      /\ lines'[m + 1].from = From
  <2>1. /\ m \in Nat /\ Len(lines') = m + 1 /\ \A l \in 1..m : lines'[l] = lines[l]
        /\ lines'[m + 1] = [from |-> From, to |-> From + n, scanned |-> b]
    BY <1>1, AddedLine
  <2> HIDE DEF From, m
  <2> QED
    BY <2>1
<1>5. lines' # <<>>
  <2>1. lines' = <<>> => Len(lines') = 0
    OBVIOUS
  <2> QED
    BY <1>4, <2>1
<1>6. lines \in Seq(LineRecord)
  BY DEF LInv, TypeOK, LineRecord
<1>7. CASE lines # <<>>
  <2>1. m # 0
    BY <1>6, <1>7, EmptySeq
  <2>2. lines'[1] = lines[1]
    BY <1>4, <2>1
  <2> QED
    BY <1>2, <1>3, <1>5, <1>7, <2>2, BegunStays
<1>8. CASE lines = <<>>
  <2>1. Searching /\ (ctrld => CtrlD(seen) = 1) /\ (pjl => UelAt(seen, CtrlD(seen)))
    BY <1>8 DEF Heading
  <2>2. At \in Nat /\ CtrlD(seen) \in {0, 1} /\ pjl \in BOOLEAN /\ doseps \in BOOLEAN
    BY SearchType
  <2>3. From = At
    <3>1. ~last_cr
      BY <2>1 DEF Searching
    <3>2. Lf = 0
      BY <3>1 DEF Lf
    <3>3. offset + index \in Int
      BY Types
    <3> QED
      BY <3>2, <3>3 DEF From, At
  <2>4. lines'[1].from = At
    BY <1>4, <1>8, <2>3
  <2>5. /\ BeginsAt(seen, At) /\ Decided(seen, CtrlD(seen))
        /\ CtrlD(seen) = 1 => ctrld
        /\ UelAt(seen, CtrlD(seen)) => pjl
    <3>1. CASE pjl
      <4>1. InPjl /\ UelAt(seen, CtrlD(seen))
        BY <2>1, <3>1 DEF Searching
      <4>2. ~skip_pjl
        BY <1>2, <4>1 DEF InPjl, Facts
      <4>3. At \in 1..Len(seen)-1 /\ PercentLine(seen, At) /\ \A i \in 1..At-1 : ~PercentLine(seen, i)
        BY <1>3, <2>2, <4>1, <4>2 DEF InPjl
      <4> QED
        BY <1>3, <2>2, <3>1, <4>1, <4>3 DEF BeginsAt, Decided, UelAt, InPjl
    <3>2. CASE ~pjl /\ doseps
      <4>1. InDosEps
        BY <2>1, <3>2 DEF Searching
      <4>2. At = CtrlD(seen) + PsBegin
        BY <1>2, <2>2, <4>1 DEF InDosEps
      <4> QED
        BY <4>1, <4>2 DEF InDosEps, BeginsAt, Decided, DosEpsAt, UelAt
    <3>3. CASE ~pjl /\ ~doseps
      <4>1. Bare
        BY <2>1, <3>3 DEF Searching
      <4> QED
        BY <1>2, <4>1 DEF Bare, BeginsAt
    <3> QED
      BY <2>2, <3>1, <3>2, <3>3
  <2>6. Begun'
    BY <1>2, <1>3, <2>4, <2>5 DEF Begun
  <2> QED
    BY <1>2, <1>3, <1>5, <2>1, <2>6 DEF Heading
<1> QED
  BY <1>7, <1>8

\* What EolRun says of what was read.
LEMMA EolRunShows ==
  ASSUME LInv, pc = "type", NEW r \in 1..Len(Unread), EolRun(Unread, r)
  PROVE  /\ At \in Nat /\ Len(seen) \in Nat /\ At + r \in Nat /\ At + r <= Len(seen)
         /\ \A i \in At+1..At+r-1 : ~PercentLine(seen, i)
         /\ seen[At + r] \in Eol
         /\ r < Len(Unread) => At + r < Len(seen) /\ seen[At + r + 1] = Unread[r + 1]
<1>1. /\ index \in Nat /\ offset \in Nat /\ Len(data) \in Nat /\ Len(seen) = offset + Len(data)
      /\ index <= Len(data)
  BY Types DEF LInv, Place
<1>2. /\ Unread \in Seq(Symbols) /\ Len(Unread) = Len(data) - index
      /\ \A i \in 1..Len(Unread) : Unread[i] = seen[offset + index + i]
  BY <1>1, UnreadIs
<1>3. Unread[r] \in Eol /\ \A i, j \in 1..r : i < j /\ Unread[i] \in Eol => Unread[j] \in Eol
  BY DEF EolRun
<1> HIDE DEF Unread
<1> DEFINE u == Len(Unread)
<1>4. u \in Nat /\ u = Len(data) - index /\ r \in 1..u /\ r \in Nat /\ r >= 1 /\ r <= u
  BY <1>1, <1>2
<1> HIDE DEF u
<1>5. /\ At \in Nat /\ Len(seen) \in Nat /\ At + r \in Nat /\ At + r <= Len(seen)
      /\ At + u = Len(seen)
  BY <1>1, <1>4 DEF At
<1>6. \A i \in 1..u : Unread[i] = seen[At + i]
  BY <1>2 DEF At, u
<1>7. ASSUME NEW i \in At+1..At+r-1 PROVE ~PercentLine(seen, i)
  <2> DEFINE k == i - At
  <2>1. k \in 1..r /\ k + 1 \in 1..r /\ k < k + 1 /\ k \in 1..u /\ k + 1 \in 1..u
        /\ At + k = i /\ At + (k + 1) = i + 1
    BY <1>4, <1>5
  <2> HIDE DEF k
  <2>2. Unread[k] = seen[i] /\ Unread[k + 1] = seen[i + 1]
    BY <1>6, <2>1
  <2>3. seen[i] \in Eol => seen[i + 1] \in Eol
    BY <1>3, <2>1, <2>2
  <2> QED
    BY <2>3 DEF PercentLine, Eol, Percent
<1>8. seen[At + r] \in Eol
  BY <1>3, <1>4, <1>6
<1>9. ASSUME r < Len(Unread)
      PROVE  At + r < Len(seen) /\ seen[At + r + 1] = Unread[r + 1]
  <2>1. r + 1 \in 1..u /\ At + (r + 1) = At + r + 1 /\ At + r < Len(seen)
    BY <1>4, <1>5, <1>9 DEF u
  <2> QED
    BY <1>6, <2>1
<1> QED
  BY <1>5, <1>7, <1>8, <1>9

LEMMA HeadingSkipPjl ==
  ASSUME LInv, LInv', Facts, Heading, SkipPjlMore \/ SkipPjlEnd
  PROVE  Heading'
<1>1. pc = "type" /\ skip_pjl /\ pjl /\ ~typed /\ lines = <<>> /\ UNCHANGED bufferVars
  <2>1. pc = "type" /\ skip_pjl /\ UNCHANGED bufferVars
    BY DEF SkipPjlMore, SkipPjlEnd, NeedMore
  <2> QED
    BY <2>1 DEF Facts, LInv, Place
<1>2. Searching /\ InPjl /\ (ctrld => CtrlD(seen) = 1) /\ UelAt(seen, CtrlD(seen))
  BY <1>1 DEF Heading, Searching
<1>3. /\ UNCHANGED <<ctrld, pjl, doseps, typed, skip_bytes, skip_lines, last_cr, lines>>
      /\ pc' # "first"
  BY <1>1 DEF SkipPjlMore, SkipPjlEnd, NeedMore, Return, typeVars, skipVars, lineVars
<1>4. /\ index \in Nat /\ offset \in Nat /\ Len(data) \in Nat /\ Len(seen) = offset + Len(data)
      /\ index <= Len(data) /\ At = offset + index /\ At \in Nat
  BY <1>1, Types DEF LInv, Place, At
<1>5. At' = offset + index' /\ At' \in Nat /\ seen' = seen /\ Len(seen) \in Nat
  BY <1>1, <1>4, PlacesThen DEF bufferVars
<1>6. /\ Unread \in Seq(Symbols) /\ Len(Unread) = Len(data) - index /\ At + Len(Unread) = Len(seen)
      /\ \A i \in 1..Len(Unread) : Unread[i] = seen[offset + index + i]
  <2>1. /\ Unread \in Seq(Symbols) /\ Len(Unread) = Len(data) - index
        /\ \A i \in 1..Len(Unread) : Unread[i] = seen[offset + index + i]
    BY <1>4, UnreadIs
  <2> HIDE DEF Unread
  <2>2. At + Len(Unread) = Len(seen)
    BY <1>4, <2>1
  <2> QED
    BY <2>1, <2>2
<1>7. /\ At >= CtrlD(seen) + 2 /\ CtrlD(seen) \in {0, 1} /\ At >= 1 /\ At <= Len(seen)
      /\ \A i \in 1..At-1 : ~PercentLine(seen, i)
      /\ seen[At] \notin Eol \/ (At < Len(seen) /\ ~PercentLine(seen, At))
      /\ ~doseps /\ skip_bytes = 0 /\ (CtrlD(seen) = 1 => ctrld)
  BY <1>1, <1>2, <1>4, SearchType DEF InPjl, Searching
<1>8. ~PercentLine(seen, At)
  BY <1>7 DEF PercentLine
<1>9. ASSUME At <= At', At' <= Len(seen), \A i \in At+1..At'-1 : ~PercentLine(seen, i),
             IF skip_pjl' THEN seen[At'] \notin Eol \/ (At' < Len(seen) /\ ~PercentLine(seen, At'))
                          ELSE At' < Len(seen) /\ PercentLine(seen, At')
      PROVE  Heading'
  <2>1. \A i \in 1..At'-1 : ~PercentLine(seen, i)
    <3> SUFFICES ASSUME NEW i \in 1..At'-1 PROVE ~PercentLine(seen, i)
      OBVIOUS
    <3>1. i \in 1..At-1 \/ i = At \/ i \in At+1..At'-1
      BY <1>4, <1>5
    <3> QED
      BY <1>7, <1>8, <1>9, <3>1
  <2>2. At' >= CtrlD(seen) + 2
    BY <1>4, <1>5, <1>7, <1>9
  <2>3. InPjl'
    BY <1>1, <1>3, <1>5, <1>7, <1>9, <2>1, <2>2 DEF InPjl
  <2>4. Searching'
    BY <1>1, <1>2, <1>3, <1>5, <1>9, <2>3 DEF Searching
  <2> QED
    BY <1>1, <1>2, <1>3, <1>5, <2>4 DEF Heading
<1>10. ASSUME skip_pjl' = skip_pjl, index' = index
       PROVE  Heading'
  <2>1. At' = At
    BY <1>4, <1>5, <1>10
  <2>2. \A i \in At+1..At'-1 : ~PercentLine(seen, i)
    BY <1>4, <2>1
  <2> QED
    BY <1>1, <1>4, <1>7, <1>9, <1>10, <2>1, <2>2
<1>11. ASSUME skip_pjl' = skip_pjl, Len(Unread) >= 2, \A i \in 1..Len(Unread) : Unread[i] \notin Eol,
              index' = Len(data)
       PROVE  Heading'
  <2> HIDE DEF Unread
  <2>1. At' = Len(seen) /\ At <= At'
    BY <1>4, <1>5, <1>11
  <2>2. \A i \in At+1..Len(seen) : seen[i] \notin Eol
    <3> SUFFICES ASSUME NEW i \in At+1..Len(seen) PROVE seen[i] \notin Eol
      OBVIOUS
    <3> DEFINE k == i - At
    <3>1. k \in 1..Len(Unread) /\ offset + index + k = i
      BY <1>4, <1>6
    <3> HIDE DEF k
    <3> QED
      BY <1>6, <1>11, <3>1
  <2>3. seen[At'] \notin Eol /\ \A i \in At+1..At'-1 : ~PercentLine(seen, i)
    BY <1>4, <1>6, <1>11, <2>1, <2>2 DEF PercentLine
  <2> QED
    BY <1>1, <1>5, <1>9, <1>11, <2>1, <2>3
<1>12. ASSUME skip_pjl' = skip_pjl, Len(Unread) >= 2, EolRun(Unread, Len(Unread)),
              index' = Len(data) - 1
       PROVE  Heading'
  <2> DEFINE u == Len(Unread)
  <2>1. u \in 1..Len(Unread) /\ u >= 2 /\ u \in Nat /\ At + u = Len(seen)
    BY <1>4, <1>6, <1>12
  <2>2. /\ \A i \in At+1..At+u-1 : ~PercentLine(seen, i)
        /\ seen[At + u] \in Eol
    BY <1>1, <1>12, <2>1, EolRunShows
  <2> HIDE DEF u
  <2>3. At' = At + u - 1 /\ At' + 1 = At + u /\ At' < Len(seen) /\ At <= At'
    BY <1>4, <1>5, <1>6, <1>12, <2>1
  <2>4. ~PercentLine(seen, At')
    BY <1>4, <2>1, <2>2, <2>3
  <2>5. \A i \in At+1..At'-1 : ~PercentLine(seen, i)
    BY <1>4, <2>1, <2>2, <2>3
  <2> QED
    BY <1>1, <1>5, <1>9, <1>12, <2>3, <2>4, <2>5
<1>13. ASSUME NEW r \in 1..Len(Unread)-1, EolRun(Unread, r), index' = index + r,
              skip_pjl' <=> Unread[r + 1] \notin Percent
       PROVE  Heading'
  <2>1. r \in 1..Len(Unread) /\ r < Len(Unread) /\ r \in Nat
    BY <1>4, <1>6
  <2>2. /\ \A i \in At+1..At+r-1 : ~PercentLine(seen, i)
        /\ seen[At + r] \in Eol
        /\ At + r < Len(seen) /\ seen[At + r + 1] = Unread[r + 1]
    BY <1>1, <1>13, <2>1, EolRunShows
  <2>3. PercentLine(seen, At + r) <=> ~skip_pjl'
    BY <1>13, <2>2 DEF PercentLine
  <2> HIDE DEF Unread
  <2>4. At' = At + r /\ At <= At'
    BY <1>4, <1>5, <1>13, <2>1
  <2> QED
    BY <1>4, <1>5, <1>9, <2>2, <2>3, <2>4
<1>14. CASE SkipPjlMore
  <2>1. /\ skip_pjl' = skip_pjl
        /\ \/ index' = index
           \/ /\ Len(Unread) >= 2 /\ \A i \in 1..Len(Unread) : Unread[i] \notin Eol
              /\ index' = Len(data)
           \/ Len(Unread) >= 2 /\ EolRun(Unread, Len(Unread)) /\ index' = Len(data) - 1
           \/ \E r \in 1..Len(Unread)-1 :
                EolRun(Unread, r) /\ Unread[r + 1] \notin Percent /\ index' = index + r
    BY <1>14, Zenon DEF SkipPjlMore, NeedMore, typeVars
  <2> HIDE DEF Unread
  <2> QED
    BY <1>1, <1>10, <1>11, <1>12, <1>13, <2>1
<1>15. CASE SkipPjlEnd
  <2>1. PICK r \in 1..Len(Unread)-1 :
          EolRun(Unread, r) /\ Unread[r + 1] \in Percent /\ index' = index + r
    BY <1>15 DEF SkipPjlEnd
  <2>2. skip_pjl' = FALSE
    BY <1>15 DEF SkipPjlEnd
  <2> HIDE DEF Unread
  <2> QED
    BY <1>13, <2>1, <2>2
<1> QED
  BY <1>14, <1>15

\* Where dsc_scan_type looks for a header: behind a ^D, or where PostScript begins, or in
\* the preview of a DOS EPS file, where OneHeader promises that there is none.
LEMMA LooksAt ==
  ASSUME LInv, Heading, OneHeader(seen), lines = <<>>, pc = "type", ~skip_pjl
  PROVE  /\ At + Ctrl >= CtrlD(seen) /\ (Ctrl = 1 \/ ctrld <=> CtrlD(seen) = 1)
         /\ pjl \/ doseps =>
              /\ Ctrl = 0 /\ ~DosEpsAt(seen, At) /\ ~UelAt(seen, At)
         /\ ~pjl /\ ~doseps => At + Ctrl = CtrlD(seen)
<1>1. Searching /\ (ctrld => CtrlD(seen) = 1) /\ (pjl => UelAt(seen, CtrlD(seen)))
  BY DEF Heading
<1>2. /\ At \in Nat /\ CtrlD(seen) \in {0, 1} /\ Len(seen) \in Nat /\ pjl \in BOOLEAN
      /\ doseps \in BOOLEAN /\ ctrld \in BOOLEAN /\ HeaderLength \in Nat /\ HeaderLength >= 2
      /\ skip_bytes \in Int
  BY SearchType
<1>3. Ctrl \in {0, 1} /\ (Ctrl = 1 <=> Len(seen) > At /\ seen[At + 1] = "^D")
  <2>1. /\ index \in Nat /\ offset \in Nat /\ Len(data) \in Nat /\ Len(seen) = offset + Len(data)
        /\ index <= Len(data) /\ At = offset + index
    BY Types DEF LInv, Place, At
  <2>2. /\ Unread \in Seq(Symbols) /\ Len(Unread) = Len(data) - index
        /\ \A i \in 1..Len(Unread) : Unread[i] = seen[At + i]
    BY <2>1, UnreadIs DEF At
  <2> HIDE DEF Unread
  <2>3. Unread # <<>> <=> Len(Unread) > 0
    BY <2>2, EmptySeq
  <2>4. Len(Unread) > 0 <=> Len(seen) > At
    BY <2>1, <2>2
  <2>5. Unread # <<>> => Unread[1] = seen[At + 1]
    BY <2>2, <2>3
  <2> QED
    BY <2>3, <2>4, <2>5 DEF Ctrl
<1> HIDE DEF Ctrl
<1>4. CASE pjl
  <2>1. InPjl /\ At < Len(seen) /\ PercentLine(seen, At) /\ At >= 2
    BY <1>1, <1>2, <1>4 DEF Searching, InPjl
  <2>2. seen[At + 1] \in Percent
    BY <2>1 DEF PercentLine
  <2>3. seen[At + 1] \notin {"^D", "ESC", "C5D0D3C6"}
    BY <2>2 DEF Percent
  <2>4. Ctrl = 0 /\ ~DosEpsAt(seen, At) /\ ~UelAt(seen, At)
    BY <1>3, <2>3 DEF DosEpsAt, UelAt
  <2>5. CtrlD(seen) = 1 <=> ctrld
    BY <1>1, <2>1 DEF InPjl
  <2> QED
    BY <1>2, <1>4, <2>1, <2>4, <2>5
<1>5. CASE ~pjl /\ doseps
  <2>1. InDosEps
    BY <1>1, <1>5 DEF Searching
  <2>2. At \in CtrlD(seen) + HeaderLength..CtrlD(seen) + PsBegin
    <3>1. At + skip_bytes = CtrlD(seen) + PsBegin /\ At >= CtrlD(seen) + HeaderLength
          /\ skip_bytes >= 0
      BY <1>1, <2>1 DEF InDosEps, Searching
    <3> QED
      BY <1>2, <3>1, Constant
  <2>3. ~DosEpsAt(seen, At) /\ ~UelAt(seen, At) /\ (Len(seen) > At => seen[At + 1] # "^D")
    BY <2>1, <2>2 DEF OneHeader, InDosEps
  <2>4. Ctrl = 0 /\ (CtrlD(seen) = 1 <=> ctrld)
    BY <1>1, <1>3, <2>1, <2>3 DEF InDosEps
  <2> QED
    BY <1>2, <1>5, <2>2, <2>3, <2>4
<1>6. CASE ~pjl /\ ~doseps
  <2>1. At = IF ctrld THEN 1 ELSE 0
    BY <1>1, <1>6 DEF Searching, Bare
  <2>2. CASE ctrld
    <3>1. CtrlD(seen) = 1 /\ At = 1
      BY <1>1, <2>1, <2>2
    <3>2. Len(seen) > At => seen[At + 1] # "^D"
      BY <3>1 DEF OneHeader
    <3>3. Ctrl = 0
      BY <1>3, <3>2
    <3> QED
      BY <1>6, <2>2, <3>1, <3>3
  <2>3. CASE ~ctrld
    <3>1. At = 0
      BY <2>1, <2>3
    <3>2. seen \in Seq(Symbols)
      BY SearchType
    <3>3. Ctrl = 1 <=> CtrlD(seen) = 1
      BY <1>2, <1>3, <3>1, <3>2, CtrlDType
    <3> QED
      BY <1>2, <1>3, <1>6, <2>3, <3>1, <3>3
  <2> QED
    BY <2>2, <2>3
<1> QED
  BY <1>2, <1>4, <1>5, <1>6

LEMMA HeadingType ==
  ASSUME LInv, LInv', Facts, Heading, OneHeader(seen),
         TypeMore \/ TypePjl \/ TypeDosEps \/ TypePdf \/ TypeByLine
  PROVE  Heading'
<1>1. /\ pc = "type" /\ ~skip_pjl /\ ~typed /\ lines = <<>> /\ UNCHANGED bufferVars
      /\ UNCHANGED <<lines, last_cr, skip_lines>> /\ ctrld' = (ctrld \/ Ctrl = 1)
  <2>1. /\ pc = "type" /\ ~skip_pjl /\ UNCHANGED bufferVars
        /\ UNCHANGED <<lines, last_cr, skip_lines>> /\ ctrld' = (ctrld \/ Ctrl = 1)
    BY DEF ScanType, TypeMore, TypePjl, TypeDosEps, TypePdf, TypeByLine, NeedMore, lineVars, skipVars
  <2> QED
    BY <2>1 DEF LInv, Place, Facts
<1> DEFINE a == At + Ctrl
<1>2. /\ Len(Start) \in Nat /\ Ctrl \in {0, 1} /\ a \in Nat
      /\ Len(seen) = a + Len(Start)
      /\ \A i \in 1..Len(Start) : Start[i] = seen[a + i]
      /\ Start # <<>> <=> Len(Start) >= 1
  <2>1. Start \in Seq(Symbols)
    BY <1>1, StartSymbols
  <2>2. Len(Start) \in Nat
    BY <1>1, StartSymbols
  <2>3. Start # <<>> <=> Len(Start) >= 1
    BY <2>1, <2>2, EmptySeq
  <2> HIDE DEF Start, Ctrl
  <2> QED
    BY <1>1, <2>3, StartSymbols
<1>3. index \in Nat /\ offset \in Nat /\ At = offset + index /\ At \in Nat
  BY Types, Places DEF At
<1>4. /\ a >= CtrlD(seen) /\ (Ctrl = 1 \/ ctrld <=> CtrlD(seen) = 1)
      /\ pjl \/ doseps =>
           /\ Ctrl = 0 /\ ~DosEpsAt(seen, At) /\ ~UelAt(seen, At)
      /\ ~pjl /\ ~doseps => a = CtrlD(seen)
  BY <1>1, LooksAt
<1> HIDE DEF Start, Ctrl
<1>5. /\ pjl \/ doseps => a = At
      /\ CtrlD(seen) \in {0, 1} /\ pjl \in BOOLEAN /\ doseps \in BOOLEAN /\ ctrld \in BOOLEAN
      /\ HeaderLength \in Nat /\ HeaderLength >= 2 /\ skip_bytes \in Int
  BY <1>3, <1>4, SearchType
<1> HIDE DEF a
<1>6. At' = offset + index' /\ seen' = seen
  BY <1>1, PlacesThen DEF bufferVars
<1>7. Searching /\ skip_lines = 0 /\ ~last_cr /\ skip_bytes >= 0 /\ (pjl => UelAt(seen, CtrlD(seen)))
  BY <1>1 DEF Heading, Searching
<1>8. ctrld' <=> CtrlD(seen) = 1
  BY <1>1, <1>4
<1>9. (CtrlD(seen))' = CtrlD(seen)
  BY <1>6 DEF CtrlD
\* It goes on where it looked.
<1>10. ASSUME index' = index + Ctrl, UNCHANGED <<pjl, skip_pjl, doseps, skip_bytes>>,
              typed' \/ pc' = "first" =>
                /\ Len(Start) >= TypeNeeds /\ Start[1] # "C5D0D3C6" /\ ~IsUel
       PROVE  Heading'
  <2>1. At' = a
    BY <1>2, <1>3, <1>6, <1>10 DEF a
  <2>2. CASE pjl
    <3>1. InPjl /\ At' = At
      BY <1>5, <1>7, <2>1, <2>2 DEF Searching
    <3>2. InPjl'
      BY <1>1, <1>6, <1>8, <1>9, <1>10, <3>1 DEF InPjl
    <3>3. Searching'
      BY <1>1, <1>6, <1>7, <1>10, <2>2, <3>1, <3>2 DEF Searching
    <3> QED
      BY <1>1, <1>6, <1>7, <1>8, <1>9, <1>10, <3>3 DEF Heading
  <2>3. CASE ~pjl /\ doseps
    <3>1. InDosEps /\ At' = At
      BY <1>5, <1>7, <2>1, <2>3 DEF Searching
    <3>2. InDosEps'
      BY <1>1, <1>6, <1>8, <1>9, <1>10, <3>1 DEF InDosEps
    <3>3. Searching'
      BY <1>1, <1>6, <1>7, <1>10, <2>3, <3>1, <3>2 DEF Searching
    <3> QED
      BY <1>1, <1>6, <1>8, <1>9, <1>10, <2>3, <3>3 DEF Heading
  <2>4. CASE ~pjl /\ ~doseps
    <3>1. Bare /\ At' = CtrlD(seen) /\ a = CtrlD(seen)
      BY <1>4, <1>7, <2>1, <2>4 DEF Searching
    <3>2. At' = IF ctrld' THEN 1 ELSE 0
      BY <1>5, <1>8, <3>1
    <3>3. ASSUME typed' \/ pc' = "first"
          PROVE  Decided(seen, a) /\ ~DosEpsAt(seen, a) /\ ~UelAt(seen, a)
      <4>1. Len(Start) >= TypeNeeds /\ Start[1] # "C5D0D3C6" /\ ~IsUel
        BY <1>10, <3>3
      <4>2. Len(Start) >= 1 /\ (Start[1] = "ESC" => Len(Start) >= 2)
        <5>1. Start = <<>> => Len(Start) < 1 /\ TypeNeeds = 1
          BY <1>2 DEF TypeNeeds
        <5>2. Start # <<>> /\ Start[1] = "ESC" => TypeNeeds = 2
          BY DEF TypeNeeds, UelLength
        <5> QED
          BY <1>2, <4>1, <5>1, <5>2
      <4>3. Start[1] = seen[a + 1] /\ (Len(Start) >= 2 => Start[2] = seen[a + 2])
        BY <1>2, <4>2
      <4> QED
        BY <1>2, <4>1, <4>2, <4>3 DEF Decided, DosEpsAt, UelAt, IsUel
    <3>4. Bare'
      BY <1>1, <1>6, <1>9, <1>10, <3>1, <3>2, <3>3 DEF Bare
    <3>5. At' <= Len(seen)
      BY <1>2, <2>1
    <3>6. Searching'
      BY <1>1, <1>6, <1>7, <1>10, <2>4, <3>4, <3>5 DEF Searching
    <3> QED
      BY <1>1, <1>6, <1>8, <1>9, <1>10, <2>4, <3>6 DEF Heading
  <2> QED
    BY <1>5, <2>2, <2>3, <2>4
<1>11. CASE TypeMore
  <2>1. /\ index' = index + Ctrl /\ UNCHANGED <<pjl, skip_pjl, doseps, skip_bytes>>
        /\ ~typed' /\ pc' # "first"
    BY <1>1, <1>11 DEF TypeMore, NeedMore, Return, skipVars
  <2> QED
    BY <1>10, <2>1
<1>12. CASE TypePdf \/ TypeByLine
  <2>1. /\ index' = index + Ctrl /\ UNCHANGED <<pjl, skip_pjl, doseps, skip_bytes>>
        /\ Len(Start) >= TypeNeeds /\ Start[1] # "C5D0D3C6"
    BY <1>12 DEF TypePdf, TypeByLine, skipVars
  <2>2. ~IsUel
    BY <1>12 DEF TypePdf, TypeByLine, IsUel
  <2> QED
    BY <1>10, <2>1, <2>2
<1>13. CASE TypePjl
  <2>1. /\ Len(Start) >= TypeNeeds /\ IsUel /\ pjl' = TRUE /\ skip_pjl' = TRUE
        /\ index' = index + Ctrl + UelLength /\ UNCHANGED <<skip_bytes, doseps, typed>>
    BY <1>13 DEF TypePjl, skipVars
  <2>2. Len(Start) >= 2
    <3>1. Start[1] = "ESC"
      BY <2>1 DEF IsUel
    <3>2. Start # <<>> => TypeNeeds = 2
      BY <3>1 DEF TypeNeeds, UelLength
    <3>3. Start = <<>> => TypeNeeds = 1
      BY DEF TypeNeeds
    <3> QED
      BY <1>2, <2>1, <3>2, <3>3
  <2>3. seen[a + 1] = "ESC" /\ seen[a + 2] = "%-12345X" /\ Len(seen) > a + 1
    BY <1>2, <2>1, <2>2 DEF IsUel
  <2>4. UelAt(seen, a)
    BY <2>3 DEF UelAt
  <2>5. ~pjl /\ ~doseps /\ a = CtrlD(seen)
    BY <1>4, <1>5, <2>4
  <2>6. At' = a + 2 /\ At' <= Len(seen)
    BY <1>2, <1>3, <1>6, <2>1, <2>2 DEF a, UelLength
  <2>7. a = 1 => seen[1] = "^D"
    BY <2>5, CtrlDType, SearchType
  <2>8. \A i \in 1..At'-1 : ~PercentLine(seen, i)
    <3> SUFFICES ASSUME NEW i \in 1..At'-1 PROVE ~PercentLine(seen, i)
      OBVIOUS
    <3>1. i = a + 1 \/ (a = 1 /\ i = 1)
      BY <1>5, <2>5, <2>6
    <3>2. seen[i] \notin Eol
      BY <2>3, <2>7, <3>1 DEF Eol
    <3> QED
      BY <3>2 DEF PercentLine
  <2>9. seen[At'] \notin Eol
    BY <2>3, <2>6 DEF Eol
  <2>10. skip_bytes = 0
    BY <1>7, <2>5 DEF Searching, Bare
  <2>11. InPjl'
    BY <1>1, <1>6, <1>8, <1>9, <2>1, <2>5, <2>6, <2>8, <2>9, <2>10 DEF InPjl
  <2>12. Searching'
    BY <1>1, <1>6, <1>7, <2>1, <2>6, <2>11 DEF Searching
  <2> QED
    BY <1>1, <1>6, <1>8, <1>9, <2>4, <2>5, <2>12 DEF Heading
<1>14. CASE TypeDosEps
  <2>1. /\ Len(Start) >= TypeNeeds /\ Start[1] = "C5D0D3C6" /\ doseps' = TRUE
        /\ index' = index + Ctrl + HeaderLength /\ skip_bytes' = PsBegin - HeaderLength
        /\ UNCHANGED <<typed, pjl, skip_pjl>>
    BY <1>14 DEF TypeDosEps
  <2>2. Len(Start) >= HeaderLength
    <3>1. Start # <<>> => TypeNeeds = HeaderLength
      BY <2>1 DEF TypeNeeds
    <3>2. Start = <<>> => TypeNeeds = 1
      BY DEF TypeNeeds
    <3> QED
      BY <1>2, <2>1, <3>1, <3>2
  <2>3. DosEpsAt(seen, a)
    BY <1>2, <1>5, <2>1, <2>2 DEF DosEpsAt
  <2>4. ~pjl /\ ~doseps /\ a = CtrlD(seen)
    BY <1>4, <1>5, <2>3
  <2>5. At' = a + HeaderLength /\ At' <= Len(seen)
    BY <1>2, <1>3, <1>5, <1>6, <2>1, <2>2 DEF a
  <2>6. PsBegin \in Nat /\ PsBegin >= HeaderLength
    BY HeaderAssumption, Constant
  <2>7. skip_bytes' >= 0 /\ At' + skip_bytes' = CtrlD(seen) + PsBegin
    BY <1>2, <1>5, <2>1, <2>4, <2>5, <2>6
  <2>8. InDosEps'
    BY <1>1, <1>2, <1>5, <1>6, <1>8, <1>9, <2>1, <2>3, <2>4, <2>5, <2>7 DEF InDosEps
  <2>9. Searching'
    BY <1>1, <1>6, <1>7, <2>1, <2>4, <2>5, <2>7, <2>8 DEF Searching
  <2> QED
    BY <1>1, <1>6, <1>8, <1>9, <2>1, <2>4, <2>9 DEF Heading
<1> QED
  BY <1>11, <1>12, <1>13, <1>14

LEMMA HeadingStep ==
  ASSUME LInv, LInv', Facts, OneHeader(seen), Heading, [Next]_vars
  PROVE  Heading'
<1>1. CASE UNCHANGED vars
  BY <1>1, HeadingIdle
<1>2. CASE Typing
  BY <1>2, HeadingSkipPjl, HeadingType DEF Typing
<1>3. CASE ReadLine
  BY <1>3, HeadingSkipBytes, HeadingIdle, HeadingSkipLine, HeadingLine DEF ReadLine
<1>4. CASE AppendData
  BY <1>4, HeadingAppend
<1>5. CASE (\E d \in Documents, n \in 1..size : ReadBlock(d, n)) \/ Call \/ IndexInvalid
  BY <1>5, HeadingIdle
<1> QED
  BY <1>1, <1>2, <1>3, <1>4, <1>5 DEF Next, ScanData

\* However the first bytes of a file are divided among the blocks, pieces and calls,
\* dsc_scan_type finds the line that PostScript begins with, and says PJL and ^D of
\* the files that begin with them and of no others.
THEOREM StartIsFound == Spec => []StartFound
<1> DEFINE Known == LInv /\ LinesIn /\ Facts /\ (OneHeader(seen) => Heading)
<1>1. Init => Known
  <2> SUFFICES ASSUME Init PROVE Known
    OBVIOUS
  <2>1. LInv
    BY InitInv
  <2>2. LinesIn /\ Facts
    BY DEF Init, LinesIn, Facts
  <2>3. At = 0 /\ Len(seen) = 0
    BY DEF Init, At
  <2>4. Heading
    BY <2>3 DEF Init, Heading, Searching, Bare
  <2> QED
    BY <2>1, <2>2, <2>4
<1>2. Known /\ [Next]_vars => Known'
  <2> SUFFICES ASSUME Known, [Next]_vars PROVE Known'
    OBVIOUS
  <2>1. LInv'
    BY ScanStep, ScanStutter
  <2>2. LinesIn' /\ Facts'
    BY LinesGrow, FactsStep
  <2>3. ASSUME OneHeader(seen') PROVE OneHeader(seen)
    BY <2>1, <2>3, SeenStep, Grown, SearchType, PlacesThen
  <2>4. ASSUME OneHeader(seen') PROVE Heading'
    BY <2>1, <2>3, <2>4, HeadingStep
  <2>5. (OneHeader(seen))' => OneHeader(seen')
    BY DEF OneHeader, DosEpsAt, UelAt, CtrlD
  <2> QED
    BY <2>1, <2>2, <2>4, <2>5
<1>3. Known => StartFound
  BY DEF Heading, Begun, StartFound
<1> QED
  BY <1>1, <1>2, <1>3, PTL DEF Spec
=============================================================================
