----------------------------- MODULE ReportProofs -----------------------------
(***************************************************************************)
(* Proofs about Report, for every list of entries, of any durations and    *)
(* errors, on every terminal.                                              *)
(***************************************************************************)
EXTENDS Report, LatencyProofs, ErrorClassProofs

-----------------------------------------------------------------------------
(***************************************************************************)
(* The entries a report has shown.                                         *)
(***************************************************************************)
Given == {entries[i] : i \in DOMAIN entries}

ShownUpTo ==
  CHOOSE f : f = [ n \in 0..Len(entries) |->
                     IF n = 0 THEN <<>>
                     ELSE IF HasLine(entries[n]) THEN Append(f[n - 1], entries[n])
                     ELSE f[n - 1] ]

LEMMA ShownIs == Shown = ShownUpTo[printed]
BY DEF Shown, ShownUpTo

LEMMA ShownUnfolds ==
  ASSUME entries \in Seq(AnEntry)
  PROVE  /\ ShownUpTo \in [0..Len(entries) -> Seq(Given)]
         /\ ShownUpTo[0] = <<>>
         /\ \A k \in 1..Len(entries) :
              ShownUpTo[k] = IF HasLine(entries[k]) THEN Append(ShownUpTo[k - 1], entries[k])
                             ELSE ShownUpTo[k - 1]
<1> DEFINE n == Len(entries)
           A == Seq(Given)
           Unfolds(f) == f = [ k \in 0..n |->
                                 IF k = 0 THEN <<>>
                                 ELSE IF HasLine(entries[k]) THEN Append(f[k - 1], entries[k])
                                 ELSE f[k - 1] ]
           step == [ p \in (1..n) \X A |->
                       IF HasLine(entries[p[1]]) THEN Append(p[2], entries[p[1]]) ELSE p[2] ]
<1>1. n \in Nat /\ (\A k \in 1..n : entries[k] \in Given) /\ <<>> \in A
  BY DEF Given
<1>2. StepIn(A, n, step)
  <2>1. ASSUME NEW p \in (1..n) \X A
        PROVE  (IF HasLine(entries[p[1]]) THEN Append(p[2], entries[p[1]]) ELSE p[2]) \in A
    <3>1. p[2] \in A /\ entries[p[1]] \in Given
      BY <1>1
    <3> QED  BY <3>1
  <2> QED  BY <2>1 DEF StepIn
<1>3. PICK f : Trace(A, n, <<>>, step, f)
  <2> DEFINE empty == <<>>
  <2>1. n \in Nat /\ empty \in A
    BY <1>1
  <2> HIDE DEF step, n, A, empty
  <2>2. \E f : Trace(A, n, empty, step, f)
    BY <1>2, <2>1, Recursion
  <2> QED  BY <2>2 DEF empty
<1>4. f \in [0..n -> A] /\ f[0] = <<>> /\ \A k \in 1..n : f[k] = step[<<k, f[k - 1]>>]
  BY <1>3 DEF Trace
<1>5. ASSUME NEW k \in 1..n
      PROVE  f[k] = IF HasLine(entries[k]) THEN Append(f[k - 1], entries[k]) ELSE f[k - 1]
  <2>1. k - 1 \in 0..n /\ f[k - 1] \in A
    BY <1>1, <1>4
  <2>2. step[<<k, f[k - 1]>>]
          = IF HasLine(entries[k]) THEN Append(f[k - 1], entries[k]) ELSE f[k - 1]
    BY <2>1
  <2> QED  BY <1>4, <2>2
<1>6. Unfolds(f)
  <2>1. ASSUME NEW k \in 0..n
        PROVE  f[k] = IF k = 0 THEN <<>>
                      ELSE IF HasLine(entries[k]) THEN Append(f[k - 1], entries[k])
                      ELSE f[k - 1]
    <3>1. CASE k = 0
      BY <1>4, <3>1
    <3>2. CASE k # 0
      <4>1. k \in 1..n
        BY <1>1, <3>2
      <4>2. f[k] = IF HasLine(entries[k]) THEN Append(f[k - 1], entries[k]) ELSE f[k - 1]
        BY <1>5, <4>1
      <4> HIDE DEF n, A
      <4> QED  BY <3>2, <4>2
    <3> QED  BY <3>1, <3>2
  <2>2. f = [k \in 0..n |-> f[k]]
    BY <1>4
  <2> QED  BY <2>1, <2>2
<1> DEFINE c == CHOOSE g : Unfolds(g)
<1>7. Unfolds(c)
  <2> HIDE DEF Unfolds
  <2> QED  BY <1>6
<1>8. ShownUpTo = c
  BY DEF ShownUpTo
<1> HIDE DEF c
<1>9. /\ c[0] = <<>>
      /\ \A k \in 1..n : c[k] = IF HasLine(entries[k]) THEN Append(c[k - 1], entries[k]) ELSE c[k - 1]
  <2>1. c[0] = <<>>
    <3>1. 0 \in 0..n
      BY <1>1
    <3> QED  BY <1>7, <3>1
  <2>2. ASSUME NEW k \in 1..n
        PROVE  c[k] = IF HasLine(entries[k]) THEN Append(c[k - 1], entries[k]) ELSE c[k - 1]
    <3>1. k \in 0..n /\ k # 0
      BY <1>1
    <3>2. c[k] = IF k = 0 THEN <<>>
                 ELSE IF HasLine(entries[k]) THEN Append(c[k - 1], entries[k])
                 ELSE c[k - 1]
      BY <1>7, <3>1
    <3> HIDE DEF n, A, Unfolds
    <3> QED  BY <3>1, <3>2
  <2> QED  BY <2>1, <2>2
<1> DEFINE T == {k \in 0..n : c[k] \in A}
<1>10. 0 \in T
  <2>1. c[0] \in A /\ 0 \in 0..n
    BY <1>1, <1>9
  <2> QED  BY <2>1
<1>11. ASSUME NEW k \in 0..(n - 1), k \in T PROVE k + 1 \in T
  <2>1. k + 1 \in 1..n /\ k + 1 - 1 = k /\ k + 1 \in 0..n
    BY <1>1
  <2>2. c[k + 1] = IF HasLine(entries[k + 1]) THEN Append(c[k], entries[k + 1]) ELSE c[k]
    BY <1>9, <2>1
  <2>3. c[k] \in A /\ entries[k + 1] \in Given
    BY <1>1, <1>11, <2>1
  <2>4. c[k + 1] \in A
    <3>1. Append(c[k], entries[k + 1]) \in A
      BY <2>3
    <3> QED  BY <2>2, <2>3, <3>1
  <2> QED  BY <2>1, <2>4
<1>12. \A k \in 0..n : k \in T
  <2> HIDE DEF T
  <2> QED  BY <1>1, <1>10, <1>11, UpTo
<1>13. c \in [0..n -> A]
  <2>1. c = [k \in 0..n |-> c[k]]
    BY <1>7
  <2> QED  BY <1>12, <2>1
<1> QED  BY <1>8, <1>9, <1>13

LEMMA EntryGiven ==
  ASSUME entries \in Seq(AnEntry), NEW i \in 1..Len(entries)
  PROVE  entries[i] \in Given /\ entries[i] \in AnEntry
BY DEF Given

LEMMA GivenType ==
  ASSUME entries \in Seq(AnEntry)
  PROVE  Given \in SUBSET AnEntry
BY DEF Given

(* One more entry has been through. *)
LEMMA ShownGrows ==
  ASSUME entries \in Seq(AnEntry), UNCHANGED <<format, entries>>,
         printed \in 0..(Len(entries) - 1), printed' = printed + 1
  PROVE  /\ Shown \in Seq(Given) /\ Entry \in Given /\ Entry \in AnEntry
         /\ Shown' = IF HasLine(Entry) THEN Append(Shown, Entry) ELSE Shown
<1>1. Shown = ShownUpTo[printed] /\ Shown' = ShownUpTo'[printed']
  BY DEF Shown, ShownUpTo
<1>2. ShownUpTo' = ShownUpTo
  BY DEF ShownUpTo, HasLine
<1>3. printed + 1 \in 1..Len(entries) /\ printed + 1 - 1 = printed /\ printed \in 0..Len(entries)
  OBVIOUS
<1>4. /\ ShownUpTo[printed] \in Seq(Given)
      /\ ShownUpTo[printed + 1] = IF HasLine(entries[printed + 1])
                                    THEN Append(ShownUpTo[printed], entries[printed + 1])
                                    ELSE ShownUpTo[printed]
  BY <1>3, ShownUnfolds
<1>5. Entry \in Given /\ Entry \in AnEntry
  BY <1>3, EntryGiven DEF Entry
<1> QED  BY <1>1, <1>2, <1>4, <1>5 DEF Entry

-----------------------------------------------------------------------------
(***************************************************************************)
(* The invariant: each line so far is one the format may print of its      *)
(* entry.                                                                  *)
(***************************************************************************)
LineOf(e) ==
  IF format = "table" THEN TableLine(e)
  ELSE IF format = "json" THEN JsonLine(e)
  ELSE BenchstatLine(e)

AllLines == UNION {LineOf(e) : e \in {g \in Given : HasLine(g)}}

LinesMatch ==
  /\ Shown \in Seq(Given)
  /\ lines \in Seq(AllLines)
  /\ Len(lines) = Len(Shown)
  /\ \A i \in 1..Len(lines) : lines[i] \in LineOf(Shown[i])

FootnoteTrue ==
  format = "table" /\ footnote # "pending" =>
    (footnote = "note" <=> \E i \in DOMAIN entries : FailureCount(entries[i].result) > 0)

ReportType ==
  /\ format \in {"table", "json", "benchstat"} /\ terminal \in Terminals
  /\ entries \in Reports /\ entries \in Seq(AnEntry)
  /\ printed \in 0..Len(entries)

ReportInv == ReportType /\ LinesMatch /\ FootnoteTrue

LEMMA InitReport == Init => ReportInv
<1> SUFFICES ASSUME Init PROVE ReportInv
  OBVIOUS
<1>1. entries \in Seq(AnEntry) /\ ReportType
  BY ReportAssumption DEF Init, ReportType
<1>2. Shown = <<>>
  <2>1. ShownUpTo[0] = <<>>
    BY <1>1, ShownUnfolds
  <2> QED  BY <2>1, ShownIs DEF Init
<1>3. LinesMatch
  <2>1. lines = <<>>
    BY DEF Init
  <2> QED  BY <1>2, <2>1 DEF LinesMatch
<1>4. FootnoteTrue
  BY DEF Init, FootnoteTrue
<1> QED  BY <1>1, <1>3, <1>4 DEF ReportInv

LEMMA SameContext ==
  ASSUME UNCHANGED <<format, terminal, entries>>
  PROVE  /\ Given' = Given /\ AllLines' = AllLines
         /\ \A e : LineOf(e)' = LineOf(e) 
         /\ \A e : HasLine(e)' = HasLine(e)
BY DEF Given, AllLines, LineOf, HasLine, TableLine, testColWidth, terminalWidth, JsonLine,
       BenchstatLine

(* A line is printed of an entry that has one. *)
LEMMA EmitMatches ==
  ASSUME ReportInv, Emit(LineOf(Entry)), HasLine(Entry)
  PROVE  ReportInv'
<1>1. /\ UNCHANGED <<format, terminal, entries, footnote>>
      /\ printed < Len(entries) /\ printed' = printed + 1
  BY DEF Emit
<1>2. PICK line \in LineOf(Entry) : lines' = Append(lines, line)
  BY DEF Emit
<1>3. /\ entries \in Seq(AnEntry) /\ printed \in 0..(Len(entries) - 1)
      /\ printed + 1 \in 0..Len(entries)
  BY <1>1 DEF ReportInv, ReportType
<1>4. Shown \in Seq(Given) /\ Entry \in Given /\ Shown' = Append(Shown, Entry)
  BY <1>1, <1>3, ShownGrows
<1>5. line \in AllLines
  BY <1>2, <1>4 DEF AllLines
<1>6. /\ lines \in Seq(AllLines) /\ Len(lines) = Len(Shown)
      /\ \A i \in 1..Len(lines) : lines[i] \in LineOf(Shown[i])
  BY DEF ReportInv, LinesMatch
<1>7. /\ Given' = Given /\ AllLines' = AllLines /\ \A e : LineOf(e)' = LineOf(e)
  BY <1>1, SameContext
<1>8. /\ lines' \in Seq(AllLines) /\ Shown' \in Seq(Given) /\ Len(lines') = Len(Shown')
      /\ Len(lines') = Len(lines) + 1 /\ Len(lines) \in Nat
  BY <1>2, <1>4, <1>5, <1>6
<1>9. ASSUME NEW i \in 1..Len(lines') PROVE lines'[i] \in LineOf(Shown'[i])
  <2>1. CASE i \in 1..Len(lines)
    <3>1. lines'[i] = lines[i] /\ Shown'[i] = Shown[i]
      BY <1>2, <1>4, <1>5, <1>6, <2>1
    <3> QED  BY <1>6, <2>1, <3>1
  <2>2. CASE i = Len(lines) + 1
    <3>1. lines'[i] = line /\ Shown'[i] = Entry
      BY <1>2, <1>4, <1>5, <1>6, <2>2
    <3> QED  BY <1>2, <3>1
  <2> QED  BY <1>8, <2>1, <2>2
<1>10. LinesMatch'
  BY <1>7, <1>8, <1>9 DEF LinesMatch
<1>11. ReportType' /\ FootnoteTrue'
  BY <1>1, <1>3 DEF ReportInv, ReportType, FootnoteTrue
<1> QED  BY <1>10, <1>11 DEF ReportInv

LEMMA StepReport == ReportInv /\ [Next]_vars => ReportInv'
<1> SUFFICES ASSUME ReportInv, [Next]_vars PROVE ReportInv'
  OBVIOUS
<1>1. CASE PrintTable
  <2>1. LineOf(Entry) = TableLine(Entry) /\ HasLine(Entry)
    BY <1>1 DEF PrintTable, LineOf, HasLine
  <2> QED  BY <1>1, <2>1, EmitMatches DEF PrintTable
<1>2. CASE PrintJSON
  <2>1. LineOf(Entry) = JsonLine(Entry) /\ HasLine(Entry)
    BY <1>2 DEF PrintJSON, LineOf, HasLine
  <2> QED  BY <1>2, <2>1, EmitMatches DEF PrintJSON
<1>3. CASE PrintBenchstat
  <2>1. Entry \in AnEntry
    <3>1. printed + 1 \in 1..Len(entries) /\ entries \in Seq(AnEntry)
      BY <1>3 DEF PrintBenchstat, ReportInv, ReportType
    <3> QED  BY <3>1, EntryGiven DEF Entry
  <2>2. SuccessCount(Entry.result) \in Nat
    BY <2>1 DEF AnEntry, AResult, ResultFields, SuccessCount
  <2>3. LineOf(Entry) = BenchstatLine(Entry) /\ HasLine(Entry)
    BY <1>3, <2>2 DEF PrintBenchstat, LineOf, HasLine
  <2> QED  BY <1>3, <2>3, EmitMatches DEF PrintBenchstat
<1>4. CASE SkipEntry
  <2>1. /\ entries \in Seq(AnEntry) /\ printed \in 0..(Len(entries) - 1)
        /\ printed' = printed + 1 /\ printed' \in 0..Len(entries)
        /\ UNCHANGED <<format, terminal, entries, lines, footnote>>
    BY <1>4 DEF SkipEntry, ReportInv, ReportType
  <2>2. ~HasLine(Entry)
    BY <1>4 DEF SkipEntry, HasLine
  <2>3. Shown' = Shown
    BY <2>1, <2>2, ShownGrows
  <2>4. Given' = Given /\ AllLines' = AllLines /\ \A e : LineOf(e)' = LineOf(e)
    BY <2>1, SameContext
  <2>5. LinesMatch'
    BY <2>1, <2>3, <2>4 DEF ReportInv, LinesMatch
  <2> QED  BY <2>1, <2>5 DEF ReportInv, ReportType, FootnoteTrue
<1>5. CASE EndReport
  <2>1. UNCHANGED <<format, terminal, entries, printed, lines>>
    BY <1>5 DEF EndReport
  <2>2. Given' = Given /\ AllLines' = AllLines /\ \A e : LineOf(e)' = LineOf(e)
    BY <2>1, SameContext
  <2>3. Shown' = Shown
    BY <2>1 DEF Shown, HasLine
  <2>4. LinesMatch'
    BY <2>1, <2>2, <2>3 DEF ReportInv, LinesMatch
  <2>5. FootnoteTrue'
    BY <1>5, <2>1 DEF EndReport, FootnoteTrue, IsUnreliable
  <2> QED  BY <2>1, <2>4, <2>5 DEF ReportInv, ReportType
<1>6. CASE UNCHANGED vars
  <2>1. UNCHANGED <<format, terminal, entries, printed, lines, footnote>>
    BY <1>6 DEF vars
  <2>2. Given' = Given /\ AllLines' = AllLines /\ \A e : LineOf(e)' = LineOf(e)
    BY <2>1, SameContext
  <2>3. Shown' = Shown
    BY <2>1 DEF Shown, HasLine
  <2>4. LinesMatch'
    BY <2>1, <2>2, <2>3 DEF ReportInv, LinesMatch
  <2> QED  BY <2>1, <2>4 DEF ReportInv, ReportType, FootnoteTrue
<1> QED  BY <1>1, <1>2, <1>3, <1>4, <1>5, <1>6 DEF Next, Printed

LEMMA ReportInvariant == Spec => []ReportInv
<1> QED  BY InitReport, StepReport, PTL DEF Spec

-----------------------------------------------------------------------------
(***************************************************************************)
(* What a line says.                                                       *)
(***************************************************************************)
TableName(e) ==
  IF IsUnreliable(e.result) THEN Joined(e.label, e.name) \o Mark ELSE Joined(e.label, e.name)

LEMMA LineSays ==
  ASSUME ReportType, NEW e, NEW line \in LineOf(e)
  PROVE  /\ line.counts = <<FailureCount(e.result), RequestCount(e.result)>>
         /\ line.latency \in computeStats(e.result.durations)
         /\ format # "json" => line.errors = formatErrors(Errors(e.result))
         /\ format = "json" => /\ line.errors = jsonErrors(Errors(e.result))
                               /\ line.unreliable = IsUnreliable(e.result)
         /\ format = "table" =>
              /\ line.name = TruncateRunes(TableName(e), testColWidth)
              /\ line.samples = [i \in DOMAIN e.result.samples |->
                                   TruncateRunes(e.result.samples[i], SampleLimit)]
<1>1. CASE format = "table"
  <2>1. line \in TableLine(e)
    BY <1>1 DEF LineOf
  <2> QED  BY <1>1, <2>1 DEF TableLine, TableName
<1>2. CASE format = "json"
  <2>1. line \in JsonLine(e)
    BY <1>2 DEF LineOf
  <2> QED  BY <1>2, <2>1 DEF JsonLine
<1>3. CASE format = "benchstat"
  <2>1. line \in BenchstatLine(e)
    BY <1>3 DEF LineOf
  <2> QED  BY <1>3, <2>1 DEF BenchstatLine
<1> QED  BY <1>1, <1>2, <1>3 DEF ReportType

LEMMA ShownEntry ==
  ASSUME ReportInv, NEW i \in DOMAIN lines
  PROVE  /\ ReportType /\ lines[i] \in LineOf(Shown[i])
         /\ Shown[i] \in Given /\ Shown[i] \in AnEntry /\ Shown[i].result \in AResult
<1>1. /\ ReportType /\ Shown \in Seq(Given) /\ lines \in Seq(AllLines)
      /\ Len(lines) = Len(Shown) /\ \A k \in 1..Len(lines) : lines[k] \in LineOf(Shown[k])
  BY DEF ReportInv, LinesMatch
<1>2. i \in 1..Len(lines) /\ i \in 1..Len(Shown)
  BY <1>1
<1>3. Given \in SUBSET AnEntry
  BY <1>1, GivenType DEF ReportType
<1>4. Shown[i] \in Given
  BY <1>1, <1>2
<1> QED  BY <1>1, <1>2, <1>3, <1>4 DEF AnEntry

(***************************************************************************)
(* Every entry that has a line is reported, in order and with its own      *)
(* failures and request count, and no failure goes without the note or the *)
(* flag, for every list of entries (PrintTable, PrintJSON, PrintBenchstat).*)
(***************************************************************************)
THEOREM ReportIsComplete == Spec => []ReportComplete
<1>1. ReportInv => ReportComplete
  <2> SUFFICES ASSUME ReportInv PROVE ReportComplete
    OBVIOUS
  <2>1. Len(lines) = Len(Shown)
    BY DEF ReportInv, LinesMatch
  <2>2. ASSUME NEW i \in DOMAIN lines
        PROVE  /\ lines[i].counts = <<Len(Shown[i].result.failures), Shown[i].result.requests>>
               /\ format = "json" =>
                    (lines[i].unreliable <=> FailureCount(Shown[i].result) > 0)
    <3>1. ReportType /\ lines[i] \in LineOf(Shown[i])
      BY ShownEntry
    <3>2. /\ lines[i].counts = <<FailureCount(Shown[i].result), RequestCount(Shown[i].result)>>
          /\ format = "json" => lines[i].unreliable = IsUnreliable(Shown[i].result)
      BY <3>1, LineSays
    <3> QED  BY <3>2 DEF IsUnreliable, FailureCount, RequestCount
  <2> QED  BY <2>1, <2>2 DEF ReportComplete, ReportInv, FootnoteTrue
<1> QED  BY <1>1, ReportInvariant, PTL

(* A text is cut to what it may occupy. *)
LEMMA TruncateFits ==
  ASSUME NEW A, NEW s \in Seq(A), NEW limit \in Nat
  PROVE  Len(TruncateRunes(s, limit)) <= limit
<1>1. Len(s) \in Nat
  OBVIOUS
<1>2. CASE limit = 0
  BY <1>2 DEF TruncateRunes
<1>3. CASE limit > 0 /\ Len(s) <= limit
  BY <1>3 DEF TruncateRunes
<1>4. CASE limit > 0 /\ Len(s) > limit /\ limit <= 3
  <2>1. TruncateRunes(s, limit) = SubSeq(s, 1, limit)
    BY <1>1, <1>4 DEF TruncateRunes
  <2>2. Len(SubSeq(s, 1, limit)) = limit
    BY <1>4, SubSeqProperties
  <2> QED  BY <2>1, <2>2
<1>5. CASE Len(s) > limit /\ limit > 3
  <2>1. TruncateRunes(s, limit) = SubSeq(s, 1, limit - 3) \o Ellipsis
    BY <1>1, <1>5 DEF TruncateRunes
  <2>2. SubSeq(s, 1, limit - 3) \in Seq(A) /\ Len(SubSeq(s, 1, limit - 3)) = limit - 3
    BY <1>5, SubSeqProperties
  <2>3. Ellipsis \in Seq({"."}) /\ Len(Ellipsis) = 3
    BY DEF Ellipsis
  <2>4. SubSeq(s, 1, limit - 3) \in Seq(A \cup {"."}) /\ Ellipsis \in Seq(A \cup {"."})
    BY <2>2, <2>3
  <2>5. Len(SubSeq(s, 1, limit - 3) \o Ellipsis) = limit - 3 + 3
    <3> DEFINE B == A \cup {"."}
    <3> HIDE DEF B
    <3>1. SubSeq(s, 1, limit - 3) \in Seq(B) /\ Ellipsis \in Seq(B)
      BY <2>4 DEF B
    <3>2. Len(SubSeq(s, 1, limit - 3) \o Ellipsis)
            = Len(SubSeq(s, 1, limit - 3)) + Len(Ellipsis)
      BY <3>1, ConcatProperties
    <3> QED  BY <2>2, <2>3, <3>2
  <2> QED  BY <2>1, <2>5
<1> QED  BY <1>1, <1>2, <1>3, <1>4, <1>5

LEMMA NameType ==
  ASSUME NEW e \in AnEntry
  PROVE  TableName(e) \in Seq(Runes \cup {"/", " ", "*"})
<1> DEFINE A == Runes \cup {"/", " ", "*"}
<1>1. e.label \in Seq(A) /\ e.name \in Seq(A)
  <2>1. e.label \in Seq(Runes) /\ e.name \in Seq(Runes)
    BY DEF AnEntry
  <2>2. Runes \in SUBSET A
    OBVIOUS
  <2> HIDE DEF A
  <2> QED  BY <2>1, <2>2, SeqMonotonic
<1>2. <<"/">> \in Seq(A) /\ <<" ", "*">> \in Seq(A)
  OBVIOUS
<1> HIDE DEF A
<1>3. Joined(e.label, e.name) \in Seq(A)
  <2>1. e.label \o <<"/">> \in Seq(A)
    BY <1>1, <1>2, ConcatProperties
  <2>2. e.label \o <<"/">> \o e.name \in Seq(A)
    BY <1>1, <2>1, ConcatProperties
  <2> QED  BY <1>1, <2>2 DEF Joined
<1>4. Joined(e.label, e.name) \o Mark \in Seq(A)
  <2>1. Mark \in Seq(A)
    BY <1>2 DEF Mark
  <2> QED  BY <1>3, <2>1, ConcatProperties
<1> QED  BY <1>3, <1>4 DEF TableName, A

(***************************************************************************)
(* No text of the table is wider than its column, on any terminal and for  *)
(* any name (PrintTable, truncate).                                        *)
(***************************************************************************)
THEOREM TextsFit == Spec => []TextFits
<1>1. ReportInv => TextFits
  <2> SUFFICES ASSUME ReportInv, format = "table", NEW i \in DOMAIN lines
               PROVE  /\ Len(lines[i].name) <= testColWidth
                      /\ \A j \in DOMAIN lines[i].samples : Len(lines[i].samples[j]) <= SampleLimit
    BY DEF TextFits
  <2> DEFINE e == Shown[i]
  <2>1. ReportType /\ lines[i] \in LineOf(e) /\ e \in AnEntry /\ e.result \in AResult
    BY ShownEntry
  <2> HIDE DEF e
  <2>2. /\ lines[i].name = TruncateRunes(TableName(e), testColWidth)
        /\ lines[i].samples = [j \in DOMAIN e.result.samples |->
                                 TruncateRunes(e.result.samples[j], SampleLimit)]
    BY <2>1, LineSays
  <2>3. testColWidth \in Nat
    <3>1. terminal \in [COLUMNS: Int, size: Int]
      BY <2>1, TerminalAssumption DEF ReportType
    <3>2. terminalWidth \in Int
      BY <3>1 DEF terminalWidth
    <3> QED  BY <3>2 DEF testColWidth, FixedColumns, ColTestMin
  <2>4. Len(lines[i].name) <= testColWidth
    BY <2>1, <2>2, <2>3, NameType, TruncateFits
  <2>5. ASSUME NEW j \in DOMAIN lines[i].samples
        PROVE  Len(lines[i].samples[j]) <= SampleLimit
    <3>1. e.result.samples[j] \in Seq(Runes)
      <4>1. e.result.samples \in Seq(Seq(Runes))
        BY <2>1 DEF AResult, ResultFields
      <4>2. j \in DOMAIN e.result.samples
        BY <2>2, <2>5
      <4> QED  BY <4>1, <4>2
    <3>2. lines[i].samples[j] = TruncateRunes(e.result.samples[j], SampleLimit)
      BY <2>2, <2>5
    <3> QED  BY <3>1, <3>2, TruncateFits, SampleAssumption
  <2> QED  BY <2>4, <2>5
<1> QED  BY <1>1, ReportInvariant, PTL

(***************************************************************************)
(* The figures of every line are in order, for any durations and whichever *)
(* way Truncated rounds: the percentiles between the extremes, and, unless *)
(* the sum of the durations left its 64 bits, the mean too and the         *)
(* deviation within their distance (computeStats).                         *)
(***************************************************************************)
THEOREM FiguresInOrder == Spec => []FiguresOrdered
<1>1. ReportInv => FiguresOrdered
  <2> SUFFICES ASSUME ReportInv, NEW i \in DOMAIN lines
               PROVE  LET s == lines[i].latency
                      IN  /\ s.Min <= s.P50 /\ s.P50 <= s.P90 /\ s.P90 <= s.P95 /\ s.P95 <= s.P99
                          /\ s.P99 <= s.P999 /\ s.P999 <= s.Max
                          /\ ~Overflows(Shown[i].result.durations) =>
                               s.Min <= s.Mean /\ s.Mean <= s.Max /\ s.StdDev <= s.Max - s.Min
    BY DEF FiguresOrdered
  <2> DEFINE d == Shown[i].result.durations
             s == lines[i].latency
  <2>1. d \in Seq(Durations) /\ s \in computeStats(d)
    <3>1. /\ ReportType /\ lines[i] \in LineOf(Shown[i]) /\ Shown[i].result \in AResult
      BY ShownEntry
    <3>2. lines[i].latency \in computeStats(Shown[i].result.durations)
      BY <3>1, LineSays
    <3> QED  BY <3>1, <3>2 DEF AResult, ResultFields, Durations
  <2>2. Total(d) \in Int
    <3>1. d \in Seq(Int) /\ \A k \in 1..Len(d) : d[k] \in Int /\ 0 <= d[k] /\ d[k] < Half
      BY <2>1, SeqOfDurations
    <3> DEFINE zero == 0
    <3>2. \A k \in 1..Len(d) : zero <= d[k] /\ d[k] <= Half
      BY <3>1, HalfAssumption
    <3>3. zero \in Int /\ Half \in Int
      BY HalfAssumption
    <3> HIDE DEF d, zero
    <3> QED  BY <3>1, <3>2, <3>3, TotalBounds
  <2>3. ~Overflows(d) => Total(d) < Half
    BY <2>2, HalfAssumption DEF Overflows
  <2> HIDE DEF d, s
  <2>4. /\ s.Min <= s.P50 /\ s.P50 <= s.P90 /\ s.P90 <= s.P95 /\ s.P95 <= s.P99
        /\ s.P99 <= s.P999 /\ s.P999 <= s.Max
    BY <2>1, PercentilesOrdered
  <2>5. ~Overflows(d) => s.Min <= s.Mean /\ s.Mean <= s.Max /\ s.StdDev <= s.Max - s.Min
    BY <2>1, <2>3, MeanAndDeviation
  <2> QED  BY <2>4, <2>5 DEF d, s
<1> QED  BY <1>1, ReportInvariant, PTL

-----------------------------------------------------------------------------
(***************************************************************************)
(* Counting finds the element that sorting puts at a place.                *)
(***************************************************************************)
LEMMA Image ==
  ASSUME NEW at, NEW m \in Nat, NEW n \in Nat, Permutes(n, at), m <= n
  PROVE  /\ IsFiniteSet({at[i] : i \in 1..m})
         /\ Cardinality({at[i] : i \in 1..m}) = m
<1> DEFINE f == [i \in 1..m |-> at[i]]
           S == {at[i] : i \in 1..m}
<1>1. IsFiniteSet(1..m) /\ Cardinality(1..m) = m
  BY FirstNumbers
<1>2. f \in Bijection(1..m, S)
  <2>1. f \in [1..m -> S] /\ \A x \in S : \E i \in 1..m : f[i] = x
    OBVIOUS
  <2>2. ASSUME NEW i \in 1..m, NEW j \in 1..m, f[i] = f[j] PROVE i = j
    <3>1. i \in 1..n /\ j \in 1..n /\ at[i] = at[j]
      BY <2>2
    <3> QED  BY <3>1 DEF Permutes
  <2> HIDE DEF f, S
  <2>3. f \in Injection(1..m, S)
    BY <2>1, <2>2, Fun_IsInj
  <2>4. f \in Surjection(1..m, S)
    BY <2>1, Fun_IsSurj
  <2> QED  BY <2>3, <2>4, Fun_IsBij
<1> HIDE DEF f, S
<1>3. IsFiniteSet(S) /\ Cardinality(S) = m
  <2> DEFINE B == 1..m
  <2>1. IsFiniteSet(B) /\ Cardinality(B) = m /\ f \in Bijection(B, S)
    BY <1>1, <1>2
  <2> HIDE DEF B
  <2> QED  BY <2>1, FS_Bijection DEF ExistsBijection
<1> QED  BY <1>3 DEF S

IsSmallest(d, k, v) ==
  /\ v \in Range(d)
  /\ Cardinality({i \in DOMAIN d : d[i] < v}) < k
  /\ Cardinality({i \in DOMAIN d : d[i] <= v}) >= k

LEMMA SortedIsSmallest ==
  ASSUME NEW d \in Seq(Int), NEW k \in 1..Len(d)
  PROVE  IsSmallest(d, k, InOrder(d)[k])
<1> DEFINE n == Len(d)
           at == Place(d)
           v == InOrder(d)[k]
           less == {i \in DOMAIN d : d[i] < v}
           most == {i \in DOMAIN d : d[i] <= v}
<1>1. /\ n \in Nat /\ DOMAIN d = 1..n /\ Permutes(n, at) /\ at \in [1..n -> 1..n]
      /\ \A i \in 1..n : d[i] \in Int
  BY PlacePermutes
<1>2. /\ \A i \in 1..n : InOrder(d)[i] = d[at[i]]
      /\ \A i, j \in 1..n : i <= j => InOrder(d)[i] <= InOrder(d)[j]
  BY InOrderSorted
<1>3. IsFiniteSet(1..n) /\ Cardinality(1..n) = n
  BY <1>1, FirstNumbers
<1>4. v \in Range(d) /\ v \in Int
  BY <1>1, <1>2 DEF Range
<1>5. less \in SUBSET {at[i] : i \in 1..(k - 1)}
  <2> SUFFICES ASSUME NEW j \in less PROVE j \in {at[i] : i \in 1..(k - 1)}
    OBVIOUS
  <2>1. PICK i \in 1..n : at[i] = j
    BY <1>1 DEF Permutes
  <2>2. InOrder(d)[i] = d[j] /\ d[j] < v /\ d[j] \in Int
    BY <1>1, <1>2, <2>1
  <2>3. k <= i => v <= d[j]
    BY <1>2, <2>2
  <2>4. i \in 1..(k - 1)
    BY <1>1, <1>4, <2>2, <2>3
  <2> QED  BY <2>1, <2>4
<1>6. {at[i] : i \in 1..k} \in SUBSET most
  <2> SUFFICES ASSUME NEW i \in 1..k PROVE at[i] \in most
    OBVIOUS
  <2>1. i \in 1..n /\ i <= k
    BY <1>1
  <2>2. InOrder(d)[i] <= v /\ InOrder(d)[i] = d[at[i]] /\ at[i] \in DOMAIN d
    BY <1>1, <1>2, <2>1
  <2> QED  BY <2>2
<1>7. less \in SUBSET (1..n) /\ most \in SUBSET (1..n)
  BY <1>1
<1> HIDE DEF less, most, at, v, n
<1>8. /\ IsFiniteSet(less) /\ IsFiniteSet(most) 
      /\ Cardinality(less) \in Nat /\ Cardinality(most) \in Nat
  BY <1>3, <1>7, FS_Subset, FS_CardinalityType
<1>9. Cardinality(less) <= k - 1
  <2>1. k - 1 \in Nat /\ k - 1 <= n
    BY <1>1 DEF n
  <2>2. /\ IsFiniteSet({at[i] : i \in 1..(k - 1)})
        /\ Cardinality({at[i] : i \in 1..(k - 1)}) = k - 1
    BY <1>1, <2>1, Image
  <2> QED  BY <1>5, <2>2, FS_Subset
<1>10. k <= Cardinality(most)
  <2>1. k \in Nat /\ k <= n
    BY <1>1 DEF n
  <2>2. Cardinality({at[i] : i \in 1..k}) = k
    BY <1>1, <2>1, Image
  <2> QED  BY <1>6, <1>8, <2>2, FS_Subset
<1>11. k \in Int
  BY DEF n
<1> QED  BY <1>4, <1>8, <1>9, <1>10, <1>11 DEF IsSmallest, less, most, v

(* Only one value has that place. *)
LEMMA SmallestUnique ==
  ASSUME NEW d \in Seq(Int), NEW k \in Int, NEW v, NEW w,
         IsSmallest(d, k, v), IsSmallest(d, k, w)
  PROVE  v = w
<1> DEFINE Less(x) == {i \in DOMAIN d : d[i] < x}
           Most(x) == {i \in DOMAIN d : d[i] <= x}
<1>1. v \in Int /\ w \in Int
  BY DEF IsSmallest, Range
<1>2. IsFiniteSet(DOMAIN d)
  BY BelowLinear
<1>3. ASSUME NEW x \in Int, NEW y \in Int, x < y
      PROVE  /\ Cardinality(Most(x)) <= Cardinality(Less(y))
             /\ Cardinality(Most(x)) \in Nat /\ Cardinality(Less(y)) \in Nat
  <2>1. \A i \in DOMAIN d : d[i] \in Int
    OBVIOUS
  <2>2. Most(x) \in SUBSET Less(y)
    BY <1>3, <2>1
  <2>3. Less(y) \in SUBSET DOMAIN d /\ Most(x) \in SUBSET DOMAIN d
    OBVIOUS
  <2> HIDE DEF Most, Less
  <2>4. IsFiniteSet(Less(y)) /\ IsFiniteSet(Most(x))
    BY <1>2, <2>3, FS_Subset
  <2> QED  BY <2>2, <2>4, FS_Subset, FS_CardinalityType
<1>4. /\ Cardinality(Less(v)) < k /\ Cardinality(Most(v)) >= k
      /\ Cardinality(Less(w)) < k /\ Cardinality(Most(w)) >= k
  BY DEF IsSmallest
<1> HIDE DEF Most, Less
<1>5. ~(v < w)
  <2> SUFFICES ASSUME v < w PROVE FALSE
    OBVIOUS
  <2>1. /\ Cardinality(Most(v)) <= Cardinality(Less(w))
        /\ Cardinality(Most(v)) \in Nat /\ Cardinality(Less(w)) \in Nat
    BY <1>1, <1>3
  <2> QED  BY <1>4, <2>1
<1>6. ~(w < v)
  <2> SUFFICES ASSUME w < v PROVE FALSE
    OBVIOUS
  <2>1. /\ Cardinality(Most(w)) <= Cardinality(Less(v))
        /\ Cardinality(Most(w)) \in Nat /\ Cardinality(Less(v)) \in Nat
    BY <1>1, <1>3
  <2> QED  BY <1>4, <2>1
<1> QED  BY <1>1, <1>5, <1>6

LEMMA SmallestIsSorted ==
  ASSUME NEW d \in Seq(Int), NEW k \in 1..Len(d)
  PROVE  Smallest(d, k) = InOrder(d)[k]
<1>1. Smallest(d, k) = CHOOSE v \in Range(d) : IsSmallest(d, k, v)
  BY DEF Smallest, IsSmallest
<1>2. IsSmallest(d, k, InOrder(d)[k]) /\ InOrder(d)[k] \in Range(d)
  BY SortedIsSmallest DEF IsSmallest
<1>3. IsSmallest(d, k, Smallest(d, k))
  BY <1>1, <1>2
<1> QED  BY <1>2, <1>3, SmallestUnique

LEMMA PercentileInterpolates ==
  ASSUME NEW d \in Seq(Durations), Len(d) # 0, NEW p \in Thousandths,
         NEW v \in percentile(InOrder(d), p)
  PROVE  Interpolates(d, p, v)
<1> DEFINE s == InOrder(d)
           n == Len(d)
           low == s[Lower(s, p)]
           high == IF n = 1 THEN low ELSE s[Lower(s, p) + 1]
           exact == 1000 * low + Remainder(s, p) * (high - low)
<1>1. d \in Seq(Int)
  BY SeqOfDurations
<1>2. Ascending(s) /\ Len(s) = n /\ n \in Nat \ {0} /\ \A i \in 1..n : s[i] \in Int
  BY SortedDurations DEF Ascending
<1>3. ASSUME low = Smallest(d, Lower(s, p)),
             n # 1 => s[Lower(s, p) + 1] = Smallest(d, Lower(s, p) + 1),
             1000 * v \in (exact - 1000)..exact
      PROVE  Interpolates(d, p, v)
  <2> DEFINE q == (p * (n - 1)) \div 1000
             r == (p * (n - 1)) % 1000
             high2 == IF n = 1 THEN Smallest(d, q + 1) ELSE Smallest(d, q + 2)
             exact2 == 1000 * Smallest(d, q + 1) + r * (high2 - Smallest(d, q + 1))
  <2>1. q \in Int
    <3>1. p * (n - 1) \in Int
      BY <1>2 DEF Thousandths
    <3> QED  BY <3>1
  <2>2. Lower(s, p) = q + 1 /\ Remainder(s, p) = r /\ Lower(s, p) + 1 = q + 2
    BY <1>2, <2>1 DEF Lower, Remainder
  <2>3. low = Smallest(d, q + 1) /\ high = high2
    BY <1>3, <2>2
  <2>4. exact = 1000 * low + Remainder(s, p) * (high - low)
    OBVIOUS
  <2>5. 1000 * v \in (exact2 - 1000)..exact2
    <3> HIDE DEF low, high, high2, exact, q, r
    <3>1. exact = exact2
      BY <2>2, <2>3, <2>4, ZenonT(60)
    <3> HIDE DEF exact2
    <3> QED  BY <1>3, <3>1
  <2> QED  BY <2>5, ZenonT(60) DEF Interpolates
<1>4. CASE n = 1
  <2>1. p * (Len(s) - 1) = 0
    BY <1>2, <1>4 DEF Thousandths
  <2>2. Lower(s, p) = 1 /\ Remainder(s, p) = 0
    BY <2>1 DEF Lower, Remainder
  <2>3. v = s[1] /\ s[1] \in Int
    BY <1>2, <1>4 DEF percentile
  <2>4. low = Smallest(d, Lower(s, p))
    <3>1. Lower(s, p) \in 1..Len(d)
      BY <1>2, <2>2
    <3> QED  BY <1>1, <3>1, SmallestIsSorted
  <2>5. exact = 1000 * v
    BY <1>4, <2>2, <2>3
  <2>6. 1000 * v \in (exact - 1000)..exact
    BY <2>3, <2>5
  <2> QED  BY <1>3, <1>4, <2>4, <2>6
<1>5. CASE n # 1
  <2>1. /\ Lower(s, p) \in 1..Len(s) /\ Lower(s, p) + 1 \in 1..Len(s)
        /\ Remainder(s, p) \in 0..999
        /\ s[Lower(s, p)] \in Int /\ s[Lower(s, p) + 1] \in Int
    BY <1>2, <1>5, LowerType
  <2>2. low = Smallest(d, Lower(s, p)) /\ s[Lower(s, p) + 1] = Smallest(d, Lower(s, p) + 1)
    BY <1>1, <1>2, <2>1, SmallestIsSorted
  <2>3. /\ v \in Int
        /\ 1000 * v <= 1000 * low + Share(s, p)
        /\ 1000 * low + Share(s, p) - 1000 <= 1000 * v
    BY <1>2, <1>5, PercentileExact
  <2>4. exact = 1000 * low + Share(s, p)
    BY <1>5 DEF Share
  <2>5. Share(s, p) \in Int /\ low \in Int
    BY <1>2, <1>5, <2>1, PercentileMeans
  <2> HIDE DEF exact, low, high
  <2>6. exact \in Int
    BY <2>4, <2>5
  <2>7. 1000 * v \in (exact - 1000)..exact
    BY <2>3, <2>4, <2>5, <2>6
  <2> QED  BY <1>3, <2>2, <2>7
<1> QED  BY <1>4, <1>5

(***************************************************************************)
(* Every percentile of every line is where its rank falls between the two  *)
(* observations on either side, which counting finds, for any number of    *)
(* durations (percentile), to within the unit of rounding that Truncated   *)
(* assumes.                                                                *)
(***************************************************************************)
THEOREM PercentilesWellPlaced == Spec => []PercentilesInterpolated
<1>1. ReportInv => PercentilesInterpolated
  <2> SUFFICES ASSUME ReportInv, NEW i \in DOMAIN lines, Shown[i].result.durations # <<>>
               PROVE  LET d == Shown[i].result.durations
                          s == lines[i].latency
                      IN  /\ Interpolates(d, 500, s.P50) /\ Interpolates(d, 900, s.P90)
                          /\ Interpolates(d, 950, s.P95) /\ Interpolates(d, 990, s.P99)
                          /\ Interpolates(d, 999, s.P999)
    BY DEF PercentilesInterpolated
  <2> DEFINE d == Shown[i].result.durations
             s == lines[i].latency
  <2>1. d \in Seq(Durations) /\ s \in computeStats(d) /\ Len(d) # 0
    <3>1. /\ ReportType /\ lines[i] \in LineOf(Shown[i]) /\ Shown[i].result \in AResult
      BY ShownEntry
    <3>2. lines[i].latency \in computeStats(Shown[i].result.durations)
      BY <3>1, LineSays
    <3>3. d \in Seq(Durations)
      BY <3>1 DEF AResult, ResultFields, Durations
    <3> QED  BY <3>2, <3>3, EmptySeq
  <2> HIDE DEF d, s
  <2>2. /\ s.P50 \in percentile(InOrder(d), 500) /\ s.P90 \in percentile(InOrder(d), 900)
        /\ s.P95 \in percentile(InOrder(d), 950) /\ s.P99 \in percentile(InOrder(d), 990)
        /\ s.P999 \in percentile(InOrder(d), 999)
    BY <2>1, StatsOf
  <2>3. /\ 500 \in Thousandths /\ 900 \in Thousandths /\ 950 \in Thousandths
        /\ 990 \in Thousandths /\ 999 \in Thousandths
    BY DEF Thousandths
  <2>4. Interpolates(d, 500, s.P50)
    BY <2>1, <2>2, <2>3, PercentileInterpolates
  <2>5. Interpolates(d, 900, s.P90)
    BY <2>1, <2>2, <2>3, PercentileInterpolates
  <2>6. Interpolates(d, 950, s.P95)
    BY <2>1, <2>2, <2>3, PercentileInterpolates
  <2>7. Interpolates(d, 990, s.P99)
    BY <2>1, <2>2, <2>3, PercentileInterpolates
  <2>8. Interpolates(d, 999, s.P999)
    BY <2>1, <2>2, <2>3, PercentileInterpolates
  <2> QED  BY <2>4, <2>5, <2>6, <2>7, <2>8 DEF d, s
<1> QED  BY <1>1, ReportInvariant, PTL

-----------------------------------------------------------------------------
(***************************************************************************)
(* The failures of a line.                                                 *)
(***************************************************************************)
(* The labels L of n failures, counted for each of the m labels in list. *)
Bearing(n, L, x) == {i \in 1..n : L[i] = x}

Tallies(n, L, m, list, c) ==
  /\ \A j, k \in 1..m : j # k => list[j] # list[k]
  /\ \A i \in 1..n : \E k \in 1..m : L[i] = list[k]
  /\ \A k \in 1..m : c[k] = Cardinality(Bearing(n, L, list[k]))

LEMMA CountsAddUp ==
  ASSUME NEW n \in Nat, NEW m \in Nat, NEW L, NEW list, NEW c \in Seq(Int), Len(c) = m,
         Tallies(n, L, m, list, c)
  PROVE  Total(c) = n
<1>1. PICK f : Sums(c, f) /\ Total(c) = f[m]
  BY TotalUnfolds
<1> DEFINE Before(k) == {i \in 1..n : \E j \in 1..k : L[i] = list[j]}
           T == {k \in 0..m : f[k] = Cardinality(Before(k))}
<1>2. IsFiniteSet(1..n) /\ Cardinality(1..n) = n
  BY FirstNumbers
<1>3. 0 \in T
  <2>1. Before(0) = {}
    OBVIOUS
  <2>2. f[0] = 0
    BY <1>1 DEF Sums
  <2>3. Cardinality(Before(0)) = 0
    BY <2>1, FS_EmptySet
  <2> HIDE DEF Before
  <2> QED  BY <2>2, <2>3
<1>4. ASSUME NEW k \in 0..(m - 1), k \in T PROVE k + 1 \in T
  <2> DEFINE new == Bearing(n, L, list[k + 1])
  <2>1. k + 1 \in 1..m /\ k + 1 \in 0..m /\ k \in Nat /\ \A j \in 1..k : j \in 1..m /\ j # k + 1
    OBVIOUS
  <2>2. f[k + 1] = f[k] + c[k + 1] /\ f[k] \in Int /\ c[k + 1] \in Int
    BY <1>1, SumsAt
  <2>3. f[k] = Cardinality(Before(k))
    BY <1>4
  <2>4. c[k + 1] = Cardinality(new)
    BY <2>1 DEF Tallies
  <2>5. Before(k + 1) = Before(k) \cup new
    <3>1. \A j : j \in 1..(k + 1) <=> j \in 1..k \/ j = k + 1
      BY <2>1
    <3> QED  BY <3>1 DEF Bearing
  <2>6. Before(k) \cap new = {}
    BY <2>1 DEF Tallies, Bearing
  <2>7. Before(k) \in SUBSET (1..n) /\ new \in SUBSET (1..n)
    BY DEF Bearing
  <2> HIDE DEF Before, new
  <2>8. IsFiniteSet(Before(k)) /\ IsFiniteSet(new)
    BY <1>2, <2>7, FS_Subset
  <2>9. Cardinality({}) = 0 /\ Cardinality(Before(k)) \in Nat /\ Cardinality(new) \in Nat
    BY <2>8, FS_EmptySet, FS_CardinalityType
  <2>10. Cardinality(Before(k) \cup new)
           = Cardinality(Before(k)) + Cardinality(new) - Cardinality(Before(k) \cap new)
    BY <2>8, FS_Union
  <2>11. f[k + 1] = Cardinality(Before(k + 1))
    <3>1. Cardinality(Before(k) \cap new) = 0
      BY <2>6, <2>9
    <3>2. Cardinality(Before(k) \cup new) = Cardinality(Before(k)) + Cardinality(new)
      BY <2>9, <2>10, <3>1
    <3>3. f[k + 1] = Cardinality(Before(k)) + Cardinality(new)
      BY <2>2, <2>3, <2>4
    <3>4. Cardinality(Before(k + 1)) = Cardinality(Before(k) \cup new)
      BY <2>5
    <3> QED  BY <3>2, <3>3, <3>4
  <2> QED  BY <2>1, <2>11
<1>5. \A k \in 0..m : k \in T
  <2> HIDE DEF T
  <2> QED  BY <1>3, <1>4, UpTo
<1>6. Before(m) = 1..n
  BY DEF Tallies
<1>7. m \in T
  <2> HIDE DEF T
  <2> QED  BY <1>5
<1> HIDE DEF Before
<1> QED  BY <1>1, <1>2, <1>6, <1>7

(* The counts of the labels, each a natural number. *)
LEMMA ErrorsType ==
  ASSUME NEW r \in AResult
  PROVE  /\ Len(r.failures) \in Nat /\ DOMAIN r.failures = 1..Len(r.failures)
         /\ IsFiniteSet(DOMAIN Errors(r))
         /\ \A i \in 1..Len(r.failures) : LabelOf(r)[i] \in DOMAIN Errors(r)
         /\ \A x \in DOMAIN Errors(r) :
              /\ Errors(r)[x] = Cardinality(Bearing(Len(r.failures), LabelOf(r), x))
              /\ Errors(r)[x] \in Nat
<1> DEFINE n == Len(r.failures)
           L == LabelOf(r)
           S == {L[i] : i \in 1..n}
<1>1. n \in Nat /\ DOMAIN r.failures = 1..n
  BY DEF AResult, ResultFields
<1>2. Errors(r) = [x \in S |-> Cardinality({i \in 1..n : L[i] = x})]
  BY <1>1 DEF Errors
<1>3. DOMAIN L = 1..n /\ L = [i \in 1..n |-> L[i]]
  BY <1>1 DEF LabelOf
<1>4. IsFiniteSet(1..n)
  BY <1>1, FirstNumbers
<1>5. IsFiniteSet(S)
  <2> HIDE DEF L
  <2>1. L \in [1..n -> S] /\ \A x \in S : \E i \in 1..n : L[i] = x
    BY <1>3
  <2> DEFINE B == 1..n
  <2> HIDE DEF n, S
  <2>2. L \in Surjection(B, S)
    BY <2>1, Fun_IsSurj
  <2>3. IsFiniteSet(B)
    BY <1>4
  <2> HIDE DEF B
  <2> QED  BY <2>2, <2>3, FS_Surjection
<1>6. ASSUME NEW x \in S
      PROVE  Errors(r)[x] = Cardinality(Bearing(n, L, x)) /\ Errors(r)[x] \in Nat
  <2>1. Errors(r)[x] = Cardinality(Bearing(n, L, x))
    BY <1>2 DEF Bearing
  <2>2. Bearing(n, L, x) \in SUBSET (1..n)
    BY DEF Bearing
  <2> HIDE DEF n, L
  <2>3. IsFiniteSet(Bearing(n, L, x))
    BY <1>4, <2>2, FS_Subset
  <2> QED  BY <2>1, <2>3, FS_CardinalityType
<1>7. DOMAIN Errors(r) = S /\ \A i \in 1..n : L[i] \in S
  BY <1>2
<1> HIDE DEF n, L, S
<1>8. /\ n \in Nat /\ DOMAIN r.failures = 1..n /\ IsFiniteSet(DOMAIN Errors(r))
      /\ \A i \in 1..n : L[i] \in DOMAIN Errors(r)
      /\ \A x \in DOMAIN Errors(r) : /\ Errors(r)[x] = Cardinality(Bearing(n, L, x))
                                     /\ Errors(r)[x] \in Nat
  BY <1>1, <1>5, <1>6, <1>7
<1> QED  BY <1>8 DEF n, L

(* What any order of the labels makes of the counts. *)
LEMMA ListedCounts ==
  ASSUME NEW r \in AResult, NEW before, IsLinear(DOMAIN Errors(r), before)
  PROVE  LET l == Listed(Errors(r), before)
         IN  /\ Total([j \in DOMAIN l |-> l[j][2]]) = FailureCount(r)
             /\ \A j \in DOMAIN l : /\ j \in Int
                                    /\ l[j][1] \in DOMAIN Errors(r)
                                    /\ l[j][2] = Errors(r)[l[j][1]]
             /\ \A j, k \in DOMAIN l : j < k => /\ <<l[j][1], l[k][1]>> \in before
                                               /\ l[j][1] # l[k][1]
<1> DEFINE S == DOMAIN Errors(r)
           list == Ordered(S, before)
           m == Cardinality(S)
           n == Len(r.failures)
           l == Listed(Errors(r), before)
           c == [j \in 1..m |-> Errors(r)[list[j]]]
<1>1. /\ n \in Nat /\ IsFiniteSet(S) /\ \A i \in 1..n : LabelOf(r)[i] \in S
      /\ \A x \in S : /\ Errors(r)[x] = Cardinality(Bearing(n, LabelOf(r), x))
                      /\ Errors(r)[x] \in Nat
  BY ErrorsType
<1>2. /\ m \in Nat /\ list \in [1..m -> S]
      /\ \A i, j \in 1..m : i < j => <<list[i], list[j]>> \in before /\ list[i] # list[j]
      /\ \A x \in S : \E i \in 1..m : list[i] = x
  BY <1>1, OrderedLists
<1>3. l = [i \in 1..m |-> <<list[i], Errors(r)[list[i]]>>]
  BY <1>2 DEF Listed
<1>4. [j \in DOMAIN l |-> l[j][2]] = c
  BY <1>3
<1> HIDE DEF l, list, m, n, S
<1>5. c \in Seq(Int) /\ Len(c) = m
  <2>1. \A j \in 1..m : Errors(r)[list[j]] \in Int
    BY <1>1, <1>2
  <2> QED  BY <1>2, <2>1
<1>6. Tallies(n, LabelOf(r), m, list, c)
  <2>1. ASSUME NEW j \in 1..m, NEW k \in 1..m, j # k PROVE list[j] # list[k]
    <3>1. j < k \/ k < j
      BY <1>2, <2>1
    <3> QED  BY <1>2, <3>1
  <2>2. \A k \in 1..m : c[k] = Cardinality(Bearing(n, LabelOf(r), list[k]))
    BY <1>1, <1>2
  <2>3. ASSUME NEW i \in 1..n PROVE \E k \in 1..m : LabelOf(r)[i] = list[k]
    BY <1>1, <1>2
  <2> HIDE DEF c
  <2> QED  BY <2>1, <2>2, <2>3 DEF Tallies
<1> HIDE DEF c
<1>7. Total(c) = n
  BY <1>1, <1>2, <1>5, <1>6, CountsAddUp
<1>8. n = FailureCount(r)
  BY DEF n, FailureCount
<1>9. DOMAIN l = 1..m /\ \A j \in 1..m : l[j][1] = list[j] /\ l[j][2] = Errors(r)[list[j]]
  BY <1>3
<1>10. \A j \in DOMAIN l : j \in Int /\ l[j][1] \in S /\ l[j][2] = Errors(r)[l[j][1]]
  BY <1>2, <1>9
<1>11. \A j, k \in DOMAIN l : j < k => <<l[j][1], l[k][1]>> \in before /\ l[j][1] # l[k][1]
  BY <1>2, <1>9
<1>12. Total([j \in DOMAIN l |-> l[j][2]]) = FailureCount(r)
  BY <1>4, <1>7, <1>8
<1> QED  BY <1>10, <1>11, <1>12 DEF l, S

(***************************************************************************)
(* The two orders of the labels.                                           *)
(***************************************************************************)
Less(x, y) == LabelRank[x] < LabelRank[y]

ByLabel(errs) == {p \in Pairs(errs) : Less(p[1], p[2])}

ByCount(errs) ==
  {p \in Pairs(errs) : \/ errs[p[1]] > errs[p[2]]
                       \/ errs[p[1]] = errs[p[2]] /\ Less(p[1], p[2])}

LEMMA Formatted ==
  ASSUME NEW errs
  PROVE  formatErrors(errs) = Listed(errs, ByCount(errs)) /\ jsonErrors(errs) = Listed(errs, ByLabel(errs))
BY DEF formatErrors, jsonErrors, ByCount, ByLabel, Less

LEMMA LabelsRanked ==
  ASSUME ReportType, NEW e \in Given, e.result \in AResult
  PROVE  LET S == DOMAIN Errors(e.result)
         IN  /\ \A x \in S : LabelRank[x] \in Nat
             /\ \A x, y \in S : LabelRank[x] = LabelRank[y] => x = y
<1> DEFINE S == DOMAIN Errors(e.result)
<1>1. PICK i \in DOMAIN entries : entries[i] = e
  BY DEF Given
<1>2. \A j \in DOMAIN e.result.failures : LabelOf(e.result)[j] \in DOMAIN LabelRank
  <2>1. entries \in Reports
    BY DEF ReportType
  <2>2. \A j \in DOMAIN entries[i].result.failures :
          LabelOf(entries[i].result)[j] \in DOMAIN LabelRank
    BY <2>1, RankAssumption
  <2> QED  BY <1>1, <2>2
<1>3. S \in SUBSET DOMAIN LabelRank
  <2>1. S = {LabelOf(e.result)[j] : j \in DOMAIN e.result.failures}
    BY DEF Errors
  <2> QED  BY <1>2, <2>1
<1>4. \A x \in S : LabelRank[x] \in Nat
  BY <1>3, RankAssumption
<1>5. \A x, y \in S : LabelRank[x] = LabelRank[y] => x = y
  BY <1>3, RankAssumption DEF IsInjective
<1> QED  BY <1>4, <1>5

LEMMA OrdersLinear ==
  ASSUME ReportType, NEW e \in Given, e.result \in AResult
  PROVE  /\ IsLinear(DOMAIN Errors(e.result), ByCount(Errors(e.result)))
         /\ IsLinear(DOMAIN Errors(e.result), ByLabel(Errors(e.result)))
<1> DEFINE errs == Errors(e.result)
           S == DOMAIN errs
<1>1. /\ \A x \in S : errs[x] \in Nat /\ LabelRank[x] \in Nat
      /\ \A x, y \in S : LabelRank[x] = LabelRank[y] => x = y
  BY ErrorsType, LabelsRanked
<1> HIDE DEF errs
<1>2. ASSUME NEW x \in S, NEW y \in S
      PROVE  /\ <<x, y>> \in ByLabel(errs) <=> Less(x, y)
             /\ <<x, y>> \in ByCount(errs) <=> errs[x] > errs[y] \/ (errs[x] = errs[y] /\ Less(x, y))
  BY DEF ByLabel, ByCount, Pairs
<1>3. IsLinear(S, ByLabel(errs))
  BY <1>1, <1>2 DEF IsLinear, Less
<1>4. IsLinear(S, ByCount(errs))
  <2>1. ASSUME NEW x \in S PROVE <<x, x>> \notin ByCount(errs)
    BY <1>1, <1>2 DEF Less
  <2>2. ASSUME NEW x \in S, NEW y \in S, x # y
        PROVE  <<x, y>> \in ByCount(errs) \/ <<y, x>> \in ByCount(errs)
    BY <1>1, <1>2, <2>2 DEF Less
  <2>3. ASSUME NEW x \in S, NEW y \in S, NEW z \in S,
               <<x, y>> \in ByCount(errs), <<y, z>> \in ByCount(errs)
        PROVE  <<x, z>> \in ByCount(errs)
    BY <1>1, <1>2, <2>3 DEF Less
  <2> QED  BY <2>1, <2>2, <2>3 DEF IsLinear
<1> QED  BY <1>3, <1>4 DEF errs

(***************************************************************************)
(* The failures of every line are all those of its entry, each label once, *)
(* the counts adding up, in an order that the labels and counts fix, for   *)
(* any errors (formatErrors, jsonEntry).                                   *)
(***************************************************************************)
THEOREM FailuresAllListed == Spec => []FailuresListed
<1>1. ReportInv => FailuresListed
  <2> SUFFICES ASSUME ReportInv, NEW i \in DOMAIN lines
               PROVE  LET l == lines[i].errors
                      IN  /\ Total([j \in DOMAIN l |-> l[j][2]]) = FailureCount(Shown[i].result)
                          /\ \A j, k \in DOMAIN l : j < k =>
                               /\ l[j][1] # l[k][1]
                               /\ format # "json" => l[j][2] >= l[k][2]
                               /\ format = "json" \/ l[j][2] = l[k][2] =>
                                    LabelRank[l[j][1]] < LabelRank[l[k][1]]
    BY DEF FailuresListed
  <2> DEFINE r == Shown[i].result
             errs == Errors(r)
             l == lines[i].errors
             before == IF format = "json" THEN ByLabel(errs) ELSE ByCount(errs)
  <2>1. /\ ReportType /\ lines[i] \in LineOf(Shown[i]) /\ Shown[i] \in Given
        /\ r \in AResult
    BY ShownEntry
  <2>2. l = Listed(errs, before)
    <3>1. /\ format # "json" => l = formatErrors(errs)
          /\ format = "json" => l = jsonErrors(errs)
      BY <2>1, LineSays
    <3> HIDE DEF l, errs
    <3> QED  BY <3>1, Formatted
  <2>3. IsLinear(DOMAIN errs, before)
    BY <2>1, OrdersLinear
  <2>4. \A x \in DOMAIN errs : errs[x] \in Nat
    BY <2>1, ErrorsType
  <2> HIDE DEF r, before, l
  <2>5. /\ Total([j \in DOMAIN l |-> l[j][2]]) = FailureCount(r)
        /\ \A j \in DOMAIN l : j \in Int /\ l[j][1] \in DOMAIN errs /\ l[j][2] = errs[l[j][1]]
        /\ \A j, k \in DOMAIN l : j < k => <<l[j][1], l[k][1]>> \in before /\ l[j][1] # l[k][1]
    BY <2>1, <2>2, <2>3, ListedCounts
  <2> HIDE DEF errs
  <2>6. ASSUME NEW j \in DOMAIN l, NEW k \in DOMAIN l, j < k
        PROVE  /\ l[j][1] # l[k][1]
               /\ format # "json" => l[j][2] >= l[k][2]
               /\ format = "json" \/ l[j][2] = l[k][2] =>
                    LabelRank[l[j][1]] < LabelRank[l[k][1]]
    <3> DEFINE x == l[j][1]
               y == l[k][1]
    <3>1. /\ <<x, y>> \in before /\ x # y
          /\ errs[x] \in Nat /\ errs[y] \in Nat /\ l[j][2] = errs[x] /\ l[k][2] = errs[y]
      BY <2>4, <2>5, <2>6
    <3> HIDE DEF x, y
    <3>2. format = "json" => Less(x, y)
      BY <3>1 DEF before, ByLabel
    <3>3. format # "json" => errs[x] > errs[y] \/ (errs[x] = errs[y] /\ Less(x, y))
      BY <3>1 DEF before, ByCount
    <3>4. /\ format # "json" => errs[x] >= errs[y]
          /\ format = "json" \/ errs[x] = errs[y] => Less(x, y)
      BY <3>1, <3>2, <3>3
    <3> QED  BY <3>1, <3>4 DEF x, y, Less
  <2> QED  BY <2>5, <2>6 DEF r, l
<1> QED  BY <1>1, ReportInvariant, PTL

-----------------------------------------------------------------------------
(***************************************************************************)
(* Labels by cause.                                                        *)
(***************************************************************************)
LEMMA VariedSummary ==
  ASSUME NEW a \in Seq(Runes), NEW b \in Seq(Runes), Varies(a, b)
  PROVE  summarize(a) = summarize(b)
<1>1. CASE \E k \in DOMAIN a : a[k] \in {"digit", "space"} /\ b = InsertAt(a, k, a[k])
  <2>1. PICK k \in 1..Len(a) : a[k] \in {"digit", "space"} /\ b = InsertAt(a, k, a[k])
    BY <1>1
  <2>2. summarize(a) = summarize(InsertAt(a, k, a[k]))
    BY <2>1, SummaryOfDoubled
  <2> QED  BY <2>1, <2>2
<1>2. CASE \E k \in DOMAIN b : b[k] = "mark" /\ a = SubSeq(b, k + 1, Len(b))
  <2>1. PICK k \in 1..Len(b) : b[k] = "mark" /\ a = SubSeq(b, k + 1, Len(b))
    BY <1>2
  <2>2. summarize(SubSeq(b, k + 1, Len(b))) = summarize(b)
    BY <2>1, SummaryOfPrefixed
  <2> QED  BY <2>1, <2>2
<1> QED  BY <1>1, <1>2 DEF Varies

(***************************************************************************)
(* Every line counts its failures by cause, for messages of any length:    *)
(* variations of a text share a label, two codes never do, and a deadline  *)
(* is a timeout unless the server answered (classify, summarize).          *)
(***************************************************************************)
THEOREM CausesCounted == Spec => []BucketsByCause
<1>1. ReportInv => BucketsByCause
  <2> SUFFICES ASSUME ReportInv, NEW i \in DOMAIN lines,
                      NEW j \in DOMAIN Shown[i].result.failures,
                      NEW k \in DOMAIN Shown[i].result.failures
               PROVE  LET f == Shown[i].result.failures
                          label == LabelOf(Shown[i].result)
                          answered(m) == f[m].err.is \cap AnswerTypes # {}
                      IN  /\ f[j].err.is = f[k].err.is /\ f[j].err.code = f[k].err.code
                               /\ Varies(f[j].err.msg, f[k].err.msg) => label[j] = label[k]
                          /\ answered(j) /\ answered(k) /\ f[j].err.code # f[k].err.code
                               => label[j] # label[k]
                          /\ "context.DeadlineExceeded" \in f[k].err.is /\ ~answered(k)
                               => label[k][1] = "timeout"
    BY DEF BucketsByCause
  <2> DEFINE r == Shown[i].result
             a == r.failures[j].err
             b == r.failures[k].err
  <2>1. LabelOf(r)[j] = classify(a) /\ LabelOf(r)[k] = classify(b)
    BY DEF LabelOf
  <2>2. a.msg \in Seq(Runes) /\ b.msg \in Seq(Runes)
    <3>1. r \in AResult
      BY ShownEntry
    <3> DEFINE F == [err: AnError, dur: 0..(Half - 1)]
    <3>2. r.failures \in Seq(F)
      BY <3>1 DEF AResult, ResultFields
    <3>3. j \in DOMAIN r.failures /\ k \in DOMAIN r.failures
      OBVIOUS
    <3> HIDE DEF r, F
    <3>4. r.failures[j] \in F /\ r.failures[k] \in F
      BY <3>2, <3>3
    <3> QED  BY <3>4 DEF AnError, F
  <2> HIDE DEF r, a, b
  <2>3. a.is = b.is /\ a.code = b.code /\ Varies(a.msg, b.msg) => classify(a) = classify(b)
    BY <2>2, VariedSummary, SameLabel
  <2>4. a.is \cap AnswerTypes # {} /\ b.is \cap AnswerTypes # {} /\ a.code # b.code
          => classify(a) # classify(b)
    BY CodesApart
  <2>5. "context.DeadlineExceeded" \in b.is /\ b.is \cap AnswerTypes = {}
          => classify(b)[1] = "timeout"
    BY DeadlineFirst
  <2> QED  BY <2>1, <2>3, <2>4, <2>5 DEF r, a, b
<1> QED  BY <1>1, ReportInvariant, PTL

=============================================================================
