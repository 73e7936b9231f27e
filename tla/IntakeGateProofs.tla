--------------------------- MODULE IntakeGateProofs ---------------------------
(***************************************************************************)
(* The runs of the commercial intake parity tool, for any sources, any     *)
(* arguments and any number of runs: what lies on the disk when one ends.  *)
(***************************************************************************)
EXTENDS IntakeGate, FiniteSetTheorems, WellFoundedInduction, TLAPS

-----------------------------------------------------------------------------
(* The gate.                                                               *)

\* At first nothing has been read and nothing is written.
LEMMA InitInvariant == Init => IInv
  BY RunsAssumption DEF Init, IInv, Audited, Written, Refused

\* A receipt says how the audit came out.
LEMMA ReceiptHasStatus == ASSUME NEW in PROVE Receipt(in) # NoReceipt
<1>1. Receipt(in).status \in {"PASS", Stopped}
  BY DEF Receipt, Status
<1>2. NoReceipt.status = "none"
  BY DEF NoReceipt
<1> QED
  BY <1>1, <1>2 DEF Stopped

\* A run either stops with 1 or goes through the audit to its own receipt.
LEMMA NextInvariant == IInv /\ [Next]_vars => IInv'
<1> SUFFICES ASSUME IInv, [Next]_vars PROVE IInv'
  OBVIOUS
<1>1. ASSUME NEW arguments \in Calls, Call(arguments) PROVE IInv'
  BY <1>1 DEF Call, Exit, IInv, Audited, Written, Refused
<1>2. CASE ReadFiles
  BY <1>2 DEF ReadFiles, Exit, IInv, Audited, Written, Refused, Readable
<1>3. CASE Judge
  BY <1>3 DEF Judge, Exit, IInv, Audited, Written, Refused, AsExpected
<1>4. CASE WriteReceipt
  <2>1. UNCHANGED <<files, options, result>> /\ pc = "writing" /\ pc' = "done"
    BY <1>4 DEF WriteReceipt, Exit
  <2>2. Audited'
    BY <2>1 DEF IInv, Audited, AsExpected
  <2>3. Written'
    BY <1>4, <2>1 DEF WriteReceipt, Exit, Written, Verdict
  <2>4. Refused'
    BY <2>1, ReceiptHasStatus DEF IInv, Audited, Refused
  <2> QED
    BY <2>1, <2>2, <2>3, <2>4 DEF IInv
<1>5. ASSUME NEW new \in Sources, Edit(new) PROVE IInv'
  BY <1>5 DEF Edit, IInv, Audited, Written, Refused
<1>6. CASE UNCHANGED vars
  BY <1>6 DEF vars, IInv, Audited, Written, Refused, AsExpected, Verdict, Readable
<1> QED
  BY <1>1, <1>2, <1>3, <1>4, <1>5, <1>6 DEF Next

\* The inductive invariant, for any number of runs.
THEOREM Invariance == Spec => []IInv
  BY InitInvariant, NextInvariant, PTL DEF Spec

\* A run that does not end with 1 leaves its own receipt on the disk, with the status that
\* was reviewed; under --require-pass only a PASS ends with 0.
THEOREM ReceiptsAreReviewed == Spec => []ReceiptIsReviewed
<1>1. IInv => ReceiptIsReviewed
  BY DEF IInv, Audited, Written, AsExpected, Verdict, ReceiptIsReviewed
<1> QED
  BY <1>1, Invariance, PTL

-----------------------------------------------------------------------------
(* Counting along a text.                                                  *)

\* Induction along the lines of a text, as the least counterexample.
LEMMA Along ==
  ASSUME NEW n \in Nat, NEW S, 0 \in S, \A k \in 0..(n - 1) : k \in S => k + 1 \in S
  PROVE  \A k \in 0..n : k \in S
<1> DEFINE Less == {ss \in Nat \X Nat : ss[1] < ss[2]}
           T == {k \in 0..n : k \notin S}
<1> SUFFICES ASSUME T # {} PROVE FALSE
  OBVIOUS
<1>1. IsWellFoundedOn(Less, Nat)
  BY NatLessThanWellFounded DEF OpToRel
<1>2. T \subseteq Nat
  OBVIOUS
<1> HIDE DEF Less, T
<1>3. \E m \in T : \A k \in T : ~(<<k, m>> \in Less)
  BY <1>1, <1>2, WFMin
<1> USE DEF Less, T
<1>4. PICK m \in T : \A k \in T : ~(<<k, m>> \in Less)
  BY <1>3
<1>5. m # 0 /\ m - 1 \in 0..(n - 1) /\ m - 1 \notin S
  BY <1>4
<1>6. m - 1 \in T /\ <<m - 1, m>> \in Less
  BY <1>5
<1> QED
  BY <1>4, <1>6

\* The fold over the lines as the function on sets of line numbers that it is defined by.
FoldedAs(g, lines, n) ==
  g = [s \in SUBSET (1..n) |->
         IF s = {} THEN Start ELSE ReadLine(g[s \ {Max(s)}], lines[Max(s)])]

LEMMA FoldIsChosen ==
  ASSUME NEW lines \in Seq(Lines)
  PROVE  FoldLeft(ReadLine, Start, lines)
           = (CHOOSE g : FoldedAs(g, lines, Len(lines)))[1..Len(lines)]
<1>1. DOMAIN lines = 1..Len(lines)
  OBVIOUS
<1> QED
  BY <1>1 DEF FoldLeft, MapThenFoldSet, FoldedAs

\* There is such a function for every prefix of the text, since the last line of a set that
\* has line n + 1 is that line.
LEMMA FoldExists ==
  ASSUME NEW lines, NEW n \in Nat
  PROVE  \E g : FoldedAs(g, lines, n)
<1> DEFINE S == {k \in Nat : \E g : FoldedAs(g, lines, k)}
<1>1. 0 \in S
  <2> DEFINE g == [s \in SUBSET (1..0) |-> Start]
  <2>1. SUBSET (1..0) = {{}}
    OBVIOUS
  <2>2. FoldedAs(g, lines, 0)
    BY <2>1 DEF FoldedAs
  <2> QED
    BY <2>2
<1>2. ASSUME NEW k \in 0..(n - 1), k \in S PROVE k + 1 \in S
  <2>1. PICK g : FoldedAs(g, lines, k)
    BY <1>2
  <2> DEFINE h == [s \in SUBSET (1..(k + 1)) |->
                     IF k + 1 \in s THEN ReadLine(g[s \ {k + 1}], lines[k + 1]) ELSE g[s]]
  <2>2. ASSUME NEW s \in SUBSET (1..(k + 1))
        PROVE  h[s] = IF s = {} THEN Start ELSE ReadLine(h[s \ {Max(s)}], lines[Max(s)])
    <3>1. CASE k + 1 \in s
      <4>1. /\ \A y \in s : k + 1 >= y
            /\ \A x \in s : (\A y \in s : x >= y) => x = k + 1
        BY <3>1
      <4>2. Max(s) = k + 1
        BY <3>1, <4>1 DEF Max
      <4>3. s \ {k + 1} \in SUBSET (1..(k + 1)) /\ k + 1 \notin s \ {k + 1}
        OBVIOUS
      <4> QED
        BY <3>1, <4>2, <4>3
    <3>2. CASE k + 1 \notin s
      <4>1. \A x \in s : x \in 1..k
        BY <3>2
      <4>2. s \in SUBSET (1..k) /\ s \ {Max(s)} \in SUBSET (1..k)
        BY <4>1
      <4>3. s \ {Max(s)} \in SUBSET (1..(k + 1)) /\ k + 1 \notin s \ {Max(s)}
        BY <3>2
      <4>4. g[s] = IF s = {} THEN Start ELSE ReadLine(g[s \ {Max(s)}], lines[Max(s)])
        BY <2>1, <4>2 DEF FoldedAs
      <4>5. h[s] = g[s] /\ h[s \ {Max(s)}] = g[s \ {Max(s)}]
        BY <3>2, <4>3
      <4> QED
        BY <4>4, <4>5
    <3> QED
      BY <3>1, <3>2
  <2>3. FoldedAs(h, lines, k + 1)
    BY <2>2 DEF FoldedAs
  <2> QED
    BY <2>3
<1> HIDE DEF S
<1>3. \A k \in 0..n : k \in S
  BY <1>1, <1>2, Along
<1> QED
  BY <1>3 DEF S

\* So the reader goes from line to line.
LEMMA ReadsInOrder ==
  ASSUME NEW lines \in Seq(Lines)
  PROVE  \E read :
           /\ read[0] = Start
           /\ \A k \in 0..(Len(lines) - 1) : read[k + 1] = ReadLine(read[k], lines[k + 1])
           /\ FoldLeft(ReadLine, Start, lines) = read[Len(lines)]
<1> DEFINE n == Len(lines)
           g == CHOOSE f : FoldedAs(f, lines, n)
           read == [k \in 0..n |-> g[1..k]]
<1>1. n \in Nat
  OBVIOUS
<1>2. FoldedAs(g, lines, n)
  BY <1>1, FoldExists
<1> HIDE DEF g
<1>3. read[0] = Start
  <2>1. 1..0 = {} /\ {} \in SUBSET (1..n)
    OBVIOUS
  <2> QED
    BY <1>1, <1>2, <2>1 DEF FoldedAs
<1>4. ASSUME NEW k \in 0..(n - 1) PROVE read[k + 1] = ReadLine(read[k], lines[k + 1])
  <2>1. 1..(k + 1) \in SUBSET (1..n) /\ 1..(k + 1) # {}
    BY <1>1
  <2>2. Max(1..(k + 1)) = k + 1
    BY <1>1 DEF Max
  <2>3. (1..(k + 1)) \ {k + 1} = 1..k
    BY <1>1
  <2>4. g[1..(k + 1)] = ReadLine(g[1..k], lines[k + 1])
    BY <1>2, <2>1, <2>2, <2>3 DEF FoldedAs
  <2> QED
    BY <1>1, <2>4
<1>5. FoldLeft(ReadLine, Start, lines) = read[n]
  BY <1>1, FoldIsChosen DEF g
<1> QED
  BY <1>3, <1>4, <1>5

-----------------------------------------------------------------------------
(* Depth.                                                                  *)

\* Counting up to a line.
LEMMA CountStep ==
  ASSUME NEW i \in Nat \ {0}, NEW A, NEW B,
         A \in SUBSET (1..(i - 1)), \A k \in 1..(i - 1) : k \in B <=> k \in A, B \subseteq 1..i
  PROVE  /\ Cardinality(A) \in Nat
         /\ Cardinality(B) = Cardinality(A) + (IF i \in B THEN 1 ELSE 0)
<1>1. IsFiniteSet(A) /\ i \notin A
  <2>1. 1 \in Int /\ i - 1 \in Int
    OBVIOUS
  <2>2. IsFiniteSet(1..(i - 1))
    BY <2>1, FS_Interval
  <2>3. IsFiniteSet(A)
    BY <2>2, FS_Subset
  <2> QED
    BY <2>3
<1> DEFINE D == 1..(i - 1)
<1>4. \A k \in B : k \in D \/ k = i
  OBVIOUS
<1>5. \A k \in D : k \in B <=> k \in A
  OBVIOUS
<1> HIDE DEF D
<1>2. CASE i \in B
  <2>1. B = A \cup {i}
    BY <1>2, <1>4, <1>5 DEF D
  <2> QED
    BY <1>1, <1>2, <2>1, FS_AddElement, FS_CardinalityType
<1>3. CASE i \notin B
  <2>1. B = A
    BY <1>3, <1>4, <1>5 DEF D
  <2> QED
    BY <1>1, <1>3, <2>1, FS_CardinalityType
<1> QED
  BY <1>2, <1>3

\* The depth changes by the line alone.
LEMMA DepthStep ==
  ASSUME NEW lines, NEW i \in Nat \ {0}
  PROVE  /\ Depth(lines, i) \in Int
         /\ Depth(lines, i + 1) = Depth(lines, i) + (IF Opens(lines[i]) THEN 1 ELSE 0)
                                                  - (IF lines[i].is = "close" THEN 1 ELSE 0)
<1> DEFINE opens(k)  == {j \in 1..(k - 1) : Opens(lines[j])}
           closes(k) == {j \in 1..(k - 1) : lines[j].is = "close"}
<1>1. \A k : Depth(lines, k) = Cardinality(opens(k)) - Cardinality(closes(k))
  BY DEF Depth, Quantify
<1>2. /\ Cardinality(opens(i)) \in Nat
      /\ Cardinality(opens(i + 1)) = Cardinality(opens(i)) + (IF i \in opens(i + 1) THEN 1 ELSE 0)
  BY CountStep
<1>3. /\ Cardinality(closes(i)) \in Nat
      /\ Cardinality(closes(i + 1)) = Cardinality(closes(i)) + (IF i \in closes(i + 1) THEN 1 ELSE 0)
  BY CountStep
<1>4. (i \in opens(i + 1) <=> Opens(lines[i])) /\ (i \in closes(i + 1) <=> lines[i].is = "close")
  OBVIOUS
<1> HIDE DEF opens, closes
<1> QED
  BY <1>1, <1>2, <1>3, <1>4

LEMMA DepthStart == ASSUME NEW lines PROVE Depth(lines, 1) = 0
<1>1. /\ {j \in 1..(1 - 1) : Opens(lines[j])} = {}
      /\ {j \in 1..(1 - 1) : lines[j].is = "close"} = {}
  OBVIOUS
<1> QED
  BY <1>1, FS_EmptySet DEF Depth, Quantify

-----------------------------------------------------------------------------
(* The blocks of a flat source.                                            *)

\* The block of line i has ended by line k; outside all blocks after line k; inside the
\* block of line o after line k.
Closed(lines, i, k) == \E c \in (i + 1)..k : lines[c].is = "close"
Quiet(lines, k) ==
  /\ Depth(lines, k + 1) = 0
  /\ \A i \in 1..k : lines[i].is = "open" => Closed(lines, i, k)
Opened(lines, o, k) ==
  /\ o \in 1..k /\ lines[o].is = "open" /\ ~Closed(lines, o, k)
  /\ \A j \in (o + 1)..(k + 1) : Depth(lines, j) = 1
  /\ \A i \in 1..k : lines[i].is = "open" /\ i # o => Closed(lines, i, k)

\* Outside a block only an opening brace matters.
LEMMA QuietStep ==
  ASSUME NEW lines \in Seq(Lines), Flat(lines), NEW k \in 0..(Len(lines) - 1), Quiet(lines, k)
  PROVE  /\ lines[k + 1].is \in {"open", "remark"}
         /\ lines[k + 1].is = "open" => Opened(lines, k + 1, k + 1)
         /\ lines[k + 1].is # "open" => Quiet(lines, k + 1)
<1>1. k \in Nat /\ k + 1 \in 1..Len(lines) /\ k + 1 \in Nat \ {0} /\ Len(lines) \in Nat
  OBVIOUS
<1>2. lines[k + 1] \in Lines
  BY <1>1
<1>3. lines[k + 1].is \in {"open", "whole", "nest", "close", "field", "loose", "member", "remark"}
  BY <1>2 DEF Lines
<1>4. lines[k + 1].is \in {"open", "remark"}
  BY <1>1, <1>3 DEF Flat, Quiet
<1>5. /\ Depth(lines, k + 2) = Depth(lines, k + 1) + (IF Opens(lines[k + 1]) THEN 1 ELSE 0)
                                 - (IF lines[k + 1].is = "close" THEN 1 ELSE 0)
  <2>1. k + 2 = (k + 1) + 1
    BY <1>1
  <2> QED
    BY <1>1, <2>1, DepthStep
<1>6. \A i \in 1..k : Closed(lines, i, k) => Closed(lines, i, k + 1)
  BY <1>1 DEF Closed
<1>7. CASE lines[k + 1].is = "open"
  <2>1. Depth(lines, k + 2) = 1
    BY <1>5, <1>7 DEF Quiet, Opens
  <2>2. ~Closed(lines, k + 1, k + 1)
    BY <1>1 DEF Closed
  <2>3. \A j \in (k + 2)..(k + 2) : Depth(lines, j) = 1
    BY <1>1, <2>1
  <2>4. \A i \in 1..(k + 1) : lines[i].is = "open" /\ i # k + 1 => Closed(lines, i, k + 1)
    BY <1>1, <1>6 DEF Quiet
  <2>5. (k + 1) + 1 = k + 2
    BY <1>1
  <2> QED
    BY <1>1, <1>4, <1>7, <2>2, <2>3, <2>4, <2>5 DEF Opened
<1>8. CASE lines[k + 1].is # "open"
  <2>1. Depth(lines, k + 2) = 0
    BY <1>4, <1>5, <1>8 DEF Quiet, Opens
  <2>2. \A i \in 1..(k + 1) : lines[i].is = "open" => Closed(lines, i, k + 1)
    BY <1>1, <1>6, <1>8 DEF Quiet
  <2>3. (k + 1) + 1 = k + 2
    BY <1>1
  <2> QED
    BY <1>4, <1>8, <2>1, <2>2, <2>3 DEF Quiet
<1> QED
  BY <1>7, <1>8

\* Inside a block no other begins, and the first closing brace ends it.
LEMMA OpenedStep ==
  ASSUME NEW lines \in Seq(Lines), Flat(lines), NEW k \in 0..(Len(lines) - 1),
         NEW o, Opened(lines, o, k)
  PROVE  /\ lines[k + 1].is \in {"close", "field", "loose", "member", "remark"}
         /\ lines[k + 1].is = "close" => Quiet(lines, k + 1)
         /\ lines[k + 1].is # "close" => Opened(lines, o, k + 1)
<1>1. /\ k \in Nat /\ k + 1 \in 1..Len(lines) /\ k + 1 \in Nat \ {0} /\ Len(lines) \in Nat
      /\ o \in 1..k /\ k + 1 \in (o + 1)..(k + 1) /\ (k + 1) + 1 = k + 2
  BY DEF Opened
<1>2. lines[k + 1] \in Lines
  BY <1>1
<1>3. lines[k + 1].is \in {"open", "whole", "nest", "close", "field", "loose", "member", "remark"}
  BY <1>2 DEF Lines
<1>4. Depth(lines, k + 1) = 1
  BY <1>1 DEF Opened
<1>5. lines[k + 1].is \in {"close", "field", "loose", "member", "remark"}
  BY <1>1, <1>3, <1>4 DEF Flat
<1>6. /\ Depth(lines, k + 2) = Depth(lines, k + 1) + (IF Opens(lines[k + 1]) THEN 1 ELSE 0)
                                 - (IF lines[k + 1].is = "close" THEN 1 ELSE 0)
  BY <1>1, DepthStep
<1>7. \A i \in 1..k : Closed(lines, i, k) => Closed(lines, i, k + 1)
  BY <1>1 DEF Closed
<1>8. CASE lines[k + 1].is = "close"
  <2>1. Depth(lines, k + 2) = 0
    BY <1>4, <1>6, <1>8 DEF Opens
  <2>2. Closed(lines, o, k + 1)
    BY <1>1, <1>8 DEF Closed
  <2>3. \A i \in 1..(k + 1) : lines[i].is = "open" => Closed(lines, i, k + 1)
    BY <1>1, <1>7, <1>8, <2>2 DEF Opened
  <2> QED
    BY <1>1, <1>5, <1>8, <2>1, <2>3 DEF Quiet
<1>9. CASE lines[k + 1].is # "close"
  <2>1. Depth(lines, k + 2) = 1
    BY <1>4, <1>5, <1>6, <1>9 DEF Opens
  <2>2. \A j \in (o + 1)..(k + 2) : Depth(lines, j) = 1
    BY <1>1, <2>1 DEF Opened
  <2>3. ~Closed(lines, o, k + 1)
    BY <1>1, <1>9 DEF Opened, Closed
  <2>4. \A i \in 1..(k + 1) : lines[i].is = "open" /\ i # o => Closed(lines, i, k + 1)
    BY <1>1, <1>5, <1>7 DEF Opened
  <2>5. o \in 1..(k + 1) /\ lines[o].is = "open"
    BY <1>1 DEF Opened
  <2> QED
    BY <1>1, <1>5, <1>9, <2>2, <2>3, <2>4, <2>5 DEF Opened
<1> QED
  BY <1>8, <1>9

\* After each line the reader is outside all blocks or in exactly one.
LEMMA Layout ==
  ASSUME NEW lines \in Seq(Lines), Flat(lines)
  PROVE  \A k \in 0..Len(lines) : Quiet(lines, k) \/ \E o : Opened(lines, o, k)
<1> DEFINE n == Len(lines)
           S == {k \in 0..n : Quiet(lines, k) \/ \E o : Opened(lines, o, k)}
<1>1. n \in Nat
  OBVIOUS
<1>2. 0 \in S
  <2>1. Depth(lines, 0 + 1) = 0
    BY DepthStart
  <2> QED
    BY <1>1, <2>1 DEF Quiet
<1>3. ASSUME NEW k \in 0..(n - 1), k \in S PROVE k + 1 \in S
  <2>1. CASE Quiet(lines, k)
    BY <1>1, <2>1, QuietStep
  <2>2. ASSUME NEW o, Opened(lines, o, k) PROVE k + 1 \in S
    BY <1>1, <2>2, OpenedStep
  <2> QED
    BY <1>3, <2>1, <2>2
<1> HIDE DEF S, n
<1>4. \A k \in 0..n : k \in S
  BY <1>1, <1>2, <1>3, Along
<1> QED
  BY <1>4 DEF S, n

\* The block of a line ends at the first closing brace after it.
LEMMA BlockIs ==
  ASSUME NEW lines \in Seq(Lines), Flat(lines), NEW k \in 0..(Len(lines) - 1),
         NEW o, Opened(lines, o, k), lines[k + 1].is = "close"
  PROVE  Block(lines, o) = (o + 1)..k
<1> DEFINE n == Len(lines)
           Ends == {j \in (o + 1)..n : lines[j].is = "close" /\ Depth(lines, j + 1) = Depth(lines, o)}
<1>1. n \in Nat /\ k \in Nat /\ k + 1 \in 1..n /\ o \in 1..k /\ k + 1 \in (o + 1)..n /\ o \in 1..n
  BY DEF Opened
<1>2. Depth(lines, o) = 0
  BY <1>1 DEF Opened, Flat
<1>3. ASSUME NEW j \in (o + 1)..n, lines[j].is = "close" PROVE j >= k + 1 /\ Depth(lines, j + 1) = 0
  <2>1. j \in 1..n /\ j \in Nat \ {0}
    BY <1>1
  <2>2. Depth(lines, j) = 1
    BY <1>3, <2>1 DEF Flat
  <2>3. Depth(lines, j + 1) = 0
    <3>1. /\ Depth(lines, j + 1) = Depth(lines, j) + (IF Opens(lines[j]) THEN 1 ELSE 0)
                                                   - (IF lines[j].is = "close" THEN 1 ELSE 0)
      BY <2>1, DepthStep
    <3> QED
      BY <1>3, <2>2, <3>1 DEF Opens
  <2>4. ~(j \in (o + 1)..k)
    BY <1>3 DEF Opened, Closed
  <2> QED
    BY <1>1, <2>3, <2>4
<1>4. k + 1 \in Ends
  BY <1>1, <1>2, <1>3
<1>5. \A j \in Ends : j >= k + 1 /\ j \in Nat
  BY <1>1, <1>3
<1>6. Block(lines, o) = {i \in (o + 1)..n : (\A j \in Ends : i < j) /\ Depth(lines, i) = Depth(lines, o) + 1}
  BY DEF Block
<1>7. \A i \in (o + 1)..n : (\A j \in Ends : i < j) <=> i \in (o + 1)..k
  <2> HIDE DEF Ends
  <2> QED
    BY <1>1, <1>4, <1>5
<1>8. \A i \in (o + 1)..k : i \in (o + 1)..n /\ Depth(lines, i) = Depth(lines, o) + 1
  BY <1>1, <1>2 DEF Opened
<1> HIDE DEF Ends
<1> QED
  BY <1>6, <1>7, <1>8

\* What has been read of an open block lies in it.
LEMMA InBlock ==
  ASSUME NEW lines \in Seq(Lines), Flat(lines), NEW k \in 0..Len(lines),
         NEW o, Opened(lines, o, k)
  PROVE  \A j \in (o + 1)..k : j \in Block(lines, o)
<1> DEFINE n == Len(lines)
<1>1. n \in Nat /\ k \in Nat /\ o \in 1..k /\ o \in 1..n
  BY DEF Opened
<1>2. Depth(lines, o) = 0
  BY <1>1 DEF Opened, Flat
<1> SUFFICES ASSUME NEW i \in (o + 1)..k PROVE i \in Block(lines, o)
  OBVIOUS
<1>3. i \in (o + 1)..n /\ i \in (o + 1)..(k + 1)
  BY <1>1
<1>4. Depth(lines, i) = Depth(lines, o) + 1
  BY <1>2, <1>3 DEF Opened
<1>5. \A j \in (o + 1)..n : lines[j].is = "close" => i < j
  BY <1>1 DEF Opened, Closed
<1> QED
  BY <1>3, <1>4, <1>5 DEF Block

-----------------------------------------------------------------------------
(* The invariant of the reader.                                            *)

\* The entry of a block: its fields by name, or its values.
FieldsOf(t, lines, J) ==
  /\ \A f \in DOMAIN t : \E j \in J : lines[j].is = "field" /\ lines[j].field = f /\ t[f] = lines[j]
  /\ \A j \in J : lines[j].is = "field" => lines[j].field \in DOMAIN t /\ t[lines[j].field] = lines[j]
ValuesOf(v, lines, J) ==
  \A x : x \in v <=> \E j \in J : x \in lines[j].type.strings
Holds(keyword, entry, lines, J) ==
  IF keyword = "model" THEN FieldsOf(entry, lines, J) ELSE ValuesOf(entry, lines, J)

\* The table has exactly the blocks that have ended.
Ended(lines, keyword, i, k) ==
  i \in 1..k /\ lines[i].is = "open" /\ lines[i].keyword = keyword /\ Closed(lines, i, k)
Table(keyword, t, lines, k) ==
  /\ \A m \in DOMAIN t : \E i : Ended(lines, keyword, i, k) /\ lines[i].name = m
  /\ \A i : Ended(lines, keyword, i, k) =>
       lines[i].name \in DOMAIN t /\ Holds(keyword, t[lines[i].name], lines, Block(lines, i))

\* The line that opened the block that is being read.
Reading(lines, keyword, name, o, k) ==
  Opened(lines, o, k) /\ lines[o].keyword = keyword /\ lines[o].name = name

\* What is true of the reader after line k.
ReaderInv(lines, k, s) ==
  /\ DOMAIN s = {"at", "name", "fields", "values", "models", "enums"}
  /\ s.at = "error" => Refusable(lines)
  /\ s.at # "error" => Table("model", s.models, lines, k) /\ Table("enum", s.enums, lines, k)
  /\ s.at \in {"error", "outside", "model", "enum"}
  /\ s.at = "outside" => Quiet(lines, k)
  /\ s.at = "model" => \E o : Reading(lines, "model", s.name, o, k) /\ FieldsOf(s.fields, lines, (o + 1)..k)
  /\ s.at = "enum" => \E o : Reading(lines, "enum", s.name, o, k) /\ ValuesOf(s.values, lines, (o + 1)..k)

\* Only a closing brace ends a block.
LEMMA TableKeeps ==
  ASSUME NEW lines, NEW k \in Nat, lines[k + 1].is # "close", NEW keyword, NEW t,
         Table(keyword, t, lines, k)
  PROVE  Table(keyword, t, lines, k + 1)
<1>1. \A i : Ended(lines, keyword, i, k) <=> Ended(lines, keyword, i, k + 1)
  BY DEF Ended, Closed
<1> QED
  BY <1>1 DEF Table

\* A closing brace ends the block that is open, and no other.
LEMMA EndsOne ==
  ASSUME NEW lines \in Seq(Lines), NEW k \in 0..(Len(lines) - 1), NEW o, Opened(lines, o, k),
         lines[k + 1].is = "close", NEW keyword
  PROVE  \A i : Ended(lines, keyword, i, k + 1)
                  <=> Ended(lines, keyword, i, k) \/ (i = o /\ lines[o].keyword = keyword)
<1>1. k \in Nat /\ o \in 1..k
  BY DEF Opened
<1>2. Closed(lines, o, k + 1) /\ lines[o].is = "open"
  BY <1>1 DEF Closed, Opened
<1>3. \A i \in 1..k : Closed(lines, i, k) => Closed(lines, i, k + 1)
  BY <1>1 DEF Closed
<1>4. \A i \in 1..k : lines[i].is = "open" /\ i # o => Closed(lines, i, k)
  BY DEF Opened
<1> QED
  BY <1>1, <1>2, <1>3, <1>4 DEF Ended

\* The other table stays as it is.
LEMMA TableOther ==
  ASSUME NEW lines \in Seq(Lines), NEW k \in 0..(Len(lines) - 1), NEW o, Opened(lines, o, k),
         lines[k + 1].is = "close", NEW keyword, lines[o].keyword # keyword, NEW t,
         Table(keyword, t, lines, k)
  PROVE  Table(keyword, t, lines, k + 1)
<1>1. \A i : Ended(lines, keyword, i, k + 1) <=> Ended(lines, keyword, i, k)
  BY EndsOne
<1> QED
  BY <1>1 DEF Table

\* The table gets the block that ends, under a name that it does not have.
LEMMA TableAdds ==
  ASSUME NEW lines \in Seq(Lines), Flat(lines), NEW k \in 0..(Len(lines) - 1), NEW keyword, NEW name,
         NEW o, Reading(lines, keyword, name, o, k), lines[k + 1].is = "close",
         NEW t, Table(keyword, t, lines, k), name \notin DOMAIN t,
         NEW entry, Holds(keyword, entry, lines, (o + 1)..k)
  PROVE  Table(keyword, Add(t, name, entry), lines, k + 1)
<1> DEFINE u == Add(t, name, entry)
<1>1. \A i : Ended(lines, keyword, i, k + 1) <=> Ended(lines, keyword, i, k) \/ i = o
  BY EndsOne DEF Reading
<1>2. Block(lines, o) = (o + 1)..k
  BY BlockIs DEF Reading
<1>3. /\ DOMAIN u = DOMAIN t \cup {name} /\ u[name] = entry
      /\ \A m \in DOMAIN t : u[m] = t[m]
  BY DEF Add
<1> HIDE DEF u
<1>4. \A m \in DOMAIN u : \E i : Ended(lines, keyword, i, k + 1) /\ lines[i].name = m
  BY <1>1, <1>3 DEF Table, Reading
<1>5. ASSUME NEW i, Ended(lines, keyword, i, k + 1)
      PROVE  lines[i].name \in DOMAIN u /\ Holds(keyword, u[lines[i].name], lines, Block(lines, i))
  <2>1. CASE i = o
    BY <1>2, <1>3, <2>1 DEF Reading
  <2>2. CASE Ended(lines, keyword, i, k)
    BY <1>3, <2>2 DEF Table
  <2> QED
    BY <1>1, <1>5, <2>1, <2>2
<1> QED
  BY <1>4, <1>5 DEF Table, u

-----------------------------------------------------------------------------
(* The step of the reader.                                                 *)

\* In a flat source what is declared is what an opening line names.
LEMMA DeclaredIs ==
  ASSUME NEW lines \in Seq(Lines), Flat(lines), NEW keyword
  PROVE  \A m : m \in Declared(lines, keyword)
                  <=> \E i \in 1..Len(lines) : /\ lines[i].is = "open" /\ lines[i].keyword = keyword
                                               /\ lines[i].name = m
<1>1. \A i \in 1..Len(lines) : lines[i].is # "whole" /\ (lines[i].is = "open" => Depth(lines, i) = 0)
  BY DEF Flat
<1> QED
  BY <1>1 DEF Declared

LEMMA DeclaredFieldsAre ==
  ASSUME NEW lines, NEW m
  PROVE  \A x : x \in DeclaredFields(lines, m)
                  <=> \E i \in 1..Len(lines) : \E k \in Block(lines, i) :
                        /\ lines[i].is = "open" /\ lines[i].keyword = "model" /\ lines[i].name = m
                        /\ lines[k].is \in {"field", "loose"} /\ x = lines[k]
  BY DEF DeclaredFields, Within, Blocks

LEMMA DeclaredMembersAre ==
  ASSUME NEW lines, NEW e
  PROVE  \A x : x \in DeclaredMembers(lines, e)
                  <=> \E i \in 1..Len(lines) : \E k \in Block(lines, i) :
                        /\ lines[i].is = "open" /\ lines[i].keyword = "enum" /\ lines[i].name = e
                        /\ lines[k].is = "member" /\ x \in lines[k].type.values
  BY DEF DeclaredMembers, Within, Blocks

\* A name that the table has already is declared twice.
LEMMA RefusesName ==
  ASSUME NEW lines \in Seq(Lines), NEW k \in 0..Len(lines), NEW keyword, NEW name,
         NEW o, Reading(lines, keyword, name, o, k),
         NEW t, Table(keyword, t, lines, k), name \in DOMAIN t
  PROVE  Refusable(lines)
<1>1. PICK i : Ended(lines, keyword, i, k) /\ lines[i].name = name
  BY DEF Table
<1>2. /\ lines[i].is = "open" /\ lines[o].is = "open" /\ lines[i].keyword = lines[o].keyword
      /\ lines[i].name = lines[o].name
  BY <1>1 DEF Ended, Reading, Opened
<1>3. i # o
  BY <1>1 DEF Ended, Reading, Opened
<1>4. i \in DOMAIN lines /\ o \in DOMAIN lines
  BY <1>1 DEF Ended, Reading, Opened
<1> QED
  BY <1>2, <1>3, <1>4 DEF Refusable

\* A field that the model has already is declared twice.
LEMMA RefusesField ==
  ASSUME NEW lines \in Seq(Lines), Flat(lines), NEW k \in 0..(Len(lines) - 1), NEW name,
         NEW o, Reading(lines, "model", name, o, k), lines[k + 1].is = "field",
         NEW t, FieldsOf(t, lines, (o + 1)..k), lines[k + 1].field \in DOMAIN t
  PROVE  Refusable(lines)
<1>1. PICK j \in (o + 1)..k : lines[j].is = "field" /\ lines[j].field = lines[k + 1].field
  BY DEF FieldsOf
<1>2. k + 1 \in 0..Len(lines) /\ k \in Nat /\ o \in 1..k
  BY DEF Reading, Opened
<1>3. Opened(lines, o, k + 1)
  BY OpenedStep DEF Reading
<1>4. j \in Block(lines, o) /\ k + 1 \in Block(lines, o)
  BY <1>2, <1>3, InBlock
<1>5. /\ lines[o].is = "open" /\ lines[o].keyword = "model" /\ lines[o].name = name
      /\ o \in 1..Len(lines) /\ o \in DOMAIN lines /\ j \in DOMAIN lines /\ k + 1 \in DOMAIN lines
      /\ j # k + 1
  BY <1>2 DEF Reading, Opened
<1>6. CASE lines[j] = lines[k + 1]
  BY <1>1, <1>4, <1>5, <1>6 DEF Refusable
<1>7. CASE lines[j] # lines[k + 1]
  <2>1. name \in Declared(lines, "model")
    BY <1>5, DeclaredIs
  <2>2. lines[j] \in DeclaredFields(lines, name) /\ lines[k + 1] \in DeclaredFields(lines, name)
    BY <1>1, <1>4, <1>5, DeclaredFieldsAre
  <2> QED
    BY <1>1, <1>7, <2>1, <2>2 DEF Refusable
<1> QED
  BY <1>6, <1>7

\* Outside all blocks.
LEMMA ReadsOutside ==
  ASSUME NEW lines \in Seq(Lines), Flat(lines), NEW k \in 0..(Len(lines) - 1),
         NEW s, ReaderInv(lines, k, s), s.at = "outside"
  PROVE  ReaderInv(lines, k + 1, ReadOutside(s, lines[k + 1]))
<1> DEFINE l == lines[k + 1]
<1>1. k \in Nat /\ k + 1 \in 1..Len(lines) /\ Quiet(lines, k)
  BY DEF ReaderInv
<1>2. /\ l.is \in {"open", "remark"}
      /\ l.is = "open" => Opened(lines, k + 1, k + 1)
      /\ l.is # "open" => Quiet(lines, k + 1)
  BY <1>1, QuietStep
<1>3. l \in Lines
  BY <1>1
<1>4. /\ l.is \in {"open", "whole"} => l.keyword # ""
      /\ l.keyword \in {"", "model", "enum"}
  BY <1>3 DEF Lines
<1>5. Table("model", s.models, lines, k + 1) /\ Table("enum", s.enums, lines, k + 1)
  BY <1>1, <1>2, TableKeeps DEF ReaderInv
<1>6. CASE l.is # "open"
  <2>1. ReadOutside(s, l) = s
    BY <1>2, <1>6 DEF ReadOutside
  <2> QED
    BY <1>2, <1>5, <1>6, <2>1 DEF ReaderInv
<1>7. CASE l.is = "open" /\ l.name = ""
  <2>1. ReadOutside(s, l) = [s EXCEPT !.at = "error"]
    BY <1>7 DEF ReadOutside, Failed
  <2>2. "" \in Declared(lines, "model") \cup Declared(lines, "enum")
    <3>1. l.keyword \in {"model", "enum"}
      BY <1>4, <1>7
    <3>2. "" \in Declared(lines, l.keyword)
      BY <1>1, <1>7, DeclaredIs
    <3> QED
      BY <3>1, <3>2
  <2>3. Refusable(lines)
    BY <2>2 DEF Refusable
  <2> QED
    BY <2>1, <2>3 DEF ReaderInv
<1>8. CASE l.is = "open" /\ l.name # ""
  <2> DEFINE r == ReadOutside(s, l)
  <2>1. /\ DOMAIN r = {"at", "name", "fields", "values", "models", "enums"}
        /\ r.at = l.keyword /\ r.name = l.name /\ r.fields = None /\ r.values = {}
        /\ r.models = s.models /\ r.enums = s.enums
    BY <1>8 DEF ReadOutside, ReaderInv
  <2>2. l.keyword \in {"model", "enum"}
    BY <1>4, <1>8
  <2>3. Reading(lines, l.keyword, l.name, k + 1, k + 1)
    BY <1>2, <1>8 DEF Reading
  <2>4. ((k + 1) + 1)..(k + 1) = {}
    BY <1>1
  <2>5. FieldsOf(None, lines, {}) /\ ValuesOf({}, lines, {})
    BY DEF FieldsOf, ValuesOf, None
  <2> HIDE DEF r
  <2>6. r.at = "model" => Reading(lines, "model", r.name, k + 1, k + 1)
                          /\ FieldsOf(r.fields, lines, ((k + 1) + 1)..(k + 1))
    BY <2>1, <2>3, <2>4, <2>5
  <2>7. r.at = "enum" => Reading(lines, "enum", r.name, k + 1, k + 1)
                         /\ ValuesOf(r.values, lines, ((k + 1) + 1)..(k + 1))
    BY <2>1, <2>3, <2>4, <2>5
  <2>8. ReaderInv(lines, k + 1, r)
    BY <1>5, <2>1, <2>2, <2>6, <2>7 DEF ReaderInv
  <2> QED
    BY <2>8 DEF r
<1> QED
  BY <1>6, <1>7, <1>8

\* Within a model.
LEMMA ReadsModel ==
  ASSUME NEW lines \in Seq(Lines), Flat(lines), NEW k \in 0..(Len(lines) - 1),
         NEW s, ReaderInv(lines, k, s), s.at = "model"
  PROVE  ReaderInv(lines, k + 1, ReadModel(s, lines[k + 1]))
<1> DEFINE l == lines[k + 1]
           r == ReadModel(s, l)
<1>1. PICK o : Reading(lines, "model", s.name, o, k) /\ FieldsOf(s.fields, lines, (o + 1)..k)
  BY DEF ReaderInv
<1>2. k \in Nat /\ k + 1 \in 1..Len(lines) /\ k \in 0..Len(lines) /\ o \in 1..k /\ Opened(lines, o, k)
  BY <1>1 DEF Reading, Opened
<1>3. /\ l.is \in {"close", "field", "loose", "member", "remark"}
      /\ l.is = "close" => Quiet(lines, k + 1)
      /\ l.is # "close" => Opened(lines, o, k + 1)
  BY <1>2, OpenedStep
<1>4. Table("model", s.models, lines, k) /\ Table("enum", s.enums, lines, k)
  BY DEF ReaderInv
<1>5. DOMAIN s = {"at", "name", "fields", "values", "models", "enums"}
  BY DEF ReaderInv
<1>6. CASE l.is = "close" /\ s.name \in DOMAIN s.models
  <2>1. Refusable(lines)
    BY <1>1, <1>2, <1>4, <1>6, RefusesName
  <2>2. r = [s EXCEPT !.at = "error"]
    BY <1>6 DEF ReadModel, Failed
  <2>3. DOMAIN r = DOMAIN s /\ r.at = "error"
    BY <1>5, <2>2
  <2> HIDE DEF r
  <2>4. ReaderInv(lines, k + 1, r)
    BY <1>5, <2>1, <2>3 DEF ReaderInv
  <2> QED
    BY <2>4 DEF r
<1>7. CASE l.is = "close" /\ s.name \notin DOMAIN s.models
  <2>1. r = [s EXCEPT !.at = "outside", !.models = Add(s.models, s.name, s.fields)]
    BY <1>7 DEF ReadModel
  <2>2. /\ DOMAIN r = DOMAIN s /\ r.at = "outside"
        /\ r.models = Add(s.models, s.name, s.fields) /\ r.enums = s.enums
    BY <1>5, <2>1
  <2>3. Table("model", Add(s.models, s.name, s.fields), lines, k + 1)
    BY <1>1, <1>4, <1>7, TableAdds DEF Holds
  <2>4. Table("enum", s.enums, lines, k + 1)
    BY <1>1, <1>2, <1>4, <1>7, TableOther DEF Reading
  <2> HIDE DEF r
  <2>5. ReaderInv(lines, k + 1, r)
    BY <1>3, <1>5, <1>7, <2>2, <2>3, <2>4 DEF ReaderInv
  <2> QED
    BY <2>5 DEF r
<1>8. CASE l.is = "field" /\ l.field \in DOMAIN s.fields
  <2>1. Refusable(lines)
    BY <1>1, <1>8, RefusesField
  <2>2. r = [s EXCEPT !.at = "error"]
    BY <1>8 DEF ReadModel, Failed
  <2>3. DOMAIN r = DOMAIN s /\ r.at = "error"
    BY <1>5, <2>2
  <2> HIDE DEF r
  <2>4. ReaderInv(lines, k + 1, r)
    BY <1>5, <2>1, <2>3 DEF ReaderInv
  <2> QED
    BY <2>4 DEF r
<1>9. ASSUME l.is # "close" PROVE Table("model", s.models, lines, k + 1) /\ Table("enum", s.enums, lines, k + 1)
  BY <1>2, <1>4, <1>9, TableKeeps
<1>10. CASE l.is = "field" /\ l.field \notin DOMAIN s.fields
  <2> DEFINE t == s.fields
             u == Add(t, l.field, l)
  <2>1. r = [s EXCEPT !.fields = u]
    BY <1>10 DEF ReadModel
  <2>2. /\ DOMAIN r = DOMAIN s /\ r.at = "model" /\ r.name = s.name /\ r.fields = u
        /\ r.models = s.models /\ r.enums = s.enums
    BY <1>5, <2>1
  <2>3. /\ DOMAIN u = DOMAIN t \cup {l.field} /\ u[l.field] = l
        /\ \A f \in DOMAIN t : u[f] = t[f]
    BY <1>10 DEF Add
  <2> HIDE DEF u
  <2>4. FieldsOf(u, lines, (o + 1)..(k + 1))
    <3>1. k + 1 \in (o + 1)..(k + 1) /\ \A j \in (o + 1)..k : j \in (o + 1)..(k + 1)
      BY <1>2
    <3>2. \A j \in (o + 1)..(k + 1) : j \in (o + 1)..k \/ j = k + 1
      BY <1>2
    <3>3. \A f \in DOMAIN u : \E j \in (o + 1)..(k + 1) :
            lines[j].is = "field" /\ lines[j].field = f /\ u[f] = lines[j]
      BY <1>1, <1>10, <2>3, <3>1 DEF FieldsOf
    <3>4. \A j \in (o + 1)..(k + 1) :
            lines[j].is = "field" => lines[j].field \in DOMAIN u /\ u[lines[j].field] = lines[j]
      BY <1>1, <1>10, <2>3, <3>2 DEF FieldsOf
    <3> QED
      BY <3>3, <3>4 DEF FieldsOf
  <2>5. Reading(lines, "model", s.name, o, k + 1)
    BY <1>1, <1>3, <1>10 DEF Reading
  <2> HIDE DEF r
  <2>6. ReaderInv(lines, k + 1, r)
    BY <1>5, <1>9, <1>10, <2>2, <2>4, <2>5 DEF ReaderInv
  <2> QED
    BY <2>6 DEF r
<1>11. CASE l.is \in {"loose", "member", "remark"}
  <2>1. r = s
    BY <1>11 DEF ReadModel
  <2>2. FieldsOf(s.fields, lines, (o + 1)..(k + 1))
    <3>1. \A j \in (o + 1)..k : j \in (o + 1)..(k + 1)
      BY <1>2
    <3>2. \A j \in (o + 1)..(k + 1) : j \in (o + 1)..k \/ j = k + 1
      BY <1>2
    <3> QED
      BY <1>1, <1>11, <3>1, <3>2 DEF FieldsOf
  <2>3. Reading(lines, "model", s.name, o, k + 1)
    BY <1>1, <1>3, <1>11 DEF Reading
  <2>4. ReaderInv(lines, k + 1, s)
    BY <1>5, <1>9, <1>11, <2>2, <2>3 DEF ReaderInv
  <2> QED
    BY <2>1, <2>4
<1> QED
  BY <1>3, <1>6, <1>7, <1>8, <1>10, <1>11

\* Within an enum.
LEMMA ReadsEnum ==
  ASSUME NEW lines \in Seq(Lines), Flat(lines), NEW k \in 0..(Len(lines) - 1),
         NEW s, ReaderInv(lines, k, s), s.at = "enum"
  PROVE  ReaderInv(lines, k + 1, ReadEnum(s, lines[k + 1]))
<1> DEFINE l == lines[k + 1]
           r == ReadEnum(s, l)
<1>1. PICK o : Reading(lines, "enum", s.name, o, k) /\ ValuesOf(s.values, lines, (o + 1)..k)
  BY DEF ReaderInv
<1>2. /\ k \in Nat /\ k + 1 \in 1..Len(lines) /\ k \in 0..Len(lines) /\ k + 1 \in DOMAIN lines
      /\ o \in 1..k /\ Opened(lines, o, k)
  BY <1>1 DEF Reading, Opened
<1>3. /\ l.is \in {"close", "field", "loose", "member", "remark"}
      /\ l.is = "close" => Quiet(lines, k + 1)
      /\ l.is # "close" => Opened(lines, o, k + 1)
  BY <1>2, OpenedStep
<1>4. Table("model", s.models, lines, k) /\ Table("enum", s.enums, lines, k)
  BY DEF ReaderInv
<1>5. DOMAIN s = {"at", "name", "fields", "values", "models", "enums"}
  BY DEF ReaderInv
<1>6. ASSUME Refusable(lines), r = [s EXCEPT !.at = "error"] PROVE ReaderInv(lines, k + 1, r)
  <2>1. DOMAIN r = DOMAIN s /\ r.at = "error"
    BY <1>5, <1>6
  <2> HIDE DEF r
  <2> QED
    BY <1>5, <1>6, <2>1 DEF ReaderInv
<1>7. CASE l.is = "close" /\ s.name \in DOMAIN s.enums
  <2>1. Refusable(lines)
    BY <1>1, <1>2, <1>4, <1>7, RefusesName
  <2>2. r = [s EXCEPT !.at = "error"]
    BY <1>7 DEF ReadEnum, Failed
  <2> QED
    BY <1>6, <2>1, <2>2
<1>8. CASE l.is = "close" /\ s.name \notin DOMAIN s.enums
  <2>1. r = [s EXCEPT !.at = "outside", !.enums = Add(s.enums, s.name, s.values)]
    BY <1>8 DEF ReadEnum
  <2>2. /\ DOMAIN r = DOMAIN s /\ r.at = "outside"
        /\ r.enums = Add(s.enums, s.name, s.values) /\ r.models = s.models
    BY <1>5, <2>1
  <2>3. Table("enum", Add(s.enums, s.name, s.values), lines, k + 1)
    BY <1>1, <1>4, <1>8, TableAdds DEF Holds
  <2>4. Table("model", s.models, lines, k + 1)
    BY <1>1, <1>2, <1>4, <1>8, TableOther DEF Reading
  <2> HIDE DEF r
  <2>5. ReaderInv(lines, k + 1, r)
    BY <1>3, <1>5, <1>8, <2>2, <2>3, <2>4 DEF ReaderInv
  <2> QED
    BY <2>5 DEF r
<1>9. CASE l.is # "close" /\ l.type.open
  <2>1. Refusable(lines)
    BY <1>2, <1>9 DEF Refusable
  <2>2. r = [s EXCEPT !.at = "error"]
    BY <1>9 DEF ReadEnum, Failed
  <2> QED
    BY <1>6, <2>1, <2>2
<1>10. CASE l.is # "close" /\ ~l.type.open
  <2>1. Table("model", s.models, lines, k + 1) /\ Table("enum", s.enums, lines, k + 1)
    BY <1>2, <1>4, <1>10, TableKeeps
  <2>2. r = [s EXCEPT !.values = s.values \cup l.type.strings]
    BY <1>10 DEF ReadEnum
  <2>3. /\ DOMAIN r = DOMAIN s /\ r.at = "enum" /\ r.name = s.name /\ r.values = s.values \cup l.type.strings
        /\ r.models = s.models /\ r.enums = s.enums
    BY <1>5, <2>2
  <2>4. ValuesOf(s.values \cup l.type.strings, lines, (o + 1)..(k + 1))
    <3>1. k + 1 \in (o + 1)..(k + 1) /\ \A j \in (o + 1)..k : j \in (o + 1)..(k + 1)
      BY <1>2
    <3>2. \A j \in (o + 1)..(k + 1) : j \in (o + 1)..k \/ j = k + 1
      BY <1>2
    <3> QED
      BY <1>1, <3>1, <3>2 DEF ValuesOf
  <2>5. Reading(lines, "enum", s.name, o, k + 1)
    BY <1>1, <1>3, <1>10 DEF Reading
  <2> HIDE DEF r
  <2>6. ReaderInv(lines, k + 1, r)
    BY <1>5, <2>1, <2>3, <2>4, <2>5 DEF ReaderInv
  <2> QED
    BY <2>6 DEF r
<1> QED
  BY <1>7, <1>8, <1>9, <1>10

LEMMA ReadsLine ==
  ASSUME NEW lines \in Seq(Lines), Flat(lines), NEW k \in 0..(Len(lines) - 1),
         NEW s, ReaderInv(lines, k, s)
  PROVE  ReaderInv(lines, k + 1, ReadLine(s, lines[k + 1]))
<1>1. s.at \in {"error", "outside", "model", "enum"}
  BY DEF ReaderInv
<1>2. CASE s.at = "outside"
  <2>1. ReadLine(s, lines[k + 1]) = ReadOutside(s, lines[k + 1])
    BY <1>2 DEF ReadLine
  <2> QED
    BY <1>2, <2>1, ReadsOutside
<1>3. CASE s.at = "model"
  <2>1. ReadLine(s, lines[k + 1]) = ReadModel(s, lines[k + 1])
    BY <1>3 DEF ReadLine
  <2> QED
    BY <1>3, <2>1, ReadsModel
<1>4. CASE s.at = "enum"
  <2>1. ReadLine(s, lines[k + 1]) = ReadEnum(s, lines[k + 1])
    BY <1>4 DEF ReadLine
  <2> QED
    BY <1>4, <2>1, ReadsEnum
<1>5. CASE s.at = "error"
  <2>1. ReadLine(s, lines[k + 1]) = s
    BY <1>5 DEF ReadLine
  <2>2. ReaderInv(lines, k + 1, s)
    BY <1>5 DEF ReaderInv
  <2> QED
    BY <2>1, <2>2
<1> QED
  BY <1>1, <1>2, <1>3, <1>4, <1>5

\* Hence of the reader at the end of the source.
LEMMA ReadsToTheEnd ==
  ASSUME NEW lines \in Seq(Lines), Flat(lines)
  PROVE  ReaderInv(lines, Len(lines), FoldLeft(ReadLine, Start, lines))
<1> DEFINE n == Len(lines)
<1>1. n \in Nat
  OBVIOUS
<1>2. PICK read :
        /\ read[0] = Start
        /\ \A k \in 0..(n - 1) : read[k + 1] = ReadLine(read[k], lines[k + 1])
        /\ FoldLeft(ReadLine, Start, lines) = read[n]
  BY ReadsInOrder
<1> DEFINE S == {k \in 0..n : ReaderInv(lines, k, read[k])}
<1>3. 0 \in S
  <2>1. Quiet(lines, 0)
    <3>1. Depth(lines, 0 + 1) = 0
      BY DepthStart
    <3> QED
      BY <3>1 DEF Quiet
  <2>2. \A keyword : Table(keyword, None, lines, 0)
    BY DEF Table, Ended, None
  <2>3. ReaderInv(lines, 0, Start)
    BY <2>1, <2>2 DEF ReaderInv, Start
  <2> QED
    BY <1>1, <1>2, <2>3
<1>4. ASSUME NEW k \in 0..(n - 1), k \in S PROVE k + 1 \in S
  <2>1. ReaderInv(lines, k + 1, ReadLine(read[k], lines[k + 1]))
    BY <1>4, ReadsLine
  <2>2. k + 1 \in 0..n
    BY <1>1
  <2> QED
    BY <1>2, <2>1, <2>2
<1> HIDE DEF S
<1>5. \A k \in 0..n : k \in S
  BY <1>1, <1>3, <1>4, Along
<1>6. ReaderInv(lines, n, read[n])
  BY <1>1, <1>5 DEF S
<1> QED
  BY <1>2, <1>6

\* A table of all blocks has the names that are declared.
LEMMA TableIsWhole ==
  ASSUME NEW lines \in Seq(Lines), Flat(lines), Quiet(lines, Len(lines)), NEW keyword, NEW t,
         Table(keyword, t, lines, Len(lines))
  PROVE  DOMAIN t = Declared(lines, keyword)
<1>1. \A i : Ended(lines, keyword, i, Len(lines))
               <=> i \in 1..Len(lines) /\ lines[i].is = "open" /\ lines[i].keyword = keyword
  BY DEF Ended, Quiet
<1>2. \A m : m \in DOMAIN t <=> m \in Declared(lines, keyword)
  BY <1>1, DeclaredIs DEF Table
<1> QED
  BY <1>2

\* Of a flat source the tool reads all that is declared, or it has a reason to refuse it.
LEMMA ParsesWhole ==
  ASSUME NEW lines \in Seq(Lines), Flat(lines)
  PROVE  IF ParseTypeSpec(lines).at = "error" THEN Refusable(lines)
                                              ELSE ReadWhole(ParseTypeSpec(lines), lines)
<1> DEFINE n == Len(lines)
           s == FoldLeft(ReadLine, Start, lines)
<1>1. n \in Nat /\ Depth(lines, n + 1) = 0
  BY DEF Flat
<1>2. ReaderInv(lines, n, s)
  BY ReadsToTheEnd
<1>3. ParseTypeSpec(lines) = IF s.at # "outside" \/ s.models = None THEN Failed(s) ELSE s
  BY DEF ParseTypeSpec
<1> HIDE DEF s
<1>4. Failed(s).at = "error"
  BY <1>2 DEF Failed, ReaderInv
<1>5. \A o : ~Opened(lines, o, n)
  BY <1>1 DEF Opened
<1>6. s.at \in {"error", "outside"}
  BY <1>2, <1>5 DEF ReaderInv, Reading
<1>7. CASE s.at = "error"
  BY <1>2, <1>3, <1>4, <1>7 DEF ReaderInv
<1>8. CASE s.at = "outside"
  <2>1. Quiet(lines, n) /\ Table("model", s.models, lines, n) /\ Table("enum", s.enums, lines, n)
    BY <1>2, <1>8 DEF ReaderInv
  <2>2. DOMAIN s.models = Declared(lines, "model") /\ DOMAIN s.enums = Declared(lines, "enum")
    BY <2>1, TableIsWhole
  <2>3. CASE s.models = None
    <3>1. Declared(lines, "model") = {}
      BY <2>2, <2>3 DEF None
    <3> QED
      BY <1>3, <1>4, <2>3, <3>1 DEF Refusable
  <2>4. CASE s.models # None
    <3>1. ParseTypeSpec(lines) = s
      BY <1>3, <1>8, <2>4
    <3>2. \A keyword, i : Ended(lines, keyword, i, n)
                            <=> i \in 1..n /\ lines[i].is = "open" /\ lines[i].keyword = keyword
      BY <2>1 DEF Ended, Quiet
    <3>3. ASSUME NEW m \in DOMAIN s.models
          PROVE  /\ {s.models[m][f] : f \in DOMAIN s.models[m]}
                      = {l \in DeclaredFields(lines, m) : l.is # "loose"}
                 /\ \A f \in DOMAIN s.models[m] : s.models[m][f].field = f
      <4> DEFINE t == s.models[m]
      <4>1. PICK i : Ended(lines, "model", i, n) /\ lines[i].name = m
        BY <2>1 DEF Table
      <4>2. \A j : Ended(lines, "model", j, n) /\ lines[j].name = m => FieldsOf(t, lines, Block(lines, j))
        BY <2>1 DEF Table, Holds
      <4>3. \A x \in DeclaredFields(lines, m) : x.is # "loose" => \E f \in DOMAIN t : t[f] = x
        BY <3>2, <4>2, DeclaredFieldsAre DEF FieldsOf
      <4>4. \A f \in DOMAIN t : t[f] \in DeclaredFields(lines, m) /\ t[f].is # "loose"
        <5>1. i \in 1..n /\ lines[i].is = "open" /\ lines[i].keyword = "model"
          BY <4>1 DEF Ended
        <5>2. \A f \in DOMAIN t : \E k \in Block(lines, i) : lines[k].is = "field" /\ t[f] = lines[k]
          BY <4>1, <4>2 DEF FieldsOf
        <5> QED
          BY <4>1, <5>1, <5>2, DeclaredFieldsAre
      <4>6. \A f \in DOMAIN t : t[f].field = f
        BY <4>1, <4>2 DEF FieldsOf
      <4> HIDE DEF t
      <4>5. {t[f] : f \in DOMAIN t} = {l \in DeclaredFields(lines, m) : l.is # "loose"}
        BY <4>3, <4>4
      <4> QED
        BY <4>5, <4>6 DEF t
    <3>4. ASSUME NEW e \in DOMAIN s.enums
          PROVE  /\ \A v \in DeclaredMembers(lines, e) \ s.enums[e] :
                      \E k \in Within(lines, "enum", e) :
                        lines[k].is = "member" /\ v \in lines[k].type.values \ lines[k].type.strings
                 /\ \A v \in s.enums[e] \ DeclaredMembers(lines, e) :
                      \E k \in Within(lines, "enum", e) :
                        /\ v \in lines[k].type.strings
                        /\ lines[k].is = "remark" \/ v \notin lines[k].type.values
      <4>1. \A x : x \in s.enums[e] <=> \E k \in Within(lines, "enum", e) : x \in lines[k].type.strings
        <5>1. PICK i : Ended(lines, "enum", i, n) /\ lines[i].name = e
          BY <2>1 DEF Table
        <5>2. \A j : Ended(lines, "enum", j, n) /\ lines[j].name = e
                       => ValuesOf(s.enums[e], lines, Block(lines, j))
          BY <2>1 DEF Table, Holds
        <5>3. \A j : j \in Blocks(lines, "enum", e) <=> Ended(lines, "enum", j, n) /\ lines[j].name = e
          BY <3>2 DEF Blocks
        <5>4. \A j \in Blocks(lines, "enum", e) :
                \A x : x \in s.enums[e] <=> \E k \in Block(lines, j) : x \in lines[k].type.strings
          BY <5>2, <5>3 DEF ValuesOf
        <5>5. i \in Blocks(lines, "enum", e)
          BY <5>1, <5>3
        <5>6. \A k : k \in Within(lines, "enum", e) <=> \E j \in Blocks(lines, "enum", e) : k \in Block(lines, j)
          BY DEF Within
        <5> QED
          BY <5>4, <5>5, <5>6
      <4>2. \A k \in Within(lines, "enum", e) : lines[k].is \in {"remark", "member"}
        BY DEF Flat, Within, Blocks
      <4>3. \A x : x \in DeclaredMembers(lines, e) <=>
              \E k \in Within(lines, "enum", e) : lines[k].is = "member" /\ x \in lines[k].type.values
        BY DEF DeclaredMembers
      <4> QED
        BY <4>1, <4>2, <4>3
    <3>5. ReadWhole(s, lines)
      BY <2>2, <3>3, <3>4 DEF ReadWhole
    <3> QED
      BY <1>8, <3>1, <3>5
  <2> QED
    BY <2>3, <2>4
<1> QED
  BY <1>6, <1>7, <1>8

\* Of a source in the layout it is made for the tool reads the models, fields, enums and members
\* that are declared there, save for the fields and members that its readers cannot see, and it
\* refuses only what declares something twice, has no name, no model or an open string.
THEOREM WhatIsDeclaredIsRead == Spec => []ReadsWhatIsDeclared
<1>1. IInv => ReadsWhatIsDeclared
  BY SourcesAssumption, ParsesWhole DEF IInv, ReadsWhatIsDeclared, WellFormed
<1> QED
  BY <1>1, Invariance, PTL

-----------------------------------------------------------------------------
(* Models and definitions.                                                 *)

\* The types that PlainTypes speaks of, one field at a time.
PlainType(type) == type.strings = type.values
Near(js, p) == p.is = "ref" /\ p.to \in DOMAIN js.defs => js.defs[p.to].self.is # "ref"

\* Of an enum whose strings are its values the tool reads just the members.
LEMMA MembersAreRead ==
  ASSUME NEW in, PlainTypes(in), NEW doc, ReadWhole(doc, in.typespec.lines),
         in.typespec.lines \in Seq(Lines), NEW e \in DOMAIN doc.enums
  PROVE  doc.enums[e] = DeclaredMembers(in.typespec.lines, e)
<1> DEFINE lines == in.typespec.lines
<1>1. \A k \in Within(lines, "enum", e) :
        lines[k].type.strings = IF lines[k].is = "member" THEN lines[k].type.values ELSE {}
  <2>1. \A i \in DOMAIN lines : lines[i].is = "open" /\ lines[i].keyword = "enum" =>
          \A k \in Block(lines, i) :
            lines[k].type.strings = IF lines[k].is = "member" THEN lines[k].type.values ELSE {}
    BY DEF PlainTypes
  <2>2. DOMAIN lines = 1..Len(lines)
    OBVIOUS
  <2> HIDE DEF lines
  <2> QED
    BY <2>1, <2>2, Zenon DEF Within, Blocks
<1>2. /\ \A v \in DeclaredMembers(lines, e) \ doc.enums[e] :
           \E k \in Within(lines, "enum", e) :
             lines[k].is = "member" /\ v \in lines[k].type.values \ lines[k].type.strings
      /\ \A v \in doc.enums[e] \ DeclaredMembers(lines, e) :
           \E k \in Within(lines, "enum", e) :
             v \in lines[k].type.strings /\ (lines[k].is = "remark" \/ v \notin lines[k].type.values)
  BY DEF ReadWhole
<1> HIDE DEF lines
<1>3. \A v : v \in doc.enums[e] <=> v \in DeclaredMembers(lines, e)
  BY <1>1, <1>2
<1> QED
  BY <1>3 DEF lines

\* What the tool takes for the values of a field is what its type declares.
LEMMA ValuesAreDeclared ==
  ASSUME NEW in, PlainTypes(in), NEW doc, ReadWhole(doc, in.typespec.lines),
         in.typespec.lines \in Seq(Lines), NEW type, PlainType(type)
  PROVE  EnumValues(doc, type) = DeclaredValues(in.typespec.lines, type)
<1> DEFINE lines == in.typespec.lines
<1>1. CASE type.strings # {}
  BY <1>1 DEF EnumValues, DeclaredValues, PlainType
<1>2. CASE type.strings = {}
  <2>1. type.strings = {} /\ type.values = {}
    BY <1>2 DEF PlainType
  <2>2. DeclaredValues(lines, type) = DeclaredMembers(lines, type.name)
    BY <1>2, <2>1 DEF DeclaredValues
  <2>3. CASE type.name \in DOMAIN doc.enums
    BY <2>1, <2>2, <2>3, MembersAreRead DEF EnumValues
  <2>4. CASE type.name \notin DOMAIN doc.enums
    <3>1. type.name \notin Declared(lines, "enum")
      BY <2>4 DEF ReadWhole
    <3>2. Flat(lines)
      BY DEF PlainTypes
    <3>3. \A x : x \notin DeclaredMembers(lines, type.name)
      BY <3>1, <3>2, DeclaredIs, DeclaredMembersAre
    <3> QED
      BY <2>1, <2>2, <2>4, <3>3 DEF EnumValues
  <2> QED
    BY <2>3, <2>4
<1> QED
  BY <1>1, <1>2

\* What the tool takes for the values of a property, one $ref away, is what the schema says.
LEMMA ValuesAreTrue ==
  ASSUME NEW js, NEW p \in Node, PropertyReads(js, p) = "found", p.is # "oneOf", Near(js, p),
         \A d \in DOMAIN js.defs : js.defs[d].self \in Node /\ js.defs[d].self.is # "oneOf"
  PROVE  JsonEnumValues(js, p) = TrueValues(js, p)
<1>1. CASE p.is = "ref"
  <2>1. p.to \in DOMAIN js.defs
    BY <1>1 DEF PropertyReads, Resolve
  <2> DEFINE q == js.defs[p.to].self
  <2>2. q \in Node /\ q.is \notin {"oneOf", "ref"}
    BY <1>1, <2>1 DEF Near
  <2>3. q.is \in {"enum", "const"} \/ q.values = {}
    BY <2>2 DEF Node
  <2> QED
    BY <1>1, <2>2, <2>3 DEF JsonEnumValues, TrueValues, Target
<1>2. CASE p.is # "ref"
  <2>1. p.is \in {"enum", "const"} \/ p.values = {}
    BY <1>2 DEF Node
  <2> QED
    BY <1>2, <2>1 DEF JsonEnumValues, TrueValues, Target
<1> QED
  BY <1>1, <1>2

\* A definition whose fields can be read is one of the document, and so is all it refers to.
LEMMA FoundIsThere ==
  ASSUME NEW js, NEW name, FieldsRead(js, name) = "found"
  PROVE  /\ \E d \in DOMAIN js.defs : Resolved(js, name) = js.defs[d]
         /\ \A f \in Properties(Resolved(js, name)) :
              PropertyReads(js, Resolved(js, name).props[f]) = "found"
<1>1. Definition(js, name) = "found"
  BY DEF FieldsRead
<1>2. \E d \in DOMAIN js.defs : Resolved(js, name) = js.defs[d]
  BY <1>1 DEF Definition, Resolved, Resolve
<1> DEFINE def == Resolved(js, name)
           reads == {PropertyReads(js, def.props[f]) : f \in Properties(def)}
<1>3. "error" \notin reads /\ "missing" \notin reads
  BY <1>1 DEF FieldsRead
<1>4. \A f \in Properties(def) : PropertyReads(js, def.props[f]) \in {"found", "missing", "error"}
  BY DEF PropertyReads, Resolve
<1>5. \A f \in Properties(def) : PropertyReads(js, def.props[f]) \in reads
  OBVIOUS
<1> HIDE DEF def, reads
<1>6. \A f \in Properties(def) : PropertyReads(js, def.props[f]) = "found"
  BY <1>3, <1>4, <1>5
<1> QED
  BY <1>2, <1>6 DEF def

LEMMA FieldsReadIs == ASSUME NEW js, NEW name PROVE FieldsRead(js, name) \in {"found", "missing", "error"}
  BY DEF FieldsRead, Definition, Resolve

\* No difference, said of each field and each property.
LEMMA NoDifference ==
  ASSUME NEW doc, NEW js, NEW pair
  PROVE  LET fields == doc.models[pair.typespec]
             def    == Resolved(js, pair.json)
             json(n) == Mapped(pair, n)
         IN  Differences(doc, js, pair) = {} <=>
               /\ \A n \in DOMAIN fields :
                    \/ json(n) \notin Properties(def) /\ n \in pair.onlyTypeSpec
                    \/ /\ json(n) \in Properties(def)
                       /\ fields[n].required = (json(n) \in def.required) \/ n \in pair.mayDiffer
                       /\ EnumValues(doc, fields[n].type) = JsonEnumValues(js, def.props[json(n)])
               /\ \A f \in Properties(def) : f \in pair.onlyJson \/ \E n \in DOMAIN fields : json(n) = f
<1> DEFINE fields == doc.models[pair.typespec]
           def    == Resolved(js, pair.json)
           json(n) == Mapped(pair, n)
           Shared == {n \in DOMAIN fields : json(n) \in Properties(def)}
           values(n) == EnumValues(doc, fields[n].type)
           A == (DOMAIN fields \ Shared) \ pair.onlyTypeSpec
           B == {n \in Shared \ pair.mayDiffer : fields[n].required # (json(n) \in def.required)}
           C == {n \in Shared : values(n) # JsonEnumValues(js, def.props[json(n)])}
           D == (Properties(def) \ {json(n) : n \in DOMAIN fields}) \ pair.onlyJson
<1>1. Differences(doc, js, pair)
        = {<<"missingFromJsonSchema", n>> : n \in A} \cup {<<"requirednessMismatches", n>> : n \in B}
          \cup {<<"enumMismatches", n>> : n \in C} \cup {<<"missingFromTypeSpec", f>> : f \in D}
  BY DEF Differences
<1>2. A = {} <=> \A n \in DOMAIN fields : json(n) \in Properties(def) \/ n \in pair.onlyTypeSpec
  OBVIOUS
<1>3. B = {} <=> \A n \in DOMAIN fields :
                   json(n) \in Properties(def) =>
                     (fields[n].required = (json(n) \in def.required)) \/ n \in pair.mayDiffer
  OBVIOUS
<1>4. C = {} <=> \A n \in DOMAIN fields :
                   json(n) \in Properties(def) =>
                     EnumValues(doc, fields[n].type) = JsonEnumValues(js, def.props[json(n)])
  OBVIOUS
<1>5. D = {} <=> \A f \in Properties(def) : f \in pair.onlyJson \/ \E n \in DOMAIN fields : json(n) = f
  OBVIOUS
<1> HIDE DEF A, B, C, D
<1>6. Differences(doc, js, pair) = {} <=> A = {} /\ B = {} /\ C = {} /\ D = {}
  BY <1>1
<1> QED
  BY <1>2, <1>3, <1>4, <1>5, <1>6

\* A pair shows no difference exactly when the model and the definition agree.
LEMMA PairPasses ==
  ASSUME NEW in, WellFormed(in), PlainTypes(in), NEW pair,
         ParseTypeSpec(in.typespec.lines).at # "error",
         ~PairFails(ParseTypeSpec(in.typespec.lines), in.schema, pair)
  PROVE  AuditModelPair(ParseTypeSpec(in.typespec.lines), in.schema, pair) = {} <=> PairAgrees(in, pair)
<1> DEFINE lines == in.typespec.lines
           doc == ParseTypeSpec(lines)
           js == in.schema
           m == pair.typespec
           def == Resolved(js, pair.json)
           fields == doc.models[m]
           json(n) == Mapped(pair, n)
<1>1. lines \in Seq(Lines) /\ Flat(lines)
  BY DEF WellFormed, PlainTypes
<1>2. ReadWhole(doc, lines)
  BY <1>1, ParsesWhole
<1>3. \A d \in DOMAIN js.defs :
        /\ js.defs[d].self \in Node /\ js.defs[d].self.is # "oneOf"
        /\ \A f \in Properties(js.defs[d]) :
             /\ js.defs[d].props[f] \in Node /\ js.defs[d].props[f].is # "oneOf"
             /\ Near(js, js.defs[d].props[f])
  BY DEF WellFormed, PlainTypes, Near
<1>4. \A k \in DOMAIN lines : lines[k].is # "loose" /\ (lines[k].is = "field" => PlainType(lines[k].type))
  BY DEF PlainTypes, PlainType
<1>5. m \in DOMAIN doc.models <=> m \in Declared(lines, "model")
  BY <1>2 DEF ReadWhole
<1> HIDE DEF doc
<1>6. CASE m \notin DOMAIN doc.models
  <2>1. AuditModelPair(doc, js, pair) = {<<"sourceMissing", m>>}
    BY <1>6 DEF AuditModelPair
  <2>2. ~PairAgrees(in, pair)
    BY <1>5, <1>6 DEF PairAgrees
  <2> QED
    BY <2>1, <2>2 DEF doc
<1>7. CASE m \in DOMAIN doc.models /\ FieldsRead(js, pair.json) # "found"
  <2>1. FieldsRead(js, pair.json) = "missing"
    BY <1>7, FieldsReadIs DEF PairFails, doc
  <2>2. AuditModelPair(doc, js, pair) = {<<"sourceMissing", pair.json>>}
    BY <1>7, <2>1 DEF AuditModelPair
  <2>3. ~PairAgrees(in, pair)
    BY <1>7 DEF PairAgrees
  <2> QED
    BY <2>2, <2>3 DEF doc
<1>8. CASE m \in DOMAIN doc.models /\ FieldsRead(js, pair.json) = "found"
  <2>1. AuditModelPair(doc, js, pair) = Differences(doc, js, pair)
    BY <1>8 DEF AuditModelPair
  <2>2. /\ \A x : x \in DeclaredFields(lines, m) <=> \E n \in DOMAIN fields : x = fields[n]
        /\ \A x \in DeclaredFields(lines, m) : PlainType(x.type)
    <3>1. {fields[n] : n \in DOMAIN fields} = {l \in DeclaredFields(lines, m) : l.is # "loose"}
      BY <1>2, <1>8 DEF ReadWhole
    <3>2. \A i \in 1..Len(lines) : \A k \in Block(lines, i) : k \in DOMAIN lines
      BY <1>1 DEF Block
    <3>3. \A x \in DeclaredFields(lines, m) : x.is # "loose" /\ PlainType(x.type)
      BY <1>4, <3>2, DeclaredFieldsAre
    <3> HIDE DEF fields
    <3> QED
      BY <3>1, <3>3
  <2>3. \A n \in DOMAIN fields : fields[n].field = n
    BY <1>2, <1>8 DEF ReadWhole
  <2>4. \A n \in DOMAIN fields : PlainType(fields[n].type)
    BY <2>2
  <2>5. ASSUME NEW n \in DOMAIN fields, json(n) \in Properties(def)
        PROVE  /\ EnumValues(doc, fields[n].type) = DeclaredValues(lines, fields[n].type)
               /\ JsonEnumValues(js, def.props[json(n)]) = TrueValues(js, def.props[json(n)])
    <3>2. EnumValues(doc, fields[n].type) = DeclaredValues(lines, fields[n].type)
      BY <1>1, <1>2, <2>4, <2>5, ValuesAreDeclared
    <3>3. PICK d \in DOMAIN js.defs : def = js.defs[d]
      BY <1>8, FoundIsThere
    <3> DEFINE p == def.props[json(n)]
    <3>4. p \in Node /\ p.is # "oneOf" /\ Near(js, p)
      BY <1>3, <2>5, <3>3
    <3>5. PropertyReads(js, p) = "found"
      BY <1>8, <2>5, FoundIsThere
    <3> HIDE DEF p
    <3>6. JsonEnumValues(js, p) = TrueValues(js, p)
      BY <1>3, <3>4, <3>5, ValuesAreTrue
    <3> QED
      BY <3>2, <3>6 DEF p
  <2> DEFINE Fits(n) ==
        \/ json(n) \notin Properties(def) /\ n \in pair.onlyTypeSpec
        \/ /\ json(n) \in Properties(def)
           /\ fields[n].required = (json(n) \in def.required) \/ n \in pair.mayDiffer
           /\ DeclaredValues(lines, fields[n].type) = TrueValues(js, def.props[json(n)])
  <2>6. Differences(doc, js, pair) = {} <=>
          /\ \A n \in DOMAIN fields : Fits(n)
          /\ \A f \in Properties(def) : f \in pair.onlyJson \/ \E n \in DOMAIN fields : json(n) = f
    BY <2>5, NoDifference
  <2>7. (\A n \in DOMAIN fields : Fits(n)) <=>
          \A l \in DeclaredFields(lines, m) :
            \/ json(l.field) \notin Properties(def) /\ l.field \in pair.onlyTypeSpec
            \/ /\ json(l.field) \in Properties(def)
               /\ l.required = (json(l.field) \in def.required) \/ l.field \in pair.mayDiffer
               /\ DeclaredValues(lines, l.type) = TrueValues(js, def.props[json(l.field)])
    BY <2>2, <2>3
  <2>8. \A f : (\E n \in DOMAIN fields : json(n) = f)
                 <=> \E l \in DeclaredFields(lines, m) : json(l.field) = f
    BY <2>2, <2>3
  <2>9. PairAgrees(in, pair) <=>
          /\ \A l \in DeclaredFields(lines, m) :
               \/ json(l.field) \notin Properties(def) /\ l.field \in pair.onlyTypeSpec
               \/ /\ json(l.field) \in Properties(def)
                  /\ l.required = (json(l.field) \in def.required) \/ l.field \in pair.mayDiffer
                  /\ DeclaredValues(lines, l.type) = TrueValues(js, def.props[json(l.field)])
          /\ \A f \in Properties(def) :
               f \in pair.onlyJson \/ \E l \in DeclaredFields(lines, m) : json(l.field) = f
    BY <1>5, <1>8 DEF PairAgrees
  <2> HIDE DEF Fits
  <2> QED
    BY <2>1, <2>6, <2>7, <2>8, <2>9 DEF doc
<1> QED
  BY <1>6, <1>7, <1>8

-----------------------------------------------------------------------------
(* Operations.                                                             *)

LEMMA ElementOf == ASSUME NEW S, NEW s \in Seq(S), NEW i \in 1..Len(s) PROVE s[i] \in S
  OBVIOUS

\* The first and the last of some line numbers.
LEMMA FirstLine ==
  ASSUME NEW n \in Nat, NEW I \in SUBSET (1..n), I # {}
  PROVE  Min(I) \in I /\ \A i \in I : Min(I) <= i
<1> DEFINE S == {k \in 0..n : \A i \in I : i > k}
<1> SUFFICES ASSUME ~\E m \in I : \A i \in I : m <= i PROVE FALSE
  BY DEF Min
<1>1. 0 \in S
  OBVIOUS
<1>2. ASSUME NEW k \in 0..(n - 1), k \in S PROVE k + 1 \in S
  <2>1. \A i \in I : i >= k + 1
    BY <1>2
  <2>2. k + 1 \notin I
    BY <2>1
  <2> QED
    BY <2>1, <2>2
<1> HIDE DEF S
<1>3. n \in S
  BY <1>1, <1>2, Along
<1>4. PICK i \in I : i \in 1..n
  OBVIOUS
<1>5. \A j \in I : j > n
  BY <1>3 DEF S
<1> QED
  BY <1>4, <1>5

LEMMA LastLine ==
  ASSUME NEW n \in Nat, NEW I \in SUBSET (1..n), I # {}
  PROVE  Max(I) \in I /\ \A i \in I : Max(I) >= i
<1> DEFINE S == {k \in 0..n : \A i \in I : i < n + 1 - k}
<1> SUFFICES ASSUME ~\E m \in I : \A i \in I : m >= i PROVE FALSE
  BY DEF Max
<1>1. 0 \in S
  OBVIOUS
<1>2. ASSUME NEW k \in 0..(n - 1), k \in S PROVE k + 1 \in S
  <2>1. \A i \in I : i <= n - k
    BY <1>2
  <2>2. n - k \notin I
    BY <2>1
  <2> QED
    BY <2>1, <2>2
<1> HIDE DEF S
<1>3. n \in S
  BY <1>1, <1>2, Along
<1>4. PICK i \in I : i \in 1..n
  OBVIOUS
<1>5. \A j \in I : j < n + 1 - n
  BY <1>3 DEF S
<1> QED
  BY <1>4, <1>5

\* An interface is found by its route when no decorator repeats the route.
LEMMA InterfaceFound ==
  ASSUME NEW interfaces \in Seq([route : STRING, pieces : Seq(Piece)]), NEW r,
         PlainOperation(interfaces, r)
  PROVE  /\ InterfaceAt(interfaces, r.route) \in 0..Len(interfaces)
         /\ \A i \in DOMAIN interfaces :
              interfaces[i].route = r.route <=> InterfaceAt(interfaces, r.route) = i
<1> DEFINE n == Len(interfaces)
           I == {i \in 1..n : Marks(interfaces[i], r.route)}
           at == InterfaceAt(interfaces, r.route)
<1>1. n \in Nat /\ DOMAIN interfaces = 1..n
  OBVIOUS
<1>2. \A i \in 1..n : Marks(interfaces[i], r.route) <=> interfaces[i].route = r.route
  <2>1. \A i \in 1..n : \A k \in DOMAIN interfaces[i].pieces :
          interfaces[i].pieces[k].is = "decorator" => interfaces[i].pieces[k].text # r.route
    BY <1>1, Zenon DEF PlainOperation
  <2> HIDE DEF n
  <2> QED
    BY <2>1, Zenon DEF Marks
<1>3. SelectInSeq(interfaces, LAMBDA x : Marks(x, r.route)) = IF I # {} THEN Min(I) ELSE 0
  BY DEF SelectInSeq
<1>4. CASE I = {}
  <2>1. at = 0
    BY <1>3, <1>4 DEF InterfaceAt
  <2> QED
    BY <1>1, <1>2, <1>4, <2>1
<1>5. CASE I # {}
  <2>1. I \in SUBSET (1..n)
    OBVIOUS
  <2> HIDE DEF I
  <2>2. Min(I) \in I /\ \A i \in I : Min(I) <= i
    BY <1>1, <1>5, <2>1, FirstLine
  <2>3. Min(I) \in 1..n /\ interfaces[Min(I)].route = r.route
    BY <1>2, <2>2 DEF I
  <2>4. at = Min(I)
    BY <1>3, <1>5, <2>3 DEF InterfaceAt
  <2>5. ASSUME NEW i \in 1..n, interfaces[i].route = r.route PROVE i = Min(I)
    <3>1. i \in I
      BY <1>2, <2>5 DEF I
    <3>2. Min(I) <= i
      BY <2>2, <3>1
    <3>3. CASE Min(I) < i
      <4>1. Min(I) \in 1..(i - 1)
        BY <2>3, <3>3
      <4>2. \A j \in 1..(i - 1) : interfaces[j].route # interfaces[i].route
        BY <1>1 DEF PlainOperation
      <4> QED
        BY <2>3, <2>5, <4>1, <4>2
    <3> QED
      BY <2>3, <3>2, <3>3
  <2> QED
    BY <1>1, <2>3, <2>4, <2>5
<1> QED
  BY <1>4, <1>5

LEMMA SuffixOfItself == ASSUME NEW s \in Words PROVE IsSuffix(s, s)
<1>1. Reverse(s) \in Seq(STRING)
  BY DEF Words, Reverse
<1>2. Len(Reverse(s)) \in Nat
  BY <1>1
<1> QED
  BY <1>2 DEF IsSuffix, IsPrefix

\* An operation is found by its name when no other ends with it.
LEMMA OperationFound ==
  ASSUME NEW interfaces \in Seq([route : STRING, pieces : Seq(Piece)]), NEW r, r.operation \in Words,
         PlainOperation(interfaces, r), NEW i \in DOMAIN interfaces
  PROVE  LET pieces == interfaces[i].pieces IN
         /\ OperationAt(pieces, r.operation) \in 0..Len(pieces)
         /\ \A k \in DOMAIN pieces :
              pieces[k].is = "op" /\ pieces[k].name = r.operation
                <=> OperationAt(pieces, r.operation) = k
<1> DEFINE pieces == interfaces[i].pieces
           n == Len(pieces)
           K == {k \in 1..n : pieces[k].is = "op" /\ IsSuffix(r.operation, pieces[k].name)}
           at == OperationAt(pieces, r.operation)
<1>1. pieces \in Seq(Piece)
  <2>1. i \in 1..Len(interfaces)
    OBVIOUS
  <2>2. interfaces[i] \in [route : STRING, pieces : Seq(Piece)]
    BY <2>1, ElementOf
  <2> QED
    BY <2>2
<1>2. n \in Nat /\ DOMAIN pieces = 1..n
  BY <1>1
<1>3. \A k \in 1..n : pieces[k].is = "op" =>
        /\ IsSuffix(r.operation, pieces[k].name) <=> pieces[k].name = r.operation
        /\ \A j \in 1..(k - 1) : pieces[j].is = "op" => pieces[j].name # pieces[k].name
  BY <1>2, SuffixOfItself DEF PlainOperation
<1>4. at = IF K # {} THEN Min(K) ELSE 0
  BY DEF OperationAt, SelectInSeq
<1> HIDE DEF pieces, at
<1>5. CASE K = {}
  BY <1>2, <1>3, <1>4, <1>5 DEF pieces, at
<1>6. CASE K # {}
  <2>1. K \in SUBSET (1..n)
    OBVIOUS
  <2> HIDE DEF K
  <2>2. Min(K) \in K /\ \A k \in K : Min(K) <= k
    BY <1>2, <1>6, <2>1, FirstLine
  <2>3. Min(K) \in 1..n /\ pieces[Min(K)].is = "op" /\ pieces[Min(K)].name = r.operation
    BY <1>3, <2>2 DEF K
  <2>4. ASSUME NEW k \in 1..n, pieces[k].is = "op", pieces[k].name = r.operation PROVE k = Min(K)
    <3>1. k \in K
      BY <1>3, <2>4 DEF K
    <3>2. Min(K) <= k
      BY <2>2, <3>1
    <3>3. CASE Min(K) < k
      <4>1. Min(K) \in 1..(k - 1)
        BY <2>3, <3>3
      <4> QED
        BY <1>3, <2>3, <2>4, <4>1
    <3> QED
      BY <2>3, <3>2, <3>3
  <2> QED
    BY <1>2, <1>4, <1>6, <2>3, <2>4 DEF pieces, at
<1> QED
  BY <1>5, <1>6

\* The decorators since the last empty line are those of the operation, when an empty line
\* follows every operation and none stands between an operation and its decorators.
LEMMA PrefixIsOwn ==
  ASSUME NEW pieces, NEW k \in Nat \ {0},
         \A j \in 1..(k - 1) : pieces[j].is = "op" => \E b \in j..(k - 1) : pieces[b].is = "blank",
         \A j \in 1..(k - 1) : pieces[j].is = "decorator" =>
           \/ \E o \in j..(k - 1) : pieces[o].is = "op"
           \/ \A b \in j..(k - 1) : pieces[b].is # "blank"
  PROVE  Prefix(pieces, k) = Own(pieces, k)
<1> DEFINE I == {i \in 1..(k - 1) : pieces[i].is = "blank"}
           start == IF I # {} THEN Max(I) ELSE 0
<1>1. k - 1 \in Nat /\ I \in SUBSET (1..(k - 1))
  OBVIOUS
<1>2. Prefix(pieces, k) = {pieces[i].text : i \in {i \in (start + 1)..(k - 1) : pieces[i].is = "decorator"}}
  BY DEF Prefix, SelectLastInSubSeq
<1>3. /\ start \in 0..(k - 1)
      /\ start # 0 => pieces[start].is = "blank"
      /\ \A b \in 1..(k - 1) : pieces[b].is = "blank" => b <= start
  <2>1. CASE I = {}
    BY <1>1, <2>1
  <2>2. CASE I # {}
    <3> HIDE DEF I
    <3>1. Max(I) \in I /\ \A i \in I : Max(I) >= i
      BY <1>1, <2>2, LastLine
    <3>2. Max(I) \in 1..(k - 1) /\ pieces[Max(I)].is = "blank"
      BY <3>1 DEF I
    <3>3. \A b \in 1..(k - 1) : pieces[b].is = "blank" => b \in I
      BY DEF I
    <3> QED
      BY <1>1, <2>2, <3>1, <3>2, <3>3
  <2> QED
    BY <2>1, <2>2
<1> HIDE DEF start
<1>4. ASSUME NEW i \in 1..(k - 1), pieces[i].is = "decorator"
      PROVE  i \in (start + 1)..(k - 1) <=> \A j \in i..(k - 1) : pieces[j].is # "op"
  <2>1. ASSUME i \in (start + 1)..(k - 1), NEW j \in i..(k - 1), pieces[j].is = "op" PROVE FALSE
    <3>1. j \in 1..(k - 1)
      BY <1>1
    <3>2. PICK b \in j..(k - 1) : pieces[b].is = "blank"
      BY <2>1, <3>1
    <3>3. b \in 1..(k - 1) /\ b > start
      BY <1>3, <2>1, <3>1
    <3> QED
      BY <1>3, <3>2, <3>3
  <2>2. ASSUME \A j \in i..(k - 1) : pieces[j].is # "op" PROVE i \in (start + 1)..(k - 1)
    <3>1. \A b \in i..(k - 1) : pieces[b].is # "blank"
      BY <1>4, <2>2
    <3>2. start \notin i..(k - 1)
      BY <1>3, <3>1
    <3> QED
      BY <1>3, <3>2
  <2> QED
    BY <2>1, <2>2
<1>5. \A i : i \in (start + 1)..(k - 1) => i \in 1..(k - 1)
  BY <1>3
<1>6. Own(pieces, k) =
        {pieces[i].text : i \in {i \in 1..(k - 1) : /\ pieces[i].is = "decorator"
                                                    /\ \A j \in i..(k - 1) : pieces[j].is # "op"}}
  BY DEF Own
<1> QED
  BY <1>2, <1>4, <1>5, <1>6

\* A model is part of itself.
LEMMA PartOfItself == ASSUME NEW s \in Words PROVE s \in SubSeqs(s)
<1>1. Len(s) \in Nat /\ s \in Seq(STRING)
  BY DEF Words
<1>2. SubSeq(s, 0 + 1, Len(s)) = s
  BY <1>1
<1> QED
  BY <1>1, <1>2 DEF SubSeqs

\* What the audit of one operation finds, once its interface and its place are known.
LEMMA NoComplaint ==
  ASSUME NEW interfaces, NEW r, InterfaceAt(interfaces, r.route) # 0,
         OperationAt(interfaces[InterfaceAt(interfaces, r.route)].pieces, r.operation) # 0
  PROVE  LET pieces == interfaces[InterfaceAt(interfaces, r.route)].pieces
             k == OperationAt(pieces, r.operation)
         IN  AuditOperation(interfaces, r) = {} <=>
               /\ r.method \in Prefix(pieces, k)
               /\ \A x \in r.subroute : x \in Prefix(pieces, k)
               /\ \A h \in r.headers : h \in pieces[k].headers
               /\ \A b \in r.body : Mentions(pieces[k], b)
               /\ r.audience = IF r.admin THEN "admin" ELSE "public"
<1> DEFINE pieces == interfaces[InterfaceAt(interfaces, r.route)].pieces
           k == OperationAt(pieces, r.operation)
           A == {r.method} \ Prefix(pieces, k)
           B == r.subroute \ Prefix(pieces, k)
           C == r.headers \ pieces[k].headers
           D == {b \in r.body : ~Mentions(pieces[k], b)}
           E == IF r.audience = (IF r.admin THEN "admin" ELSE "public") THEN {} ELSE {<<"audience", r.route>>}
<1>1. AuditOperation(interfaces, r)
        = {<<"method", m>> : m \in A} \cup {<<"route", x>> : x \in B} \cup {<<"header", h>> : h \in C}
          \cup {<<"body", b>> : b \in D} \cup E
  BY DEF AuditOperation
<1>2. A = {} <=> r.method \in Prefix(pieces, k)
  OBVIOUS
<1>3. B = {} <=> \A x \in r.subroute : x \in Prefix(pieces, k)
  OBVIOUS
<1>4. C = {} <=> \A h \in r.headers : h \in pieces[k].headers
  OBVIOUS
<1>5. D = {} <=> \A b \in r.body : Mentions(pieces[k], b)
  OBVIOUS
<1>6. E = {} <=> r.audience = IF r.admin THEN "admin" ELSE "public"
  OBVIOUS
<1> HIDE DEF A, B, C, D, E
<1>7. AuditOperation(interfaces, r) = {} <=> A = {} /\ B = {} /\ C = {} /\ D = {} /\ E = {}
  BY <1>1
<1> QED
  BY <1>2, <1>3, <1>4, <1>5, <1>6, <1>7

\* An operation has no complaint exactly when the source has it as the policy asks.
LEMMA OperationPasses ==
  ASSUME NEW in, WellFormed(in), NEW r, r.operation \in Words, r.body \subseteq Words,
         PlainOperation(in.typespec.interfaces, r)
  PROVE  AuditOperation(in.typespec.interfaces, r) = {} <=> OperationAgrees(in, r)
<1> DEFINE interfaces == in.typespec.interfaces
           i == InterfaceAt(interfaces, r.route)
           pieces == interfaces[i].pieces
           k == OperationAt(pieces, r.operation)
<1>1. interfaces \in Seq([route : STRING, pieces : Seq(Piece)])
  BY DEF WellFormed
<1> HIDE DEF interfaces
<1>2. /\ i \in 0..Len(interfaces)
      /\ \A j \in DOMAIN interfaces : interfaces[j].route = r.route <=> i = j
  BY <1>1, InterfaceFound DEF interfaces
<1>3. DOMAIN interfaces = 1..Len(interfaces) /\ Len(interfaces) \in Nat
  BY <1>1
<1> DEFINE AgreesAt(j, o) ==
      LET ps == interfaces[j].pieces IN
        /\ ps[o].is = "op" /\ ps[o].name = r.operation
        /\ {r.method} \cup r.subroute \subseteq Own(ps, o)
        /\ r.headers \subseteq ps[o].headers
        /\ r.body # {} => ps[o].body /\ r.body \subseteq ps[o].sent
<1>4. OperationAgrees(in, r) <=>
        \E j \in DOMAIN interfaces :
          /\ interfaces[j].route = r.route
          /\ r.audience = (IF r.admin THEN "admin" ELSE "public")
          /\ \E o \in DOMAIN interfaces[j].pieces : AgreesAt(j, o)
  BY DEF OperationAgrees, interfaces
<1> HIDE DEF AgreesAt
<1>5. CASE i = 0
  <2>1. AuditOperation(interfaces, r) = {<<"no interface", r.route>>}
    BY <1>5 DEF AuditOperation
  <2>2. ~OperationAgrees(in, r)
    BY <1>2, <1>3, <1>4, <1>5
  <2> QED
    BY <2>1, <2>2 DEF interfaces
<1>6. CASE i # 0
  <2>1. i \in DOMAIN interfaces /\ interfaces[i].route = r.route
    BY <1>2, <1>3, <1>6
  <2>2. /\ k \in 0..Len(pieces)
        /\ \A o \in DOMAIN pieces : pieces[o].is = "op" /\ pieces[o].name = r.operation <=> k = o
    BY <1>1, <2>1, OperationFound DEF interfaces
  <2>3. pieces \in Seq(Piece)
    <3>1. interfaces[i] \in [route : STRING, pieces : Seq(Piece)]
      BY <1>1, <1>3, <2>1, ElementOf
    <3> QED
      BY <3>1
  <2>4. OperationAgrees(in, r) <=>
          /\ r.audience = (IF r.admin THEN "admin" ELSE "public")
          /\ \E o \in DOMAIN pieces : AgreesAt(i, o)
    BY <1>2, <1>4, <2>1
  <2> HIDE DEF i, pieces
  <2>5. DOMAIN pieces = 1..Len(pieces) /\ Len(pieces) \in Nat
    BY <2>3
  <2>6. \A o \in DOMAIN pieces : AgreesAt(i, o) => k = o
    BY <2>2 DEF AgreesAt, pieces
  <2> HIDE DEF k
  <2>7. CASE k = 0
    <3>1. AuditOperation(interfaces, r) = {<<"no operation", r.operation>>}
      BY <1>6, <2>7 DEF AuditOperation, i, pieces, k
    <3>2. ~OperationAgrees(in, r)
      BY <2>4, <2>5, <2>6, <2>7
    <3> QED
      BY <3>1, <3>2 DEF interfaces
  <2>8. CASE k # 0
    <3>1. k \in DOMAIN pieces /\ pieces[k].is = "op" /\ pieces[k].name = r.operation
      BY <2>2, <2>5, <2>8
    <3>2. OperationAgrees(in, r) <=> r.audience = (IF r.admin THEN "admin" ELSE "public") /\ AgreesAt(i, k)
      BY <2>4, <2>6, <3>1
    <3>3. Prefix(pieces, k) = Own(pieces, k)
      <4>1. k \in Nat \ {0}
        BY <2>5, <3>1
      <4>2. /\ \A j \in 1..(k - 1) :
                 pieces[j].is = "op" => \E b \in j..(k - 1) : pieces[b].is = "blank"
            /\ \A j \in 1..(k - 1) : pieces[j].is = "decorator" =>
                 \/ \E o \in j..(k - 1) : pieces[o].is = "op"
                 \/ \A b \in j..(k - 1) : pieces[b].is # "blank"
        <5> HIDE DEF interfaces
        <5>1. \A n \in DOMAIN interfaces : LET ps == interfaces[n].pieces IN
                \A o \in DOMAIN ps : ps[o].is = "op" =>
                  /\ \A j \in 1..(o - 1) :
                       ps[j].is = "op" => \E b \in j..(o - 1) : ps[b].is = "blank"
                  /\ \A j \in 1..(o - 1) : ps[j].is = "decorator" =>
                       \/ \E a \in j..(o - 1) : ps[a].is = "op"
                       \/ \A b \in j..(o - 1) : ps[b].is # "blank"
          BY Zenon DEF PlainOperation, interfaces
        <5> QED
          BY <2>1, <3>1, <5>1, Zenon DEF pieces
      <4> QED
        BY <4>1, <4>2, PrefixIsOwn
    <3>5. (\A b \in r.body : Mentions(pieces[k], b))
            <=> (r.body # {} => pieces[k].body /\ r.body \subseteq pieces[k].sent)
      <4>1. ASSUME pieces[k].body, NEW b \in r.body
            PROVE  Mentions(pieces[k], b) <=> b \in pieces[k].sent
        <5>1. \A m \in pieces[k].sent \cup pieces[k].returned : b \in SubSeqs(m) => b \in pieces[k].sent
          BY <2>1, <3>1, <4>1 DEF PlainOperation, interfaces, pieces
        <5>2. b \in SubSeqs(b)
          BY PartOfItself
        <5> QED
          BY <4>1, <5>1, <5>2 DEF Mentions
      <4>2. \A b : Mentions(pieces[k], b) => pieces[k].body
        BY DEF Mentions
      <4> QED
        BY <4>1, <4>2
    <3>6. AuditOperation(interfaces, r) = {} <=>
            /\ r.method \in Prefix(pieces, k)
            /\ \A x \in r.subroute : x \in Prefix(pieces, k)
            /\ \A h \in r.headers : h \in pieces[k].headers
            /\ \A b \in r.body : Mentions(pieces[k], b)
            /\ r.audience = IF r.admin THEN "admin" ELSE "public"
      BY <1>6, <2>8, NoComplaint DEF i, pieces, k
    <3>7. AgreesAt(i, k) <=>
            /\ {r.method} \cup r.subroute \subseteq Own(pieces, k)
            /\ r.headers \subseteq pieces[k].headers
            /\ r.body # {} => pieces[k].body /\ r.body \subseteq pieces[k].sent
      BY <3>1 DEF AgreesAt, pieces
    <3> HIDE DEF interfaces
    <3>8. AuditOperation(interfaces, r) = {} <=> OperationAgrees(in, r)
      BY <3>2, <3>3, <3>5, <3>6, <3>7
    <3> QED
      BY <3>8 DEF interfaces
  <2> QED
    BY <2>7, <2>8
<1> QED
  BY <1>5, <1>6

\* The publication.
LEMMA PublicationPasses ==
  ASSUME NEW publication, NEW policy
  PROVE  AuditPublication(publication, policy) = {} <=>
           /\ publication.draft = Draft
           /\ publication.id = policy.expectedId /\ publication.id # policy.forbiddenId
           /\ policy.definitions \subseteq publication.defs
<1> DEFINE A == {publication.draft} \ {Draft}
           B == {publication.id} \ {policy.expectedId}
           C == {publication.id} \cap {policy.forbiddenId}
           D == policy.definitions \ publication.defs
<1>1. AuditPublication(publication, policy)
        = {<<"draft", d>> : d \in A} \cup {<<"id", x>> : x \in B} \cup {<<"authority", x>> : x \in C}
          \cup {<<"definition", d>> : d \in D}
  BY DEF AuditPublication
<1>2. /\ A = {} <=> publication.draft = Draft
      /\ B = {} <=> publication.id = policy.expectedId
      /\ C = {} <=> publication.id # policy.forbiddenId
      /\ D = {} <=> policy.definitions \subseteq publication.defs
  OBVIOUS
<1> HIDE DEF A, B, C, D
<1>3. AuditPublication(publication, policy) = {} <=> A = {} /\ B = {} /\ C = {} /\ D = {}
  BY <1>1
<1> QED
  BY <1>2, <1>3

-----------------------------------------------------------------------------
(* The whole audit.                                                        *)

LEMMA EmptyRange == ASSUME NEW f PROVE UNION Range(f) = {} <=> \A x \in DOMAIN f : f[x] = {}
  BY DEF Range

\* The status is PASS when nothing differs anywhere.
LEMMA StatusOfReceipt ==
  ASSUME NEW in
  PROVE  Receipt(in).status = "PASS" <=>
           /\ \A i \in DOMAIN in.policy.pairs :
                AuditModelPair(ParseTypeSpec(in.typespec.lines), in.schema, in.policy.pairs[i]) = {}
           /\ \A i \in DOMAIN in.policy.operations :
                AuditOperation(in.typespec.interfaces, in.policy.operations[i]) = {}
           /\ AuditPublication(in.publication, in.policy) = {}
<1> DEFINE pairs == [i \in DOMAIN in.policy.pairs |->
                       AuditModelPair(ParseTypeSpec(in.typespec.lines), in.schema, in.policy.pairs[i])]
           operations == [i \in DOMAIN in.policy.operations |->
                            AuditOperation(in.typespec.interfaces, in.policy.operations[i])]
           publication == AuditPublication(in.publication, in.policy)
           A == UNION Range(pairs)
           B == UNION Range(operations)
           all == publication \cup A \cup B
<1>1. Receipt(in).status = Status(all)
  BY DEF Receipt
<1>2. Status(all) = "PASS" <=> all = {}
  BY DEF Status, Stopped
<1> HIDE DEF publication
<1>3. A = {} <=> \A i \in DOMAIN pairs : pairs[i] = {}
  BY EmptyRange
<1>4. B = {} <=> \A i \in DOMAIN operations : operations[i] = {}
  BY EmptyRange
<1> HIDE DEF A, B, pairs, operations
<1>5. all = {} <=> /\ publication = {}
                   /\ \A i \in DOMAIN pairs : pairs[i] = {}
                   /\ \A i \in DOMAIN operations : operations[i] = {}
  BY <1>3, <1>4
<1> QED
  BY <1>1, <1>2, <1>5 DEF pairs, operations, publication

\* Of sources in a plain layout, whose audit does not fail, the status is PASS exactly when
\* they agree.
LEMMA PassMeansAgree ==
  ASSUME NEW in \in Sources, Plain(in), ~AuditFails(in)
  PROVE  Receipt(in).status = "PASS" <=> Agree(in)
<1> DEFINE doc == ParseTypeSpec(in.typespec.lines)
<1>1. WellFormed(in)
  BY SourcesAssumption
<1>2. \A i \in DOMAIN in.policy.pairs :
        AuditModelPair(doc, in.schema, in.policy.pairs[i]) = {} <=> PairAgrees(in, in.policy.pairs[i])
  BY <1>1, PairPasses DEF AuditFails, Plain
<1>3. \A i \in DOMAIN in.policy.operations :
        AuditOperation(in.typespec.interfaces, in.policy.operations[i]) = {}
          <=> OperationAgrees(in, in.policy.operations[i])
  <2> SUFFICES ASSUME NEW i \in DOMAIN in.policy.operations
               PROVE  AuditOperation(in.typespec.interfaces, in.policy.operations[i]) = {}
                        <=> OperationAgrees(in, in.policy.operations[i])
    OBVIOUS
  <2>1. in.policy.operations[i].operation \in Words /\ in.policy.operations[i].body \subseteq Words
    BY <1>1 DEF WellFormed
  <2>2. PlainOperation(in.typespec.interfaces, in.policy.operations[i])
    BY DEF Plain, PlainOperations
  <2> QED
    BY <1>1, <2>1, <2>2, OperationPasses
<1>4. AuditPublication(in.publication, in.policy) = {} <=>
        /\ in.publication.draft = Draft
        /\ in.publication.id = in.policy.expectedId /\ in.publication.id # in.policy.forbiddenId
        /\ in.policy.definitions \subseteq in.publication.defs
  BY PublicationPasses
<1> HIDE DEF doc
<1>5. Receipt(in).status = "PASS" <=>
        /\ \A i \in DOMAIN in.policy.pairs : AuditModelPair(doc, in.schema, in.policy.pairs[i]) = {}
        /\ \A i \in DOMAIN in.policy.operations :
             AuditOperation(in.typespec.interfaces, in.policy.operations[i]) = {}
        /\ AuditPublication(in.publication, in.policy) = {}
  BY StatusOfReceipt DEF doc
<1> QED
  BY <1>2, <1>3, <1>4, <1>5 DEF Agree

\* The gate is closed to what differs: under --require-pass, exit code 0 says that the model,
\* the operations and the publication agree, however many there are of each.
THEOREM PassesOnlyAgreement == Spec => []PassIsAgreement
<1>1. IInv => PassIsAgreement
  <2> SUFFICES ASSUME IInv, pc = "done", code = 0, options.pass, Plain(files) PROVE Agree(files)
    BY DEF PassIsAgreement
  <2>1. files \in Sources /\ ~AuditFails(files) /\ result = Receipt(files)
    BY DEF IInv, Audited
  <2>2. code = Verdict(result.status)
    BY DEF IInv, Written
  <2>3. result.status = "PASS"
    BY <2>2 DEF Verdict
  <2> QED
    BY <2>1, <2>3, PassMeansAgree
<1> QED
  BY <1>1, Invariance, PTL

\* The gate is open to what agrees.
THEOREM AgreementIsPassed == Spec => []AgreementPasses
<1>1. IInv => AgreementPasses
  <2> SUFFICES ASSUME IInv, pc = "done", ArgumentsFit(options), Plain(files), Agree(files),
                      \A file \in DOMAIN files.good : Readable(file) /\ files.good[file] = "fits",
                      PolicyFits(files.policy), files.policy.expected = "PASS", ~AuditFails(files)
               PROVE  result # NoReceipt
    BY DEF AgreementPasses
  <2>1. AsExpected(files)
    BY PassMeansAgree DEF IInv, AsExpected
  <2> QED
    BY <2>1 DEF IInv, Refused
<1> QED
  BY <1>1, Invariance, PTL
=============================================================================
