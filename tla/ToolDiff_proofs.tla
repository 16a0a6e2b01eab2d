--------------------------- MODULE ToolDiff_proofs ---------------------------
(***************************************************************************)
(* Proofs about the diff of a tool card, for contents of every length and  *)
(* every cap on what is compared: the diff loses and invents nothing, its  *)
(* loop is never left without a row to add, and no smaller diff exists.    *)
(*                                                                         *)
(* The first two rest on one fact: what is left of lcs can be found, in    *)
(* its order, in what is left of each content. The way back through the    *)
(* table builds lcs so that this holds, whatever the table says, and the   *)
(* walk keeps it.                                                          *)
(*                                                                         *)
(* The last one is about what the table says. That an entry is the length  *)
(* of a longest common subsequence is an induction over the two lengths,   *)
(* carried out as a least counterexample: a set of numbers that is not     *)
(* empty has a least element (LeastNumber, from the library's WFMin).      *)
(***************************************************************************)
EXTENDS ToolDiff, SequenceTheorems, WellFoundedInduction, TLAPS

\* The elements of s after k are found in c after n, in their order.
Embeds(s, k, c, n) ==
    \E f \in [k+1..Len(s) -> n+1..Len(c)] :
        /\ \A x, y \in k+1..Len(s) : x < y => f[x] < f[y]
        /\ \A x \in k+1..Len(s) : s[x] = c[f[x]]

(* Lemmas about embeddings.                                                *)

\* The empty sequence is found anywhere.
LEMMA EmbedsEmpty ==
    ASSUME NEW c \in Seq(Lines), NEW n \in Nat
    PROVE  Embeds(<<>>, 0, c, n)
<1> DEFINE f == [x \in 1..0 |-> x]
<1>1. 0+1..Len(<<>>) = 1..0 /\ \A x \in 1..0 : FALSE
  OBVIOUS
<1>2. f \in [0+1..Len(<<>>) -> n+1..Len(c)]
  BY <1>1
<1> HIDE DEF f
<1> QED
  BY <1>1, <1>2 DEF Embeds

\* What is found after n is found after m, if m comes first.
LEMMA EmbedsBefore ==
    ASSUME NEW s \in Seq(Lines), NEW c \in Seq(Lines), NEW k \in Nat,
           NEW n \in Nat, NEW m \in Nat, m <= n, Embeds(s, k, c, n)
    PROVE  Embeds(s, k, c, m)
<1>1. PICK f \in [k+1..Len(s) -> n+1..Len(c)] :
            /\ \A x, y \in k+1..Len(s) : x < y => f[x] < f[y]
            /\ \A x \in k+1..Len(s) : s[x] = c[f[x]]
  BY DEF Embeds
<1>2. f \in [k+1..Len(s) -> m+1..Len(c)]
  <2>1. n+1..Len(c) \subseteq m+1..Len(c)
    OBVIOUS
  <2> QED
    BY <2>1
<1>3. /\ f \in [k+1..Len(s) -> m+1..Len(c)]
      /\ \A x, y \in k+1..Len(s) : x < y => f[x] < f[y]
      /\ \A x \in k+1..Len(s) : s[x] = c[f[x]]
  BY <1>1, <1>2
<1> QED
  BY <1>3 DEF Embeds

\* A line of c found before all the others comes to the front.
LEMMA EmbedsFront ==
    ASSUME NEW s \in Seq(Lines), NEW c \in Seq(Lines), NEW n \in 1..Len(c),
           Embeds(s, 0, c, n)
    PROVE  Embeds(<<c[n]>> \o s, 0, c, n - 1)
<1> DEFINE t == <<c[n]>> \o s
<1>1. /\ t \in Seq(Lines) /\ Len(t) = Len(s) + 1 /\ t[1] = c[n]
      /\ \A x \in 2..Len(t) : t[x] = s[x - 1]
  OBVIOUS
<1> HIDE DEF t
<1>2. PICK f \in [1..Len(s) -> n+1..Len(c)] :
            /\ \A x, y \in 1..Len(s) : x < y => f[x] < f[y]
            /\ \A x \in 1..Len(s) : s[x] = c[f[x]]
  BY DEF Embeds
<1> DEFINE g == [x \in 1..Len(t) |-> IF x = 1 THEN n ELSE f[x - 1]]
<1>3. \A x \in 1..Len(t) : x # 1 => x - 1 \in 1..Len(s) /\ f[x - 1] \in n+1..Len(c)
  <2> TAKE x \in 1..Len(t)
  <2>1. Len(s) \in Nat /\ (x # 1 => x - 1 \in 1..Len(s))
    BY <1>1, LenProperties
  <2> QED
    BY <2>1
<1>4. Len(c) \in Nat /\ n \in n..Len(c) /\ n \in Nat
  BY LenProperties
<1>5. g \in [1..Len(t) -> n..Len(c)]
  <2>1. \A x \in 1..Len(t) : (IF x = 1 THEN n ELSE f[x - 1]) \in n..Len(c)
    BY <1>4, <1>3
  <2> QED
    BY <2>1
<1>6. \A x, y \in 1..Len(t) : x < y => g[x] < g[y]
  <2> TAKE x \in 1..Len(t), y \in 1..Len(t)
  <2> HAVE x < y
  <2>1. y # 1 /\ g[y] = f[y - 1] /\ y - 1 \in 1..Len(s)
    BY <1>3
  <2>2. CASE x = 1
    BY <2>1, <2>2, <1>4, <1>3
  <2>3. CASE x # 1
    <3>1. g[x] = f[x - 1] /\ x - 1 \in 1..Len(s) /\ x - 1 < y - 1
      BY <2>3, <1>3
    <3> QED
      BY <3>1, <2>1, <1>2
  <2> QED
    BY <2>2, <2>3
<1>7. \A x \in 1..Len(t) : t[x] = c[g[x]]
  <2> TAKE x \in 1..Len(t)
  <2>1. CASE x = 1
    BY <2>1, <1>1
  <2>2. CASE x # 1
    <3>1. x \in 2..Len(t) /\ g[x] = f[x - 1] /\ x - 1 \in 1..Len(s)
      BY <2>2, <1>1, <1>3
    <3> QED
      BY <3>1, <1>1, <1>2
  <2> QED
    BY <2>1, <2>2
<1>8. n - 1 + 1 = n /\ 0 + 1 = 1
  BY <1>4
<1> HIDE DEF g
<1>9. Embeds(t, 0, c, n - 1)
  BY <1>5, <1>6, <1>7, <1>8 DEF Embeds
<1> QED
  BY <1>9 DEF t

\* A line of c that is not the next one of s is passed over.
LEMMA EmbedsSkip ==
    ASSUME NEW s \in Seq(Lines), NEW c \in Seq(Lines), NEW k \in 0..Len(s),
           NEW n \in 0..Len(c), n < Len(c),
           ~(k < Len(s) /\ c[n+1] = s[k+1]), Embeds(s, k, c, n)
    PROVE  Embeds(s, k, c, n + 1)
<1>1. PICK f \in [k+1..Len(s) -> n+1..Len(c)] :
            /\ \A x, y \in k+1..Len(s) : x < y => f[x] < f[y]
            /\ \A x \in k+1..Len(s) : s[x] = c[f[x]]
  BY DEF Embeds
<1>2. \A x \in k+1..Len(s) : f[x] \in n+2..Len(c)
  <2> TAKE x \in k+1..Len(s)
  <2>a. /\ k \in Nat /\ n \in Nat /\ Len(s) \in Nat /\ Len(c) \in Nat /\ x \in Nat
        /\ k + 1 \in k+1..Len(s) /\ k < Len(s) /\ (x = k + 1 \/ k + 1 < x)
    BY LenProperties
  <2>b. f[k+1] \in n+1..Len(c) /\ f[x] \in n+1..Len(c) /\ s[k+1] = c[f[k+1]]
    BY <1>1, <2>a
  <2>1. f[k+1] # n + 1 /\ f[k+1] \in n+1..Len(c)
    BY <2>a, <2>b
  <2>c. x = k + 1 \/ f[k+1] < f[x]
    BY <1>1, <2>a
  <2>2. f[k+1] <= f[x] /\ f[x] \in n+1..Len(c)
    BY <2>a, <2>b, <2>c
  <2> QED
    BY <2>a, <2>1, <2>2
<1>3. f \in [k+1..Len(s) -> (n+1)+1..Len(c)]
  BY <1>2
<1> QED
  BY <1>1, <1>3 DEF Embeds

\* A line of c that is the next one of s is taken.
LEMMA EmbedsTake ==
    ASSUME NEW s \in Seq(Lines), NEW c \in Seq(Lines), NEW k \in 0..Len(s),
           NEW n \in 0..Len(c), n < Len(c), k < Len(s), Embeds(s, k, c, n)
    PROVE  Embeds(s, k + 1, c, n + 1)
<1>1. PICK f \in [k+1..Len(s) -> n+1..Len(c)] :
            /\ \A x, y \in k+1..Len(s) : x < y => f[x] < f[y]
            /\ \A x \in k+1..Len(s) : s[x] = c[f[x]]
  BY DEF Embeds
<1> DEFINE g == [x \in (k+1)+1..Len(s) |-> f[x]]
<1>2. \A x \in (k+1)+1..Len(s) : f[x] \in (n+1)+1..Len(c)
  <2> TAKE x \in (k+1)+1..Len(s)
  <2>a. /\ k \in Nat /\ n \in Nat /\ Len(s) \in Nat /\ Len(c) \in Nat /\ x \in Nat
        /\ k + 1 \in k+1..Len(s) /\ x \in k+1..Len(s) /\ k + 1 < x
    BY LenProperties
  <2>1. f[k+1] \in n+1..Len(c) /\ f[x] \in n+1..Len(c)
    BY <1>1, <2>a
  <2>2. f[k+1] < f[x]
    BY <1>1, <2>a
  <2> QED
    BY <2>a, <2>1, <2>2
<1>3. g \in [(k+1)+1..Len(s) -> (n+1)+1..Len(c)]
  BY <1>2
<1>4. /\ \A x, y \in (k+1)+1..Len(s) : x < y => g[x] < g[y]
      /\ \A x \in (k+1)+1..Len(s) : s[x] = c[g[x]]
  BY <1>1
<1> HIDE DEF g
<1> QED
  BY <1>3, <1>4 DEF Embeds

\* Where c has ended nothing of s is left.
LEMMA EmbedsAtEnd ==
    ASSUME NEW s \in Seq(Lines), NEW c \in Seq(Lines), NEW k \in 0..Len(s),
           Embeds(s, k, c, Len(c))
    PROVE  k = Len(s)
<1>1. PICK f \in [k+1..Len(s) -> Len(c)+1..Len(c)] : TRUE
  BY DEF Embeds
<1>2. SUFFICES ASSUME k + 1 \in k+1..Len(s)
               PROVE  FALSE
  OBVIOUS
<1>3. f[k+1] \in Len(c)+1..Len(c)
  BY <1>1, <1>2
<1> QED
  BY <1>3

\* One more line of a content is read.
LEMMA ReadOn ==
    ASSUME NEW c \in Seq(Lines), NEW n \in 0..Len(c), n < Len(c)
    PROVE  /\ Append(SubSeq(c, 1, n), c[n+1]) = SubSeq(c, 1, n + 1)
           /\ c[n+1] \in Lines /\ SubSeq(c, 1, n + 1) \in Seq(Lines)
<1>1. n + 1 \in 1..Len(c) /\ 1 \in 1..Len(c) /\ n + 1 \in 1..Len(c)
  OBVIOUS
<1>2. SubSeq(c, 1, n + 1) = SubSeq(c, 1, (n + 1) - 1) \o <<c[n+1]>>
  BY <1>1, SubSeqRecursiveSecond
<1>3. SubSeq(c, 1, n) \in Seq(Lines) /\ SubSeq(c, 1, n + 1) \in Seq(Lines)
  BY <1>1, SubSeqProperties
<1>4. (n + 1) - 1 = n /\ c[n+1] \in Lines
  BY <1>1
<1> QED
  BY <1>2, <1>3, <1>4, AppendIsConcat

(* The invariant.                                                          *)

Bounds ==
    /\ old \in Contents /\ new \in Contents
    /\ phase \in {"start", "trace", "walk", "done"}
    /\ i \in 0..Len(old) /\ j \in 0..Len(new) /\ lcs \in Seq(Lines)
    /\ oldIdx \in 0..Len(old) /\ newIdx \in 0..Len(new) /\ lcsIdx \in 0..Len(lcs)
    /\ shown \in [old : Seq(Lines), new : Seq(Lines), both : Seq(Lines)]

NothingShown ==
    /\ oldIdx = 0 /\ newIdx = 0 /\ lcsIdx = 0
    /\ shown = DiffRows(<<>>, <<>>, <<>>)

TraceFound ==
    phase = "trace" => NothingShown /\ Embeds(lcs, 0, old, i) /\ Embeds(lcs, 0, new, j)

WalkFound ==
    phase = "walk" =>
        /\ ~OneSided
        /\ Embeds(lcs, lcsIdx, old, oldIdx) /\ Embeds(lcs, lcsIdx, new, newIdx)
        /\ shown.old = SubSeq(old, 1, oldIdx)
        /\ shown.new = SubSeq(new, 1, newIdx)

IInv ==
    /\ Bounds
    /\ phase = "start" => NothingShown /\ lcs = <<>>
    /\ phase = "trace" => ~OneSided
    /\ TraceFound /\ WalkFound /\ ShowsBoth

\* A content is a sequence of lines, and so is what is compared of it.
LEMMA ContentFacts ==
    ASSUME NEW c \in Contents
    PROVE  /\ c \in Seq(Lines) /\ Len(c) \in Nat
           /\ SubSeq(c, 1, 0) = <<>> /\ SubSeq(c, 1, Len(c)) = c
           /\ Len(Capped(c)) \in 0..Len(c)
<1>1. c \in Seq(Lines) /\ MaxLines \in Nat
  BY DiffAssumption
<1>2. Len(c) \in Nat
  BY <1>1, LenProperties
<1> DEFINE n == IF Len(c) <= MaxLines THEN Len(c) ELSE MaxLines
<1>3. n \in 0..Len(c) /\ n \in Nat
  BY <1>1, <1>2
<1> HIDE DEF n
<1>4. \A m \in 0..Len(c) : Len(SubSeq(c, 1, m)) = m
  BY <1>1, <1>2
<1>5. Len(Capped(c)) \in 0..Len(c)
  BY <1>3, <1>4 DEF Capped, n
<1>6. SubSeq(c, 1, 0) = <<>> /\ SubSeq(c, 1, Len(c)) = c
  BY <1>1, <1>2
<1> QED
  BY <1>1, <1>2, <1>5, <1>6

\* The contents a tool call gives are contents, the empty one among them.
LEMMA InitInv == DiffInit => IInv
<1> SUFFICES ASSUME DiffInit
             PROVE  IInv
  OBVIOUS
<1>1. old \in Contents /\ new \in Contents
  BY DiffAssumption DEF DiffInit, DiffProps, Empty
<1>2. Len(old) \in Nat /\ Len(new) \in Nat
  BY <1>1, ContentFacts
<1>3. <<>> \in Seq(Lines) /\ Len(<<>>) = 0
  OBVIOUS
<1>4. Bounds
  BY <1>1, <1>2, <1>3 DEF DiffInit, Bounds, DiffRows
<1> QED
  BY <1>4 DEF DiffInit, IInv, NothingShown, TraceFound, WalkFound, ShowsBoth

\* A step on the way back through the table keeps what is found of lcs.
LEMMA TraceStep == IInv /\ (ShowOneSide \/ StartTrace \/ Match \/ DropLine \/ EndTrace) => IInv'
<1> SUFFICES ASSUME IInv, ShowOneSide \/ StartTrace \/ Match \/ DropLine \/ EndTrace
             PROVE  IInv'
  OBVIOUS
<1>0. Bounds
  BY DEF IInv
<1>1. /\ old \in Seq(Lines) /\ Len(old) \in Nat
      /\ new \in Seq(Lines) /\ Len(new) \in Nat
  BY <1>0, ContentFacts DEF Bounds
<1>2. CASE ShowOneSide
  <2>1. shown' \in [old : Seq(Lines), new : Seq(Lines), both : Seq(Lines)]
    BY <1>1, <1>2 DEF ShowOneSide, DiffRows
  <2>2. Bounds'
    BY <1>0, <1>2, <2>1 DEF ShowOneSide, Bounds, contentVars, traceVars
  <2>3. ShowsBoth'
    BY <1>2 DEF ShowOneSide, ShowsBoth, OneSided, DiffRows, contentVars
  <2> QED
    BY <1>2, <2>2, <2>3 DEF ShowOneSide, IInv, TraceFound, WalkFound
<1>3. CASE StartTrace
  <2>1. lcs = <<>> /\ lcs' = lcs /\ old' = old /\ new' = new /\ NothingShown
    BY <1>3 DEF IInv, StartTrace, contentVars
  <2>2. i' \in 0..Len(old) /\ j' \in 0..Len(new)
    BY <1>0, <1>3, ContentFacts DEF Bounds, StartTrace
  <2>3. Bounds'
    BY <1>0, <1>3, <2>1, <2>2 DEF StartTrace, Bounds, walkVars
  <2>4. Embeds(lcs', 0, old', i') /\ Embeds(lcs', 0, new', j')
    <3>1. i' \in Nat /\ j' \in Nat
      BY <2>2, <1>1
    <3> QED
      BY <1>1, <2>1, <3>1, EmbedsEmpty
  <2>5. NothingShown' /\ ~OneSided'
    BY <1>3, <2>1 DEF StartTrace, NothingShown, walkVars, OneSided
  <2> QED
    BY <1>3, <2>3, <2>4, <2>5 DEF StartTrace, IInv, TraceFound, WalkFound, ShowsBoth
<1>4. CASE Match
  <2>1. /\ Embeds(lcs, 0, old, i) /\ Embeds(lcs, 0, new, j) /\ NothingShown /\ ~OneSided
        /\ lcs \in Seq(Lines)
    BY <1>0, <1>4 DEF Match, IInv, TraceFound, Bounds
  <2>2. /\ i \in 1..Len(old) /\ j \in 1..Len(new) /\ old[i] = new[j]
        /\ i' = i - 1 /\ j' = j - 1 /\ old' = old /\ new' = new /\ lcs' = <<old[i]>> \o lcs
    BY <1>0, <1>1, <1>4 DEF Match, Bounds, contentVars
  <2>3. Embeds(<<old[i]>> \o lcs, 0, old, i - 1) /\ Embeds(<<new[j]>> \o lcs, 0, new, j - 1)
    BY <1>1, <2>1, <2>2, EmbedsFront
  <2>4. Embeds(lcs', 0, old', i') /\ Embeds(lcs', 0, new', j')
    BY <2>2, <2>3
  <2>5. lcs' \in Seq(Lines) /\ Len(lcs') \in Nat
    <3>1. old[i] \in Lines
      BY <1>1, <2>2
    <3> QED
      BY <2>1, <2>2, <3>1
  <2>6. i' \in 0..Len(old) /\ j' \in 0..Len(new)
    BY <1>1, <2>2
  <2>7. NothingShown' /\ ~OneSided'
    BY <1>4, <2>1 DEF Match, NothingShown, OneSided, contentVars, walkVars
  <2>8. Bounds'
    BY <1>0, <1>4, <2>2, <2>5, <2>6, <2>7 DEF Match, Bounds, walkVars, NothingShown
  <2> QED
    BY <1>4, <2>4, <2>7, <2>8 DEF Match, IInv, TraceFound, WalkFound, ShowsBoth
<1>5. CASE DropLine
  <2>1. /\ Embeds(lcs, 0, old, i) /\ Embeds(lcs, 0, new, j) /\ NothingShown /\ ~OneSided
        /\ lcs \in Seq(Lines)
    BY <1>0, <1>5 DEF DropLine, IInv, TraceFound, Bounds
  <2>2. /\ i \in 1..Len(old) /\ j \in 1..Len(new)
        /\ old' = old /\ new' = new /\ lcs' = lcs /\ phase' = phase
        /\ UNCHANGED walkVars
    <3>1. i > 0 /\ j > 0 /\ UNCHANGED <<contentVars, phase, lcs, walkVars>>
      BY <1>5 DEF DropLine
    <3> QED
      BY <1>0, <1>1, <3>1 DEF Bounds, contentVars
  <2>3. (i' = i - 1 /\ j' = j) \/ (i' = i /\ j' = j - 1)
    BY <1>5 DEF DropLine
  <2>4. i' \in 0..i /\ j' \in 0..j
    BY <2>2, <2>3, <1>1
  <2>5. Embeds(lcs, 0, old, i') /\ Embeds(lcs, 0, new, j')
    BY <1>1, <2>1, <2>2, <2>4, EmbedsBefore
  <2>6. Bounds'
    <3>1. i' \in 0..Len(old) /\ j' \in 0..Len(new)
      BY <1>1, <2>2, <2>4
    <3> QED
      BY <1>0, <2>2, <3>1 DEF Bounds, walkVars
  <2>7. NothingShown' /\ ~OneSided'
    BY <1>5, <2>1 DEF DropLine, NothingShown, OneSided, contentVars, walkVars
  <2> QED
    BY <1>5, <2>2, <2>5, <2>6, <2>7 DEF DropLine, IInv, TraceFound, WalkFound, ShowsBoth
<1>6. CASE EndTrace
  <2>1. /\ Embeds(lcs, 0, old, i) /\ Embeds(lcs, 0, new, j) /\ NothingShown /\ ~OneSided
    BY <1>6 DEF EndTrace, IInv, TraceFound
  <2>2. i \in Nat /\ j \in Nat /\ i >= 0 /\ j >= 0 /\ lcs \in Seq(Lines)
    BY <1>0, <1>1 DEF Bounds
  <2>3. Embeds(lcs, 0, old, 0) /\ Embeds(lcs, 0, new, 0)
    BY <1>1, <2>1, <2>2, EmbedsBefore
  <2>4. SubSeq(old, 1, 0) = <<>> /\ SubSeq(new, 1, 0) = <<>>
    BY <1>0, ContentFacts DEF Bounds
  <2>5. WalkFound'
    BY <1>6, <2>1, <2>3, <2>4
    DEF EndTrace, WalkFound, NothingShown, OneSided, DiffRows, contentVars, traceVars, walkVars
  <2>6. Bounds'
    BY <1>0, <1>6 DEF EndTrace, Bounds, contentVars, traceVars, walkVars
  <2> QED
    BY <1>6, <2>5, <2>6 DEF EndTrace, IInv, TraceFound, ShowsBoth
<1> QED
  BY <1>2, <1>3, <1>4, <1>5, <1>6

\* What the walk stands on, for the lemma below.
LEMMA WalkFacts ==
    ASSUME IInv, phase = "walk"
    PROVE  /\ old \in Seq(Lines) /\ Len(old) \in Nat /\ oldIdx \in 0..Len(old)
           /\ new \in Seq(Lines) /\ Len(new) \in Nat /\ newIdx \in 0..Len(new)
           /\ lcs \in Seq(Lines) /\ Len(lcs) \in Nat /\ lcsIdx \in 0..Len(lcs)
           /\ Embeds(lcs, lcsIdx, old, oldIdx) /\ Embeds(lcs, lcsIdx, new, newIdx)
           /\ shown.old = SubSeq(old, 1, oldIdx) /\ shown.new = SubSeq(new, 1, newIdx)
           /\ shown \in [old : Seq(Lines), new : Seq(Lines), both : Seq(Lines)]
           /\ ~OneSided
<1>1. old \in Contents /\ new \in Contents /\ lcs \in Seq(Lines)
  BY DEF IInv, Bounds
<1> QED
  BY <1>1, ContentFacts, LenProperties DEF IInv, Bounds, WalkFound

\* A row of the walk keeps what is found of lcs in what is left.
LEMMA WalkStep == IInv /\ (Context \/ Added \/ Removed \/ EndWalk) => IInv'
<1> SUFFICES ASSUME IInv, Context \/ Added \/ Removed \/ EndWalk
             PROVE  IInv'
  OBVIOUS
<1>0. phase = "walk" /\ Bounds
  BY DEF IInv, Context, Added, Removed, EndWalk
<1>1. /\ old \in Seq(Lines) /\ Len(old) \in Nat /\ oldIdx \in 0..Len(old)
      /\ new \in Seq(Lines) /\ Len(new) \in Nat /\ newIdx \in 0..Len(new)
      /\ lcs \in Seq(Lines) /\ Len(lcs) \in Nat /\ lcsIdx \in 0..Len(lcs)
  BY <1>0, WalkFacts
<1>2. Embeds(lcs, lcsIdx, old, oldIdx) /\ Embeds(lcs, lcsIdx, new, newIdx)
  BY <1>0, WalkFacts
<1>3. /\ shown.old = SubSeq(old, 1, oldIdx) /\ shown.new = SubSeq(new, 1, newIdx)
      /\ shown \in [old : Seq(Lines), new : Seq(Lines), both : Seq(Lines)]
      /\ ~OneSided
  BY <1>0, WalkFacts
<1>4. CASE Context
  <2>1. /\ oldIdx < Len(old) /\ newIdx < Len(new) /\ lcsIdx < Len(lcs)
        /\ old[oldIdx + 1] = new[newIdx + 1]
    BY <1>4 DEF Context, OldIsNext, NewIsNext
  <2>2. /\ oldIdx' = oldIdx + 1 /\ newIdx' = newIdx + 1 /\ lcsIdx' = lcsIdx + 1
        /\ old' = old /\ new' = new /\ lcs' = lcs /\ i' = i /\ j' = j /\ phase' = phase
        /\ shown' = DiffRows(Append(shown.old, old[oldIdx + 1]), Append(shown.new, old[oldIdx + 1]),
                             Append(shown.both, old[oldIdx + 1]))
    BY <1>4 DEF Context, contentVars, traceVars
  <2>3. Embeds(lcs, lcsIdx + 1, old, oldIdx + 1) /\ Embeds(lcs, lcsIdx + 1, new, newIdx + 1)
    BY <1>1, <1>2, <2>1, EmbedsTake
  <2>4. /\ Append(shown.old, old[oldIdx + 1]) = SubSeq(old, 1, oldIdx + 1)
        /\ Append(shown.new, new[newIdx + 1]) = SubSeq(new, 1, newIdx + 1)
        /\ old[oldIdx + 1] \in Lines
        /\ SubSeq(old, 1, oldIdx + 1) \in Seq(Lines) /\ SubSeq(new, 1, newIdx + 1) \in Seq(Lines)
    BY <1>1, <1>3, <2>1, ReadOn
  <2>5. /\ oldIdx' \in 0..Len(old) /\ newIdx' \in 0..Len(new) /\ lcsIdx' \in 0..Len(lcs)
    BY <1>1, <2>1, <2>2
  <2>6. shown' \in [old : Seq(Lines), new : Seq(Lines), both : Seq(Lines)]
    <3>1. Append(shown.both, old[oldIdx + 1]) \in Seq(Lines)
      BY <1>3, <2>4
    <3>2. Append(shown.old, old[oldIdx + 1]) \in Seq(Lines)
      BY <2>4
    <3>3. Append(shown.new, old[oldIdx + 1]) \in Seq(Lines)
      BY <2>1, <2>4
    <3> QED
      BY <2>2, <3>1, <3>2, <3>3 DEF DiffRows
  <2>7. Bounds'
    BY <1>0, <2>2, <2>5, <2>6 DEF Bounds
  <2>8. shown'.old = SubSeq(old, 1, oldIdx + 1) /\ shown'.new = SubSeq(new, 1, newIdx + 1)
    BY <2>1, <2>2, <2>4 DEF DiffRows
  <2>9. WalkFound'
    BY <1>3, <2>2, <2>3, <2>8 DEF WalkFound, OneSided
  <2> QED
    BY <1>0, <2>2, <2>7, <2>9 DEF IInv, TraceFound, ShowsBoth
<1>5. CASE Added
  <2>1. newIdx < Len(new) /\ ~(lcsIdx < Len(lcs) /\ new[newIdx + 1] = lcs[lcsIdx + 1])
    BY <1>5 DEF Added, NewIsNext
  <2>2. /\ oldIdx' = oldIdx /\ newIdx' = newIdx + 1 /\ lcsIdx' = lcsIdx
        /\ old' = old /\ new' = new /\ lcs' = lcs /\ i' = i /\ j' = j /\ phase' = phase
        /\ shown' = [shown EXCEPT !.new = Append(@, new[newIdx + 1])]
    BY <1>5 DEF Added, contentVars, traceVars
  <2>3. Embeds(lcs, lcsIdx, new, newIdx + 1)
    BY <1>1, <1>2, <2>1, EmbedsSkip
  <2>4. /\ Append(shown.new, new[newIdx + 1]) = SubSeq(new, 1, newIdx + 1)
        /\ SubSeq(new, 1, newIdx + 1) \in Seq(Lines)
    BY <1>1, <1>3, <2>1, ReadOn
  <2>5. newIdx' \in 0..Len(new)
    BY <1>1, <2>1, <2>2
  <2>6. /\ shown' \in [old : Seq(Lines), new : Seq(Lines), both : Seq(Lines)]
        /\ shown'.old = SubSeq(old, 1, oldIdx) /\ shown'.new = SubSeq(new, 1, newIdx + 1)
    BY <1>3, <2>2, <2>4
  <2>7. Bounds'
    BY <1>0, <2>2, <2>5, <2>6 DEF Bounds
  <2>8. WalkFound'
    BY <1>2, <1>3, <2>2, <2>3, <2>6 DEF WalkFound, OneSided
  <2> QED
    BY <1>0, <2>2, <2>7, <2>8 DEF IInv, TraceFound, ShowsBoth
<1>6. CASE Removed
  <2>1. oldIdx < Len(old)
    BY <1>6 DEF Removed
  <2>2. ~(lcsIdx < Len(lcs) /\ old[oldIdx + 1] = lcs[lcsIdx + 1])
    <3>1. CASE newIdx = Len(new)
      BY <1>1, <1>2, <3>1, EmbedsAtEnd
    <3>2. CASE newIdx # Len(new)
      BY <1>6, <3>2, <2>1 DEF Removed, OldIsNext
    <3> QED
      BY <3>1, <3>2
  <2>3. /\ oldIdx' = oldIdx + 1 /\ newIdx' = newIdx /\ lcsIdx' = lcsIdx
        /\ old' = old /\ new' = new /\ lcs' = lcs /\ i' = i /\ j' = j /\ phase' = phase
        /\ shown' = [shown EXCEPT !.old = Append(@, old[oldIdx + 1])]
    BY <1>6 DEF Removed, contentVars, traceVars
  <2>4. Embeds(lcs, lcsIdx, old, oldIdx + 1)
    BY <1>1, <1>2, <2>1, <2>2, EmbedsSkip
  <2>5. /\ Append(shown.old, old[oldIdx + 1]) = SubSeq(old, 1, oldIdx + 1)
        /\ SubSeq(old, 1, oldIdx + 1) \in Seq(Lines)
    BY <1>1, <1>3, <2>1, ReadOn
  <2>6. oldIdx' \in 0..Len(old)
    BY <1>1, <2>1, <2>3
  <2>7. /\ shown' \in [old : Seq(Lines), new : Seq(Lines), both : Seq(Lines)]
        /\ shown'.old = SubSeq(old, 1, oldIdx + 1) /\ shown'.new = SubSeq(new, 1, newIdx)
    BY <1>3, <2>3, <2>5
  <2>8. Bounds'
    BY <1>0, <2>3, <2>6, <2>7 DEF Bounds
  <2>9. WalkFound'
    BY <1>2, <1>3, <2>3, <2>4, <2>7 DEF WalkFound, OneSided
  <2> QED
    BY <1>0, <2>3, <2>8, <2>9 DEF IInv, TraceFound, ShowsBoth
<1>7. CASE EndWalk
  <2>1. /\ oldIdx = Len(old) /\ newIdx = Len(new) /\ phase' = "done"
        /\ old' = old /\ new' = new /\ shown' = shown
    BY <1>7 DEF EndWalk, AtEnd, contentVars, walkVars
  <2>2. shown.old = old /\ shown.new = new
    BY <1>0, <1>3, <2>1, ContentFacts DEF Bounds
  <2>3. ShowsBoth'
    BY <1>3, <2>1, <2>2 DEF ShowsBoth, OneSided
  <2>4. Bounds'
    BY <1>0, <1>7 DEF EndWalk, Bounds, contentVars, traceVars, walkVars
  <2> QED
    BY <2>1, <2>3, <2>4 DEF IInv, TraceFound, WalkFound
<1> QED
  BY <1>4, <1>5, <1>6, <1>7

\* The invariant holds in every state of every diff.
LEMMA IInvHolds == DiffSpec => []IInv
<1>1. IInv /\ [DiffNext]_diffVars => IInv'
  <2> SUFFICES ASSUME IInv, [DiffNext]_diffVars
               PROVE  IInv'
    OBVIOUS
  <2>1. CASE DiffNext
    BY <2>1, TraceStep, WalkStep DEF DiffNext
  <2>2. CASE UNCHANGED diffVars
    BY <2>2 DEF diffVars, contentVars, traceVars, walkVars, IInv, Bounds, NothingShown,
                TraceFound, WalkFound, ShowsBoth, OneSided
  <2> QED
    BY <2>1, <2>2
<1> QED
  BY <1>1, InitInv, PTL DEF DiffSpec

(* Longest matches, and the table of their lengths.                        *)

\* A set of numbers that is not empty has a least one.
LEMMA LeastNumber ==
    ASSUME NEW T, T \subseteq Nat, T # {}
    PROVE  \E n \in T : \A m \in T : n <= m
<1> DEFINE R == OpToRel(<, Nat)
<1>1. IsWellFoundedOn(R, Nat)
  BY NatLessThanWellFounded
<1>2. \A x, y \in Nat : y < x => <<y, x>> \in R
  BY DEF OpToRel
<1> HIDE DEF R
<1>3. PICK n \in T : \A m \in T : ~(<<m, n>> \in R)
  BY <1>1, WFMin
<1>4. \A m \in T : n <= m
  <2> TAKE m \in T
  <2>1. ~(m < n) /\ m \in Nat /\ n \in Nat
    BY <1>2, <1>3
  <2> QED
    BY <2>1
<1> QED
  BY <1>4

\* k of the first m lines of a are, in their order, k of the first n of b.
CommonTo(a, m, b, n, k) ==
    \E p \in [1..k -> 1..m], q \in [1..k -> 1..n] :
        /\ \A x, y \in 1..k : x < y => p[x] < p[y] /\ q[x] < q[y]
        /\ \A x \in 1..k : a[p[x]] = b[q[x]]

\* And no more than l are.
Longest(a, m, b, n, l) ==
    /\ CommonTo(a, m, b, n, l)
    /\ \A k \in Nat : CommonTo(a, m, b, n, k) => k <= l

\* Longer beginnings have the same lines in common.
LEMMA CommonFurther ==
    ASSUME NEW a, NEW b, NEW m \in Nat, NEW n \in Nat, NEW mm \in Nat, NEW nn \in Nat,
           m <= mm, n <= nn, NEW k \in Nat, CommonTo(a, m, b, n, k)
    PROVE  CommonTo(a, mm, b, nn, k)
<1>1. PICK p \in [1..k -> 1..m], q \in [1..k -> 1..n] :
            /\ \A x, y \in 1..k : x < y => p[x] < p[y] /\ q[x] < q[y]
            /\ \A x \in 1..k : a[p[x]] = b[q[x]]
  BY DEF CommonTo
<1>2. p \in [1..k -> 1..mm] /\ q \in [1..k -> 1..nn]
  <2>1. 1..m \subseteq 1..mm /\ 1..n \subseteq 1..nn
    OBVIOUS
  <2> QED
    BY <2>1
<1> QED
  BY <1>1, <1>2 DEF CommonTo

\* Where one of the two has not begun nothing is common.
LEMMA LongestNone ==
    ASSUME NEW a, NEW b, NEW m \in Nat, NEW n \in Nat, m = 0 \/ n = 0
    PROVE  Longest(a, m, b, n, 0)
<1>1. CommonTo(a, m, b, n, 0)
  <2> DEFINE p == [x \in 1..0 |-> x]
  <2>1. p \in [1..0 -> 1..m] /\ p \in [1..0 -> 1..n] /\ \A x \in 1..0 : FALSE
    OBVIOUS
  <2> HIDE DEF p
  <2> QED
    BY <2>1 DEF CommonTo
<1>2. ASSUME NEW k \in Nat, CommonTo(a, m, b, n, k), k > 0
      PROVE  FALSE
  <2>1. PICK p \in [1..k -> 1..m], q \in [1..k -> 1..n] : TRUE
    BY <1>2 DEF CommonTo
  <2>2. 1 \in 1..k
    BY <1>2
  <2>3. p[1] \in 1..m /\ q[1] \in 1..n
    BY <2>1, <2>2
  <2> QED
    BY <2>3
<1> QED
  BY <1>1, <1>2 DEF Longest

\* A common last line is one more.
LEMMA LongestMatch ==
    ASSUME NEW a, NEW b, NEW m \in Nat \ {0}, NEW n \in Nat \ {0}, a[m] = b[n],
           NEW l \in Nat, Longest(a, m - 1, b, n - 1, l)
    PROVE  Longest(a, m, b, n, l + 1)
<1>1. CommonTo(a, m, b, n, l + 1)
  <2>1. PICK p \in [1..l -> 1..m-1], q \in [1..l -> 1..n-1] :
            /\ \A x, y \in 1..l : x < y => p[x] < p[y] /\ q[x] < q[y]
            /\ \A x \in 1..l : a[p[x]] = b[q[x]]
    BY DEF Longest, CommonTo
  <2> DEFINE pp == [x \in 1..l+1 |-> IF x = l + 1 THEN m ELSE p[x]]
             qq == [x \in 1..l+1 |-> IF x = l + 1 THEN n ELSE q[x]]
  <2>2. \A x \in 1..l+1 : x # l + 1 => x \in 1..l /\ p[x] \in 1..m-1 /\ q[x] \in 1..n-1
    OBVIOUS
  <2>a. \A x \in 1..l+1 : (IF x = l + 1 THEN m ELSE p[x]) \in 1..m
    BY <2>2
  <2>b. \A x \in 1..l+1 : (IF x = l + 1 THEN n ELSE q[x]) \in 1..n
    BY <2>2
  <2>3. pp \in [1..l+1 -> 1..m] /\ qq \in [1..l+1 -> 1..n]
    BY <2>a, <2>b
  <2>4. \A x, y \in 1..l+1 : x < y => pp[x] < pp[y] /\ qq[x] < qq[y]
    <3> TAKE x \in 1..l+1, y \in 1..l+1
    <3> HAVE x < y
    <3>1. x # l + 1 /\ pp[x] = p[x] /\ qq[x] = q[x]
      OBVIOUS
    <3>2. CASE y = l + 1
      <4>1. p[x] \in 1..m-1 /\ q[x] \in 1..n-1 /\ pp[y] = m /\ qq[y] = n
        BY <3>1, <3>2, <2>2
      <4> QED
        BY <4>1, <3>1
    <3>3. CASE y # l + 1
      BY <3>1, <3>3, <2>1, <2>2
    <3> QED
      BY <3>2, <3>3
  <2>5. \A x \in 1..l+1 : a[pp[x]] = b[qq[x]]
    BY <2>1, <2>2
  <2> HIDE DEF pp, qq
  <2> QED
    BY <2>3, <2>4, <2>5 DEF CommonTo
<1>2. ASSUME NEW k \in Nat, CommonTo(a, m, b, n, k), k > 0
      PROVE  k <= l + 1
  <2>1. PICK p \in [1..k -> 1..m], q \in [1..k -> 1..n] :
            /\ \A x, y \in 1..k : x < y => p[x] < p[y] /\ q[x] < q[y]
            /\ \A x \in 1..k : a[p[x]] = b[q[x]]
    BY <1>2 DEF CommonTo
  <2> DEFINE pp == [x \in 1..k-1 |-> p[x]]
             qq == [x \in 1..k-1 |-> q[x]]
  <2>2. \A x \in 1..k-1 : x \in 1..k /\ p[x] \in 1..m-1 /\ q[x] \in 1..n-1
    <3> TAKE x \in 1..k-1
    <3>1. x \in 1..k /\ k \in 1..k /\ x < k
      OBVIOUS
    <3>2. p[x] < p[k] /\ q[x] < q[k]
      BY <2>1, <3>1
    <3>3. p[x] \in 1..m /\ p[k] \in 1..m /\ q[x] \in 1..n /\ q[k] \in 1..n
      BY <3>1
    <3>4. p[x] \in 1..m-1
      BY <3>2, <3>3
    <3>5. q[x] \in 1..n-1
      BY <3>2, <3>3
    <3> QED
      BY <3>1, <3>4, <3>5
  <2>3. pp \in [1..k-1 -> 1..m-1] /\ qq \in [1..k-1 -> 1..n-1]
    BY <2>2
  <2>4. /\ \A x, y \in 1..k-1 : x < y => pp[x] < pp[y] /\ qq[x] < qq[y]
        /\ \A x \in 1..k-1 : a[pp[x]] = b[qq[x]]
    BY <2>1, <2>2
  <2> HIDE DEF pp, qq
  <2>5. CommonTo(a, m - 1, b, n - 1, k - 1)
    BY <2>3, <2>4 DEF CommonTo
  <2>6. k - 1 \in Nat
    BY <1>2
  <2>7. k - 1 <= l
    BY <2>5, <2>6 DEF Longest
  <2> QED
    BY <2>7
<1> QED
  BY <1>1, <1>2 DEF Longest

\* Of two last lines that differ one is not used.
LEMMA CommonDrop ==
    ASSUME NEW a, NEW b, NEW m \in Nat \ {0}, NEW n \in Nat \ {0}, a[m] # b[n],
           NEW k \in Nat, CommonTo(a, m, b, n, k)
    PROVE  CommonTo(a, m - 1, b, n, k) \/ CommonTo(a, m, b, n - 1, k)
<1>1. PICK p \in [1..k -> 1..m], q \in [1..k -> 1..n] :
            /\ \A x, y \in 1..k : x < y => p[x] < p[y] /\ q[x] < q[y]
            /\ \A x \in 1..k : a[p[x]] = b[q[x]]
  BY DEF CommonTo
<1>2. (\A x \in 1..k : p[x] # m) \/ (\A x \in 1..k : q[x] # n)
  <2> SUFFICES ASSUME NEW x \in 1..k, NEW y \in 1..k, p[x] = m, q[y] = n
               PROVE  FALSE
    OBVIOUS
  <2>1. /\ q[x] \in 1..n /\ p[y] \in 1..m /\ q[x] # n /\ x # y
    BY <1>1
  <2>2. CASE x < y
    BY <2>1, <2>2, <1>1
  <2>3. CASE y < x
    BY <2>1, <2>3, <1>1
  <2> QED
    BY <2>1, <2>2, <2>3
<1>3. CASE \A x \in 1..k : p[x] # m
  <2>1. p \in [1..k -> 1..m-1]
    <3>1. \A x \in 1..k : p[x] \in 1..m /\ p[x] # m
      BY <1>3
    <3>2. \A x \in 1..k : p[x] \in 1..m-1
      BY <3>1
    <3> QED
      BY <3>2
  <2>2. CommonTo(a, m - 1, b, n, k)
    BY <1>1, <2>1 DEF CommonTo
  <2> QED
    BY <2>2
<1>4. CASE \A x \in 1..k : q[x] # n
  <2>1. q \in [1..k -> 1..n-1]
    <3>1. \A x \in 1..k : q[x] \in 1..n /\ q[x] # n
      BY <1>4
    <3>2. \A x \in 1..k : q[x] \in 1..n-1
      BY <3>1
    <3> QED
      BY <3>2
  <2>2. CommonTo(a, m, b, n - 1, k)
    BY <1>1, <2>1 DEF CommonTo
  <2> QED
    BY <2>2
<1> QED
  BY <1>2, <1>3, <1>4

\* Where the last lines differ the longer of the two shorter matches stands.
LEMMA LongestDrop ==
    ASSUME NEW a, NEW b, NEW m \in Nat \ {0}, NEW n \in Nat \ {0}, a[m] # b[n],
           NEW h \in Nat, Longest(a, m - 1, b, n, h),
           NEW l \in Nat, Longest(a, m, b, n - 1, l)
    PROVE  Longest(a, m, b, n, IF h >= l THEN h ELSE l)
<1>1. CommonTo(a, m, b, n, h) /\ CommonTo(a, m, b, n, l)
  <2>1. m - 1 \in Nat /\ n - 1 \in Nat /\ m - 1 <= m /\ n - 1 <= n
    OBVIOUS
  <2>2. CommonTo(a, m - 1, b, n, h) /\ CommonTo(a, m, b, n - 1, l)
    BY DEF Longest
  <2> QED
    BY <2>1, <2>2, CommonFurther
<1>2. \A k \in Nat : CommonTo(a, m, b, n, k) => k <= h \/ k <= l
  BY CommonDrop DEF Longest
<1> QED
  BY <1>1, <1>2 DEF Longest

\* There is one longest match.
LEMMA LongestUnique ==
    ASSUME NEW a, NEW b, NEW m, NEW n, NEW h \in Nat, NEW l \in Nat,
           Longest(a, m, b, n, h), Longest(a, m, b, n, l)
    PROVE  h = l
BY DEF Longest

\* A longest match there is: a pair of beginnings without one, as short as
\* such a pair can be, would have one by the lemmas above.
LEMMA LongestExists ==
    ASSUME NEW a, NEW b, NEW m \in Nat, NEW n \in Nat
    PROVE  \E l \in Nat : Longest(a, m, b, n, l)
<1> DEFINE Has(x, y) == \E l \in Nat : Longest(a, x, b, y, l)
           T == {s \in Nat : \E x, y \in Nat : x + y = s /\ ~Has(x, y)}
<1> HIDE DEF Has
<1>1. SUFFICES ASSUME ~Has(m, n)
               PROVE  FALSE
  BY DEF Has
<1>2. T \subseteq Nat /\ m + n \in T
  BY <1>1
<1> HIDE DEF T
<1>3. PICK s \in T : \A t \in T : s <= t
  BY <1>2, LeastNumber
<1>4. PICK x \in Nat, y \in Nat : x + y = s /\ ~Has(x, y)
  BY <1>3 DEF T
<1>5. \A v, w \in Nat : v + w < s => Has(v, w)
  <2> SUFFICES ASSUME NEW v \in Nat, NEW w \in Nat, v + w < s, ~Has(v, w)
               PROVE  FALSE
    OBVIOUS
  <2>1. v + w \in T /\ s \in Nat
    BY <1>2, <1>3 DEF T
  <2>2. s <= v + w /\ v + w \in Nat
    BY <2>1, <1>3
  <2> QED
    BY <2>1, <2>2
<1>6. CASE x = 0 \/ y = 0
  BY <1>4, <1>6, LongestNone DEF Has
<1>7. CASE x # 0 /\ y # 0
  <2>1. /\ x \in Nat \ {0} /\ y \in Nat \ {0} /\ x - 1 \in Nat /\ y - 1 \in Nat
        /\ (x - 1) + (y - 1) < s /\ (x - 1) + y < s /\ x + (y - 1) < s
    BY <1>4, <1>7
  <2>2. CASE a[x] = b[y]
    <3>1. PICK l \in Nat : Longest(a, x - 1, b, y - 1, l)
      BY <2>1, <1>5 DEF Has
    <3>2. Longest(a, x, b, y, l + 1) /\ l + 1 \in Nat
      BY <2>1, <2>2, <3>1, LongestMatch
    <3> QED
      BY <3>2, <1>4 DEF Has
  <2>3. CASE a[x] # b[y]
    <3>1. PICK h \in Nat : Longest(a, x - 1, b, y, h)
      BY <2>1, <1>5 DEF Has
    <3>2. PICK l \in Nat : Longest(a, x, b, y - 1, l)
      BY <2>1, <1>5 DEF Has
    <3>3. Longest(a, x, b, y, IF h >= l THEN h ELSE l)
      BY <2>1, <2>3, <3>1, <3>2, LongestDrop
    <3>4. (IF h >= l THEN h ELSE l) \in Nat
      OBVIOUS
    <3> QED
      BY <3>3, <3>4, <1>4 DEF Has
  <2> QED
    BY <2>2, <2>3
<1> QED
  BY <1>6, <1>7

\* What computeLCS fills its table d with.
Filled(a, b, d) ==
    [c \in (0..Len(a)) \X (0..Len(b)) |->
        LET m == c[1]
            n == c[2]
        IN  IF m = 0 \/ n = 0 THEN 0
            ELSE IF a[m] = b[n] THEN d[<<m-1, n-1>>] + 1
            ELSE IF d[<<m-1, n>>] >= d[<<m, n-1>>] THEN d[<<m-1, n>>] ELSE d[<<m, n-1>>]]

\* The table of the longest matches is such a table.
LEMMA TableExists ==
    ASSUME NEW a \in Seq(Lines), NEW b \in Seq(Lines)
    PROVE  \E d : d = Filled(a, b, d)
<1> DEFINE best(m, n) == CHOOSE l \in Nat : Longest(a, m, b, n, l)
           d == [c \in (0..Len(a)) \X (0..Len(b)) |-> best(c[1], c[2])]
           at(m, n) == d[<<m, n>>]
<1>0. Len(a) \in Nat /\ Len(b) \in Nat
  BY LenProperties
<1>1. \A m, n \in Nat : best(m, n) \in Nat /\ Longest(a, m, b, n, best(m, n))
  BY LongestExists
<1>2. \A m, n \in Nat : \A l \in Nat : Longest(a, m, b, n, l) => l = best(m, n)
  BY <1>1, LongestUnique
<1> HIDE DEF best, d, at
<1>3. \A m \in 0..Len(a), n \in 0..Len(b) : at(m, n) = best(m, n)
  <2> TAKE m \in 0..Len(a), n \in 0..Len(b)
  <2>1. <<m, n>> \in (0..Len(a)) \X (0..Len(b)) /\ <<m, n>>[1] = m /\ <<m, n>>[2] = n
    OBVIOUS
  <2>2. d[<<m, n>>] = best(<<m, n>>[1], <<m, n>>[2])
    BY <2>1 DEF d
  <2>3. at(m, n) = d[<<m, n>>]
    BY DEF at
  <2> QED
    BY <2>1, <2>2, <2>3
<1> SUFFICES d = Filled(a, b, d)
  OBVIOUS
<1>4. ASSUME NEW m \in 0..Len(a), NEW n \in 0..Len(b)
      PROVE  best(m, n) = IF m = 0 \/ n = 0 THEN 0
                          ELSE IF a[m] = b[n] THEN at(m-1, n-1) + 1
                          ELSE IF at(m-1, n) >= at(m, n-1) THEN at(m-1, n) ELSE at(m, n-1)
  <2>0. m \in Nat /\ n \in Nat
    BY <1>0
  <2>1. CASE m = 0 \/ n = 0
    BY <2>0, <2>1, <1>2, LongestNone
  <2>2. CASE m # 0 /\ n # 0
    <3>1. /\ m \in Nat \ {0} /\ n \in Nat \ {0} /\ m - 1 \in Nat /\ n - 1 \in Nat
          /\ m - 1 \in 0..Len(a) /\ n - 1 \in 0..Len(b)
      BY <2>0, <2>2, <1>0
    <3>2. /\ at(m-1, n-1) = best(m - 1, n - 1)
          /\ at(m-1, n) = best(m - 1, n) /\ at(m, n-1) = best(m, n - 1)
      BY <3>1, <1>3
    <3>3. CASE a[m] = b[n]
      <4>3. best(m - 1, n - 1) \in Nat /\ Longest(a, m - 1, b, n - 1, best(m - 1, n - 1))
        BY <3>1, <1>1
      <4>1. Longest(a, m, b, n, best(m - 1, n - 1) + 1) /\ best(m - 1, n - 1) + 1 \in Nat
        BY <3>1, <3>3, <4>3, LongestMatch
      <4>2. best(m, n) = best(m - 1, n - 1) + 1
        BY <4>1, <2>0, <1>2
      <4> QED
        BY <4>2, <3>2, <3>3, <2>2
    <3>4. CASE a[m] # b[n]
      <4> DEFINE top == IF best(m - 1, n) >= best(m, n - 1) THEN best(m - 1, n) ELSE best(m, n - 1)
      <4>1. best(m - 1, n) \in Nat /\ best(m, n - 1) \in Nat
        BY <3>1, <2>0, <1>1
      <4>2. Longest(a, m - 1, b, n, best(m - 1, n)) /\ Longest(a, m, b, n - 1, best(m, n - 1))
        BY <3>1, <2>0, <1>1
      <4>3. Longest(a, m, b, n, top) /\ top \in Nat
        BY <3>1, <3>4, <4>1, <4>2, LongestDrop
      <4>4. best(m, n) = top
        BY <4>3, <2>0, <1>2
      <4> QED
        BY <4>4, <3>2, <3>4, <2>2
    <3> QED
      BY <3>3, <3>4
  <2> QED
    BY <2>1, <2>2
<1>5. \A c \in (0..Len(a)) \X (0..Len(b)) : d[c] = Filled(a, b, d)[c]
  <2> TAKE c \in (0..Len(a)) \X (0..Len(b))
  <2>1. PICK m \in 0..Len(a), n \in 0..Len(b) : c = <<m, n>>
    OBVIOUS
  <2>2. d[c] = best(m, n)
    BY <2>1, <1>3 DEF at
  <2>3. /\ c \in (0..Len(a)) \X (0..Len(b)) /\ c[1] = m /\ c[2] = n
    BY <2>1
  <2>4. Filled(a, b, d)[c] = IF m = 0 \/ n = 0 THEN 0
                          ELSE IF a[m] = b[n] THEN at(m-1, n-1) + 1
                          ELSE IF at(m-1, n) >= at(m, n-1) THEN at(m-1, n) ELSE at(m, n-1)
    BY <2>3 DEF Filled, at
  <2>5. best(m, n) = IF m = 0 \/ n = 0 THEN 0
                          ELSE IF a[m] = b[n] THEN at(m-1, n-1) + 1
                          ELSE IF at(m-1, n) >= at(m, n-1) THEN at(m-1, n) ELSE at(m, n-1)
    BY <1>4
  <2> QED
    BY <2>2, <2>4, <2>5
<1>6. d = [c \in (0..Len(a)) \X (0..Len(b)) |-> d[c]]
  BY DEF d
<1>7. Filled(a, b, d) = [c \in (0..Len(a)) \X (0..Len(b)) |-> Filled(a, b, d)[c]]
  BY DEF Filled
<1> QED
  BY <1>5, <1>6, <1>7

\* The table computeLCS fills is therefore defined.
LEMMA TableFilled ==
    ASSUME NEW a \in Seq(Lines), NEW b \in Seq(Lines)
    PROVE  Lengths(a, b) = Filled(a, b, Lengths(a, b))
<1>1. Lengths(a, b) = CHOOSE d : d = Filled(a, b, d)
  BY DEF Lengths, Filled
<1> QED
  BY <1>1, TableExists

Cell(a, b, m, n) == Lengths(a, b)[<<m, n>>]

\* Its entries, one by one.
LEMMA TableEntries ==
    ASSUME NEW a \in Seq(Lines), NEW b \in Seq(Lines),
           NEW m \in 0..Len(a), NEW n \in 0..Len(b)
    PROVE  Cell(a, b, m, n) =
              IF m = 0 \/ n = 0 THEN 0
              ELSE IF a[m] = b[n] THEN Cell(a, b, m - 1, n - 1) + 1
              ELSE IF Cell(a, b, m - 1, n) >= Cell(a, b, m, n - 1)
                   THEN Cell(a, b, m - 1, n) ELSE Cell(a, b, m, n - 1)
<1> DEFINE d == Lengths(a, b)
           at(x, y) == d[<<x, y>>]
<1>1. d = Filled(a, b, d)
  BY TableFilled
<1> HIDE DEF d, at
<1>2. <<m, n>> \in (0..Len(a)) \X (0..Len(b)) /\ <<m, n>>[1] = m /\ <<m, n>>[2] = n
  OBVIOUS
<1>3. Filled(a, b, d)[<<m, n>>] =
              IF m = 0 \/ n = 0 THEN 0
              ELSE IF a[m] = b[n] THEN at(m-1, n-1) + 1
              ELSE IF at(m-1, n) >= at(m, n-1) THEN at(m-1, n) ELSE at(m, n-1)
  BY <1>2 DEF Filled, at
<1>4. at(m, n) = d[<<m, n>>]
  BY DEF at
<1>5. at(m, n) =
              IF m = 0 \/ n = 0 THEN 0
              ELSE IF a[m] = b[n] THEN at(m-1, n-1) + 1
              ELSE IF at(m-1, n) >= at(m, n-1) THEN at(m-1, n) ELSE at(m, n-1)
  BY <1>1, <1>3, <1>4
<1> QED
  BY <1>5 DEF at, d, Cell

\* An entry of the table is the length of the longest match of the beginnings
\* it stands for: by the least sum of two lengths where it would not be.
LEMMA TableIsLongest ==
    ASSUME NEW a \in Seq(Lines), NEW b \in Seq(Lines),
           NEW m \in 0..Len(a), NEW n \in 0..Len(b)
    PROVE  Cell(a, b, m, n) \in Nat /\ Longest(a, m, b, n, Cell(a, b, m, n))
<1> DEFINE d(x, y) == Cell(a, b, x, y)
           Right(x, y) == d(x, y) \in Nat /\ Longest(a, x, b, y, d(x, y))
           T == {s \in Nat : \E x \in 0..Len(a), y \in 0..Len(b) : x + y = s /\ ~Right(x, y)}
<1>0. Len(a) \in Nat /\ Len(b) \in Nat
  BY LenProperties
<1>e. \A x \in 0..Len(a), y \in 0..Len(b) :
          d(x, y) = IF x = 0 \/ y = 0 THEN 0
                    ELSE IF a[x] = b[y] THEN d(x-1, y-1) + 1
                    ELSE IF d(x-1, y) >= d(x, y-1) THEN d(x-1, y) ELSE d(x, y-1)
  BY TableEntries
<1>1. SUFFICES ASSUME ~Right(m, n)
               PROVE  FALSE
  OBVIOUS
<1> HIDE DEF d, Right
<1>2. T \subseteq Nat /\ m + n \in T
  BY <1>0, <1>1
<1> HIDE DEF T
<1>3. PICK s \in T : \A t \in T : s <= t
  BY <1>2, LeastNumber
<1>4. PICK x \in 0..Len(a), y \in 0..Len(b) : x + y = s /\ ~Right(x, y)
  BY <1>3 DEF T
<1>5. \A v \in 0..Len(a), w \in 0..Len(b) : v + w < s => Right(v, w)
  <2> SUFFICES ASSUME NEW v \in 0..Len(a), NEW w \in 0..Len(b), v + w < s, ~Right(v, w)
               PROVE  FALSE
    OBVIOUS
  <2>a. s \in Nat /\ v + w \in Nat
    BY <1>0, <1>2, <1>3
  <2>1. v + w \in T /\ s \in Nat
    BY <2>a DEF T
  <2>2. s <= v + w /\ v + w \in Nat
    BY <2>1, <1>0, <1>3
  <2> QED
    BY <2>1, <2>2
<1>6. CASE x = 0 \/ y = 0
  <2>1. d(x, y) = 0 /\ x \in Nat /\ y \in Nat
    BY <1>e, <1>6, <1>0
  <2>2. Longest(a, x, b, y, 0)
    BY <1>6, <2>1, LongestNone
  <2> QED
    BY <2>1, <2>2, <1>4 DEF Right
<1>7. CASE x # 0 /\ y # 0
  <2>1. /\ x \in Nat \ {0} /\ y \in Nat \ {0}
        /\ x - 1 \in 0..Len(a) /\ y - 1 \in 0..Len(b)
        /\ (x - 1) + (y - 1) < s /\ (x - 1) + y < s /\ x + (y - 1) < s
    BY <1>4, <1>7, <1>0
  <2>2. CASE a[x] = b[y]
    <3>1. d(x-1, y-1) \in Nat /\ Longest(a, x - 1, b, y - 1, d(x-1, y-1))
      BY <2>1, <1>4, <1>5 DEF Right
    <3>2. d(x, y) = d(x-1, y-1) + 1
      BY <1>e, <1>7, <2>2
    <3>3. Longest(a, x, b, y, d(x-1, y-1) + 1)
      BY <2>1, <2>2, <3>1, LongestMatch
    <3>4. d(x, y) \in Nat /\ Longest(a, x, b, y, d(x, y))
      BY <3>1, <3>2, <3>3
    <3> QED
      BY <3>4, <1>4 DEF Right
  <2>3. CASE a[x] # b[y]
    <3>1. /\ d(x-1, y) \in Nat /\ Longest(a, x - 1, b, y, d(x-1, y))
          /\ d(x, y-1) \in Nat /\ Longest(a, x, b, y - 1, d(x, y-1))
      BY <2>1, <1>5 DEF Right
    <3>2. d(x, y) = IF d(x-1, y) >= d(x, y-1) THEN d(x-1, y) ELSE d(x, y-1)
      BY <1>e, <1>7, <2>3
    <3> DEFINE h == d(x-1, y)
               l == d(x, y-1)
    <3>h. h \in Nat /\ l \in Nat /\ Longest(a, x - 1, b, y, h) /\ Longest(a, x, b, y - 1, l)
      BY <3>1
    <3>i. d(x, y) = IF h >= l THEN h ELSE l
      BY <3>2
    <3> HIDE DEF h, l
    <3>3. Longest(a, x, b, y, IF h >= l THEN h ELSE l)
      BY <2>1, <2>3, <3>h, LongestDrop
    <3>4. d(x, y) \in Nat /\ Longest(a, x, b, y, d(x, y))
      BY <3>h, <3>i, <3>3
    <3> QED
      BY <3>4, <1>4 DEF Right
  <2> QED
    BY <2>2, <2>3
<1> QED
  BY <1>6, <1>7

(* The longest match.                                                      *)

\* The entry of the table for the first m and n lines of the two contents.
Entry(m, n) == Cell(Capped(old), Capped(new), m, n)
LongestLen == Entry(Len(Capped(old)), Len(Capped(new)))

\* What the trace has found and what the table says is still to come make up
\* the longest match; the walk shows it, line by line.
KInv ==
    /\ phase = "trace" =>
            /\ i \in 0..Len(Capped(old)) /\ j \in 0..Len(Capped(new))
            /\ Len(lcs) + Entry(i, j) = LongestLen
    /\ phase = "walk" => Len(lcs) = LongestLen /\ Len(shown.both) = lcsIdx
    /\ phase = "done" /\ ~OneSided => Len(shown.both) = LongestLen

\* What is compared of a content is its beginning.
LEMMA CappedFacts ==
    ASSUME NEW c \in Contents
    PROVE  /\ Capped(c) \in Seq(Lines)
           /\ Len(Capped(c)) \in Nat /\ Len(Capped(c)) <= Len(c)
           /\ \A x \in 1..Len(Capped(c)) : Capped(c)[x] = c[x]
<1>1. c \in Seq(Lines) /\ MaxLines \in Nat /\ Len(c) \in Nat
  BY DiffAssumption, LenProperties
<1> DEFINE n == IF Len(c) <= MaxLines THEN Len(c) ELSE MaxLines
<1>2. n \in 0..Len(c) /\ n \in Nat
  BY <1>1
<1> HIDE DEF n
<1>3. \A m \in 0..Len(c) :
          /\ SubSeq(c, 1, m) \in Seq(Lines) /\ Len(SubSeq(c, 1, m)) = m
          /\ \A x \in 1..m : SubSeq(c, 1, m)[x] = c[x]
  BY <1>1
<1> QED
  BY <1>2, <1>3, <1>1 DEF Capped, n

\* The table, read as computeLCS reads it on its way back.
LEMMA EntryFacts ==
    ASSUME old \in Contents, new \in Contents,
           NEW m \in 0..Len(Capped(old)), NEW n \in 0..Len(Capped(new))
    PROVE  /\ Entry(m, n) \in Nat
           /\ Longest(Capped(old), m, Capped(new), n, Entry(m, n))
           /\ m = 0 \/ n = 0 => Entry(m, n) = 0
           /\ m # 0 /\ n # 0 /\ old[m] = new[n] => Entry(m, n) = Entry(m - 1, n - 1) + 1
           /\ m # 0 /\ n # 0 /\ old[m] # new[n] =>
                  Entry(m, n) = IF Entry(m - 1, n) > Entry(m, n - 1) THEN Entry(m - 1, n)
                                                                   ELSE Entry(m, n - 1)
<1> DEFINE a == Capped(old)
           b == Capped(new)
<1>1. /\ a \in Seq(Lines) /\ Len(a) \in Nat /\ \A x \in 1..Len(a) : a[x] = old[x]
      /\ b \in Seq(Lines) /\ Len(b) \in Nat /\ \A x \in 1..Len(b) : b[x] = new[x]
  BY CappedFacts
<1> HIDE DEF a, b
<1>2. Cell(a, b, m, n) \in Nat /\ Longest(a, m, b, n, Cell(a, b, m, n))
  BY <1>1, TableIsLongest DEF a, b
<1>3. Cell(a, b, m, n) =
              IF m = 0 \/ n = 0 THEN 0
              ELSE IF a[m] = b[n] THEN Cell(a, b, m - 1, n - 1) + 1
              ELSE IF Cell(a, b, m - 1, n) >= Cell(a, b, m, n - 1)
                   THEN Cell(a, b, m - 1, n) ELSE Cell(a, b, m, n - 1)
  BY <1>1, TableEntries DEF a, b
<1>4. Entry(m, n) = IF m = 0 \/ n = 0 THEN 0
                    ELSE IF a[m] = b[n] THEN Entry(m - 1, n - 1) + 1
                    ELSE IF Entry(m - 1, n) >= Entry(m, n - 1) THEN Entry(m - 1, n)
                                                               ELSE Entry(m, n - 1)
  BY <1>3 DEF Entry, a, b
<1>5. Entry(m, n) \in Nat /\ Longest(a, m, b, n, Entry(m, n))
  BY <1>2 DEF Entry, a, b
<1>6. ASSUME m # 0, n # 0
      PROVE  /\ a[m] = old[m] /\ b[n] = new[n]
             /\ Entry(m - 1, n) \in Nat /\ Entry(m, n - 1) \in Nat
  <2>1. m \in 1..Len(a) /\ n \in 1..Len(b)
    BY <1>1, <1>6 DEF a, b
  <2>2. m - 1 \in 0..Len(a) /\ n - 1 \in 0..Len(b) /\ m \in 0..Len(a) /\ n \in 0..Len(b)
    BY <2>1, <1>1
  <2>3. Entry(m - 1, n) \in Nat /\ Entry(m, n - 1) \in Nat
    BY <1>1, <2>2, TableIsLongest DEF Entry, a, b
  <2> QED
    BY <1>1, <2>1, <2>3
<1>7. m = 0 \/ n = 0 => Entry(m, n) = 0
  BY <1>4
<1>8. m # 0 /\ n # 0 /\ old[m] = new[n] => Entry(m, n) = Entry(m - 1, n - 1) + 1
  BY <1>4, <1>6
<1>9. m # 0 /\ n # 0 /\ old[m] # new[n] =>
                  Entry(m, n) = IF Entry(m - 1, n) > Entry(m, n - 1) THEN Entry(m - 1, n)
                                                                   ELSE Entry(m, n - 1)
  <2> SUFFICES ASSUME m # 0, n # 0, old[m] # new[n]
               PROVE  Entry(m, n) = IF Entry(m - 1, n) > Entry(m, n - 1) THEN Entry(m - 1, n)
                                                                   ELSE Entry(m, n - 1)
    OBVIOUS
  <2>1. Entry(m, n) = IF Entry(m - 1, n) >= Entry(m, n - 1) THEN Entry(m - 1, n)
                                                            ELSE Entry(m, n - 1)
    BY <1>4, <1>6
  <2> QED
    BY <2>1, <1>6
<1> QED
  BY <1>5, <1>7, <1>8, <1>9 DEF a, b

\* No step loses a line of the longest match.
LEMMA LongestStep == IInv /\ KInv /\ [DiffNext]_diffVars => KInv'
<1> SUFFICES ASSUME IInv, KInv, [DiffNext]_diffVars
             PROVE  KInv'
  OBVIOUS
<1>1. /\ old \in Contents /\ new \in Contents /\ lcs \in Seq(Lines) /\ Len(lcs) \in Nat
      /\ phase \in {"start", "trace", "walk", "done"}
  BY LenProperties DEF IInv, Bounds
<1>2. Len(Capped(old)) \in Nat /\ Len(Capped(new)) \in Nat
  BY <1>1, CappedFacts
<1>3. CASE ShowOneSide
  BY <1>3 DEF ShowOneSide, KInv, OneSided, contentVars
<1>4. CASE StartTrace
  <2>1. /\ lcs' = <<>> /\ old' = old /\ new' = new /\ phase' = "trace"
        /\ i' = Len(Capped(old)) /\ j' = Len(Capped(new))
    BY <1>4 DEF StartTrace, IInv, contentVars
  <2>2. LongestLen \in Nat
    BY <1>1, <1>2, EntryFacts DEF LongestLen
  <2>3. Entry(i, j)' = LongestLen /\ LongestLen' = LongestLen
    BY <2>1 DEF Entry, LongestLen
  <2>4. Len(lcs') = 0
    BY <2>1
  <2>5. i' \in 0..Len(Capped(old')) /\ j' \in 0..Len(Capped(new'))
    BY <2>1, <1>2
  <2>6. Capped(old)' = Capped(old') /\ Capped(new)' = Capped(new')
    BY DEF Capped
  <2> QED
    BY <2>1, <2>2, <2>3, <2>4, <2>5, <2>6 DEF KInv
<1>5. CASE Match
  <2>1. /\ i > 0 /\ j > 0 /\ old[i] = new[j] /\ phase = "trace" /\ phase' = "trace"
        /\ i' = i - 1 /\ j' = j - 1 /\ old' = old /\ new' = new /\ lcs' = <<old[i]>> \o lcs
    BY <1>5 DEF Match, contentVars
  <2>2. /\ i \in 0..Len(Capped(old)) /\ j \in 0..Len(Capped(new))
        /\ Len(lcs) + Entry(i, j) = LongestLen
    BY <2>1 DEF KInv
  <2>3. i' \in 0..Len(Capped(old)) /\ j' \in 0..Len(Capped(new))
    BY <2>1, <2>2, <1>2
  <2>4. Entry(i, j) = Entry(i', j') + 1 /\ Entry(i', j') \in Nat
    <3>1. Entry(i, j) = Entry(i - 1, j - 1) + 1
      BY <2>1, <2>2, <1>1, <1>2, EntryFacts
    <3>2. i - 1 \in 0..Len(Capped(old)) /\ j - 1 \in 0..Len(Capped(new))
      BY <2>1, <2>3
    <3>3. Entry(i - 1, j - 1) \in Nat
      BY <3>2, <1>1, EntryFacts
    <3> QED
      BY <3>1, <3>3, <2>1
  <2>5. Len(lcs') = Len(lcs) + 1
    <3>1. i \in 1..Len(old)
      BY <2>1, <1>1 DEF IInv, Bounds
    <3>2. old[i] \in Lines
      BY <3>1, <1>1, ContentFacts
    <3> QED
      BY <2>1, <1>1, <3>2
  <2>6. /\ Entry(i, j)' = Entry(i', j') /\ LongestLen' = LongestLen
        /\ Capped(old)' = Capped(old) /\ Capped(new)' = Capped(new)
    BY <2>1 DEF Entry, LongestLen, Capped
  <2>7. Len(lcs') + Entry(i', j') = LongestLen
    BY <2>2, <2>4, <2>5, <1>1
  <2> QED
    BY <2>1, <2>3, <2>6, <2>7 DEF KInv
<1>6. CASE DropLine
  <2>1. /\ i > 0 /\ j > 0 /\ old[i] # new[j] /\ phase = "trace" /\ phase' = "trace"
        /\ old' = old /\ new' = new /\ lcs' = lcs
        /\ IF Entry(i - 1, j) > Entry(i, j - 1) THEN i' = i - 1 /\ j' = j
                                                ELSE i' = i /\ j' = j - 1
    BY <1>6 DEF DropLine, contentVars, Entry, Cell
  <2>2. /\ i \in 0..Len(Capped(old)) /\ j \in 0..Len(Capped(new))
        /\ Len(lcs) + Entry(i, j) = LongestLen
    BY <2>1 DEF KInv
  <2>3. i' \in 0..Len(Capped(old)) /\ j' \in 0..Len(Capped(new))
    BY <2>1, <2>2, <1>2
  <2>4. Entry(i, j) = Entry(i', j')
    <3>1. Entry(i, j) = IF Entry(i - 1, j) > Entry(i, j - 1) THEN Entry(i - 1, j)
                                                             ELSE Entry(i, j - 1)
      BY <2>1, <2>2, <1>1, <1>2, EntryFacts
    <3> QED
      BY <3>1, <2>1
  <2>5. /\ Entry(i, j)' = Entry(i', j') /\ LongestLen' = LongestLen
        /\ Capped(old)' = Capped(old) /\ Capped(new)' = Capped(new)
    BY <2>1 DEF Entry, LongestLen, Capped
  <2> QED
    BY <2>1, <2>2, <2>3, <2>4, <2>5 DEF KInv
<1>7. CASE EndTrace
  <2>1. /\ i = 0 \/ j = 0
        /\ phase = "trace" /\ phase' = "walk" /\ old' = old /\ new' = new /\ lcs' = lcs
        /\ lcsIdx' = lcsIdx /\ shown' = shown
    BY <1>7 DEF EndTrace, contentVars, traceVars, walkVars
  <2>2. /\ i \in 0..Len(Capped(old)) /\ j \in 0..Len(Capped(new))
        /\ Len(lcs) + Entry(i, j) = LongestLen
    BY <2>1 DEF KInv
  <2>3. Entry(i, j) = 0
    BY <2>1, <2>2, <1>1, EntryFacts
  <2>4. lcsIdx = 0 /\ Len(shown.both) = 0
    BY <2>1 DEF IInv, TraceFound, NothingShown, DiffRows
  <2>5. LongestLen' = LongestLen
    BY <2>1 DEF Entry, LongestLen, Capped
  <2> QED
    BY <2>1, <2>2, <2>3, <2>4, <2>5, <1>1 DEF KInv
<1>8. CASE Context
  <2>1. /\ phase = "walk" /\ phase' = "walk" /\ old' = old /\ new' = new /\ lcs' = lcs
        /\ lcsIdx' = lcsIdx + 1
        /\ shown'.both = Append(shown.both, old[oldIdx + 1])
    BY <1>8 DEF Context, DiffRows, contentVars, traceVars
  <2>2. Len(lcs) = LongestLen /\ Len(shown.both) = lcsIdx
    BY <2>1 DEF KInv
  <2>3. Len(shown'.both) = lcsIdx + 1
    <3>a. /\ Len(old) \in Nat /\ oldIdx \in 0..Len(old)
          /\ shown \in [old : Seq(Lines), new : Seq(Lines), both : Seq(Lines)]
      BY <2>1, WalkFacts
    <3>b. oldIdx < Len(old)
      BY <1>8 DEF Context, OldIsNext
    <3>c. oldIdx + 1 \in 1..Len(old)
      BY <3>a, <3>b
    <3>d. shown.both \in Seq(Lines)
      BY <3>a
    <3>1. shown.both \in Seq(Lines) /\ oldIdx + 1 \in 1..Len(old)
      BY <3>c, <3>d
    <3>2. old[oldIdx + 1] \in Lines
      BY <3>1, <1>1, ContentFacts
    <3> QED
      BY <3>1, <3>2, <2>1, <2>2
  <2>4. LongestLen' = LongestLen
    BY <2>1 DEF Entry, LongestLen, Capped
  <2> QED
    BY <2>1, <2>2, <2>3, <2>4 DEF KInv
<1>9. CASE Added \/ Removed
  <2>1. /\ phase = "walk" /\ phase' = "walk" /\ old' = old /\ new' = new /\ lcs' = lcs
        /\ lcsIdx' = lcsIdx
    BY <1>9 DEF Added, Removed, contentVars, traceVars
  <2>2. shown'.both = shown.both
    <3>1. shown \in [old : Seq(Lines), new : Seq(Lines), both : Seq(Lines)]
      BY DEF IInv, Bounds
    <3> QED
      BY <3>1, <1>9 DEF Added, Removed
  <2>3. Len(lcs) = LongestLen /\ Len(shown.both) = lcsIdx
    BY <2>1 DEF KInv
  <2>4. LongestLen' = LongestLen
    BY <2>1 DEF Entry, LongestLen, Capped
  <2> QED
    BY <2>1, <2>2, <2>3, <2>4 DEF KInv
<1>10. CASE EndWalk
  <2>1. /\ phase = "walk" /\ phase' = "done" /\ old' = old /\ new' = new /\ shown' = shown
        /\ oldIdx = Len(old)
    BY <1>10 DEF EndWalk, AtEnd, contentVars, walkVars
  <2>2. Len(lcs) = LongestLen /\ Len(shown.both) = lcsIdx
    BY <2>1 DEF KInv
  <2>3. lcsIdx = Len(lcs)
    BY <2>1, WalkFacts, EmbedsAtEnd
  <2>4. LongestLen' = LongestLen
    BY <2>1 DEF Entry, LongestLen, Capped
  <2> QED
    BY <2>1, <2>2, <2>3, <2>4 DEF KInv
<1>11. CASE UNCHANGED diffVars
  BY <1>11 DEF diffVars, contentVars, traceVars, walkVars, KInv, Entry, LongestLen, Capped, OneSided
<1> QED
  BY <1>3, <1>4, <1>5, <1>6, <1>7, <1>8, <1>9, <1>10, <1>11 DEF DiffNext

\* A match of all of both is a common subsequence.
LEMMA CommonWhole ==
    ASSUME NEW a, NEW b, NEW k
    PROVE  CommonTo(a, Len(a), b, Len(b), k) <=> Common(a, b, k)
<1> DEFINE Up(p) == \A x, y \in 1..k : x < y => p[x] < p[y]
           Same(p, q) == \A x \in 1..k : a[p[x]] = b[q[x]]
<1>1. CommonTo(a, Len(a), b, Len(b), k) <=>
            \E p \in [1..k -> 1..Len(a)], q \in [1..k -> 1..Len(b)] : Up(p) /\ Up(q) /\ Same(p, q)
  BY DEF CommonTo
<1>2. \A s, p : p \in Picks(s, k) <=> p \in [1..k -> 1..Len(s)] /\ Up(p)
  BY DEF Picks
<1>3. Common(a, b, k) <=> \E p \in Picks(a, k), q \in Picks(b, k) : Same(p, q)
  BY DEF Common
<1> HIDE DEF Up, Same
<1> QED
  BY <1>1, <1>2, <1>3

(* The theorems.                                                           *)

\* Every index stays within its list (computeLCS and computeDiffLines of
\* ToolDiffViewer.tsx), for contents of every length.
THEOREM DiffTypeCorrect == DiffSpec => []DiffTypeOK
<1>1. IInv => DiffTypeOK
  <2> SUFFICES ASSUME IInv
               PROVE  DiffTypeOK
    OBVIOUS
  <2>1. Bounds
    BY DEF IInv
  <2>2. Len(old) \in Nat /\ Len(new) \in Nat
    BY <2>1, ContentFacts DEF Bounds
  <2> QED
    BY <2>1, <2>2 DEF Bounds, DiffTypeOK
<1> QED
  BY <1>1, IInvHolds, PTL

\* The rows of a diff (computeDiffLines) are all of both contents and nothing
\* else, for contents of every length, over the cap of computeLCS too.
THEOREM NothingLost == DiffSpec => []ShowsBoth
<1>1. IInv => ShowsBoth
  BY DEF IInv
<1> QED
  BY <1>1, IInvHolds, PTL

\* The loop of computeDiffLines, which has no branch for it, never meets the
\* end of the old content with a common line still to come in the new one.
THEOREM EveryPassAddsARow == DiffSpec => []NeverStuck
<1>1. IInv => NeverStuck
  <2> SUFFICES ASSUME IInv, phase = "walk", oldIdx = Len(old), NewIsNext
               PROVE  FALSE
    BY DEF NeverStuck
  <2>1. lcsIdx = Len(lcs)
    BY WalkFacts, EmbedsAtEnd
  <2> QED
    BY <2>1, WalkFacts DEF NewIsNext
<1> QED
  BY <1>1, IInvHolds, PTL

\* The lines of a diff marked as common (computeLCS, computeDiffLines) are a
\* longest common subsequence of what is compared of the contents, for
\* contents of every length and every cap.
THEOREM SmallestDiff == DiffSpec => []ContextIsLongest
<1>1. DiffInit => KInv
  BY DEF DiffInit, KInv
<1>2. IInv /\ KInv => ContextIsLongest
  <2> SUFFICES ASSUME IInv, KInv, phase = "done", ~OneSided
               PROVE  /\ Common(Capped(old), Capped(new), Len(shown.both))
                      /\ ~Common(Capped(old), Capped(new), Len(shown.both) + 1)
    BY DEF ContextIsLongest
  <2> DEFINE a == Capped(old)
             b == Capped(new)
             n == Len(shown.both)
  <2>1. old \in Contents /\ new \in Contents
    BY DEF IInv, Bounds
  <2>2. n = LongestLen
    BY DEF KInv
  <2>3. Len(a) \in 0..Len(a) /\ Len(b) \in 0..Len(b)
    BY <2>1, CappedFacts
  <2>4. n \in Nat /\ Longest(a, Len(a), b, Len(b), n)
    BY <2>1, <2>2, <2>3, EntryFacts DEF LongestLen
  <2> HIDE DEF a, b, n
  <2>5. CommonTo(a, Len(a), b, Len(b), n) /\ ~CommonTo(a, Len(a), b, Len(b), n + 1)
    BY <2>4 DEF Longest
  <2>6. Common(a, b, n) /\ ~Common(a, b, n + 1)
    BY <2>5, CommonWhole
  <2> QED
    BY <2>6 DEF a, b, n
<1>3. DiffSpec => []KInv
  BY <1>1, IInvHolds, LongestStep, PTL DEF DiffSpec
<1> QED
  BY <1>2, <1>3, IInvHolds, PTL
=============================================================================
