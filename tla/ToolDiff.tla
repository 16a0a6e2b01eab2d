------------------------------ MODULE ToolDiff ------------------------------
(***************************************************************************)
(* The diff on the card of an Edit, Write or ApplyPatch call:              *)
(* ToolDiffViewer.tsx, with the contents that ToolRenderer.tsx gives it.   *)
(*                                                                         *)
(* A content is the sequence its split("\n") makes: never empty, and       *)
(* <<Blank>> for the empty string. Of the rows the model keeps what a      *)
(* reader takes from them: the lines of the old content (context and       *)
(* removed), those of the new one (context and added), and those marked    *)
(* as common to both (context).                                            *)
(***************************************************************************)
EXTENDS Naturals, Sequences

CONSTANTS
    Lines, Blank,
    Contents,   \* contents a tool call may give
    MaxLines    \* maxLines of computeLCS

ASSUME DiffAssumption ==
    /\ Blank \in Lines
    /\ Contents \subseteq Seq(Lines) \ {<<>>}
    /\ <<Blank>> \in Contents
    /\ MaxLines \in Nat

VARIABLES
    old, new,       \* the contents compared
    phase,          \* "start", "trace" (computeLCS), "walk" (computeDiffLines), "done"
    i, j,           \* where the trace is
    lcs,            \* what computeLCS returns, from its end
    oldIdx, newIdx, lcsIdx,
    shown           \* the rows so far, read in three ways

contentVars == <<old, new>>
traceVars == <<i, j, lcs>>
walkVars == <<oldIdx, newIdx, lcsIdx, shown>>
diffVars == <<contentVars, phase, traceVars, walkVars>>

Empty == <<Blank>>
DiffRows(o, n, b) == [old |-> o, new |-> n, both |-> b]

DiffTypeOK ==
    /\ old \in Contents /\ new \in Contents
    /\ phase \in {"start", "trace", "walk", "done"}
    /\ i \in Nat /\ j \in Nat /\ lcs \in Seq(Lines)
    /\ oldIdx \in 0..Len(old) /\ newIdx \in 0..Len(new) /\ lcsIdx \in 0..Len(lcs)
    /\ shown \in [old : Seq(Lines), new : Seq(Lines), both : Seq(Lines)]

\* getDiffProps: what is compared for a tool with these inputs.
DiffProps(tool, o, n) == IF tool = "Write" THEN <<Empty, n>> ELSE <<o, n>>

DiffInit ==
    /\ \E tool \in {"Edit", "Write", "ApplyPatch"}, o, n \in Contents :
            /\ old = DiffProps(tool, o, n)[1]
            /\ new = DiffProps(tool, o, n)[2]
    /\ phase = "start"
    /\ i = 0 /\ j = 0 /\ lcs = <<>>
    /\ oldIdx = 0 /\ newIdx = 0 /\ lcsIdx = 0
    /\ shown = DiffRows(<<>>, <<>>, <<>>)

\* A content that was not there, or is no longer, is shown without comparing.
OneSided == (old = Empty) # (new = Empty)

Capped(c) == SubSeq(c, 1, IF Len(c) <= MaxLines THEN Len(c) ELSE MaxLines)

ShowOneSide ==
    /\ phase = "start" /\ OneSided
    /\ phase' = "done"
    /\ shown' = IF old = Empty THEN DiffRows(<<>>, new, <<>>) ELSE DiffRows(old, <<>>, <<>>)
    /\ UNCHANGED <<contentVars, traceVars, oldIdx, newIdx, lcsIdx>>

StartTrace ==
    /\ phase = "start" /\ ~OneSided
    /\ phase' = "trace"
    /\ i' = Len(Capped(old)) /\ j' = Len(Capped(new))
    /\ UNCHANGED <<contentVars, lcs, walkVars>>

-----------------------------------------------------------------------------
(* computeLCS: the table of lengths, and the way back through it.          *)

\* The lengths of the longest common subsequences of the prefixes of a and b.
Lengths(a, b) ==
    LET dp[c \in (0..Len(a)) \X (0..Len(b))] ==
            LET m == c[1]
                n == c[2]
            IN  IF m = 0 \/ n = 0 THEN 0
                ELSE IF a[m] = b[n] THEN dp[<<m-1, n-1>>] + 1
                ELSE IF dp[<<m-1, n>>] >= dp[<<m, n-1>>] THEN dp[<<m-1, n>>] ELSE dp[<<m, n-1>>]
    IN  dp

Match ==
    /\ phase = "trace" /\ i > 0 /\ j > 0
    /\ old[i] = new[j]
    /\ lcs' = <<old[i]>> \o lcs
    /\ i' = i - 1 /\ j' = j - 1
    /\ UNCHANGED <<contentVars, phase, walkVars>>

\* Bug: the line is dropped on the side that leads to the shorter match.
DropOld_Shorter ==
    /\ phase = "trace" /\ i > 0 /\ j > 0
    /\ old[i] # new[j]
    /\ LET dp == Lengths(Capped(old), Capped(new))
       IN  IF dp[<<i-1, j>>] < dp[<<i, j-1>>] THEN i' = i - 1 /\ UNCHANGED j
                                      ELSE j' = j - 1 /\ UNCHANGED i
    /\ UNCHANGED <<contentVars, phase, lcs, walkVars>>

\* The lines differ: a line is dropped on the side that keeps the longer match.
DropLine ==
    /\ phase = "trace" /\ i > 0 /\ j > 0
    /\ old[i] # new[j]
    /\ LET dp == Lengths(Capped(old), Capped(new))
       IN  IF dp[<<i-1, j>>] > dp[<<i, j-1>>] THEN i' = i - 1 /\ UNCHANGED j
                                      ELSE j' = j - 1 /\ UNCHANGED i
    /\ UNCHANGED <<contentVars, phase, lcs, walkVars>>

EndTrace ==
    /\ phase = "trace" /\ (i = 0 \/ j = 0)
    /\ phase' = "walk"
    /\ UNCHANGED <<contentVars, traceVars, walkVars>>

-----------------------------------------------------------------------------
(* computeDiffLines: both contents walked along the common subsequence.    *)

\* Bug: the loop ends with the shorter content.
AtEnd_Either == oldIdx = Len(old) \/ newIdx = Len(new)

AtEnd == oldIdx = Len(old) /\ newIdx = Len(new)
OldIsNext == lcsIdx < Len(lcs) /\ oldIdx < Len(old) /\ old[oldIdx + 1] = lcs[lcsIdx + 1]
NewIsNext == lcsIdx < Len(lcs) /\ newIdx < Len(new) /\ new[newIdx + 1] = lcs[lcsIdx + 1]

Context ==
    /\ phase = "walk" /\ OldIsNext /\ NewIsNext
    /\ LET line == old[oldIdx + 1]
       IN  shown' = DiffRows(Append(shown.old, line), Append(shown.new, line),
                             Append(shown.both, line))
    /\ oldIdx' = oldIdx + 1 /\ newIdx' = newIdx + 1 /\ lcsIdx' = lcsIdx + 1
    /\ UNCHANGED <<contentVars, phase, traceVars>>

Added ==
    /\ phase = "walk" /\ newIdx < Len(new) /\ ~NewIsNext
    /\ shown' = [shown EXCEPT !.new = Append(@, new[newIdx + 1])]
    /\ newIdx' = newIdx + 1
    /\ UNCHANGED <<contentVars, phase, traceVars, oldIdx, lcsIdx>>

\* Neither of the branches before it.
Removed ==
    /\ phase = "walk" /\ oldIdx < Len(old)
    /\ (NewIsNext /\ ~OldIsNext) \/ newIdx = Len(new)
    /\ shown' = [shown EXCEPT !.old = Append(@, old[oldIdx + 1])]
    /\ oldIdx' = oldIdx + 1
    /\ UNCHANGED <<contentVars, phase, traceVars, newIdx, lcsIdx>>

EndWalk ==
    /\ phase = "walk" /\ AtEnd
    /\ phase' = "done"
    /\ UNCHANGED <<contentVars, traceVars, walkVars>>

-----------------------------------------------------------------------------
DiffNext ==
    \/ ShowOneSide \/ StartTrace
    \/ Match \/ DropLine \/ EndTrace
    \/ Context \/ Added \/ Removed \/ EndWalk

DiffSpec == DiffInit /\ [][DiffNext]_diffVars

-----------------------------------------------------------------------------
\* The diff loses and invents nothing, however long the contents and whatever
\* the table says: read without its additions it is the old content, without
\* its removals the new one. (A content that is not there shows no line.)
ShowsBoth ==
    phase = "done" =>
        /\ shown.old = IF OneSided /\ old = Empty THEN <<>> ELSE old
        /\ shown.new = IF OneSided /\ new = Empty THEN <<>> ELSE new

\* The reference: picks is a set of positions of s, and what they pick.
Picks(s, n) == {p \in [1..n -> 1..Len(s)] : \A x, y \in 1..n : x < y => p[x] < p[y]}
Common(a, b, n) ==
    \E p \in Picks(a, n), q \in Picks(b, n) : \A x \in 1..n : a[p[x]] = b[q[x]]

\* It is the smallest such diff of the lines under the cap: as many lines are
\* marked as common as any common subsequence has.
ContextIsLongest ==
    phase = "done" /\ ~OneSided =>
        LET n == Len(shown.both)
        IN  /\ Common(Capped(old), Capped(new), n)
            /\ ~Common(Capped(old), Capped(new), n + 1)

\* The loop never spins without a row: the old content does not run out while
\* the new one waits for its next line to be a common one.
NeverStuck == phase = "walk" => ~(oldIdx = Len(old) /\ NewIsNext)
=============================================================================
