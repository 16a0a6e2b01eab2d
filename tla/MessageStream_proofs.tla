------------------------- MODULE MessageStream_proofs -------------------------
(***************************************************************************)
(* Proofs about MessageStream, for any number of blocks and any lengths of *)
(* messages and of the wire: the texts on the page are those that were     *)
(* produced, in their order, and thinking is never among what it shows.    *)
(*                                                                         *)
(* A position says how far the texts are: the last that was begun, and the *)
(* chunks of it. The page stands at one, which is behind that of the agent *)
(* by what the events on the wire say. A step of the agent adds events     *)
(* that lead to where it stands then; a step of the page takes the first   *)
(* event and goes where that leads. The agent comes to the end of a        *)
(* message by its blocks if they are streamed, by the whole message if     *)
(* they are not, and never by both: a text that was streamed leaves        *)
(* `emitted` true.                                                         *)
(***************************************************************************)
EXTENDS MessageStream, SequenceTheorems, WellFoundedInduction, TLAPS

\* A set of numbers that is not empty has a least one.
LEMMA LeastNumber ==
    ASSUME NEW T, T \subseteq Nat, T # {}
    PROVE  \E n \in T : \A m \in T : n <= m
<1> DEFINE R == OpToRel(<, Nat)
<1>1. IsWellFoundedOn(R, Nat)
  BY NatLessThanWellFounded
<1>2. \A x, y \in Nat : y < x => <<y, x>> \in R
  BY DEF OpToRel
<1> HIDE DEF R
<1>3. PICK n \in T : \A m \in T : ~(<<m, n>> \in R)
  BY <1>1, WFMin
<1>4. \A m \in T : n <= m
  <2> TAKE m \in T
  <2>1. ~(m < n) /\ m \in Nat /\ n \in Nat
    BY <1>2, <1>3
  <2> QED
    BY <2>1
<1> QED
  BY <1>4

-----------------------------------------------------------------------------
(* The stream of events.                                                   *)

\* How far the texts are at a point of the stream of events: the last that was
\* begun, the chunks of it, and whether the next chunk begins another one.
Positions == [last : Nat, chunks : {1, 2}, fresh : BOOLEAN]

\* The event e leads from a to b, where the texts are P.
Says(e, P, a, b) ==
    \/ /\ e.kind \in {"init", "tool_start", "ask_user_question", "error_event", "done"}
       /\ b = [a EXCEPT !.fresh = TRUE]
    \/ /\ e.kind \in {"thinking_delta", "tool_result"}
       /\ b = a
    \/ /\ e.kind = "text_delta"
       /\ a.fresh
       /\ a.chunks = 2
       /\ b.last \in P
       /\ a.last < b.last
       /\ \A n \in P : n <= a.last \/ b.last <= n
       /\ e.text = IF b.chunks = 1 THEN <<b.last>> ELSE Whole(b.last)
       /\ ~b.fresh
    \/ /\ e.kind = "text_delta"
       /\ ~a.fresh
       /\ a.chunks = 1
       /\ e.text = <<a.last>>
       /\ b = [a EXCEPT !.chunks = 2]

\* The events of w lead from a to b.
Leads(w, P, a, b) ==
    \E pos \in [0..Len(w) -> Positions] :
        /\ pos[0] = a
        /\ pos[Len(w)] = b
        /\ \A k \in 1..Len(w) : Says(w[k], P, pos[k-1], pos[k])

\* No event leads nowhere.
LEMMA LeadsNone ==
    ASSUME NEW P, NEW a \in Positions
    PROVE  Leads(<<>>, P, a, a)
<1> DEFINE pos == [k \in 0..0 |-> a]
<1>1. pos \in [0..Len(<<>>) -> Positions] /\ pos[0] = a /\ pos[Len(<<>>)] = a
  OBVIOUS
<1>2. \A k \in 1..Len(<<>>) : FALSE
  OBVIOUS
<1> HIDE DEF pos
<1> QED
  BY <1>1, <1>2 DEF Leads

\* One event leads as far as it says.
LEMMA LeadsOne ==
    ASSUME NEW P, NEW a \in Positions, NEW b \in Positions, NEW e, Says(e, P, a, b)
    PROVE  Leads(<<e>>, P, a, b)
<1> DEFINE pos == [k \in 0..1 |-> IF k = 0 THEN a ELSE b]
<1>1. Len(<<e>>) = 1 /\ <<e>>[1] = e
  OBVIOUS
<1>2. pos \in [0..1 -> Positions] /\ pos[0] = a /\ pos[1] = b
  OBVIOUS
<1>3. \A k \in 1..1 : k = 1 /\ k - 1 = 0
  OBVIOUS
<1> HIDE DEF pos
<1>4. \A k \in 1..Len(<<e>>) : Says(<<e>>[k], P, pos[k-1], pos[k])
  BY <1>1, <1>2, <1>3
<1> QED
  BY <1>1, <1>2, <1>4 DEF Leads

\* And so do two.
LEMMA LeadsTwo ==
    ASSUME NEW P, NEW a \in Positions, NEW b \in Positions, NEW c \in Positions,
           NEW e, NEW f, Says(e, P, a, b), Says(f, P, b, c)
    PROVE  Leads(<<e, f>>, P, a, c)
<1> DEFINE pos == [k \in 0..2 |-> IF k = 0 THEN a ELSE IF k = 1 THEN b ELSE c]
<1>1. Len(<<e, f>>) = 2 /\ <<e, f>>[1] = e /\ <<e, f>>[2] = f
  OBVIOUS
<1>2. pos \in [0..2 -> Positions] /\ pos[0] = a /\ pos[1] = b /\ pos[2] = c
  OBVIOUS
<1>3. \A k \in 1..2 : (k = 1 /\ k - 1 = 0) \/ (k = 2 /\ k - 1 = 1)
  OBVIOUS
<1> HIDE DEF pos
<1>4. \A k \in 1..Len(<<e, f>>) : Says(<<e, f>>[k], P, pos[k-1], pos[k])
  BY <1>1, <1>2, <1>3
<1> QED
  BY <1>1, <1>2, <1>4 DEF Leads

\* One stretch after the other.
LEMMA LeadsJoin ==
    ASSUME NEW S, NEW v \in Seq(S), NEW w \in Seq(S), NEW P, NEW a, NEW b, NEW c,
           Leads(v, P, a, b), Leads(w, P, b, c)
    PROVE  Leads(v \o w, P, a, c)
<1>1. PICK f \in [0..Len(v) -> Positions] :
          f[0] = a /\ f[Len(v)] = b /\ \A k \in 1..Len(v) : Says(v[k], P, f[k-1], f[k])
  BY DEF Leads
<1>2. PICK g \in [0..Len(w) -> Positions] :
          g[0] = b /\ g[Len(w)] = c /\ \A k \in 1..Len(w) : Says(w[k], P, g[k-1], g[k])
  BY DEF Leads
<1>3. /\ Len(v) \in Nat /\ Len(w) \in Nat /\ Len(v \o w) = Len(v) + Len(w)
      /\ \A k \in 1..Len(v) + Len(w) :
            (v \o w)[k] = IF k <= Len(v) THEN v[k] ELSE w[k - Len(v)]
  OBVIOUS
<1> DEFINE m == Len(v)
           n == Len(w)
           u == v \o w
           pos == [k \in 0..m + n |-> IF k <= m THEN f[k] ELSE g[k - m]]
<1>4. /\ m \in Nat /\ n \in Nat /\ Len(u) = m + n
      /\ \A k \in 1..m + n : u[k] = IF k <= m THEN v[k] ELSE w[k - m]
  BY <1>3
<1>5. f[m] = b /\ g[0] = b /\ g[n] = c /\ f[0] = a /\ f \in [0..m -> Positions] /\ g \in [0..n -> Positions]
  BY <1>1, <1>2
<1>6. (\A k \in 1..m : Says(v[k], P, f[k-1], f[k])) /\ (\A k \in 1..n : Says(w[k], P, g[k-1], g[k]))
  BY <1>1, <1>2
<1> HIDE DEF m, n, u
<1>7. pos \in [0..m + n -> Positions]
  <2> SUFFICES ASSUME NEW k \in 0..m + n
               PROVE  (IF k <= m THEN f[k] ELSE g[k - m]) \in Positions
    OBVIOUS
  <2>1. CASE k <= m
    BY <2>1, <1>4, <1>5
  <2>2. CASE ~(k <= m)
    <3>1. k - m \in 0..n
      BY <2>2, <1>4
    <3> QED
      BY <2>2, <3>1, <1>5
  <2> QED
    BY <2>1, <2>2
<1>8. pos[0] = a /\ pos[m + n] = c
  <2>1. 0 \in 0..m+n /\ m + n \in 0..m+n /\ 0 <= m
    BY <1>4
  <2>2. pos[0] = a
    BY <2>1, <1>5
  <2>3. CASE n = 0
    BY <2>1, <2>3, <1>4, <1>5
  <2>4. CASE n # 0
    <3>1. ~(m + n <= m) /\ (m + n) - m = n
      BY <2>4, <1>4
    <3> QED
      BY <2>1, <2>2, <3>1, <1>5
  <2> QED
    BY <2>2, <2>3, <2>4
<1>9. ASSUME NEW k \in 1..m + n
      PROVE  Says(u[k], P, pos[k-1], pos[k])
  <2>1. k \in 0..m+n /\ k - 1 \in 0..m+n
    BY <1>4
  <2>2. CASE k <= m
    <3>1. pos[k] = f[k] /\ pos[k-1] = f[k-1] /\ u[k] = v[k] /\ k \in 1..m
      BY <2>1, <2>2, <1>4
    <3> QED
      BY <3>1, <1>6
  <2>3. CASE k = m + 1
    <3>3. ~(k <= m) /\ k - m = 1 /\ k - 1 = m /\ m <= m /\ 1 \in 1..n /\ 1 - 1 = 0
      BY <2>3, <1>4
    <3>1. pos[k] = g[1] /\ pos[k-1] = b /\ u[k] = w[1]
      BY <2>1, <3>3, <1>4, <1>5
    <3>2. Says(w[1], P, g[1 - 1], g[1])
      BY <3>3, <1>6
    <3> QED
      BY <3>1, <3>2, <3>3, <1>5
  <2>4. CASE ~(k <= m) /\ k # m + 1
    <3>1. ~(k - 1 <= m) /\ (k - 1) - m = (k - m) - 1 /\ k - m \in 1..n
      BY <2>1, <2>4, <1>4
    <3>2. pos[k] = g[k - m] /\ pos[k-1] = g[(k - m) - 1] /\ u[k] = w[k - m]
      BY <2>1, <2>4, <3>1, <1>4
    <3> QED
      BY <3>1, <3>2, <1>6
  <2> QED
    BY <2>2, <2>3, <2>4, <1>4
<1> HIDE DEF pos
<1>10. Leads(u, P, a, c)
  BY <1>4, <1>7, <1>8, <1>9 DEF Leads
<1> QED
  BY <1>10 DEF u

\* The first event, and the others.
LEMMA LeadsTail ==
    ASSUME NEW S, NEW w \in Seq(S), w # <<>>, NEW P, NEW a, NEW b, Leads(w, P, a, b)
    PROVE  /\ a \in Positions
           /\ \E c \in Positions : Says(Head(w), P, a, c) /\ Leads(Tail(w), P, c, b)
<1>1. PICK f \in [0..Len(w) -> Positions] :
          f[0] = a /\ f[Len(w)] = b /\ \A k \in 1..Len(w) : Says(w[k], P, f[k-1], f[k])
  BY DEF Leads
<1> DEFINE n == Len(w)
           t == Tail(w)
           g == [k \in 0..n - 1 |-> f[k + 1]]
<1>2. /\ n \in Nat \ {0} /\ Len(t) = n - 1 /\ Head(w) = w[1]
      /\ \A k \in 1..n - 1 : t[k] = w[k + 1]
  OBVIOUS
<1>3. /\ f \in [0..n -> Positions] /\ f[0] = a /\ f[n] = b
      /\ \A k \in 1..n : Says(w[k], P, f[k-1], f[k])
  BY <1>1
<1> HIDE DEF n, t
<1>4. \A k \in 0..n - 1 : k + 1 \in 0..n
  BY <1>2
<1>5. g \in [0..n - 1 -> Positions]
  BY <1>3, <1>4
<1>6. g[0] = f[1] /\ g[n - 1] = b
  <2>1. 0 \in 0..n-1 /\ n - 1 \in 0..n-1 /\ 0 + 1 = 1 /\ (n - 1) + 1 = n
    BY <1>2
  <2> QED
    BY <2>1, <1>3
<1>7. ASSUME NEW k \in 1..n - 1
      PROVE  Says(t[k], P, g[k-1], g[k])
  <2>1. k \in 0..n-1 /\ k - 1 \in 0..n-1 /\ (k - 1) + 1 = (k + 1) - 1 /\ k + 1 \in 1..n
    BY <1>2
  <2>2. g[k-1] = f[(k+1)-1] /\ g[k] = f[k+1] /\ t[k] = w[k+1]
    BY <2>1, <1>2
  <2> QED
    BY <2>1, <2>2, <1>3
<1> HIDE DEF g
<1>8. Leads(t, P, f[1], b)
  BY <1>2, <1>5, <1>6, <1>7 DEF Leads
<1>9. 1 \in 1..n /\ 1 \in 0..n /\ 0 \in 0..n /\ 1 - 1 = 0
  BY <1>2
<1>10. Says(w[1], P, f[1 - 1], f[1]) /\ f[1] \in Positions /\ a \in Positions
  BY <1>3, <1>9
<1>11. Says(Head(w), P, a, f[1])
  BY <1>2, <1>3, <1>9, <1>10
<1> QED
  BY <1>8, <1>10, <1>11 DEF t

\* Later texts change nothing about it.
LEMMA LeadsMore ==
    ASSUME NEW w, NEW P, NEW Q, P \subseteq Q, Q \subseteq Nat,
           \A x \in Q \ P, y \in P : y <= x,
           NEW a, NEW b, Leads(w, P, a, b)
    PROVE  Leads(w, Q, a, b)
<1>1. ASSUME NEW e, NEW c, NEW d, Says(e, P, c, d)
      PROVE  Says(e, Q, c, d)
  BY <1>1 DEF Says
<1>2. PICK f \in [0..Len(w) -> Positions] :
          f[0] = a /\ f[Len(w)] = b /\ \A k \in 1..Len(w) : Says(w[k], P, f[k-1], f[k])
  BY DEF Leads
<1>3. \A k \in 1..Len(w) : Says(w[k], Q, f[k-1], f[k])
  BY <1>1, <1>2
<1> QED
  BY <1>2, <1>3 DEF Leads

-----------------------------------------------------------------------------
(* The events of a whole message.                                          *)

\* What AllBlockEvents fills its function d with.
JoinedUpTo(c, m, d) ==
    [k \in 0..m |-> IF k = 0 THEN <<>> ELSE d[k-1] \o BlockEvents(c[k])]

\* For every beginning of a message there is such a function.
LEMMA JoinedExists ==
    ASSUME NEW c, NEW m \in Nat
    PROVE  \E d : d = JoinedUpTo(c, m, d)
<1> DEFINE Has(k) == \E d : d = JoinedUpTo(c, k, d)
           T == {k \in Nat : ~Has(k)}
<1> HIDE DEF Has
<1>1. SUFFICES ASSUME ~Has(m)
               PROVE  FALSE
  BY DEF Has
<1>2. T \subseteq Nat /\ m \in T
  BY <1>1
<1> HIDE DEF T
<1>3. PICK k \in T : \A l \in T : k <= l
  BY <1>2, LeastNumber
<1>4. k \in Nat /\ ~Has(k)
  BY <1>3 DEF T
<1>5. CASE k = 0
  <2> DEFINE d == [l \in 0..0 |-> <<>>]
  <2>1. \A l \in 0..0 : l = 0
    OBVIOUS
  <2>2. d = JoinedUpTo(c, 0, d)
    BY <2>1 DEF JoinedUpTo
  <2> HIDE DEF d
  <2> QED
    BY <2>2, <1>4, <1>5 DEF Has
<1>6. CASE k # 0
  <2>1. k - 1 \in Nat /\ ~(k <= k - 1)
    BY <1>4, <1>6
  <2>2. Has(k - 1)
    BY <2>1, <1>3 DEF T
  <2>3. PICK f : f = JoinedUpTo(c, k - 1, f)
    BY <2>2 DEF Has
  <2> DEFINE d == [l \in 0..k |-> IF l = k THEN f[k-1] \o BlockEvents(c[k]) ELSE f[l]]
  <2>4. \A l \in 0..k : l # k => l \in 0..k-1
    BY <1>4
  <2>5. \A l \in 0..k-1 : f[l] = IF l = 0 THEN <<>> ELSE f[l-1] \o BlockEvents(c[l])
    BY <2>3 DEF JoinedUpTo
  <2>6. ASSUME NEW l \in 0..k
        PROVE  d[l] = IF l = 0 THEN <<>> ELSE d[l-1] \o BlockEvents(c[l])
    <3>1. CASE l = k
      <4>1. k - 1 \in 0..k /\ k - 1 # k /\ l # 0 /\ k \in 0..k
        BY <1>4, <1>6, <3>1
      <4>2. d[k-1] = f[k-1] /\ d[k] = f[k-1] \o BlockEvents(c[k])
        BY <4>1
      <4> QED
        BY <4>1, <4>2, <3>1
    <3>2. CASE l # k /\ l = 0
      <4>1. d[l] = f[l] /\ l \in 0..k-1
        BY <3>2, <2>4
      <4> QED
        BY <4>1, <2>5, <3>2
    <3>3. CASE l # k /\ l # 0
      <4>1. l \in 0..k-1 /\ l - 1 \in 0..k /\ l - 1 # k
        BY <3>3, <1>4
      <4>2. d[l] = f[l] /\ d[l-1] = f[l-1]
        BY <4>1, <3>3
      <4> QED
        BY <4>1, <4>2, <2>5, <3>3
    <3> QED
      BY <3>1, <3>2, <3>3
  <2>7. d = [l \in 0..k |-> d[l]]
    OBVIOUS
  <2> HIDE DEF d
  <2>8. d = JoinedUpTo(c, k, d)
    BY <2>6, <2>7 DEF JoinedUpTo
  <2> QED
    BY <2>8, <1>4 DEF Has
<1> QED
  BY <1>5, <1>6

\* So AllBlockEvents joins the events of the blocks from the first to the last.
LEMMA AllJoined ==
    ASSUME NEW c, Len(c) \in Nat
    PROVE  \E f : /\ AllBlockEvents(c) = f[Len(c)]
                  /\ f[0] = <<>>
                  /\ \A k \in 1..Len(c) : f[k] = f[k-1] \o BlockEvents(c[k])
<1> DEFINE f == CHOOSE d : d = JoinedUpTo(c, Len(c), d)
<1>1. AllBlockEvents(c) = f[Len(c)]
  BY DEF AllBlockEvents, JoinedUpTo
<1>2. f = JoinedUpTo(c, Len(c), f)
  BY JoinedExists
<1> HIDE DEF f
<1>3. \A k \in 0..Len(c) : f[k] = IF k = 0 THEN <<>> ELSE f[k-1] \o BlockEvents(c[k])
  BY <1>2 DEF JoinedUpTo
<1>4. 0 \in 0..Len(c) /\ \A k \in 1..Len(c) : k \in 0..Len(c) /\ k # 0
  OBVIOUS
<1>5. f[0] = <<>>
  BY <1>3, <1>4
<1>6. \A k \in 1..Len(c) : f[k] = f[k-1] \o BlockEvents(c[k])
  BY <1>3, <1>4
<1> QED
  BY <1>1, <1>5, <1>6

EventKinds == {"init", "thinking_delta", "text_delta", "tool_start", "tool_result",
               "ask_user_question", "error_event", "done"}
WireEvent == [kind : EventKinds, n : Numbers \cup {None}, text : Seq(Nat)]
Message == Seq([kind : Kinds, n : Numbers])

\* The texts of a message up to a block.
TextsTo(c, k) == {c[l].n : l \in {x \in 1..k : c[x].kind = "text"}}

\* The kinds there are.
LEMMA KindsOfEvents ==
    /\ "init" \in EventKinds /\ "thinking_delta" \in EventKinds /\ "text_delta" \in EventKinds
    /\ "tool_start" \in EventKinds /\ "tool_result" \in EventKinds
    /\ "ask_user_question" \in EventKinds /\ "error_event" \in EventKinds
    /\ "done" \in EventKinds
    /\ None \in Numbers \cup {None} /\ <<>> \in Seq(Nat)
BY DEF EventKinds

\* What the events of a block lead to: its text is begun, if it has one, and
\* all of it told.
LEMMA BlockLeads ==
    ASSUME NEW block \in [kind : Kinds, n : Numbers], NEW P \in SUBSET Nat,
           NEW a \in Positions, a.chunks = 2,
           block.kind = "text" =>
              /\ block.n \in P /\ a.last < block.n
              /\ \A x \in P : x <= a.last \/ block.n <= x
    PROVE  /\ BlockEvents(block) \in Seq(WireEvent)
           /\ \E b \in Positions :
                 /\ Leads(BlockEvents(block), P, a, b)
                 /\ b.chunks = 2
                 /\ b.last = IF block.kind = "text" THEN block.n ELSE a.last
<1>0. block.n \in Nat /\ block.n \in Numbers /\ Numbers \subseteq Nat /\ block.kind \in Kinds
  BY StreamAssumption DEF Numbers
<1>1. CASE block.kind = "text"
  <2> DEFINE e1 == Event("init", None, <<>>)
             e2 == Event("text_delta", None, Whole(block.n))
             a1 == [a EXCEPT !.fresh = TRUE]
             b == [last |-> block.n, chunks |-> 2, fresh |-> FALSE]
  <2>1. <<>> \in Seq(Nat) /\ Whole(block.n) \in Seq(Nat)
    BY <1>0 DEF Whole
  <2>2. /\ e1 \in WireEvent /\ e1.kind = "init"
        /\ e2 \in WireEvent /\ e2.kind = "text_delta" /\ e2.text = Whole(block.n)
    BY <2>1, KindsOfEvents DEF Event, WireEvent
  <2>3. BlockEvents(block) = <<e1, e2>>
    BY <1>1 DEF BlockEvents
  <2> HIDE DEF e1, e2
  <2>4. a1 \in Positions /\ a1.fresh /\ a1.chunks = 2 /\ a1.last = a.last /\ b \in Positions
    BY <1>0 DEF Positions
  <2>5. b.last = block.n /\ b.chunks = 2 /\ b.fresh = FALSE
    OBVIOUS
  <2>6. Says(e1, P, a, a1)
    BY <2>2 DEF Says
  <2> HIDE DEF a1, b
  <2>7. Says(e2, P, a1, b)
    BY <1>1, <2>2, <2>4, <2>5 DEF Says
  <2>8. Leads(<<e1, e2>>, P, a, b)
    BY <2>4, <2>6, <2>7, LeadsTwo
  <2>11. <<e1, e2>> \in Seq(WireEvent)
    BY <2>2
  <2> QED
    BY <1>1, <2>3, <2>4, <2>5, <2>8, <2>11
<1>2. CASE block.kind = "thinking"
  <2> DEFINE e == Event("thinking_delta", None, Whole(block.n))
  <2>1. Whole(block.n) \in Seq(Nat)
    BY <1>0 DEF Whole
  <2>2. e \in WireEvent /\ e.kind = "thinking_delta"
    BY <2>1, KindsOfEvents DEF Event, WireEvent
  <2>3. BlockEvents(block) = <<e>>
    BY <1>2 DEF BlockEvents
  <2> HIDE DEF e
  <2>4. Leads(<<e>>, P, a, a)
    BY <2>2, LeadsOne DEF Says
  <2> QED
    BY <1>2, <2>2, <2>3, <2>4
<1>3. CASE block.kind = "tool"
  <2> DEFINE e == Event("tool_start", block.n, <<>>)
             b == [a EXCEPT !.fresh = TRUE]
  <2>1. <<>> \in Seq(Nat)
    OBVIOUS
  <2>2. e \in WireEvent /\ e.kind = "tool_start"
    BY <2>1, <1>0, KindsOfEvents DEF Event, WireEvent
  <2>3. BlockEvents(block) = <<e>>
    BY <1>3 DEF BlockEvents
  <2>4. b \in Positions /\ b.chunks = 2 /\ b.last = a.last
    BY DEF Positions
  <2> HIDE DEF e
  <2>5. Says(e, P, a, b)
    BY <2>2 DEF Says
  <2> HIDE DEF b
  <2>6. Leads(<<e>>, P, a, b)
    BY <2>4, <2>5, LeadsOne
  <2> QED
    BY <1>3, <2>2, <2>3, <2>4, <2>6
<1>4. CASE block.kind = "question"
  <2>1. BlockEvents(block) = <<>>
    BY <1>4 DEF BlockEvents
  <2> QED
    BY <1>4, <2>1, LeadsNone
<1> QED
  BY <1>0, <1>1, <1>2, <1>3, <1>4 DEF Kinds

\* The events of a whole message tell its texts, in order and completely, where
\* T has been told before and they come next.
LEMMA AllLeads ==
    ASSUME NEW c \in Message, NEW P \in SUBSET Nat, NEW T \in SUBSET Nat,
           NEW a \in Positions, a.chunks = 2,
           \A x \in P : x \in T \/ x \in TextsTo(c, Len(c)),
           \A x \in P : x <= a.last <=> x \in T,
           TextsTo(c, Len(c)) \subseteq P \ T,
           \A k, l \in 1..Len(c) : k < l => c[k].n < c[l].n,
           a.last \in P \cup {0}
    PROVE  /\ AllBlockEvents(c) \in Seq(WireEvent)
           /\ \E b \in Positions :
                 /\ Leads(AllBlockEvents(c), P, a, b)
                 /\ b.chunks = 2
                 /\ b.last \in P \cup {0}
                 /\ \A x \in P : x <= b.last <=> x \in T \/ x \in TextsTo(c, Len(c))
<1>0. Len(c) \in Nat /\ (\A k \in 1..Len(c) : c[k] \in [kind : Kinds, n : Numbers] /\ c[k].n \in Nat)
  <2> DEFINE B == [kind : Kinds, n : Numbers]
  <2>1. c \in Seq(B)
    BY DEF Message
  <2>2. \A x \in B : x.n \in Nat
    BY StreamAssumption DEF Numbers
  <2> HIDE DEF B
  <2>3. Len(c) \in Nat /\ \A k \in 1..Len(c) : c[k] \in B
    BY <2>1
  <2> QED
    BY <2>2, <2>3 DEF B
<1>1. PICK f : /\ AllBlockEvents(c) = f[Len(c)]
               /\ f[0] = <<>>
               /\ \A k \in 1..Len(c) : f[k] = f[k-1] \o BlockEvents(c[k])
  BY <1>0, AllJoined
<1> DEFINE Fine(k) ==
              /\ f[k] \in Seq(WireEvent)
              /\ \E b \in Positions :
                    /\ Leads(f[k], P, a, b)
                    /\ b.chunks = 2
                    /\ b.last \in P \cup {0}
                    /\ \A x \in P : x <= b.last <=> x \in T \/ x \in TextsTo(c, k)
           Bad == {k \in Nat : k <= Len(c) /\ ~Fine(k)}
<1>2. Fine(0)
  <2>1. TextsTo(c, 0) = {}
    BY DEF TextsTo
  <2>2. <<>> \in Seq(WireEvent) /\ Leads(<<>>, P, a, a)
    BY LeadsNone
  <2> QED
    BY <1>1, <2>1, <2>2
<1>3. ASSUME NEW k \in 1..Len(c), Fine(k - 1)
      PROVE  Fine(k)
  <2>1. PICK b \in Positions :
                    /\ Leads(f[k-1], P, a, b)
                    /\ b.chunks = 2
                    /\ b.last \in P \cup {0}
                    /\ \A x \in P : x <= b.last <=> x \in T \/ x \in TextsTo(c, k - 1)
    BY <1>3
  <2>2. k \in Nat /\ k <= Len(c) /\ b.last \in Nat
    BY <1>0 DEF Positions
  <2>3. /\ TextsTo(c, k) = TextsTo(c, k - 1) \cup (IF c[k].kind = "text" THEN {c[k].n} ELSE {})
        /\ \A x \in TextsTo(c, k - 1) : x < c[k].n
        /\ \A x \in TextsTo(c, Len(c)) : x \in TextsTo(c, k - 1) \/ c[k].n <= x
        /\ c[k].kind = "text" => c[k].n \in TextsTo(c, Len(c))
    <3>1. 1..k = (1..k-1) \cup {k} /\ k \in 1..Len(c) /\ \A l \in 1..k-1 : l \in 1..Len(c) /\ l < k
      BY <2>2, <1>0
    <3>2. \A l \in 1..Len(c) : l \in 1..k-1 \/ l = k \/ k < l
      BY <2>2, <1>0
    <3>3. TextsTo(c, k) = TextsTo(c, k - 1) \cup (IF c[k].kind = "text" THEN {c[k].n} ELSE {})
      BY <3>1 DEF TextsTo
    <3>4. \A x \in TextsTo(c, k - 1) : x < c[k].n
      BY <3>1 DEF TextsTo
    <3>5. \A x \in TextsTo(c, Len(c)) : x \in TextsTo(c, k - 1) \/ c[k].n <= x
      <4> SUFFICES ASSUME NEW l \in 1..Len(c), c[l].kind = "text"
                   PROVE  c[l].n \in TextsTo(c, k - 1) \/ c[k].n <= c[l].n
        BY DEF TextsTo
      <4>1. CASE l \in 1..k-1
        BY <4>1 DEF TextsTo
      <4>2. CASE l = k
        BY <4>2, <1>0
      <4>3. CASE k < l
        <5>1. c[k].n < c[l].n /\ c[k].n \in Nat /\ c[l].n \in Nat
          BY <4>3, <1>0
        <5> QED
          BY <5>1
      <4> QED
        BY <3>2, <4>1, <4>2, <4>3
    <3>6. c[k].kind = "text" => c[k].n \in TextsTo(c, Len(c))
      BY DEF TextsTo
    <3> QED
      BY <3>3, <3>4, <3>5, <3>6
  <2>4. c[k].kind = "text" =>
              /\ c[k].n \in P /\ b.last < c[k].n
              /\ \A x \in P : x <= b.last \/ c[k].n <= x
    <3> SUFFICES ASSUME c[k].kind = "text"
                 PROVE  /\ c[k].n \in P /\ b.last < c[k].n
                        /\ \A x \in P : x <= b.last \/ c[k].n <= x
      OBVIOUS
    <3>1. c[k].n \in P /\ c[k].n \notin T /\ c[k].n \in Nat
      BY <2>3, <1>0
    <3>2. c[k].n \notin TextsTo(c, k - 1)
      BY <2>3, <3>1
    <3>3. ~(c[k].n <= b.last)
      BY <2>1, <3>1, <3>2
    <3>4. \A x \in P : x <= b.last \/ c[k].n <= x
      BY <2>1, <2>3
    <3> QED
      BY <3>1, <3>3, <3>4, <2>2
  <2>5. /\ BlockEvents(c[k]) \in Seq(WireEvent)
        /\ \E d \in Positions : /\ Leads(BlockEvents(c[k]), P, b, d)
                                /\ d.chunks = 2
                                /\ d.last = IF c[k].kind = "text" THEN c[k].n ELSE b.last
    <3>1. c[k] \in [kind : Kinds, n : Numbers]
      BY <1>0
    <3> DEFINE block == c[k]
    <3> HIDE DEF block
    <3>2. block \in [kind : Kinds, n : Numbers]
      BY <3>1 DEF block
    <3>3. block.kind = "text" =>
              /\ block.n \in P /\ b.last < block.n
              /\ \A x \in P : x <= b.last \/ block.n <= x
      BY <2>4 DEF block
    <3>4. /\ BlockEvents(block) \in Seq(WireEvent)
          /\ \E d \in Positions : /\ Leads(BlockEvents(block), P, b, d)
                                  /\ d.chunks = 2
                                  /\ d.last = IF block.kind = "text" THEN block.n ELSE b.last
      <4>1. P \in SUBSET Nat /\ b \in Positions /\ b.chunks = 2
        BY <2>1
      <4> QED
        BY <3>2, <3>3, <4>1, BlockLeads
    <3> QED
      BY <3>4 DEF block
  <2>6. PICK d \in Positions : /\ Leads(BlockEvents(c[k]), P, b, d)
                               /\ d.chunks = 2
                               /\ d.last = IF c[k].kind = "text" THEN c[k].n ELSE b.last
    BY <2>5
  <2>7. f[k] = f[k-1] \o BlockEvents(c[k]) /\ f[k-1] \in Seq(WireEvent)
    BY <1>1, <1>3
  <2>8. f[k] \in Seq(WireEvent) /\ Leads(f[k], P, a, d)
    BY <2>1, <2>5, <2>6, <2>7, LeadsJoin
  <2>9. d.last \in P \cup {0} /\ \A x \in P : x <= d.last <=> x \in T \/ x \in TextsTo(c, k)
    <3>1. CASE c[k].kind = "text"
      <4>1. d.last = c[k].n /\ c[k].n \in P /\ b.last < c[k].n
        BY <3>1, <2>4, <2>6
      <4>2. ASSUME NEW x \in P
            PROVE  x <= d.last <=> x \in T \/ x \in TextsTo(c, k)
        <5>1. x \in Nat /\ c[k].n \in Nat
          BY <4>1
        <5>2. (x <= b.last <=> x \in T \/ x \in TextsTo(c, k - 1)) /\ (x <= b.last \/ c[k].n <= x)
          BY <3>1, <2>1, <2>4
        <5>3. x \in TextsTo(c, k) <=> x \in TextsTo(c, k - 1) \/ x = c[k].n
          BY <3>1, <2>3
        <5> QED
          BY <5>1, <5>2, <5>3, <4>1, <2>2
      <4> QED
        BY <4>1, <4>2
    <3>2. CASE c[k].kind # "text"
      BY <3>2, <2>1, <2>3, <2>6
    <3> QED
      BY <3>1, <3>2
  <2> QED
    BY <2>6, <2>8, <2>9
<1> HIDE DEF Fine
<1>4. SUFFICES Fine(Len(c))
  BY <1>1 DEF Fine
<1>5. SUFFICES ASSUME ~Fine(Len(c))
               PROVE  FALSE
  OBVIOUS
<1>6. Bad \subseteq Nat /\ Len(c) \in Bad
  BY <1>0, <1>5
<1> HIDE DEF Bad
<1>7. PICK k \in Bad : \A l \in Bad : k <= l
  BY <1>6, LeastNumber
<1>8. k \in Nat /\ k <= Len(c) /\ ~Fine(k)
  BY <1>7 DEF Bad
<1>9. k # 0
  BY <1>2, <1>8
<1>10. k \in 1..Len(c) /\ k - 1 \in Nat /\ k - 1 <= Len(c) /\ ~(k <= k - 1)
  BY <1>0, <1>8, <1>9
<1>11. Fine(k - 1)
  BY <1>7, <1>10 DEF Bad
<1> QED
  BY <1>3, <1>8, <1>10, <1>11

-----------------------------------------------------------------------------
(* The invariant.                                                          *)

TextsIn(blocks) == {block.n : block \in {b \in blocks : b.kind = "text"}}

\* The agent is in the midst of a text.
InText == open # None /\ message[at + 1].kind = "text"

\* The texts the agent has begun to tell.
Told ==
    TextsIn(Written) \cup TextsTo(message, at)
                     \cup IF InText /\ open # 0 THEN {message[at + 1].n} ELSE {}

\* The agent stands at a.
AgentAt(a) ==
    query = "running" =>
        /\ a.last \in Produced \cup {0}
        /\ \A n \in Produced : n <= a.last <=> n \in Told
        /\ a.chunks = IF InText /\ open = 1 THEN 1 ELSE 2
        /\ InText => (a.fresh <=> open = 0)

TextsOf(ms) == {i \in DOMAIN ms : ms[i].kind = "text"}

\* The block a message of the page is from.
BlockOf(m) == Head(m.text)

\* The messages ms show the texts of P up to where a stands.
Shown(ms, P, a) ==
    /\ a.last \in P \cup {0}
    /\ \A i \in TextsOf(ms) :
          /\ BlockOf(ms[i]) \in P
          /\ BlockOf(ms[i]) <= a.last
          /\ ms[i].text = IF BlockOf(ms[i]) = a.last /\ a.chunks = 1
                          THEN <<BlockOf(ms[i])>> ELSE Whole(BlockOf(ms[i]))
    /\ \A i, j \in TextsOf(ms) : i < j => BlockOf(ms[i]) < BlockOf(ms[j])
    /\ \A n \in P : n <= a.last => \E i \in TextsOf(ms) : BlockOf(ms[i]) = n

\* The text id is the last of them.
LastText(ms, a, id) == \E i \in TextsOf(ms) : ms[i].id = id /\ BlockOf(ms[i]) = a.last

\* The page stands at a: what is to be appended goes to the last of its texts.
PageAt(a) ==
    /\ Shown(messages, Produced, a)
    /\ a.fresh <=> assistant = None
    /\ assistant # None => LastText(messages, a, assistant)

\* What is on the wire leads from where the page is to where the agent is.
Linked == \E a, b \in Positions : PageAt(a) /\ AgentAt(b) /\ Leads(wire, Produced, a, b)

PageMessage == [id : Nat, kind : {"thinking", "text", "tool", "error"}, tool : Numbers \cup {None},
                text : Seq(Nat), result : BOOLEAN]

\* Messages have ids in their order.
Ordered(ms, next) ==
    /\ ms \in Seq(PageMessage)
    /\ next \in Nat
    /\ \A i \in DOMAIN ms : ms[i].id < next
    /\ \A i, j \in DOMAIN ms : i < j => ms[i].id < ms[j].id

\* The current bubble is none of the texts.
NoTextBubble(ms, bubble) == \A i \in DOMAIN ms : ms[i].id = bubble => ms[i].kind = "thinking"

PageInv == Ordered(messages, nextId) /\ NoTextBubble(messages, thinking)

Record == [role : {"user", "assistant"}, content : Seq(Blocks)]
Tools == [kind : {"tool", "question"}, n : Numbers]

\* Blocks have numbers in their order; nothing is streamed while tools run, or
\* after an exception that cut a block; a text that was streamed is on record.
AgentInv ==
    /\ streamed \in BOOLEAN /\ typed \in BOOLEAN /\ emitted \in BOOLEAN
    /\ query \in {"running", "over", "failed"}
    /\ message \in Message
    /\ at \in 0..Len(message)
    /\ due \subseteq Tools
    /\ due # {} => message = <<>>
    /\ transcript \in Seq(Record)
    /\ open \in {None, 0, 1, 2}
    /\ wire \in Seq(WireEvent)
    /\ \A i \in 1..Len(message), b \in Written : b.n < message[i].n
    /\ \A i, j \in 1..Len(message) : i < j => message[i].n < message[j].n
    /\ ~streamed => open = None /\ at = 0 /\ ~emitted
    /\ open # None => at < Len(message)
    /\ open \in {1, 2} => message[at + 1].kind \in {"text", "thinking"}
    /\ streamed /\ ~emitted => ~InText /\ Told = {}

StreamInv == AgentInv /\ PageInv /\ Linked

\* The blocks of a record of this length and one more.
LEMMA WrittenAppend ==
    ASSUME transcript \in Seq(Record), NEW r \in Record, transcript' = Append(transcript, r)
    PROVE  transcript' \in Seq(Record) /\ Written' = Written \cup Range(r.content)
<1>1. /\ Len(transcript) \in Nat /\ Len(transcript') = Len(transcript) + 1
      /\ transcript' \in Seq(Record)
      /\ DOMAIN transcript = 1..Len(transcript) /\ DOMAIN transcript' = 1..Len(transcript')
      /\ \A i \in 1..Len(transcript) : transcript'[i] = transcript[i]
      /\ transcript'[Len(transcript) + 1] = r
  OBVIOUS
<1>2. Written' = UNION {Range(transcript'[i].content) : i \in 1..Len(transcript) + 1}
  BY <1>1 DEF Written
<1>3. Written = UNION {Range(transcript[i].content) : i \in 1..Len(transcript)}
  BY <1>1 DEF Written
<1>4. \A i \in 1..Len(transcript) + 1 : i \in 1..Len(transcript) \/ i = Len(transcript) + 1
  BY <1>1
<1>5. 1..Len(transcript) \subseteq 1..Len(transcript) + 1 /\ Len(transcript) + 1 \in 1..Len(transcript) + 1
  BY <1>1
<1>6. Written' \subseteq Written \cup Range(r.content)
  BY <1>1, <1>2, <1>3, <1>4
<1>7. Written \cup Range(r.content) \subseteq Written'
  BY <1>1, <1>2, <1>3, <1>5
<1> QED
  BY <1>1, <1>6, <1>7

\* The record's blocks, and those of a message.
LEMMA BlockFacts ==
    ASSUME AgentInv
    PROVE  /\ Written \subseteq Blocks
           /\ Len(message) \in Nat /\ DOMAIN message = 1..Len(message)
           /\ Range(message) = {message[i] : i \in 1..Len(message)}
           /\ \A i \in 1..Len(message) : /\ message[i] \in [kind : Kinds, n : Numbers]
                                         /\ message[i].n \in Nat \ {0}
           /\ Produced \subseteq Nat \ {0}
           /\ Produced = TextsIn(Written) \cup TextsTo(message, Len(message))
           /\ TextsIn(Written) \subseteq Nat
<1>1. message \in Message /\ transcript \in Seq(Record)
  BY DEF AgentInv
<1>2. Len(message) \in Nat /\ DOMAIN message = 1..Len(message)
  BY <1>1 DEF Message
<1>3. Range(message) = {message[i] : i \in 1..Len(message)}
  BY <1>2 DEF Range
<1>4. \A n \in Numbers : n \in Nat \ {0}
  BY StreamAssumption DEF Numbers
<1>5. \A i \in 1..Len(message) : message[i] \in [kind : Kinds, n : Numbers]
  <2> DEFINE B == [kind : Kinds, n : Numbers]
  <2>1. message \in Seq(B)
    BY <1>1 DEF Message
  <2> HIDE DEF B
  <2>2. \A i \in 1..Len(message) : message[i] \in B
    BY <2>1
  <2> QED
    BY <2>2 DEF B
<1>6. \A i \in 1..Len(message) : message[i].n \in Nat \ {0}
  BY <1>4, <1>5
<1>7. Written \subseteq Blocks
  <2> SUFFICES ASSUME NEW i \in DOMAIN transcript, NEW b \in Range(transcript[i].content)
               PROVE  b \in Blocks
    BY DEF Written
  <2>1. transcript[i] \in Record
    BY <1>1
  <2>2. transcript[i].content \in Seq(Blocks)
    BY <2>1 DEF Record
  <2>3. PICK k \in DOMAIN transcript[i].content : b = transcript[i].content[k]
    BY DEF Range
  <2> QED
    BY <2>2, <2>3
<1>8. \A b \in Written : b.n \in Nat \ {0}
  BY <1>4, <1>7 DEF Blocks
<1>9. Produced = TextsIn(Written) \cup TextsTo(message, Len(message))
  <2>1. Produced = TextsIn(Written \cup Range(message))
    BY DEF Produced, TextsIn
  <2>2. TextsIn(Written \cup Range(message)) = TextsIn(Written) \cup TextsIn(Range(message))
    BY DEF TextsIn
  <2>3. TextsIn(Range(message)) = TextsTo(message, Len(message))
    BY <1>3 DEF TextsIn, TextsTo
  <2> QED
    BY <2>1, <2>2, <2>3
<1>10. TextsIn(Written) \subseteq Nat \ {0} /\ TextsTo(message, Len(message)) \subseteq Nat \ {0}
  BY <1>6, <1>8 DEF TextsIn, TextsTo
<1> QED
  BY <1>2, <1>3, <1>5, <1>6, <1>7, <1>9, <1>10

-----------------------------------------------------------------------------
(* Steps of the agent.                                                     *)

\* It is enough to say where the agent is after it has written es, if the page
\* and the texts are as they were.
LEMMA AgentWrites ==
    ASSUME StreamInv, AgentInv', NEW es \in Seq(WireEvent), wire' = wire \o es,
           Produced' = Produced, UNCHANGED pageVars,
           \A b \in Positions : AgentAt(b) =>
              \E c \in Positions : Leads(es, Produced, b, c) /\ AgentAt(c)'
    PROVE  StreamInv'
<1>1. PICK a \in Positions, b \in Positions :
          PageAt(a) /\ AgentAt(b) /\ Leads(wire, Produced, a, b)
  BY DEF StreamInv, Linked
<1>2. PICK c \in Positions : Leads(es, Produced, b, c) /\ AgentAt(c)'
  BY <1>1
<1>3. wire \in Seq(WireEvent)
  BY DEF StreamInv, AgentInv
<1>4. Leads(wire \o es, Produced, a, c)
  BY <1>1, <1>2, <1>3, LeadsJoin
<1>5. PageAt(a)'
  BY <1>1 DEF PageAt, pageVars
<1>6. Leads(wire, Produced, a, c)'
  BY <1>4 DEF Leads
<1>7. Linked'
  BY <1>2, <1>5, <1>6 DEF Linked
<1>8. PageInv'
  BY DEF StreamInv, PageInv, pageVars
<1> QED
  BY <1>7, <1>8 DEF StreamInv

\* The same where it writes nothing.
LEMMA AgentSilent ==
    ASSUME StreamInv, AgentInv', wire' = wire, Produced' = Produced, UNCHANGED pageVars,
           \A b \in Positions : AgentAt(b) => AgentAt(b)'
    PROVE  StreamInv'
<1>1. PICK a \in Positions, b \in Positions :
          PageAt(a) /\ AgentAt(b) /\ Leads(wire, Produced, a, b)
  BY DEF StreamInv, Linked
<1>2. AgentAt(b)'
  BY <1>1
<1>3. PageAt(a)'
  BY <1>1 DEF PageAt, pageVars
<1>4. Leads(wire, Produced, a, b)'
  BY <1>1 DEF Leads
<1>5. Linked'
  BY <1>2, <1>3, <1>4 DEF Linked
<1>6. PageInv'
  BY DEF StreamInv, PageInv, pageVars
<1> QED
  BY <1>5, <1>6 DEF StreamInv

\* A new message adds texts after all there are.
LEMMA NextMessageInv ==
    ASSUME StreamInv, NEW kinds \in Contents, NEW used \in 0..MaxBlocks, NextMessage(kinds, used)
    PROVE  StreamInv'
<1>0. AgentInv
  BY DEF StreamInv
<1>1. /\ message = <<>> /\ due = {} /\ used \in Nat
      /\ {block.n : block \in Written} = 1..used
      /\ used + Len(kinds) <= MaxBlocks
      /\ message' = [i \in DOMAIN kinds |-> [kind |-> kinds[i], n |-> used + i]]
      /\ UNCHANGED <<streamed, typed, at, due, transcript, open, emitted, query, wire>>
      /\ UNCHANGED pageVars
  BY StreamAssumption DEF NextMessage, agentVars
<1>2. PICK k \in 1..MaxLength : kinds \in [1..k -> Kinds]
  BY DEF Contents
<1>3. k \in Nat /\ DOMAIN kinds = 1..k
  BY <1>2, StreamAssumption
<1>4. Len(kinds) = k /\ used + k <= MaxBlocks /\ MaxBlocks \in Nat
  BY <1>1, <1>2, <1>3, StreamAssumption
<1>5. \A i \in 1..k : used + i \in Numbers /\ kinds[i] \in Kinds
  BY <1>1, <1>2, <1>3, <1>4 DEF Numbers
<1>6. /\ message' \in Message /\ Len(message') = k
      /\ \A i \in 1..k : message'[i].n = used + i /\ message'[i].kind = kinds[i]
  <2> DEFINE B == [kind : Kinds, n : Numbers]
             v(i) == [kind |-> kinds[i], n |-> used + i]
  <2>1. \A i \in 1..k : v(i) \in B /\ v(i).n = used + i /\ v(i).kind = kinds[i]
    BY <1>5
  <2>2. message' = [i \in 1..k |-> v(i)]
    BY <1>1, <1>3
  <2> HIDE DEF B, v
  <2>3. message' \in Seq(B) /\ Len(message') = k
    BY <1>3, <2>1, <2>2
  <2>4. \A i \in 1..k : message'[i] = v(i)
    BY <2>2
  <2> QED
    BY <2>1, <2>3, <2>4 DEF B, Message
<1>7. Len(message) = 0 /\ at = 0 /\ open = None
  BY <1>0, <1>1 DEF AgentInv
<1>8. /\ Written' = Written /\ ~InText /\ ~InText'
      /\ TextsTo(message, at) = {} /\ TextsTo(message', at') = {}
  BY <1>1, <1>7 DEF Written, InText, TextsTo
<1>9. Told = TextsIn(Written) /\ Told' = TextsIn(Written)
  BY <1>8 DEF Told, TextsIn, TextsTo
<1>10. \A b \in Written : b.n \in 1..used
  BY <1>1
<1>11. AgentInv'
  <2>1. at' \in 0..Len(message') /\ due' = {}
    BY <1>1, <1>3, <1>6, <1>7
  <2>2. \A i \in 1..Len(message'), b \in Written' : b.n < message'[i].n
    BY <1>1, <1>3, <1>6, <1>8, <1>10
  <2>3. \A i, j \in 1..Len(message') : i < j => message'[i].n < message'[j].n
    BY <1>1, <1>3, <1>6
  <2>4. open' = None /\ None \notin {1, 2}
    BY <1>1, <1>7, StreamAssumption
  <2>5. streamed' /\ ~emitted' => ~InText' /\ Told' = {}
    BY <1>0, <1>1, <1>8, <1>9 DEF AgentInv
  <2> QED
    BY <1>0, <1>1, <1>6, <2>1, <2>2, <2>3, <2>4, <2>5 DEF AgentInv
<1>12. /\ Produced = TextsIn(Written) /\ Produced \subseteq Nat \ {0}
       /\ \A x \in Produced : x <= used
  <2>1. TextsTo(message, Len(message)) = {}
    BY <1>7 DEF TextsTo
  <2>2. Produced = TextsIn(Written) /\ Produced \subseteq Nat \ {0}
    BY <1>0, <2>1, BlockFacts
  <2> QED
    BY <2>2, <1>10 DEF TextsIn
<1>13. /\ Produced \subseteq Produced' /\ Produced' \subseteq Nat
       /\ \A x \in Produced' \ Produced : used < x
  <2>1. Produced' = TextsIn(Written) \cup TextsTo(message', Len(message'))
    <3>1. Produced' = TextsIn(Written') \cup TextsIn(Range(message'))
      BY DEF Produced, TextsIn
    <3>2. DOMAIN message' = 1..Len(message')
      BY <1>6 DEF Message
    <3> QED
      BY <3>1, <3>2, <1>8 DEF TextsIn, TextsTo, Range
  <2>2. \A x \in TextsTo(message', Len(message')) : x \in Nat /\ used < x
    BY <1>1, <1>3, <1>6 DEF TextsTo
  <2> QED
    BY <2>1, <2>2, <1>12
<1>14. PICK a \in Positions, b \in Positions :
          PageAt(a) /\ AgentAt(b) /\ Leads(wire, Produced, a, b)
  BY DEF StreamInv, Linked
<1>15. Leads(wire, Produced', a, b)
  <2>1. \A x \in Produced' \ Produced, y \in Produced : y <= x
    <3> TAKE x \in Produced' \ Produced, y \in Produced
    <3>1. used \in Nat /\ x \in Nat /\ y \in Nat /\ y <= used /\ used < x
      BY <1>1, <1>12, <1>13
    <3> QED
      BY <3>1
  <2> QED
    BY <2>1, <1>13, <1>14, LeadsMore
<1>16. Leads(wire, Produced, a, b)'
  BY <1>1, <1>15 DEF Leads
<1>17. \A c \in Positions : c.last \in Produced \cup {0} =>
           \A n \in Produced' : n <= c.last => n \in Produced
  BY <1>1, <1>12, <1>13
<1>18. PageAt(a)'
  <2>1. /\ messages' = messages /\ assistant' = assistant
    BY <1>1 DEF pageVars
  <2>2. a.last \in Produced \cup {0} /\ \A n \in Produced' : n <= a.last => n \in Produced
    BY <1>14, <1>17 DEF PageAt, Shown
  <2> QED
    BY <1>13, <1>14, <2>1, <2>2 DEF PageAt, Shown
<1>19. AgentAt(b)'
  <2>1. CASE query = "running"
    <3>1. b.last \in Produced \cup {0} /\ \A n \in Produced : n <= b.last <=> n \in Told
      BY <1>14, <2>1 DEF AgentAt
    <3>2. \A n \in Produced' : n <= b.last <=> n \in Told'
      <4> TAKE n \in Produced'
      <4>1. CASE n \in Produced
        BY <3>1, <4>1, <1>9
      <4>2. CASE n \notin Produced
        <5>1. n \notin Told' /\ ~(n <= b.last)
          BY <4>2, <1>9, <1>12, <1>14, <1>17, <3>1
        <5> QED
          BY <5>1
      <4> QED
        BY <4>1, <4>2
    <3>3. b.chunks = 2
      BY <1>14, <2>1, <1>8 DEF AgentAt
    <3> QED
      BY <3>1, <3>2, <3>3, <1>8, <1>13 DEF AgentAt
  <2>2. CASE query # "running"
    BY <1>1, <2>2 DEF AgentAt
  <2> QED
    BY <2>1, <2>2
<1>20. PageInv'
  BY <1>1 DEF StreamInv, PageInv, pageVars
<1> QED
  BY <1>11, <1>16, <1>18, <1>19, <1>20 DEF StreamInv, Linked

\* What an event of the agent's is.
LEMMA OneEvent ==
    ASSUME NEW kind \in EventKinds, NEW n \in Numbers \cup {None}, NEW text \in Seq(Nat)
    PROVE  /\ <<Event(kind, n, text)>> \in Seq(WireEvent)
           /\ Event(kind, n, text).kind = kind /\ Event(kind, n, text).text = text
<1>1. Event(kind, n, text) \in WireEvent
  BY DEF Event, WireEvent
<1>2. Event(kind, n, text).kind = kind /\ Event(kind, n, text).text = text
  BY DEF Event
<1> QED
  BY <1>1, <1>2

\* Where it ends a text, or announces or asks something.
LEMMA FreshLeads ==
    ASSUME NEW kind \in {"init", "tool_start", "ask_user_question", "error_event", "done"},
           NEW n, NEW text, NEW P, NEW a \in Positions
    PROVE  /\ [a EXCEPT !.fresh = TRUE] \in Positions
           /\ Leads(<<Event(kind, n, text)>>, P, a, [a EXCEPT !.fresh = TRUE])
<1> DEFINE e == Event(kind, n, text)
           b == [a EXCEPT !.fresh = TRUE]
<1>1. e.kind = kind
  BY DEF Event
<1>2. b \in Positions
  BY DEF Positions
<1>3. Says(e, P, a, b)
  BY <1>1 DEF Says
<1> HIDE DEF e, b
<1>4. Leads(<<e>>, P, a, b)
  BY <1>2, <1>3, LeadsOne
<1> QED
  BY <1>2, <1>4 DEF e, b

\* Where it changes nothing about the texts.
LEMMA SameLeads ==
    ASSUME NEW kind \in {"thinking_delta", "tool_result"}, NEW n, NEW text, NEW P, NEW a \in Positions
    PROVE  Leads(<<Event(kind, n, text)>>, P, a, a)
<1> DEFINE e == Event(kind, n, text)
<1>1. e.kind = kind
  BY DEF Event
<1>2. Says(e, P, a, a)
  BY <1>1 DEF Says
<1> HIDE DEF e
<1>3. Leads(<<e>>, P, a, a)
  BY <1>2, LeadsOne
<1> QED
  BY <1>3 DEF e

\* A block begins, and with a text block the next text may.
LEMMA BlockStartInv ==
    ASSUME StreamInv, ProcessBlockStart
    PROVE  StreamInv'
<1>0. AgentInv
  BY DEF StreamInv
<1>1. /\ query = "running" /\ streamed /\ at < Len(message) /\ open = None /\ open' = 0
      /\ UNCHANGED <<streamed, typed, message, at, due, transcript, query>> /\ UNCHANGED pageVars
  BY DEF ProcessBlockStart, Streaming, sdkVars
<1>2. /\ Written' = Written /\ Produced' = Produced /\ TextsTo(message, at)' = TextsTo(message, at)
      /\ ~InText /\ (InText' <=> message[at + 1].kind = "text")
  <2>1. None # 0 
    BY StreamAssumption
  <2> QED
    BY <1>1, <2>1 DEF Written, Produced, TextsTo, InText
<1>3. Told' = Told
  BY <1>1, <1>2 DEF Told, TextsIn
<1>4. emitted' \in BOOLEAN /\ (emitted => emitted') /\ (InText' => emitted')
  BY <1>0, <1>1, <1>2 DEF ProcessBlockStart, AgentInv
<1>5. ASSUME wire' \in Seq(WireEvent)
      PROVE  AgentInv'
  <2>1. streamed' /\ ~emitted' => ~InText' /\ Told' = {}
    BY <1>0, <1>1, <1>3, <1>4 DEF AgentInv
  <2>2. open' \in {None, 0, 1, 2} /\ open' \notin {1, 2}
    BY <1>1
  <2> QED
    BY <1>0, <1>1, <1>2, <1>4, <1>5, <2>1, <2>2 DEF AgentInv
<1>6. ASSUME NEW b \in Positions, AgentAt(b)
      PROVE  [b EXCEPT !.fresh = TRUE] \in Positions /\ AgentAt([b EXCEPT !.fresh = TRUE])'
  <2> DEFINE c == [b EXCEPT !.fresh = TRUE]
  <2>1. c \in Positions /\ c.last = b.last /\ c.chunks = b.chunks /\ c.fresh = TRUE
    BY DEF Positions
  <2> HIDE DEF c
  <2>2. AgentAt(c)'
    BY <1>1, <1>2, <1>3, <1>6, <2>1 DEF AgentAt
  <2> QED
    BY <2>1, <2>2 DEF c
<1>7. CASE message[at + 1].kind = "text"
  <2> DEFINE es == <<Event("init", None, <<>>)>>
  <2>1. wire' = wire \o es /\ es \in Seq(WireEvent)
    BY <1>7, KindsOfEvents, OneEvent DEF ProcessBlockStart, Emit
  <2>2. wire \in Seq(WireEvent)
    BY <1>0 DEF AgentInv
  <2>3. AgentInv'
    BY <1>5, <2>1, <2>2
  <2>4. \A b \in Positions : Leads(es, Produced, b, [b EXCEPT !.fresh = TRUE])
    BY FreshLeads
  <2> HIDE DEF es
  <2>5. \A b \in Positions : AgentAt(b) =>
           \E c \in Positions : Leads(es, Produced, b, c) /\ AgentAt(c)'
    BY <1>6, <2>4
  <2> QED
    BY <1>1, <1>2, <2>1, <2>3, <2>5, AgentWrites
<1>8. CASE message[at + 1].kind # "text"
  <2>1. wire' = wire /\ wire \in Seq(WireEvent)
    BY <1>0, <1>8 DEF ProcessBlockStart, AgentInv
  <2>2. AgentInv'
    BY <1>5, <2>1
  <2>3. \A b \in Positions : AgentAt(b) => AgentAt(b)'
    BY <1>1, <1>2, <1>3, <1>8 DEF AgentAt
  <2> QED
    BY <1>1, <1>2, <2>1, <2>2, <2>3, AgentSilent
<1> QED
  BY <1>7, <1>8

\* The texts told are among those produced, none of them is beyond the block
\* that is streamed, and what is not told is not before it.
LEMMA ToldFacts ==
    ASSUME AgentInv, at < Len(message)
    PROVE  /\ at \in Nat /\ at + 1 \in 1..Len(message)
           /\ message[at + 1] \in [kind : Kinds, n : Numbers] /\ message[at + 1].n \in Nat \ {0}
           /\ Told \subseteq Produced
           /\ \A x \in TextsIn(Written) \cup TextsTo(message, at) : x < message[at + 1].n
           /\ \A x \in Produced : x \in Told \/ message[at + 1].n <= x
           /\ message[at + 1].kind = "text" => message[at + 1].n \in Produced
<1>1. /\ at \in 0..Len(message) /\ Len(message) \in Nat
      /\ \A i \in 1..Len(message), b \in Written : b.n < message[i].n
      /\ \A i, j \in 1..Len(message) : i < j => message[i].n < message[j].n
  BY BlockFacts DEF AgentInv
<1>2. at \in Nat /\ at + 1 \in 1..Len(message)
  BY <1>1
<1>3. \A i \in 1..Len(message) : message[i] \in [kind : Kinds, n : Numbers] /\ message[i].n \in Nat \ {0}
  BY BlockFacts
<1>4. Produced = TextsIn(Written) \cup TextsTo(message, Len(message)) /\ Produced \subseteq Nat \ {0}
  BY BlockFacts
<1>5. \A l \in 1..at : l \in 1..Len(message) /\ l < at + 1
  BY <1>1
<1>6. \A x \in TextsIn(Written) \cup TextsTo(message, at) : x < message[at + 1].n
  <2>1. \A x \in TextsIn(Written) : x < message[at + 1].n
    BY <1>1, <1>2 DEF TextsIn
  <2>2. \A x \in TextsTo(message, at) : x < message[at + 1].n
    BY <1>1, <1>2, <1>5 DEF TextsTo
  <2> QED
    BY <2>1, <2>2
<1>7. message[at + 1].kind = "text" => message[at + 1].n \in TextsTo(message, Len(message))
  BY <1>2 DEF TextsTo
<1>8. TextsTo(message, at) \subseteq TextsTo(message, Len(message))
  BY <1>5 DEF TextsTo
<1>9. Told \subseteq Produced
  BY <1>4, <1>7, <1>8 DEF Told, InText
<1>10. \A x \in TextsTo(message, Len(message)) : x \in TextsTo(message, at) \/ message[at + 1].n <= x
  <2> SUFFICES ASSUME NEW l \in 1..Len(message), message[l].kind = "text"
               PROVE  message[l].n \in TextsTo(message, at) \/ message[at + 1].n <= message[l].n
    BY DEF TextsTo
  <2>1. l \in 1..at \/ l = at + 1 \/ at + 1 < l
    BY <1>1, <1>2
  <2>2. CASE l \in 1..at
    BY <2>2 DEF TextsTo
  <2>3. CASE l = at + 1
    BY <2>3, <1>2, <1>3
  <2>4. CASE at + 1 < l
    <3>1. message[at + 1].n < message[l].n /\ message[at + 1].n \in Nat /\ message[l].n \in Nat
      BY <2>4, <1>1, <1>2, <1>3
    <3> QED
      BY <3>1
  <2> QED
    BY <2>1, <2>2, <2>3, <2>4
<1>11. \A x \in Produced : x \in Told \/ message[at + 1].n <= x
  BY <1>4, <1>10 DEF Told
<1> QED
  BY <1>2, <1>3, <1>4, <1>6, <1>7, <1>9, <1>11

\* A chunk of the block's text, or of its thinking.
LEMMA BlockDeltaInv ==
    ASSUME StreamInv, ProcessBlockDelta
    PROVE  StreamInv'
<1>0. AgentInv
  BY DEF StreamInv
<1> DEFINE m == message[at + 1]
<1>1. /\ query = "running" /\ streamed /\ at < Len(message) /\ open \in {0, 1} /\ open' = open + 1
      /\ m.kind = "text" \/ m.kind = "thinking"
      /\ UNCHANGED <<streamed, typed, message, at, due, transcript, query>> /\ UNCHANGED pageVars
  BY DEF ProcessBlockDelta, Streaming, sdkVars
<1>2. /\ m \in [kind : Kinds, n : Numbers] /\ m.n \in Nat \ {0}
      /\ Told \subseteq Produced /\ Produced \subseteq Nat
      /\ \A x \in TextsIn(Written) \cup TextsTo(message, at) : x < m.n
      /\ \A x \in Produced : x \in Told \/ m.n <= x
      /\ m.kind = "text" => m.n \in Produced
  BY <1>0, <1>1, ToldFacts, BlockFacts
<1>3. /\ Written' = Written /\ Produced' = Produced /\ TextsTo(message, at)' = TextsTo(message, at)
      /\ open # None /\ open' # None /\ open' # 0 /\ open' \in {1, 2}
      /\ (InText <=> m.kind = "text") /\ (InText' <=> m.kind = "text")
      /\ message'[at' + 1] = m
  <2>1. None \notin {0, 1, 2}
    BY StreamAssumption
  <2> QED
    BY <1>1, <2>1 DEF Written, Produced, TextsTo, InText
<1>4. Told' = TextsIn(Written) \cup TextsTo(message, at) \cup IF m.kind = "text" THEN {m.n} ELSE {}
  BY <1>1, <1>3 DEF Told, TextsIn
<1>5. ASSUME emitted' \in BOOLEAN, m.kind = "text" => emitted', emitted => emitted', wire' \in Seq(WireEvent)
      PROVE  AgentInv'
  <2>1. streamed' /\ ~emitted' => ~InText' /\ Told' = {}
    <3> SUFFICES ASSUME ~emitted'
                 PROVE  ~InText' /\ Told' = {}
      OBVIOUS
    <3>1. ~emitted /\ m.kind # "text" /\ Told = {}
      BY <1>0, <1>1, <1>5 DEF AgentInv
    <3> QED
      BY <3>1, <1>3, <1>4 DEF Told
  <2>2. open' \in {1, 2} => message'[at' + 1].kind \in {"text", "thinking"}
    BY <1>1, <1>3
  <2> HIDE DEF m
  <2>3. /\ streamed' \in BOOLEAN /\ typed' \in BOOLEAN /\ query' \in {"running", "over", "failed"}
        /\ message' \in Message /\ at' \in 0..Len(message') /\ due' \subseteq Tools
        /\ (due' # {} => message' = <<>>) /\ transcript' \in Seq(Record)
        /\ open' \in {None, 0, 1, 2} /\ streamed' /\ at' < Len(message')
    BY <1>0, <1>1, <1>3 DEF AgentInv
  <2>4. /\ \A i \in 1..Len(message'), b \in Written' : b.n < message'[i].n
        /\ \A i, j \in 1..Len(message') : i < j => message'[i].n < message'[j].n
    BY <1>0, <1>1, <1>3 DEF AgentInv
  <2> QED
    BY <1>5, <2>1, <2>2, <2>3, <2>4 DEF AgentInv
<1>w. wire \in Seq(WireEvent)
  BY <1>0 DEF AgentInv
<1>6. CASE m.kind = "text"
  <2> DEFINE e == Event("text_delta", None, <<m.n>>)
  <2>1. wire' = wire \o <<e>> /\ emitted' = TRUE
    BY <1>6 DEF ProcessBlockDelta, Emit
  <2>2. <<m.n>> \in Seq(Nat)
    BY <1>2
  <2>3. <<e>> \in Seq(WireEvent) /\ e.kind = "text_delta" /\ e.text = <<m.n>>
    <3> DEFINE t == <<m.n>>
    <3>1. t \in Seq(Nat)
      BY <2>2
    <3> HIDE DEF t
    <3>2. <<Event("text_delta", None, t)>> \in Seq(WireEvent)
      BY <3>1, KindsOfEvents, OneEvent
    <3>3. Event("text_delta", None, t).kind = "text_delta" /\ Event("text_delta", None, t).text = t
      BY DEF Event
    <3> QED
      BY <3>2, <3>3 DEF t
  <2> HIDE DEF e
  <2>4. AgentInv'
    BY <1>5, <1>w, <2>1, <2>3
  <2>5. ASSUME NEW b \in Positions, AgentAt(b)
        PROVE  \E c \in Positions : Leads(<<e>>, Produced, b, c) /\ AgentAt(c)'
    <3>1. /\ b.last \in Produced \cup {0} /\ b.last \in Nat
          /\ \A x \in Produced : x <= b.last <=> x \in Told
          /\ b.chunks = IF open = 1 THEN 1 ELSE 2
          /\ b.fresh <=> open = 0
      BY <1>1, <1>2, <1>3, <1>6, <2>5 DEF AgentAt, Positions
    <3>2. Told' = TextsIn(Written) \cup TextsTo(message, at) \cup {m.n}
      BY <1>4, <1>6
    <3>3. \A x \in Produced : x <= m.n <=> x \in Told'
      <4> TAKE x \in Produced
      <4>1. x \in Nat /\ m.n \in Nat
        BY <1>2
      <4>2. x \in Told' => x <= m.n
        BY <1>2, <3>2, <4>1
      <4>3. x \in Told => x \in Told'
        BY <3>2, <1>6 DEF Told
      <4>4. x <= m.n /\ x \notin Told => x = m.n
        BY <1>2, <4>1
      <4> QED
        BY <4>2, <4>3, <4>4, <3>2
    <3>4. CASE open = 0
      <4>0. \E c \in Positions : c.last = m.n /\ c.chunks = 1 /\ c.fresh = FALSE
        <5>1. [last |-> m.n, chunks |-> 1, fresh |-> FALSE] \in Positions
          BY <1>2 DEF Positions
        <5> QED
          BY <5>1
      <4>1. PICK c \in Positions : c.last = m.n /\ c.chunks = 1 /\ c.fresh = FALSE
        BY <4>0
      <4>2. Told = TextsIn(Written) \cup TextsTo(message, at)
        BY <3>4 DEF Told
      <4>3. m.n \in Produced /\ m.n \notin Told
        BY <1>2, <1>6, <4>2
      <4>4. b.last < m.n
        BY <1>2, <3>1, <4>3
      <4>5. \A x \in Produced : x <= b.last \/ m.n <= x
        BY <1>2, <3>1
      <4>6. Says(e, Produced, b, c)
        BY <2>3, <3>1, <3>4, <4>1, <4>3, <4>4, <4>5 DEF Says
      <4>7. Leads(<<e>>, Produced, b, c)
        BY <4>1, <4>6, LeadsOne
      <4>8. AgentAt(c)'
        <5>1. /\ open' = 1 /\ InText' /\ c.last \in Produced'
              /\ \A x \in Produced' : x <= c.last <=> x \in Told'
          BY <1>1, <1>3, <1>6, <3>3, <3>4, <4>1, <4>3
        <5>2. c.chunks = 1 /\ ~c.fresh /\ open' # 0
          BY <4>1, <5>1
        <5> QED
          BY <5>1, <5>2 DEF AgentAt
      <4> QED
        BY <4>1, <4>7, <4>8
    <3>5. CASE open = 1
      <4> DEFINE c == [b EXCEPT !.chunks = 2]
      <4>1. c \in Positions /\ c.last = b.last /\ c.chunks = 2 /\ c.fresh = b.fresh
        BY DEF Positions
      <4>2. Told = TextsIn(Written) \cup TextsTo(message, at) \cup {m.n}
        BY <3>5, <1>3, <1>6 DEF Told
      <4>3. m.n \in Produced /\ m.n <= b.last
        BY <1>2, <1>6, <3>1, <4>2
      <4>4. b.last = m.n
        <5>1. b.last # 0 /\ b.last \in Produced
          BY <4>3, <3>1, <1>2
        <5>2. b.last \in Told
          BY <5>1, <3>1
        <5>3. b.last <= m.n
          BY <5>2, <4>2, <1>2, <3>1
        <5> QED
          BY <5>3, <4>3, <3>1, <1>2
      <4>5. Says(e, Produced, b, c)
        BY <2>3, <3>1, <3>5, <4>4 DEF Says
      <4> HIDE DEF c
      <4>6. Leads(<<e>>, Produced, b, c)
        BY <4>1, <4>5, LeadsOne
      <4>7. AgentAt(c)'
        BY <1>1, <1>3, <1>6, <3>1, <3>3, <3>5, <4>1, <4>4 DEF AgentAt
      <4> QED
        BY <4>1, <4>6, <4>7
    <3> QED
      BY <1>1, <3>4, <3>5
  <2> QED
    BY <1>1, <1>3, <2>1, <2>3, <2>4, <2>5, AgentWrites
<1>7. CASE m.kind # "text"
  <2> DEFINE e == Event("thinking_delta", None, <<m.n>>)
  <2>1. wire' = wire \o <<e>> /\ emitted' = emitted
    BY <1>1, <1>7 DEF ProcessBlockDelta, Emit
  <2>2. <<m.n>> \in Seq(Nat)
    BY <1>2
  <2>3. <<e>> \in Seq(WireEvent)
    BY <2>2, KindsOfEvents, OneEvent
  <2>4. \A b \in Positions : Leads(<<e>>, Produced, b, b)
    BY SameLeads
  <2> HIDE DEF e
  <2>5. AgentInv'
    <3>1. wire' \in Seq(WireEvent) /\ emitted' \in BOOLEAN /\ (emitted => emitted')
      BY <1>0, <1>w, <2>1, <2>3 DEF AgentInv
    <3> QED
      BY <3>1, <1>5, <1>7
  <2>6. \A b \in Positions : AgentAt(b) => AgentAt(b)'
    <3>1. Told' = Told
      BY <1>3, <1>4, <1>7 DEF Told
    <3> QED
      BY <3>1, <1>1, <1>3, <1>7 DEF AgentAt
  <2> QED
    BY <1>1, <1>3, <2>1, <2>3, <2>4, <2>5, <2>6, AgentWrites
<1> QED
  BY <1>6, <1>7

\* A block ends; a tool is announced.
LEMMA BlockStopInv ==
    ASSUME StreamInv, ProcessBlockStop
    PROVE  StreamInv'
<1>0. AgentInv
  BY DEF StreamInv
<1> DEFINE m == message[at + 1]
<1>1. /\ query = "running" /\ streamed /\ at < Len(message) /\ open' = None /\ at' = at + 1
      /\ open = IF m.kind \in {"text", "thinking"} THEN 2 ELSE 0
      /\ UNCHANGED <<streamed, typed, message, due, transcript, query, emitted>> /\ UNCHANGED pageVars
  BY DEF ProcessBlockStop, Streaming
<1>2. at \in Nat /\ at + 1 \in 1..Len(message) /\ Len(message) \in Nat
  BY <1>0, <1>1, ToldFacts, BlockFacts
<1>3. /\ Written' = Written /\ Produced' = Produced /\ ~InText' /\ open # None
      /\ (InText <=> m.kind = "text")
  <2>1. None \notin {0, 1, 2}
    BY StreamAssumption
  <2> QED
    BY <1>1, <2>1 DEF Written, Produced, InText
<1>4. TextsTo(message', at') = TextsTo(message, at) \cup IF m.kind = "text" THEN {m.n} ELSE {}
  <2>1. 1..at + 1 = (1..at) \cup {at + 1}
    BY <1>2
  <2> QED
    BY <1>1, <2>1 DEF TextsTo
<1>5. Told' = Told
  BY <1>1, <1>3, <1>4 DEF Told, TextsIn
<1>6. ASSUME wire' \in Seq(WireEvent)
      PROVE  AgentInv'
  <2>1. streamed' /\ ~emitted' => ~InText' /\ Told' = {}
    BY <1>0, <1>1, <1>3, <1>5 DEF AgentInv
  <2>2. at' \in 0..Len(message') /\ None \notin {1, 2}
    BY <1>1, <1>2, StreamAssumption
  <2> HIDE DEF m
  <2> QED
    BY <1>0, <1>1, <1>3, <1>6, <2>1, <2>2 DEF AgentInv
<1>w. wire \in Seq(WireEvent)
  BY <1>0 DEF AgentInv
<1>7. ASSUME NEW b \in Positions, AgentAt(b)
      PROVE  AgentAt(b)' /\ \A c \in Positions : c.last = b.last /\ c.chunks = b.chunks => AgentAt(c)'
  <2>1. b.chunks = 2 /\ open # 1
    BY <1>1, <1>3, <1>7 DEF AgentAt
  <2> QED
    BY <1>1, <1>3, <1>5, <1>7, <2>1 DEF AgentAt
<1>8. CASE m.kind = "tool"
  <2> DEFINE es == <<Event("tool_start", m.n, <<>>)>>
  <2>1. wire' = wire \o es
    BY <1>8 DEF ProcessBlockStop, Emit
  <2>2. m.n \in Numbers \cup {None}
    BY <1>0, <1>1, ToldFacts
  <2>3. es \in Seq(WireEvent)
    BY <2>2, KindsOfEvents, OneEvent
  <2>4. \A b \in Positions : [b EXCEPT !.fresh = TRUE] \in Positions
                             /\ Leads(es, Produced, b, [b EXCEPT !.fresh = TRUE])
    BY FreshLeads
  <2> HIDE DEF es
  <2>5. AgentInv'
    BY <1>6, <1>w, <2>1, <2>3
  <2>6. \A b \in Positions : AgentAt(b) =>
           \E c \in Positions : Leads(es, Produced, b, c) /\ AgentAt(c)'
    <3> TAKE b \in Positions
    <3> HAVE AgentAt(b)
    <3> DEFINE c == [b EXCEPT !.fresh = TRUE]
    <3>1. c \in Positions /\ c.last = b.last /\ c.chunks = b.chunks
      BY DEF Positions
    <3> HIDE DEF c
    <3>2. AgentAt(c)'
      BY <1>7, <3>1
    <3> QED
      BY <2>4, <3>1, <3>2 DEF c
  <2> QED
    BY <1>1, <1>3, <2>1, <2>3, <2>5, <2>6, AgentWrites
<1>9. CASE m.kind # "tool"
  <2>1. wire' = wire
    BY <1>9 DEF ProcessBlockStop
  <2>2. AgentInv'
    BY <1>6, <1>w, <2>1
  <2> QED
    BY <1>1, <1>3, <1>7, <2>1, <2>2, AgentSilent
<1> QED
  BY <1>8, <1>9

\* Between messages, and once all of a message has been streamed, no block is open.
LEMMA NoneOpen ==
    ASSUME AgentInv, at = Len(message)
    PROVE  open = None /\ ~InText /\ Told = Produced
<1>1. open = None
  BY BlockFacts DEF AgentInv
<1>2. ~InText
  BY <1>1 DEF InText
<1> QED
  BY <1>1, <1>2, BlockFacts DEF Told

\* An event between texts says nothing about them.
LEMMA EventBetween ==
    ASSUME StreamInv, AgentInv',
           NEW kind \in {"tool_start", "ask_user_question", "tool_result"}, NEW n \in Numbers,
           wire' = wire \o <<Event(kind, n, <<>>)>>,
           Produced' = Produced, Told' = Told, ~InText, ~InText', query' = query,
           UNCHANGED pageVars
    PROVE  StreamInv'
<1> DEFINE es == <<Event(kind, n, <<>>)>>
<1>1. es \in Seq(WireEvent)
  BY KindsOfEvents, OneEvent
<1>2. \A b, c \in Positions : AgentAt(b) /\ c.last = b.last /\ c.chunks = b.chunks => AgentAt(c)'
  BY DEF AgentAt
<1>3. ASSUME NEW b \in Positions, AgentAt(b)
      PROVE  \E c \in Positions : Leads(es, Produced, b, c) /\ AgentAt(c)'
  <2>1. CASE kind = "tool_result"
    BY <1>2, <1>3, <2>1, SameLeads
  <2>2. CASE kind # "tool_result"
    <3> DEFINE c == [b EXCEPT !.fresh = TRUE]
    <3>1. c \in Positions /\ Leads(es, Produced, b, c)
      BY <2>2, FreshLeads
    <3>2. c.last = b.last /\ c.chunks = b.chunks
      BY DEF Positions
    <3> HIDE DEF c
    <3>3. AgentAt(c)'
      BY <1>2, <1>3, <3>1, <3>2
    <3> QED
      BY <3>1, <3>3
  <2> QED
    BY <2>1, <2>2
<1>4. wire' = wire \o es
  OBVIOUS
<1> HIDE DEF es
<1> QED
  BY <1>1, <1>3, <1>4, AgentWrites

\* A whole message: its texts are told now, if none was streamed.
LEMMA AssistantEventInv ==
    ASSUME StreamInv, ProcessAssistantEvent
    PROVE  StreamInv'
<1>0. AgentInv
  BY DEF StreamInv
<1> DEFINE es == ContentEvents(message)
           T == TextsIn(Written)
<1>1. /\ query = "running" /\ query' = "running" /\ message # <<>> /\ message' = <<>> /\ at' = 0
      /\ streamed => at = Len(message)
      /\ wire' = wire \o es
      /\ transcript' = Append(transcript, [role |-> "assistant", content |-> message])
      /\ due' = {block \in Range(message) : block.kind \in {"tool", "question"}}
      /\ UNCHANGED <<streamed, typed, open, emitted>> /\ UNCHANGED pageVars
  BY DEF ProcessAssistantEvent, Emit, agentVars
<1>2. /\ Len(message) \in Nat /\ Range(message) = {message[i] : i \in 1..Len(message)}
      /\ \A i \in 1..Len(message) : message[i] \in [kind : Kinds, n : Numbers] /\ message[i].n \in Nat \ {0}
      /\ Produced = T \cup TextsTo(message, Len(message)) /\ Produced \subseteq Nat /\ T \subseteq Nat
  BY <1>0, BlockFacts
<1>3. message \in Seq(Blocks)
  <2> DEFINE B == [kind : Kinds, n : Numbers]
  <2>1. B \subseteq Blocks /\ message \in Seq(B)
    BY <1>0 DEF AgentInv, Message, Blocks
  <2> HIDE DEF B
  <2> QED
    BY <2>1
<1>4. transcript' \in Seq(Record) /\ Written' = Written \cup Range(message)
  <2> DEFINE r == [role |-> "assistant", content |-> message]
  <2>1. r \in Record /\ r.content = message
    BY <1>3 DEF Record
  <2>2. transcript \in Seq(Record) /\ transcript' = Append(transcript, r)
    BY <1>0, <1>1 DEF AgentInv
  <2> HIDE DEF r
  <2> QED
    BY <2>1, <2>2, WrittenAppend
<1>5. open = None /\ open' = None /\ ~InText /\ ~InText'
  <2>1. open = None
    BY <1>0, <1>1, <1>2 DEF AgentInv
  <2> QED
    BY <1>1, <2>1 DEF InText
<1>6. Len(message') = 0 /\ TextsTo(message', at') = {} /\ Range(message') = {}
  <2>1. Len(<<>>) = 0 /\ DOMAIN <<>> = {} /\ 1..0 = {}
    OBVIOUS
  <2> QED
    BY <1>1, <2>1 DEF TextsTo, Range
<1>7. Produced' = Produced /\ Told' = Produced
  <2>1. Produced = TextsIn(Written \cup Range(message))
    BY DEF Produced, TextsIn
  <2>2. Produced' = TextsIn(Written' \cup Range(message'))
    BY DEF Produced, TextsIn
  <2>3. Told' = TextsIn(Written')
    BY <1>5, <1>6 DEF Told, TextsIn
  <2> QED
    BY <1>4, <1>6, <2>1, <2>2, <2>3
<1>8. due' \subseteq Tools
  BY <1>1, <1>2 DEF Tools
<1>9. emitted => Told = Produced
  BY <1>0, <1>1, NoneOpen DEF AgentInv
<1>10. ~emitted => Told = T
  <2>1. Told = T \cup TextsTo(message, at)
    BY <1>5 DEF Told
  <2>2. CASE ~streamed
    <3>1. at = 0 /\ TextsTo(message, 0) = {}
      BY <1>0, <2>2 DEF AgentInv, TextsTo
    <3> QED
      BY <2>1, <3>1
  <2>3. CASE streamed
    BY <1>0, <2>1, <2>3 DEF AgentInv
  <2> QED
    BY <2>2, <2>3
<1>11. streamed /\ ~emitted => Produced = {}
  BY <1>0, <1>1, NoneOpen DEF AgentInv
<1>12. /\ \A k, l \in 1..Len(message) : k < l => message[k].n < message[l].n
       /\ TextsTo(message, Len(message)) \subseteq Produced \ T
  <2>1. \A i \in 1..Len(message), b \in Written : b.n < message[i].n
    BY <1>0 DEF AgentInv
  <2>2. \A i \in 1..Len(message) : message[i].n \notin T
    <3> SUFFICES ASSUME NEW i \in 1..Len(message), NEW b \in Written, message[i].n = b.n
                 PROVE  FALSE
      BY DEF TextsIn
    <3>1. b.n < message[i].n /\ b.n \in Nat
      BY <2>1, <1>2
    <3> QED
      BY <3>1
  <2>3. TextsTo(message, Len(message)) \cap T = {}
    BY <2>2 DEF TextsTo
  <2> QED
    BY <1>0, <1>2, <2>3 DEF AgentInv
<1> HIDE DEF T
<1>13. ASSUME NEW b \in Positions, AgentAt(b)
       PROVE  es \in Seq(WireEvent) /\ \E c \in Positions : Leads(es, Produced, b, c) /\ AgentAt(c)'
  <2>1. /\ b.last \in Produced \cup {0} /\ b.chunks = 2
        /\ \A x \in Produced : x <= b.last <=> x \in Told
    BY <1>1, <1>5, <1>13 DEF AgentAt
  <2>2. CASE emitted
    <3>1. es = <<>>
      BY <2>2 DEF ContentEvents
    <3>2. AgentAt(b)'
      BY <1>5, <1>7, <1>9, <2>1, <2>2 DEF AgentAt
    <3> QED
      BY <3>1, <3>2, LeadsNone
  <2>3. CASE ~emitted
    <3>1. es = AllBlockEvents(message)
      BY <2>3 DEF ContentEvents
    <3>2. message \in Message
      BY <1>0 DEF AgentInv
    <3>3. \A x \in Produced : x <= b.last <=> x \in T
      BY <1>10, <2>1, <2>3
    <3>4. \A x \in Produced : x \in T \/ x \in TextsTo(message, Len(message))
      BY <1>2
    <3>5. /\ AllBlockEvents(message) \in Seq(WireEvent)
          /\ \E c \in Positions :
                 /\ Leads(AllBlockEvents(message), Produced, b, c)
                 /\ c.chunks = 2
                 /\ c.last \in Produced \cup {0}
                 /\ \A x \in Produced : x <= c.last <=> x \in T \/ x \in TextsTo(message, Len(message))
      <4>1. Produced \in SUBSET Nat /\ T \in SUBSET Nat
        BY <1>2
      <4>2. /\ b.chunks = 2 /\ b.last \in Produced \cup {0}
            /\ TextsTo(message, Len(message)) \subseteq Produced \ T
            /\ \A k, l \in 1..Len(message) : k < l => message[k].n < message[l].n
        BY <1>12, <2>1
      <4> DEFINE P == Produced
                 c == message
      <4> HIDE DEF P, c
      <4>3. /\ P \in SUBSET Nat /\ T \in SUBSET Nat /\ c \in Message
            /\ b \in Positions /\ b.chunks = 2 /\ b.last \in P \cup {0}
            /\ TextsTo(c, Len(c)) \subseteq P \ T
            /\ \A k, l \in 1..Len(c) : k < l => c[k].n < c[l].n
            /\ \A x \in P : x <= b.last <=> x \in T
            /\ \A x \in P : x \in T \/ x \in TextsTo(c, Len(c))
        BY <3>2, <3>3, <3>4, <4>1, <4>2 DEF P, c
      <4>4. /\ AllBlockEvents(c) \in Seq(WireEvent)
            /\ \E d \in Positions :
                 /\ Leads(AllBlockEvents(c), P, b, d)
                 /\ d.chunks = 2
                 /\ d.last \in P \cup {0}
                 /\ \A x \in P : x <= d.last <=> x \in T \/ x \in TextsTo(c, Len(c))
        BY SMTT(30), <4>3, AllLeads
      <4> QED
        BY <4>4 DEF P, c
    <3>6. PICK c \in Positions :
                 /\ Leads(AllBlockEvents(message), Produced, b, c)
                 /\ c.chunks = 2
                 /\ c.last \in Produced \cup {0}
                 /\ \A x \in Produced : x <= c.last <=> x \in T \/ x \in TextsTo(message, Len(message))
      BY <3>5
    <3>7. AgentAt(c)'
      BY <1>5, <1>7, <3>4, <3>6 DEF AgentAt
    <3> QED
      BY <3>1, <3>5, <3>6, <3>7
  <2> QED
    BY <2>2, <2>3
<1>14. PICK b \in Positions : AgentAt(b)
  BY DEF StreamInv, Linked
<1>15. es \in Seq(WireEvent)
  BY <1>13, <1>14
<1> HIDE DEF es
<1>16. AgentInv'
  <2>1. wire' \in Seq(WireEvent)
    BY <1>0, <1>1, <1>15 DEF AgentInv
  <2>2. message' \in Message /\ at' \in 0..Len(message')
    BY <1>1, <1>6 DEF Message
  <2>3. None \notin {1, 2}
    BY StreamAssumption
  <2>4. streamed' /\ ~emitted' => ~InText' /\ Told' = {}
    BY <1>1, <1>5, <1>7, <1>11
  <2>5. 1..Len(message') = {}
    BY <1>6
  <2> QED
    BY <1>0, <1>1, <1>4, <1>5, <1>8, <2>1, <2>2, <2>3, <2>4, <2>5 DEF AgentInv
<1> QED
  BY <1>1, <1>7, <1>13, <1>15, <1>16, AgentWrites

\* A tool runs between messages.
LEMMA WhileToolsRun ==
    ASSUME AgentInv, due # {}
    PROVE  message = <<>> /\ Len(message) = 0 /\ at = 0 /\ open = None /\ ~InText
<1>1. message = <<>> /\ Len(message) = 0
  BY DEF AgentInv
<1>2. at = 0
  BY <1>1 DEF AgentInv
<1> QED
  BY <1>1, <1>2, NoneOpen

\* A question is asked.
LEMMA AskUserQuestionInv ==
    ASSUME StreamInv, NEW block \in due, AskUserQuestion(block)
    PROVE  StreamInv'
<1>0. AgentInv
  BY DEF StreamInv
<1>1. /\ wire' = wire \o <<Event("ask_user_question", block.n, <<>>)>>
      /\ due' = (due \ {block}) \cup {[block EXCEPT !.kind = "tool"]}
      /\ UNCHANGED <<streamed, typed, message, at, transcript, open, emitted, query>>
      /\ UNCHANGED pageVars
  BY DEF AskUserQuestion, Emit, agentVars
<1>2. block \in Tools /\ block.n \in Numbers
  BY <1>0 DEF AgentInv, Tools
<1>3. due' \subseteq Tools
  <2>1. [block EXCEPT !.kind = "tool"] \in Tools
    BY <1>2 DEF Tools
  <2> QED
    BY <1>0, <1>1, <2>1 DEF AgentInv
<1>4. message = <<>> /\ ~InText
  BY <1>0, WhileToolsRun
<1>5. Written' = Written /\ Produced' = Produced /\ (InText' <=> InText) /\ Told' = Told
  BY <1>1 DEF Written, Produced, InText, Told, TextsTo, TextsIn
<1>6. wire' \in Seq(WireEvent)
  <2>1. <<Event("ask_user_question", block.n, <<>>)>> \in Seq(WireEvent) /\ wire \in Seq(WireEvent)
    BY <1>0, <1>2, KindsOfEvents, OneEvent DEF AgentInv
  <2> QED
    BY <1>1, <2>1
<1>7. AgentInv'
  BY <1>0, <1>1, <1>3, <1>4, <1>5, <1>6 DEF AgentInv
<1> QED
  BY <1>1, <1>2, <1>4, <1>5, <1>7, EventBetween

\* A tool has its result; the record's texts are the same.
LEMMA UserEventInv ==
    ASSUME StreamInv, NEW block \in due, ProcessUserEvent(block)
    PROVE  StreamInv'
<1>0. AgentInv
  BY DEF StreamInv
<1> DEFINE rb == [kind |-> "result", n |-> block.n]
           r == [role |-> "user", content |-> <<rb>>]
<1>1. /\ transcript' = Append(transcript, r)
      /\ due' = due \ {block}
      /\ UNCHANGED <<streamed, typed, message, at, open, emitted, query>>
      /\ UNCHANGED pageVars
  BY DEF ProcessUserEvent, agentVars
<1>2. block \in Tools /\ block.n \in Numbers
  BY <1>0 DEF AgentInv, Tools
<1>3. message = <<>> /\ Len(message) = 0 /\ ~InText
  BY <1>0, WhileToolsRun
<1>4. r \in Record /\ r.content = <<rb>> /\ rb \in Blocks /\ rb.kind = "result"
  <2>1. rb \in Blocks
    BY <1>2 DEF Blocks
  <2>2. rb.kind = "result"
    OBVIOUS
  <2> HIDE DEF rb
  <2>3. <<rb>> \in Seq(Blocks)
    BY <2>1
  <2> QED
    BY <2>1, <2>2, <2>3 DEF Record
<1> HIDE DEF rb
<1>5. Range(<<rb>>) = {rb}
  <2>1. DOMAIN <<rb>> = {1} /\ <<rb>>[1] = rb
    OBVIOUS
  <2> QED
    BY <2>1 DEF Range
<1> HIDE DEF r
<1>6. transcript' \in Seq(Record) /\ Written' = Written \cup {rb}
  <2>1. transcript' \in Seq(Record) /\ Written' = Written \cup Range(r.content)
    BY <1>0, <1>1, <1>4, WrittenAppend DEF AgentInv
  <2> QED
    BY <1>4, <1>5, <2>1
<1>7. TextsIn(Written') = TextsIn(Written)
  BY <1>4, <1>6 DEF TextsIn
<1>8. Produced' = Produced
  <2>1. Produced = TextsIn(Written) \cup TextsIn(Range(message))
    BY DEF Produced, TextsIn
  <2>2. Produced' = TextsIn(Written') \cup TextsIn(Range(message'))
    BY DEF Produced, TextsIn
  <2> QED
    BY <1>1, <1>7, <2>1, <2>2
<1>9. (InText' <=> InText) /\ TextsTo(message', at') = TextsTo(message, at)
  BY <1>1 DEF InText
<1>10. Told' = Told
  <2>1. Told' = TextsIn(Written') \cup TextsTo(message', at')
    BY <1>3, <1>9 DEF Told, TextsIn
  <2>2. Told = TextsIn(Written) \cup TextsTo(message, at)
    BY <1>3 DEF Told
  <2> QED
    BY <1>7, <1>9, <2>1, <2>2
<1>11. ASSUME wire' \in Seq(WireEvent)
       PROVE  AgentInv'
  BY <1>0, <1>1, <1>3, <1>6, <1>9, <1>10, <1>11 DEF AgentInv
<1>12. wire \in Seq(WireEvent)
  BY <1>0 DEF AgentInv
<1>13. CASE typed
  <2>1. wire' = wire \o <<Event("tool_result", block.n, <<>>)>>
    BY <1>13 DEF ProcessUserEvent, Emit
  <2>2. <<Event("tool_result", block.n, <<>>)>> \in Seq(WireEvent)
    BY <1>2, KindsOfEvents, OneEvent
  <2>3. AgentInv'
    BY <1>11, <1>12, <2>1, <2>2
  <2> QED
    BY <1>1, <1>2, <1>3, <1>8, <1>9, <1>10, <2>1, <2>3, EventBetween
<1>14. CASE ~typed
  <2>1. wire' = wire
    BY <1>14 DEF ProcessUserEvent
  <2>2. AgentInv'
    BY <1>11, <1>12, <2>1
  <2>3. \A b \in Positions : AgentAt(b) => AgentAt(b)'
    BY <1>1, <1>3, <1>8, <1>9, <1>10 DEF AgentAt
  <2> QED
    BY <1>1, <1>8, <2>1, <2>2, <2>3, AgentSilent
<1> QED
  BY <1>13, <1>14

\* The query ends, where it stands.
LEMMA QueryEnds ==
    ASSUME StreamInv, NEW es \in Seq(WireEvent), wire' = wire \o es,
           query' \in {"over", "failed"}, UNCHANGED sdkVars, UNCHANGED <<open, emitted>>,
           UNCHANGED pageVars,
           \A b \in Positions : \E c \in Positions : Leads(es, Produced, b, c)
    PROVE  StreamInv'
<1>0. AgentInv
  BY DEF StreamInv
<1>1. UNCHANGED <<streamed, typed, message, at, due, transcript>>
  BY DEF sdkVars
<1>2. Written' = Written /\ Produced' = Produced /\ (InText' <=> InText) /\ Told' = Told
  BY <1>1 DEF Written, Produced, InText, Told, TextsTo, TextsIn
<1>3. wire' \in Seq(WireEvent)
  BY <1>0 DEF AgentInv
<1>4. AgentInv'
  BY <1>0, <1>1, <1>2, <1>3 DEF AgentInv
<1>5. \A c \in Positions : AgentAt(c)'
  BY DEF AgentAt
<1> QED
  BY <1>2, <1>4, <1>5, AgentWrites

\* The query is done.
LEMMA FinishInv ==
    ASSUME StreamInv, Finish
    PROVE  StreamInv'
<1> DEFINE es == <<Event("done", None, <<>>)>>
<1>1. es \in Seq(WireEvent)
  BY KindsOfEvents, OneEvent
<1>2. \A b \in Positions : \E c \in Positions : Leads(es, Produced, b, c)
  BY FreshLeads
<1>3. /\ wire' = wire \o es /\ query' = "over"
      /\ UNCHANGED sdkVars /\ UNCHANGED <<open, emitted>> /\ UNCHANGED pageVars
  BY DEF Finish, Emit
<1> HIDE DEF es
<1> QED
  BY <1>1, <1>2, <1>3, QueryEnds

\* The query fails, with an error before its end.
LEMMA FailInv ==
    ASSUME StreamInv, Fail
    PROVE  StreamInv'
<1> DEFINE e == Event("error_event", None, <<>>)
           f == Event("done", None, <<>>)
           es == <<e, f>>
<1>1. /\ wire' = wire \o es /\ query' = "failed"
      /\ UNCHANGED sdkVars /\ UNCHANGED <<open, emitted>> /\ UNCHANGED pageVars
  BY DEF Fail, Emit
<1>2. e \in WireEvent /\ f \in WireEvent /\ e.kind = "error_event" /\ f.kind = "done"
  BY KindsOfEvents DEF Event, WireEvent
<1> HIDE DEF e, f
<1>3. es \in Seq(WireEvent)
  BY <1>2
<1>4. ASSUME NEW b \in Positions
      PROVE  \E c \in Positions : Leads(es, Produced, b, c)
  <2> DEFINE c == [b EXCEPT !.fresh = TRUE]
  <2>1. c \in Positions /\ [c EXCEPT !.fresh = TRUE] = c
    BY DEF Positions
  <2>2. Says(e, Produced, b, c)
    BY <1>2 DEF Says
  <2> HIDE DEF c
  <2>3. Says(f, Produced, c, c)
    BY <1>2, <2>1 DEF Says
  <2> QED
    BY <2>1, <2>2, <2>3, LeadsTwo
<1> HIDE DEF es
<1> QED
  BY <1>1, <1>3, <1>4, QueryEnds

-----------------------------------------------------------------------------
(* Lists of messages.                                                      *)

\* The texts of ns are those of ms, in their order.
SameTexts(ms, ns) ==
    \E f \in [TextsOf(ns) -> TextsOf(ms)] :
        /\ \A k \in TextsOf(ns) : ns[k].text = ms[f[k]].text /\ ns[k].id = ms[f[k]].id
        /\ \A k, l \in TextsOf(ns) : k < l => f[k] < f[l]
        /\ \A t \in TextsOf(ms) : \E k \in TextsOf(ns) : f[k] = t

\* They are those of ns itself.
LEMMA SameItself ==
    ASSUME NEW ns
    PROVE  SameTexts(ns, ns)
<1> DEFINE f == [k \in TextsOf(ns) |-> k]
<1>1. f \in [TextsOf(ns) -> TextsOf(ns)] /\ \A k \in TextsOf(ns) : f[k] = k
  OBVIOUS
<1> HIDE DEF f
<1> QED
  BY <1>1 DEF SameTexts

\* What has the same texts shows the same.
LEMMA ShownSame ==
    ASSUME NEW ms, NEW ns, NEW P, NEW a, SameTexts(ms, ns), Shown(ms, P, a)
    PROVE  Shown(ns, P, a) /\ \A id : LastText(ms, a, id) => LastText(ns, a, id)
<1>1. PICK f \in [TextsOf(ns) -> TextsOf(ms)] :
        /\ \A k \in TextsOf(ns) : ns[k].text = ms[f[k]].text /\ ns[k].id = ms[f[k]].id
        /\ \A k, l \in TextsOf(ns) : k < l => f[k] < f[l]
        /\ \A t \in TextsOf(ms) : \E k \in TextsOf(ns) : f[k] = t
  BY DEF SameTexts
<1>2. \A k \in TextsOf(ns) : f[k] \in TextsOf(ms) /\ BlockOf(ns[k]) = BlockOf(ms[f[k]])
  BY <1>1 DEF BlockOf
<1>3. a.last \in P \cup {0}
  BY DEF Shown
<1>4. \A i \in TextsOf(ns) :
          /\ BlockOf(ns[i]) \in P
          /\ BlockOf(ns[i]) <= a.last
          /\ ns[i].text = IF BlockOf(ns[i]) = a.last /\ a.chunks = 1
                          THEN <<BlockOf(ns[i])>> ELSE Whole(BlockOf(ns[i]))
  <2> TAKE i \in TextsOf(ns)
  <2>1. f[i] \in TextsOf(ms) /\ BlockOf(ns[i]) = BlockOf(ms[f[i]]) /\ ns[i].text = ms[f[i]].text
    BY <1>1, <1>2
  <2> DEFINE t == f[i]
  <2> HIDE DEF t
  <2>2. t \in TextsOf(ms) /\ BlockOf(ns[i]) = BlockOf(ms[t]) /\ ns[i].text = ms[t].text
    BY <2>1 DEF t
  <2>3. /\ BlockOf(ms[t]) \in P
        /\ BlockOf(ms[t]) <= a.last
        /\ ms[t].text = IF BlockOf(ms[t]) = a.last /\ a.chunks = 1
                        THEN <<BlockOf(ms[t])>> ELSE Whole(BlockOf(ms[t]))
    BY <2>2 DEF Shown
  <2> QED
    BY <2>2, <2>3
<1>5. \A i, j \in TextsOf(ns) : i < j => BlockOf(ns[i]) < BlockOf(ns[j])
  BY <1>1, <1>2 DEF Shown
<1>6. \A n \in P : n <= a.last => \E i \in TextsOf(ns) : BlockOf(ns[i]) = n
  <2> SUFFICES ASSUME NEW n \in P, n <= a.last
               PROVE  \E i \in TextsOf(ns) : BlockOf(ns[i]) = n
    OBVIOUS
  <2>1. PICK t \in TextsOf(ms) : BlockOf(ms[t]) = n
    BY DEF Shown
  <2> QED
    BY <1>1, <1>2, <2>1
<1>7. ASSUME NEW id, LastText(ms, a, id)
      PROVE  LastText(ns, a, id)
  <2>1. PICK t \in TextsOf(ms) : ms[t].id = id /\ BlockOf(ms[t]) = a.last
    BY <1>7 DEF LastText
  <2>2. PICK k \in TextsOf(ns) : f[k] = t
    BY <1>1
  <2>3. ns[k].id = id /\ BlockOf(ns[k]) = a.last
    BY <1>1, <1>2, <2>1, <2>2
  <2> QED
    BY <2>3 DEF LastText
<1> QED
  BY <1>3, <1>4, <1>5, <1>6, <1>7 DEF Shown

\* Without a message that is not a text the texts are the same.
LEMMA WithoutSame ==
    ASSUME NEW ms, NEW next, Ordered(ms, next), NEW i \in DOMAIN ms, ms[i].kind # "text"
    PROVE  /\ SameTexts(ms, Without(ms, i)) /\ Ordered(Without(ms, i), next)
           /\ \A k \in DOMAIN Without(ms, i) : \E l \in DOMAIN ms : Without(ms, i)[k] = ms[l]
<1> DEFINE n == Len(ms)
           ns == Without(ms, i)
           up(k) == IF k < i THEN k ELSE k + 1
<1>1. ms \in Seq(PageMessage) /\ next \in Nat
  BY DEF Ordered
<1>2. n \in Nat \ {0} /\ DOMAIN ms = 1..n /\ i \in 1..n /\ \A k \in 1..n : ms[k] \in PageMessage
  <2> HIDE DEF n
  <2> USE DEF n
  <2> QED
    BY <1>1
<1> HIDE DEF n
<1>3. ns = [k \in 1..n - 1 |-> IF k < i THEN ms[k] ELSE ms[k+1]]
  BY DEF Without, n
<1>4. \A k \in 1..n - 1 : up(k) \in 1..n /\ up(k) # i /\ ns[k] = ms[up(k)]
  BY <1>2, <1>3
<1> HIDE DEF ns
<1>5. \A k, l \in 1..n - 1 : k < l => up(k) < up(l)
  BY <1>2
<1>6. \A t \in 1..n : t # i => \E k \in 1..n - 1 : up(k) = t
  <2> TAKE t \in 1..n
  <2> HAVE t # i
  <2>1. CASE t < i
    <3>1. t \in 1..n - 1 /\ up(t) = t
      BY <1>2, <2>1
    <3> QED
      BY <3>1
  <2>2. CASE i < t
    <3>1. t - 1 \in 1..n - 1 /\ up(t - 1) = t
      BY <1>2, <2>2
    <3> QED
      BY <3>1
  <2> QED
    BY <1>2, <2>1, <2>2
<1> HIDE DEF up
<1>7. DOMAIN ns = 1..n - 1 /\ ns \in Seq(PageMessage)
  <2>1. DOMAIN ns = 1..n - 1 /\ ns = [k \in 1..n - 1 |-> ns[k]]
    BY <1>3
  <2>2. \A k \in 1..n - 1 : ns[k] \in PageMessage
    BY <1>2, <1>4
  <2>3. n - 1 \in Nat
    BY <1>2
  <2> HIDE DEF PageMessage
  <2> QED
    BY <2>1, <2>2, <2>3
<1>8. Ordered(ns, next)
  <2>1. \A k \in DOMAIN ns : ns[k].id < next
    BY <1>2, <1>4, <1>7 DEF Ordered
  <2>2. \A k, l \in DOMAIN ns : k < l => ns[k].id < ns[l].id
    BY <1>2, <1>4, <1>5, <1>7 DEF Ordered
  <2> QED
    BY <1>1, <1>7, <2>1, <2>2 DEF Ordered
<1>9. SameTexts(ms, ns)
  <2> DEFINE f == [k \in TextsOf(ns) |-> up(k)]
  <2>1. \A k \in TextsOf(ns) : k \in 1..n - 1 /\ up(k) \in TextsOf(ms)
    BY <1>2, <1>4, <1>7 DEF TextsOf
  <2>2. f \in [TextsOf(ns) -> TextsOf(ms)] /\ \A k \in TextsOf(ns) : f[k] = up(k)
    BY <2>1
  <2> HIDE DEF f
  <2>3. \A k \in TextsOf(ns) : ns[k].text = ms[f[k]].text /\ ns[k].id = ms[f[k]].id
    BY <1>4, <2>1, <2>2
  <2>4. \A k, l \in TextsOf(ns) : k < l => f[k] < f[l]
    BY <1>5, <2>1, <2>2
  <2>5. \A t \in TextsOf(ms) : \E k \in TextsOf(ns) : f[k] = t
    <3> TAKE t \in TextsOf(ms)
    <3>1. t \in 1..n /\ t # i /\ ms[t].kind = "text"
      BY <1>2 DEF TextsOf
    <3>2. PICK k \in 1..n - 1 : up(k) = t
      BY <1>6, <3>1
    <3>3. k \in TextsOf(ns)
      BY <1>4, <1>7, <3>1, <3>2 DEF TextsOf
    <3> QED
      BY <2>2, <3>2, <3>3
  <2> QED
    BY <2>2, <2>3, <2>4, <2>5 DEF SameTexts
<1>10. \A k \in DOMAIN ns : \E l \in DOMAIN ms : ns[k] = ms[l]
  BY <1>2, <1>4, <1>7
<1> QED
  BY <1>8, <1>9, <1>10 DEF ns

\* A message at the end.
LEMMA AppendFacts ==
    ASSUME NEW ms, NEW next, Ordered(ms, next), NEW m \in PageMessage, m.id = next
    PROVE  /\ Ordered(Append(ms, m), next + 1)
           /\ DOMAIN ms = 1..Len(ms) /\ Len(ms) \in Nat
           /\ DOMAIN Append(ms, m) = 1..Len(ms) + 1
           /\ \A i \in 1..Len(ms) : Append(ms, m)[i] = ms[i] /\ ms[i].id < next /\ ms[i].id \in Nat
           /\ Append(ms, m)[Len(ms) + 1] = m
<1> DEFINE n == Len(ms)
           ns == Append(ms, m)
<1>1. ms \in Seq(PageMessage) /\ next \in Nat
  BY DEF Ordered
<1>2. /\ n \in Nat /\ DOMAIN ms = 1..n /\ ns \in Seq(PageMessage) /\ DOMAIN ns = 1..n + 1
      /\ (\A i \in 1..n : ns[i] = ms[i] /\ ms[i] \in PageMessage) /\ ns[n + 1] = m
  <2> HIDE DEF PageMessage
  <2> QED
    BY <1>1
<1> HIDE DEF n, ns
<1>3. \A i \in 1..n : ms[i].id < next /\ ms[i].id \in Nat
  BY <1>2 DEF Ordered, PageMessage
<1>4. \A i \in 1..n + 1 : i \in 1..n \/ i = n + 1
  BY <1>2
<1>5. \A i \in DOMAIN ns : ns[i].id < next + 1
  BY <1>1, <1>2, <1>3, <1>4
<1>6. \A i, j \in DOMAIN ns : i < j => ns[i].id < ns[j].id
  <2> SUFFICES ASSUME NEW i \in 1..n + 1, NEW j \in 1..n + 1, i < j
               PROVE  ns[i].id < ns[j].id
    BY <1>2
  <2>1. i \in 1..n
    BY <1>2, <1>4
  <2>2. CASE j \in 1..n
    BY <1>2, <2>1, <2>2 DEF Ordered
  <2>3. CASE j = n + 1
    BY <1>2, <1>3, <2>1, <2>3
  <2> QED
    BY <1>4, <2>2, <2>3
<1>7. Ordered(ns, next + 1)
  BY <1>1, <1>2, <1>5, <1>6 DEF Ordered
<1> QED
  BY <1>2, <1>3, <1>7 DEF n, ns

\* If it is not a text, the texts are the same.
LEMMA AppendSame ==
    ASSUME NEW ms, NEW next, Ordered(ms, next), NEW m \in PageMessage, m.id = next, m.kind # "text"
    PROVE  SameTexts(ms, Append(ms, m))
<1> DEFINE n == Len(ms)
           ns == Append(ms, m)
           f == [k \in TextsOf(ns) |-> k]
<1>1. /\ n \in Nat /\ DOMAIN ms = 1..n /\ DOMAIN ns = 1..n + 1
      /\ (\A i \in 1..n : ns[i] = ms[i]) /\ ns[n + 1] = m
  BY AppendFacts
<1> HIDE DEF n, ns
<1>2. \A i \in 1..n + 1 : i \in 1..n \/ i = n + 1
  BY <1>1
<1>3. \A i \in 1..n : i \in 1..n + 1
  BY <1>1
<1>4. TextsOf(ns) = TextsOf(ms)
  BY <1>1, <1>2, <1>3 DEF TextsOf
<1>5. \A k \in TextsOf(ns) : ns[k] = ms[k]
  BY <1>1, <1>4 DEF TextsOf
<1>6. f \in [TextsOf(ns) -> TextsOf(ms)] /\ \A k \in TextsOf(ns) : f[k] = k
  BY <1>4
<1> HIDE DEF f
<1>7. SameTexts(ms, ns)
  BY <1>4, <1>5, <1>6 DEF SameTexts
<1> QED
  BY <1>7 DEF ns

\* What an update does to each message.
LEMMA UpdateFacts ==
    ASSUME NEW ms, NEW next, Ordered(ms, next), NEW id, NEW text \in Seq(Nat), NEW result \in BOOLEAN
    PROVE  /\ Ordered(UpdateMessageById(ms, id, text, result), next)
           /\ DOMAIN UpdateMessageById(ms, id, text, result) = DOMAIN ms
           /\ \A i \in DOMAIN ms :
                 /\ UpdateMessageById(ms, id, text, result)[i].id = ms[i].id
                 /\ UpdateMessageById(ms, id, text, result)[i].kind = ms[i].kind
                 /\ UpdateMessageById(ms, id, text, result)[i].text =
                       IF ms[i].id = id THEN ms[i].text \o text ELSE ms[i].text
<1> DEFINE ns == UpdateMessageById(ms, id, text, result)
           n == Len(ms)
           v(i) == IF ms[i].id = id
                   THEN [ms[i] EXCEPT !.text = @ \o text, !.result = @ \/ result]
                   ELSE ms[i]
<1>1. ms \in Seq(PageMessage) /\ next \in Nat
  BY DEF Ordered
<1>2. n \in Nat /\ DOMAIN ms = 1..n /\ \A i \in 1..n : ms[i] \in PageMessage
  <2> HIDE DEF PageMessage
  <2> QED
    BY <1>1
<1>3. ns = [i \in 1..n |-> v(i)]
  BY <1>2 DEF UpdateMessageById
<1>4. ASSUME NEW i \in 1..n
      PROVE  /\ v(i) \in PageMessage /\ v(i).id = ms[i].id /\ v(i).kind = ms[i].kind
             /\ v(i).text = IF ms[i].id = id THEN ms[i].text \o text ELSE ms[i].text
  <2> DEFINE t == ms[i].text \o text
             r == ms[i].result \/ result
  <2>1. ms[i] \in PageMessage
    BY <1>2, <1>4
  <2>2. t \in Seq(Nat)
    BY <2>1 DEF PageMessage
  <2>3. r \in BOOLEAN
    OBVIOUS
  <2>4. CASE ms[i].id = id
    <3>1. v(i) = [ms[i] EXCEPT !.text = t, !.result = r]
      BY <2>4
    <3> HIDE DEF t, r, v
    <3>2. [ms[i] EXCEPT !.text = t, !.result = r] \in PageMessage
      BY <2>1, <2>2, <2>3 DEF PageMessage
    <3>3. /\ [ms[i] EXCEPT !.text = t, !.result = r].id = ms[i].id
          /\ [ms[i] EXCEPT !.text = t, !.result = r].kind = ms[i].kind
          /\ [ms[i] EXCEPT !.text = t, !.result = r].text = t
      BY <2>1 DEF PageMessage
    <3> QED
      BY <2>4, <3>1, <3>2, <3>3 DEF t
  <2>5. CASE ms[i].id # id
    BY <2>1, <2>5
  <2> QED
    BY <2>4, <2>5
<1> HIDE DEF v, n
<1>5. DOMAIN ns = 1..n /\ \A i \in 1..n : ns[i] = v(i)
  BY <1>3
<1>6. ns \in Seq(PageMessage)
  <2> HIDE DEF PageMessage
  <2>1. \A i \in 1..n : v(i) \in PageMessage
    BY <1>4
  <2> HIDE DEF ns
  <2> QED
    BY <1>2, <1>3, <2>1
<1> HIDE DEF ns
<1>7. (\A i \in DOMAIN ns : ns[i].id < next) /\ (\A i, j \in DOMAIN ns : i < j => ns[i].id < ns[j].id)
  BY <1>2, <1>4, <1>5 DEF Ordered
<1>8. Ordered(ns, next)
  BY <1>1, <1>6, <1>7 DEF Ordered
<1>9. DOMAIN ns = DOMAIN ms /\ \A i \in DOMAIN ms : ns[i] = v(i)
  BY <1>2, <1>5
<1>10. \A i \in DOMAIN ms :
          /\ v(i).id = ms[i].id /\ v(i).kind = ms[i].kind
          /\ v(i).text = IF ms[i].id = id THEN ms[i].text \o text ELSE ms[i].text
  BY <1>2, <1>4
<1> QED
  BY <1>8, <1>9, <1>10 DEF ns

\* An update of a message that is no text, or without a text to append, leaves
\* the texts as they are.
LEMMA UpdateSame ==
    ASSUME NEW ms, NEW next, Ordered(ms, next), NEW id, NEW text \in Seq(Nat), NEW result \in BOOLEAN,
           text = <<>> \/ \A i \in DOMAIN ms : ms[i].id = id => ms[i].kind # "text"
    PROVE  SameTexts(ms, UpdateMessageById(ms, id, text, result))
<1> DEFINE ns == UpdateMessageById(ms, id, text, result)
           f == [k \in TextsOf(ns) |-> k]
<1>1. /\ DOMAIN ns = DOMAIN ms
      /\ \A i \in DOMAIN ms : /\ ns[i].id = ms[i].id /\ ns[i].kind = ms[i].kind
                              /\ ns[i].text = IF ms[i].id = id THEN ms[i].text \o text ELSE ms[i].text
  BY UpdateFacts
<1>2. \A i \in DOMAIN ms : ms[i].text \in Seq(Nat)
  <2>1. ms \in Seq(PageMessage)
    BY DEF Ordered
  <2> DEFINE M == PageMessage
  <2>2. \A x \in M : x.text \in Seq(Nat)
    BY DEF PageMessage
  <2> HIDE DEF M
  <2>3. \A i \in DOMAIN ms : ms[i] \in M
    BY <2>1 DEF M
  <2> QED
    BY <2>2, <2>3
<1> HIDE DEF ns
<1>3. TextsOf(ns) = TextsOf(ms)
  BY <1>1 DEF TextsOf
<1>4. ASSUME NEW k \in TextsOf(ns)
      PROVE  ns[k].text = ms[k].text /\ ns[k].id = ms[k].id
  <2>1. k \in DOMAIN ms /\ ms[k].kind = "text" /\ ms[k].text \in Seq(Nat)
    BY <1>2, <1>3 DEF TextsOf
  <2>2. ms[k].text \o <<>> = ms[k].text
    BY <2>1
  <2> QED
    BY <1>1, <2>1, <2>2
<1>5. f \in [TextsOf(ns) -> TextsOf(ms)] /\ \A k \in TextsOf(ns) : f[k] = k
  BY <1>3
<1> HIDE DEF f
<1>6. SameTexts(ms, ns)
  BY <1>3, <1>4, <1>5 DEF SameTexts
<1> QED
  BY <1>6 DEF ns

\* The next text begins.
LEMMA ShownBegin ==
    ASSUME NEW ms, NEW next, Ordered(ms, next), NEW m \in PageMessage, m.id = next, m.kind = "text",
           NEW P, P \subseteq Nat, NEW a \in Positions, NEW b \in Positions, Shown(ms, P, a),
           a.chunks = 2, b.last \in P, a.last < b.last,
           \A n \in P : n <= a.last \/ b.last <= n,
           m.text = IF b.chunks = 1 THEN <<b.last>> ELSE Whole(b.last)
    PROVE  Shown(Append(ms, m), P, b) /\ LastText(Append(ms, m), b, next)
<1> DEFINE n == Len(ms)
           ns == Append(ms, m)
<1>1. /\ n \in Nat /\ DOMAIN ms = 1..n /\ DOMAIN ns = 1..n + 1
      /\ (\A i \in 1..n : ns[i] = ms[i]) /\ ns[n + 1] = m
  BY AppendFacts
<1> HIDE DEF n, ns
<1>2. BlockOf(m) = b.last
  BY DEF BlockOf, Whole
<1>3. a.last \in Nat /\ b.last \in Nat
  BY DEF Positions
<1>4. \A i \in 1..n + 1 : i \in 1..n \/ i = n + 1
  BY <1>1
<1>5. \A i \in 1..n : i \in 1..n + 1
  BY <1>1
<1>6. TextsOf(ns) = TextsOf(ms) \cup {n + 1}
  <2>1. n + 1 \in 1..n + 1
    BY <1>1
  <2> QED
    BY <1>1, <1>4, <1>5, <2>1 DEF TextsOf
<1>7. \A i \in TextsOf(ms) : i \in 1..n /\ ns[i] = ms[i]
  BY <1>1 DEF TextsOf
<1>8. ASSUME NEW i \in TextsOf(ms)
      PROVE  /\ BlockOf(ns[i]) \in P /\ BlockOf(ns[i]) \in Nat /\ BlockOf(ns[i]) <= a.last
             /\ ns[i].text = Whole(BlockOf(ns[i]))
  <2>1. /\ BlockOf(ms[i]) \in P /\ BlockOf(ms[i]) <= a.last
        /\ ms[i].text = IF BlockOf(ms[i]) = a.last /\ a.chunks = 1
                        THEN <<BlockOf(ms[i])>> ELSE Whole(BlockOf(ms[i]))
    BY <1>8 DEF Shown
  <2>2. BlockOf(ms[i]) \in Nat /\ ms[i].text = Whole(BlockOf(ms[i])) /\ ns[i] = ms[i]
    <3>1. a.chunks # 1
      OBVIOUS
    <3>2. ms[i].text = Whole(BlockOf(ms[i]))
      BY <2>1, <3>1
    <3>3. BlockOf(ms[i]) \in Nat /\ ns[i] = ms[i]
      BY <1>7, <1>8, <2>1
    <3> QED
      BY <3>2, <3>3
  <2> QED
    BY <2>1, <2>2
<1>9. ASSUME NEW i \in TextsOf(ns)
      PROVE  /\ BlockOf(ns[i]) \in P /\ BlockOf(ns[i]) <= b.last
             /\ ns[i].text = IF BlockOf(ns[i]) = b.last /\ b.chunks = 1
                             THEN <<BlockOf(ns[i])>> ELSE Whole(BlockOf(ns[i]))
  <2>1. CASE i \in TextsOf(ms)
    <3>1. /\ BlockOf(ns[i]) \in P /\ BlockOf(ns[i]) \in Nat /\ BlockOf(ns[i]) <= a.last
          /\ ns[i].text = Whole(BlockOf(ns[i]))
      BY <1>8, <2>1
    <3>2. BlockOf(ns[i]) <= b.last /\ BlockOf(ns[i]) # b.last
      BY <1>3, <3>1
    <3> QED
      BY <3>1, <3>2
  <2>2. CASE i = n + 1
    <3>1. ns[i] = m
      BY <1>1, <2>2
    <3> QED
      BY <1>2, <1>3, <3>1
  <2> QED
    BY <1>6, <2>1, <2>2
<1>10. ASSUME NEW i \in TextsOf(ns), NEW j \in TextsOf(ns), i < j
       PROVE  BlockOf(ns[i]) < BlockOf(ns[j])
  <2>1. i \in TextsOf(ms)
    <3>1. i # n + 1
      BY <1>1, <1>6, <1>7, <1>10
    <3> QED
      BY <1>6, <3>1
  <2>2. CASE j \in TextsOf(ms)
    BY <1>7, <1>10, <2>1, <2>2 DEF Shown
  <2>3. CASE j = n + 1
    <3>1. ns[j] = m
      BY <1>1, <2>3
    <3> QED
      BY <1>2, <1>3, <1>8, <2>1, <3>1
  <2> QED
    BY <1>6, <2>2, <2>3
<1>11. ASSUME NEW x \in P, x <= b.last
       PROVE  \E i \in TextsOf(ns) : BlockOf(ns[i]) = x
  <2>1. CASE x <= a.last
    <3>1. PICK i \in TextsOf(ms) : BlockOf(ms[i]) = x
      BY <1>11, <2>1 DEF Shown
    <3> QED
      BY <1>6, <1>7, <3>1
  <2>2. CASE x = b.last
    BY <1>1, <1>2, <1>6, <2>2
  <2> QED
    BY <1>3, <1>11, <2>1, <2>2
<1>12. Shown(ns, P, b)
  BY <1>9, <1>10, <1>11 DEF Shown
<1>13. LastText(ns, b, next)
  BY <1>1, <1>2, <1>6 DEF LastText
<1> QED
  BY <1>12, <1>13 DEF ns

\* The last text goes on.
LEMMA ShownChunk ==
    ASSUME NEW ms, NEW next, Ordered(ms, next),
           NEW P, P \subseteq Nat, NEW a \in Positions, Shown(ms, P, a), a.chunks = 1,
           NEW id, LastText(ms, a, id), NEW b, b = [a EXCEPT !.chunks = 2]
    PROVE  /\ Shown(UpdateMessageById(ms, id, <<a.last>>, FALSE), P, b)
           /\ LastText(UpdateMessageById(ms, id, <<a.last>>, FALSE), b, id)
<1> DEFINE t == <<a.last>>
           ns == UpdateMessageById(ms, id, t, FALSE)
<1>1. a.last \in Nat /\ b.last = a.last /\ b.chunks = 2 /\ t \in Seq(Nat) /\ FALSE \in BOOLEAN
  BY DEF Positions
<1> HIDE DEF t
<1>2. /\ DOMAIN ns = DOMAIN ms
      /\ \A i \in DOMAIN ms : /\ ns[i].id = ms[i].id /\ ns[i].kind = ms[i].kind
                              /\ ns[i].text = IF ms[i].id = id THEN ms[i].text \o t ELSE ms[i].text
  <2> DEFINE r == FALSE
  <2>1. r \in BOOLEAN
    OBVIOUS
  <2> HIDE DEF r
  <2>2. /\ DOMAIN UpdateMessageById(ms, id, t, r) = DOMAIN ms
        /\ \A i \in DOMAIN ms :
              /\ UpdateMessageById(ms, id, t, r)[i].id = ms[i].id
              /\ UpdateMessageById(ms, id, t, r)[i].kind = ms[i].kind
              /\ UpdateMessageById(ms, id, t, r)[i].text =
                    IF ms[i].id = id THEN ms[i].text \o t ELSE ms[i].text
    BY <1>1, <2>1, UpdateFacts
  <2> QED
    BY <2>2 DEF r
<1> HIDE DEF ns
<1>3. TextsOf(ns) = TextsOf(ms)
  BY <1>2 DEF TextsOf
<1>4. PICK last \in TextsOf(ms) : ms[last].id = id /\ BlockOf(ms[last]) = a.last
  BY DEF LastText
<1>5. /\ \A i \in TextsOf(ms) : i \in DOMAIN ms /\ i \in Nat
      /\ \A i \in DOMAIN ms : ms[i].id \in Nat
  <2> DEFINE M == PageMessage
  <2>1. (\A x \in M : x.id \in Nat) /\ ms \in Seq(M)
    BY DEF PageMessage, Ordered
  <2> HIDE DEF M
  <2>2. \A i \in DOMAIN ms : i \in Nat /\ ms[i] \in M
    BY <2>1
  <2> QED
    BY <2>1, <2>2 DEF TextsOf
<1>6. ns[last].text = Whole(a.last)
  <2>1. ms[last].text = <<a.last>>
    BY <1>4 DEF Shown
  <2>2. <<a.last>> \o <<a.last>> = <<a.last, a.last>>
    <3> DEFINE x == a.last
               u == <<x>> \o <<x>>
               w == <<x, x>>
    <3>1. x \in Nat
      BY <1>1
    <3> HIDE DEF x
    <3>2. u \in Seq(Nat) /\ Len(u) = 2 /\ u[1] = x /\ u[2] = x
      BY <3>1
    <3>3. w \in Seq(Nat) /\ Len(w) = 2 /\ w[1] = x /\ w[2] = x
      BY <3>1
    <3> HIDE DEF u, w
    <3>4. \A i \in 1..2 : u[i] = w[i]
      <4>1. \A i \in 1..2 : i = 1 \/ i = 2
        OBVIOUS
      <4> QED
        BY <3>2, <3>3, <4>1
    <3>5. u = w
      BY <3>2, <3>3, <3>4, SeqEqual
    <3> QED
      BY <3>5 DEF u, w, x
  <2> QED
    BY <1>2, <1>4, <1>5, <2>1, <2>2 DEF t, Whole
<1>7. ASSUME NEW i \in TextsOf(ms), i # last
      PROVE  BlockOf(ms[i]) # a.last /\ ms[i].id # id
  <2>1. i < last \/ last < i
    BY <1>4, <1>5, <1>7
  <2>2. BlockOf(ms[i]) \in Nat
    BY DEF Shown
  <2>3. i < last => BlockOf(ms[i]) < a.last /\ ms[i].id < id
    BY <1>4, <1>5 DEF Shown, Ordered
  <2>4. last < i => a.last < BlockOf(ms[i]) /\ id < ms[i].id
    BY <1>4, <1>5 DEF Shown, Ordered
  <2>5. id \in Nat /\ ms[i].id \in Nat
    BY <1>4, <1>5
  <2> QED
    BY <1>1, <2>1, <2>2, <2>3, <2>4, <2>5
<1>8. ASSUME NEW i \in TextsOf(ms)
      PROVE  /\ BlockOf(ns[i]) = BlockOf(ms[i])
             /\ ns[i].text = Whole(BlockOf(ms[i]))
  <2>1. CASE i = last
    BY <1>4, <1>6, <2>1 DEF BlockOf, Whole
  <2>2. CASE i # last
    <3>1. ns[i].text = ms[i].text
      BY <1>2, <1>5, <1>7, <2>2
    <3>2. BlockOf(ms[i]) # a.last
      BY <1>7, <2>2
    <3>3. ms[i].text = Whole(BlockOf(ms[i]))
      <4>1. ms[i].text = IF BlockOf(ms[i]) = a.last /\ a.chunks = 1
                         THEN <<BlockOf(ms[i])>> ELSE Whole(BlockOf(ms[i]))
        BY DEF Shown
      <4> QED
        BY <3>2, <4>1
    <3> QED
      BY <3>1, <3>3 DEF BlockOf
  <2> QED
    BY <2>1, <2>2
<1>9. ASSUME NEW i \in TextsOf(ns)
      PROVE  /\ BlockOf(ns[i]) \in P /\ BlockOf(ns[i]) <= b.last
             /\ ns[i].text = IF BlockOf(ns[i]) = b.last /\ b.chunks = 1
                             THEN <<BlockOf(ns[i])>> ELSE Whole(BlockOf(ns[i]))
  <2>1. BlockOf(ms[i]) \in P /\ BlockOf(ms[i]) <= a.last
    BY <1>3 DEF Shown
  <2>2. BlockOf(ns[i]) = BlockOf(ms[i]) /\ ns[i].text = Whole(BlockOf(ns[i]))
    BY <1>3, <1>8
  <2> QED
    BY <1>1, <2>1, <2>2
<1>10. \A i, j \in TextsOf(ns) : i < j => BlockOf(ns[i]) < BlockOf(ns[j])
  BY <1>3, <1>8 DEF Shown
<1>11. \A x \in P : x <= b.last => \E i \in TextsOf(ns) : BlockOf(ns[i]) = x
  <2> SUFFICES ASSUME NEW x \in P, x <= b.last
               PROVE  \E i \in TextsOf(ns) : BlockOf(ns[i]) = x
    OBVIOUS
  <2>1. PICK i \in TextsOf(ms) : BlockOf(ms[i]) = x
    BY <1>1 DEF Shown
  <2> QED
    BY <1>3, <1>8, <2>1
<1>12. b.last \in P \cup {0}
  BY <1>1 DEF Shown
<1>13. Shown(ns, P, b)
  BY <1>9, <1>10, <1>11, <1>12 DEF Shown
<1>14. LastText(ns, b, id)
  <2>1. ns[last].id = id /\ BlockOf(ns[last]) = b.last
    BY <1>1, <1>2, <1>4, <1>5, <1>8
  <2> QED
    BY <1>3, <2>1 DEF LastText
<1> QED
  BY <1>13, <1>14 DEF ns, t

\* Sealing takes no text away.
LEMMA SealFacts ==
    ASSUME PageInv
    PROVE  /\ SameTexts(messages, WithoutEmptyBubble)
           /\ Ordered(WithoutEmptyBubble, nextId)
<1>0. Ordered(messages, nextId) /\ NoTextBubble(messages, thinking)
  BY DEF PageInv
<1> DEFINE empty == {i \in DOMAIN messages : messages[i].id = thinking /\ messages[i].text = <<>>}
<1>1. CASE empty = {}
  <2>1. WithoutEmptyBubble = messages
    BY <1>1 DEF WithoutEmptyBubble
  <2>3. SameTexts(messages, messages)
    BY SameItself
  <2> QED
    BY <1>0, <2>1, <2>3
<1>2. CASE empty # {}
  <2> DEFINE i == CHOOSE x \in empty : TRUE
  <2>1. i \in empty
    BY <1>2
  <2>2. WithoutEmptyBubble = Without(messages, i)
    BY <1>2 DEF WithoutEmptyBubble
  <2>3. i \in DOMAIN messages /\ messages[i].kind # "text"
    BY <1>0, <2>1 DEF NoTextBubble
  <2> HIDE DEF i
  <2> QED
    BY <1>0, <2>2, <2>3, WithoutSame
<1> QED
  BY <1>1, <1>2

\* It is enough to say where the page is after an event.
LEMMA PageStep ==
    ASSUME StreamInv, wire # <<>>, wire' = Tail(wire), UNCHANGED sdkVars, UNCHANGED agentVars, PageInv',
           \A a, c \in Positions :
              PageAt(a) /\ Says(Head(wire), Produced, a, c) => PageAt(c)'
    PROVE  StreamInv'
<1>1. PICK a \in Positions, b \in Positions :
          PageAt(a) /\ AgentAt(b) /\ Leads(wire, Produced, a, b)
  BY DEF StreamInv, Linked
<1>2. AgentInv
  BY DEF StreamInv
<1>3. wire \in Seq(WireEvent)
  BY <1>2 DEF AgentInv
<1>4. PICK c \in Positions : Says(Head(wire), Produced, a, c) /\ Leads(Tail(wire), Produced, c, b)
  BY <1>1, <1>3, LeadsTail
<1>5. PageAt(c)'
  BY <1>1, <1>4
<1>6. UNCHANGED <<streamed, typed, message, at, due, transcript>> /\ UNCHANGED <<open, emitted, query>>
  BY DEF sdkVars, agentVars
<1>7. Written' = Written /\ Produced' = Produced /\ (InText' <=> InText) /\ Told' = Told
  BY <1>6 DEF Written, Produced, InText, Told, TextsTo, TextsIn
<1>8. wire' \in Seq(WireEvent)
  BY <1>3
<1>9. AgentInv'
  BY <1>2, <1>6, <1>7, <1>8 DEF AgentInv
<1>10. AgentAt(b)'
  BY <1>1, <1>6, <1>7 DEF AgentAt
<1>11. Leads(wire, Produced, c, b)'
  BY <1>4, <1>7 DEF Leads
<1> QED
  BY <1>5, <1>9, <1>10, <1>11 DEF StreamInv, Linked

-----------------------------------------------------------------------------
(* Steps of the page.                                                     *)

\* A message the page makes.
LEMMA NewMessageFacts ==
    ASSUME PageInv, NEW kind \in {"thinking", "text", "tool", "error"},
           NEW tool \in Numbers \cup {None}, NEW text \in Seq(Nat)
    PROVE  /\ NewMessage(kind, tool, text) \in PageMessage
           /\ NewMessage(kind, tool, text).id = nextId
           /\ NewMessage(kind, tool, text).kind = kind
           /\ NewMessage(kind, tool, text).text = text
BY DEF PageInv, Ordered, NewMessage, PageMessage

\* After an event that ends a text, nothing is appended to it any more.
LEMMA Forgets ==
    ASSUME StreamInv, wire # <<>>, wire' = Tail(wire), UNCHANGED sdkVars, UNCHANGED agentVars, PageInv',
           Head(wire).kind \in {"init", "tool_start", "ask_user_question", "error_event", "done"},
           assistant' = None,
           NEW ms, SameTexts(messages, ms), SameTexts(ms, messages')
    PROVE  StreamInv'
<1>1. UNCHANGED <<transcript, message>>
  BY DEF sdkVars
<1>2. Produced' = Produced
  BY <1>1 DEF Produced, Written
<1>3. ASSUME NEW a \in Positions, NEW c \in Positions, PageAt(a), Says(Head(wire), Produced, a, c)
      PROVE  PageAt(c)'
  <2>1. c = [a EXCEPT !.fresh = TRUE]
    BY <1>3 DEF Says
  <2>2. c.last = a.last /\ c.chunks = a.chunks /\ c.fresh
    BY <2>1 DEF Positions
  <2>3. Shown(messages, Produced, a)
    BY <1>3 DEF PageAt
  <2>4. Shown(messages', Produced, a)
    BY <2>3, ShownSame
  <2>5. Shown(messages', Produced, c)
    BY <2>2, <2>4 DEF Shown
  <2> QED
    BY <1>2, <2>2, <2>5 DEF PageAt
<1> QED
  BY <1>3, PageStep

\* An event that says nothing about texts leaves all as it is.
LEMMA Keeps ==
    ASSUME StreamInv, wire # <<>>, wire' = Tail(wire), UNCHANGED sdkVars, UNCHANGED agentVars, PageInv',
           Head(wire).kind \in {"thinking_delta", "tool_result"},
           assistant' = assistant,
           SameTexts(messages, messages')
    PROVE  StreamInv'
<1>1. UNCHANGED <<transcript, message>>
  BY DEF sdkVars
<1>2. Produced' = Produced
  BY <1>1 DEF Produced, Written
<1>3. ASSUME NEW a \in Positions, NEW c \in Positions, PageAt(a), Says(Head(wire), Produced, a, c)
      PROVE  PageAt(c)'
  <2>1. c = a
    BY <1>3 DEF Says
  <2>2. Shown(messages, Produced, a)
    BY <1>3 DEF PageAt
  <2>3. Shown(messages', Produced, a) /\ \A id : LastText(messages, a, id) => LastText(messages', a, id)
    BY <2>2, ShownSame
  <2> QED
    BY <1>2, <1>3, <2>1, <2>3 DEF PageAt
<1> QED
  BY <1>3, PageStep

\* What the page takes from the wire.
LEMMA TakeFacts ==
    ASSUME StreamInv, NEW kind, Take(kind)
    PROVE  /\ wire # <<>> /\ wire' = Tail(wire) /\ Head(wire).kind = kind
           /\ Head(wire).text \in Seq(Nat) /\ Head(wire).n \in Numbers \cup {None}
           /\ Ordered(messages, nextId) /\ NoTextBubble(messages, thinking) /\ PageInv /\ nextId \in Nat
<1>1. wire \in Seq(WireEvent) /\ wire # <<>>
  BY DEF StreamInv, AgentInv, Take
<1> DEFINE W == WireEvent
<1>2. \A e \in W : e.text \in Seq(Nat) /\ e.n \in Numbers \cup {None}
  BY DEF WireEvent
<1> HIDE DEF W
<1>3. Head(wire) \in W
  BY <1>1 DEF W
<1> QED
  BY <1>2, <1>3 DEF Take, StreamInv, PageInv, Ordered

\* No message has no id.
LEMMA NoBubble ==
    ASSUME NEW ms, NEW next, Ordered(ms, next)
    PROVE  NoTextBubble(ms, None)
<1> DEFINE M == PageMessage
<1>1. (\A x \in M : x.id \in Nat) /\ ms \in Seq(M)
  BY DEF PageMessage, Ordered
<1> HIDE DEF M
<1>2. \A i \in DOMAIN ms : ms[i] \in M
  BY <1>1
<1> QED
  BY <1>1, <1>2, StreamAssumption DEF NoTextBubble

\* init: a new bubble, and the next delta begins a text.
LEMMA HandleInitInv ==
    ASSUME StreamInv, HandleInit
    PROVE  StreamInv'
<1> DEFINE m == NewMessage("thinking", None, <<>>)
<1>1. /\ messages' = Append(messages, m) /\ nextId' = nextId + 1 /\ thinking' = nextId
      /\ assistant' = None /\ UNCHANGED sdkVars /\ UNCHANGED agentVars
  BY DEF HandleInit
<1>2. /\ wire # <<>> /\ wire' = Tail(wire) /\ Head(wire).kind = "init"
      /\ Ordered(messages, nextId) /\ PageInv
  BY TakeFacts DEF HandleInit
<1>3. m \in PageMessage /\ m.id = nextId /\ m.kind = "thinking"
  BY <1>2 DEF NewMessage, PageMessage, PageInv, Ordered
<1> HIDE DEF m
<1>4. SameTexts(messages, messages')
  BY <1>1, <1>2, <1>3, AppendSame
<1>5. Ordered(messages', nextId')
  BY <1>1, <1>2, <1>3, AppendFacts
<1>6. NoTextBubble(messages', thinking')
  <2>1. /\ DOMAIN messages' = 1..Len(messages) + 1 /\ Len(messages) \in Nat
        /\ \A i \in 1..Len(messages) : /\ messages'[i] = messages[i]
                                       /\ messages[i].id < nextId /\ messages[i].id \in Nat
        /\ messages'[Len(messages) + 1] = m
    BY <1>1, <1>2, <1>3, AppendFacts
  <2>2. \A i \in 1..Len(messages) + 1 : i \in 1..Len(messages) \/ i = Len(messages) + 1
    BY <2>1
  <2>3. nextId \in Nat
    BY <1>2 DEF Ordered
  <2>4. \A i \in 1..Len(messages) : messages'[i].id # nextId
    BY <2>1, <2>3
  <2> QED
    BY <1>1, <1>3, <2>1, <2>2, <2>4 DEF NoTextBubble
<1>7. PageInv'
  BY <1>5, <1>6 DEF PageInv
<1>8. SameTexts(messages, messages)
  BY SameItself
<1> QED
  BY <1>1, <1>2, <1>4, <1>7, <1>8, Forgets

\* Thinking goes to the bubble, which is no text.
LEMMA HandleThinkingDeltaInv ==
    ASSUME StreamInv, HandleThinkingDelta
    PROVE  StreamInv'
<1> DEFINE t == Head(wire).text
           r == FALSE
<1>1. /\ messages' = UpdateMessageById(messages, thinking, t, r)
      /\ nextId' = nextId /\ thinking' = thinking
      /\ assistant' = assistant /\ UNCHANGED sdkVars /\ UNCHANGED agentVars
  BY DEF HandleThinkingDelta
<1>2. /\ wire # <<>> /\ wire' = Tail(wire) /\ Head(wire).kind = "thinking_delta" /\ t \in Seq(Nat)
      /\ Ordered(messages, nextId) /\ NoTextBubble(messages, thinking)
  BY TakeFacts DEF HandleThinkingDelta
<1>3. r \in BOOLEAN
  OBVIOUS
<1> HIDE DEF t, r
<1>4. \A i \in DOMAIN messages : messages[i].id = thinking => messages[i].kind # "text"
  BY <1>2 DEF NoTextBubble
<1>5. SameTexts(messages, messages')
  BY <1>1, <1>2, <1>3, <1>4, UpdateSame
<1> DEFINE U == UpdateMessageById(messages, thinking, t, r)
<1>u. /\ Ordered(U, nextId) /\ DOMAIN U = DOMAIN messages
      /\ \A i \in DOMAIN messages : U[i].id = messages[i].id /\ U[i].kind = messages[i].kind
  BY <1>2, <1>3, UpdateFacts
<1>v. messages' = U /\ nextId' = nextId
  BY <1>1
<1> HIDE DEF U
<1>6. /\ Ordered(messages', nextId') /\ DOMAIN messages' = DOMAIN messages
      /\ \A i \in DOMAIN messages : messages'[i].id = messages[i].id /\ messages'[i].kind = messages[i].kind
  BY <1>u, <1>v
<1>7. PageInv'
  BY <1>1, <1>2, <1>6 DEF PageInv, NoTextBubble
<1> QED
  BY <1>1, <1>2, <1>5, <1>7, Keeps

\* The result of a tool changes no text, whichever message has it.
LEMMA HandleToolResultInv ==
    ASSUME StreamInv, HandleToolResult
    PROVE  StreamInv'
<1> DEFINE id == card[Head(wire).n]
           r == TRUE
           t == <<>>
<1>1. /\ messages' = UpdateMessageById(messages, id, t, r)
      /\ nextId' = nextId /\ thinking' = thinking
      /\ assistant' = assistant /\ UNCHANGED sdkVars /\ UNCHANGED agentVars
  BY DEF HandleToolResult
<1>2. /\ wire # <<>> /\ wire' = Tail(wire) /\ Head(wire).kind = "tool_result"
      /\ Ordered(messages, nextId) /\ NoTextBubble(messages, thinking)
  BY TakeFacts DEF HandleToolResult
<1>3. r \in BOOLEAN /\ t \in Seq(Nat)
  OBVIOUS
<1>4. t = <<>>
  OBVIOUS
<1> HIDE DEF t, r, id
<1>5. SameTexts(messages, messages')
  BY <1>1, <1>2, <1>3, <1>4, UpdateSame
<1> DEFINE U == UpdateMessageById(messages, id, t, r)
<1>u. /\ Ordered(U, nextId) /\ DOMAIN U = DOMAIN messages
      /\ \A i \in DOMAIN messages : U[i].id = messages[i].id /\ U[i].kind = messages[i].kind
  BY <1>2, <1>3, UpdateFacts
<1>v. messages' = U /\ nextId' = nextId
  BY <1>1
<1> HIDE DEF U
<1>6. /\ Ordered(messages', nextId') /\ DOMAIN messages' = DOMAIN messages
      /\ \A i \in DOMAIN messages : messages'[i].id = messages[i].id /\ messages'[i].kind = messages[i].kind
  BY <1>u, <1>v
<1>7. PageInv'
  BY <1>1, <1>2, <1>6 DEF PageInv, NoTextBubble
<1> QED
  BY <1>1, <1>2, <1>5, <1>7, Keeps

\* A delta of a text begins it or goes on with it.
LEMMA HandleTextDeltaInv ==
    ASSUME StreamInv, HandleTextDelta
    PROVE  StreamInv'
<1> DEFINE e == Head(wire)
           ms == WithoutEmptyBubble
           m == NewMessage("text", None, Head(wire).text)
<1>1. thinking' = None /\ UNCHANGED sdkVars /\ UNCHANGED agentVars
  BY DEF HandleTextDelta
<1>2. /\ wire # <<>> /\ wire' = Tail(wire) /\ e.kind = "text_delta" /\ e.text \in Seq(Nat)
      /\ Ordered(messages, nextId) /\ PageInv
  BY TakeFacts DEF HandleTextDelta
<1>3. SameTexts(messages, ms) /\ Ordered(ms, nextId)
  BY <1>2, SealFacts
<1>4. m \in PageMessage /\ m.id = nextId /\ m.kind = "text" /\ m.text = e.text
  BY <1>2 DEF NewMessage, PageMessage, PageInv, Ordered
<1>5. \/ /\ assistant = None
         /\ messages' = Append(ms, m)
         /\ nextId' = nextId + 1
         /\ assistant' = nextId
      \/ /\ assistant # None
         /\ messages' = UpdateMessageById(ms, assistant, e.text, FALSE)
         /\ nextId' = nextId /\ assistant' = assistant
  BY DEF HandleTextDelta
<1>6. nextId # None /\ nextId \in Nat
  BY <1>2, StreamAssumption DEF Ordered
<1> HIDE DEF ms, m, e
<1>7. Ordered(messages', nextId')
  <2>1. CASE assistant = None
    <3>1. messages' = Append(ms, m) /\ nextId' = nextId + 1
      BY <1>5, <2>1
    <3> QED
      BY <1>3, <1>4, <3>1, AppendFacts
  <2>2. CASE assistant # None
    <3> DEFINE r == FALSE
               t == e.text
    <3>1. /\ r \in BOOLEAN /\ t \in Seq(Nat) /\ nextId' = nextId
          /\ messages' = UpdateMessageById(ms, assistant, t, r)
      BY <1>2, <1>5, <2>2
    <3> HIDE DEF r, t
    <3> QED
      BY <1>3, <3>1, UpdateFacts
  <2> QED
    BY <2>1, <2>2
<1>8. PageInv'
  <2>1. NoTextBubble(messages', None)
    BY <1>7, NoBubble
  <2> QED
    BY <1>1, <1>7, <2>1 DEF PageInv
<1>9. Produced' = Produced /\ Produced \subseteq Nat
  <2>1. UNCHANGED <<transcript, message>>
    BY <1>1 DEF sdkVars
  <2>2. AgentInv
    BY DEF StreamInv
  <2> QED
    BY <2>1, <2>2, BlockFacts DEF Produced, Written
<1>10. ASSUME NEW a \in Positions, NEW c \in Positions, PageAt(a), Says(e, Produced, a, c)
       PROVE  PageAt(c)'
  <2>1. /\ Shown(ms, Produced, a)
        /\ \A id : LastText(messages, a, id) => LastText(ms, a, id)
    BY <1>3, <1>10, ShownSame DEF PageAt
  <2>2. CASE a.fresh
    <3>1. /\ a.chunks = 2 /\ c.last \in Produced /\ a.last < c.last
          /\ \A n \in Produced : n <= a.last \/ c.last <= n
          /\ e.text = IF c.chunks = 1 THEN <<c.last>> ELSE Whole(c.last)
          /\ ~c.fresh
      BY <1>2, <1>10, <2>2 DEF Says
    <3>2. assistant = None
      BY <1>10, <2>2 DEF PageAt
    <3>3. messages' = Append(ms, m) /\ assistant' = nextId
      BY <1>5, <3>2
    <3> DEFINE P == Produced
    <3>4. P \subseteq Nat /\ c.last \in P /\ Shown(ms, P, a) /\ \A n \in P : n <= a.last \/ c.last <= n
      BY <1>9, <2>1, <3>1
    <3> HIDE DEF P
    <3>5. Shown(Append(ms, m), P, c) /\ LastText(Append(ms, m), c, nextId)
      BY <1>3, <1>4, <3>1, <3>4, ShownBegin
    <3> QED
      BY <1>6, <1>9, <3>1, <3>3, <3>5 DEF PageAt, P
  <2>3. CASE ~a.fresh
    <3>1. a.chunks = 1 /\ e.text = <<a.last>> /\ c = [a EXCEPT !.chunks = 2]
      BY <1>2, <1>10, <2>3 DEF Says
    <3>2. assistant # None /\ LastText(messages, a, assistant)
      BY <1>10, <2>3 DEF PageAt
    <3>3. messages' = UpdateMessageById(ms, assistant, <<a.last>>, FALSE) /\ assistant' = assistant
      BY <1>5, <3>1, <3>2
    <3>4. LastText(ms, a, assistant)
      BY <2>1, <3>2
    <3> DEFINE P == Produced
    <3>5. P \subseteq Nat /\ Shown(ms, P, a)
      BY <1>9, <2>1
    <3> HIDE DEF P
    <3>6. Shown(messages', P, c) /\ LastText(messages', c, assistant)
      BY <1>3, <3>1, <3>3, <3>4, <3>5, ShownChunk
    <3>7. ~c.fresh
      BY <2>3, <3>1 DEF Positions
    <3> QED
      BY <1>9, <3>2, <3>3, <3>6, <3>7 DEF PageAt, P
  <2> QED
    BY <2>2, <2>3
<1> QED
  BY <1>1, <1>2, <1>8, <1>10, PageStep DEF e

\* A tool's card comes after the texts.
LEMMA HandleToolStartInv ==
    ASSUME StreamInv, HandleToolStart
    PROVE  StreamInv'
<1> DEFINE ms == WithoutEmptyBubble
           m == NewMessage("tool", Head(wire).n, <<>>)
<1>1. /\ messages' = Append(ms, m) /\ nextId' = nextId + 1 /\ thinking' = None
      /\ assistant' = None /\ UNCHANGED sdkVars /\ UNCHANGED agentVars
  BY DEF HandleToolStart
<1>2. /\ wire # <<>> /\ wire' = Tail(wire) /\ Head(wire).kind = "tool_start"
      /\ Head(wire).n \in Numbers \cup {None} /\ PageInv
  BY TakeFacts DEF HandleToolStart
<1>3. m \in PageMessage /\ m.id = nextId /\ m.kind = "tool"
  BY <1>2 DEF NewMessage, PageMessage, PageInv, Ordered
<1>4. SameTexts(messages, ms) /\ Ordered(ms, nextId)
  BY <1>2, SealFacts
<1> HIDE DEF ms, m
<1>5. SameTexts(ms, messages') /\ Ordered(messages', nextId')
  BY <1>1, <1>3, <1>4, AppendSame, AppendFacts
<1>6. PageInv'
  BY <1>1, <1>5, NoBubble DEF PageInv
<1> QED
  BY <1>1, <1>2, <1>4, <1>5, <1>6, Forgets

\* Sealed, and nothing more.
LEMMA SealedInv ==
    ASSUME StreamInv, HandleAskUserQuestion \/ HandleDone
    PROVE  StreamInv'
<1>1. /\ messages' = WithoutEmptyBubble /\ nextId' = nextId /\ thinking' = None
      /\ assistant' = None /\ UNCHANGED sdkVars /\ UNCHANGED agentVars
  BY DEF HandleAskUserQuestion, HandleDone
<1>2. /\ wire # <<>> /\ wire' = Tail(wire) /\ Head(wire).kind \in {"ask_user_question", "done"}
      /\ PageInv
  BY TakeFacts DEF HandleAskUserQuestion, HandleDone
<1>3. SameTexts(messages, messages') /\ Ordered(messages', nextId')
  BY <1>1, <1>2, SealFacts
<1>4. SameTexts(messages', messages')
  BY SameItself
<1>5. PageInv'
  BY <1>1, <1>3, NoBubble DEF PageInv
<1> QED
  BY <1>1, <1>2, <1>3, <1>4, <1>5, Forgets

\* So does an error.
LEMMA HandleErrorEventInv ==
    ASSUME StreamInv, HandleErrorEvent
    PROVE  StreamInv'
<1> DEFINE m == NewMessage("error", None, <<>>)
<1>1. /\ messages' = Append(messages, m) /\ nextId' = nextId + 1 /\ thinking' = None
      /\ assistant' = None /\ UNCHANGED sdkVars /\ UNCHANGED agentVars
  BY DEF HandleErrorEvent
<1>2. /\ wire # <<>> /\ wire' = Tail(wire) /\ Head(wire).kind = "error_event"
      /\ Ordered(messages, nextId) /\ PageInv
  BY TakeFacts DEF HandleErrorEvent
<1>3. m \in PageMessage /\ m.id = nextId /\ m.kind = "error"
  BY <1>2 DEF NewMessage, PageMessage, PageInv, Ordered
<1> HIDE DEF m
<1>4. SameTexts(messages, messages') /\ Ordered(messages', nextId')
  BY <1>1, <1>2, <1>3, AppendSame, AppendFacts
<1>5. PageInv'
  BY <1>1, <1>4, NoBubble DEF PageInv
<1>6. SameTexts(messages', messages')
  BY SameItself
<1> QED
  BY <1>1, <1>2, <1>4, <1>5, <1>6, Forgets

-----------------------------------------------------------------------------
(* All steps.                                                              *)

\* Nothing is produced, told or shown at first.
LEMMA StreamInitially ==
    ASSUME Init
    PROVE  StreamInv
<1>1. /\ streamed \in BOOLEAN /\ typed \in BOOLEAN
      /\ message = <<>> /\ at = 0 /\ due = {} /\ transcript = <<>>
      /\ open = None /\ emitted = FALSE /\ query = "running" /\ wire = <<>> /\ messages = <<>>
      /\ nextId = 0 /\ assistant = None
  BY DEF Init
<1>2. Len(<<>>) = 0 /\ DOMAIN <<>> = {} /\ 1..0 = {} /\ None \notin {1, 2}
  BY StreamAssumption
<1>3. Written = {} /\ Range(message) = {}
  BY <1>1, <1>2 DEF Written, Range
<1>4. Produced = {} /\ TextsTo(message, at) = {} /\ ~InText
  BY <1>1, <1>2, <1>3 DEF Produced, TextsTo, InText
<1>5. Told = {}
  BY <1>3, <1>4 DEF Told, TextsIn
<1>6. AgentInv
  <2>1. message \in Message /\ at \in 0..Len(message) /\ transcript \in Seq(Record) /\ wire \in Seq(WireEvent)
    BY <1>1, <1>2 DEF Message
  <2>2. 1..Len(message) = {}
    BY <1>1, <1>2
  <2>3. streamed /\ ~emitted => ~InText /\ Told = {}
    BY <1>4, <1>5
  <2> QED
    BY <1>1, <1>2, <2>1, <2>2, <2>3 DEF AgentInv
<1>7. TextsOf(messages) = {}
  BY <1>1, <1>2 DEF TextsOf
<1>8. PageInv
  <2>1. messages \in Seq(PageMessage) /\ nextId \in Nat
    BY <1>1
  <2> QED
    BY <1>1, <1>2, <2>1 DEF PageInv, Ordered, NoTextBubble
<1>9. \E a \in Positions : a.last = 0 /\ a.chunks = 2 /\ a.fresh = TRUE
  <2>1. [last |-> 0, chunks |-> 2, fresh |-> TRUE] \in Positions
    BY DEF Positions
  <2> QED
    BY <2>1
<1>10. PICK a \in Positions : a.last = 0 /\ a.chunks = 2 /\ a.fresh = TRUE
  BY <1>9
<1>11. PageAt(a)
  BY <1>1, <1>4, <1>7, <1>10 DEF PageAt, Shown
<1>12. AgentAt(a)
  BY <1>4, <1>10 DEF AgentAt
<1>13. Leads(wire, Produced, a, a)
  BY <1>1, LeadsNone
<1> QED
  BY <1>6, <1>8, <1>11, <1>12, <1>13 DEF StreamInv, Linked

\* A step that changes nothing.
LEMMA StreamStutters ==
    ASSUME StreamInv, UNCHANGED vars
    PROVE  StreamInv'
<1>1. /\ UNCHANGED <<streamed, typed, message, at, due, transcript>> /\ UNCHANGED <<open, emitted, query>>
      /\ wire' = wire /\ UNCHANGED pageVars
  BY DEF vars, pageVars
<1>2. Written' = Written /\ Produced' = Produced /\ (InText' <=> InText) /\ Told' = Told
  BY <1>1 DEF Written, Produced, InText, Told, TextsTo, TextsIn
<1>3. AgentInv'
  BY <1>1, <1>2 DEF StreamInv, AgentInv
<1>4. \A b \in Positions : AgentAt(b) => AgentAt(b)'
  BY <1>1, <1>2 DEF AgentAt
<1> QED
  BY <1>1, <1>2, <1>3, <1>4, AgentSilent

\* The texts on the page are those produced, as far as the page has come.
LEMMA StreamImplies ==
    ASSUME StreamInv
    PROVE  TextsAsProduced
<1>1. PICK a \in Positions : Shown(messages, Produced, a)
  BY DEF StreamInv, Linked, PageAt
<1>2. Produced \subseteq Nat /\ a.last \in Nat
  BY BlockFacts DEF StreamInv, Positions
<1> DEFINE texts == {i \in DOMAIN messages : messages[i].kind = "text"}
<1>3. texts = TextsOf(messages) /\ \A i : Number(i) = BlockOf(messages[i])
  BY DEF TextsOf, Number, BlockOf
<1> HIDE DEF texts
<1>4. ASSUME NEW i \in texts
      PROVE  /\ Number(i) \in Produced /\ Number(i) \in Nat /\ Number(i) <= a.last
             /\ messages[i].text = IF Number(i) = a.last /\ a.chunks = 1
                                   THEN <<Number(i)>> ELSE Whole(Number(i))
  BY <1>1, <1>2, <1>3 DEF Shown
<1>5. \A i \in texts : Number(i) \in Produced /\ Number(i) \in Nat /\ Number(i) <= a.last
  BY <1>4
<1>6. \A i \in texts : messages[i].text \in {<<Number(i)>>, Whole(Number(i))}
  BY <1>4
<1>7. ASSUME NEW i \in texts, NEW j \in texts, i < j
      PROVE  Number(i) < Number(j) /\ messages[i].text = Whole(Number(i))
  <2>1. Number(i) < Number(j)
    BY <1>1, <1>3, <1>7 DEF Shown
  <2>2. Number(i) # a.last
    BY <1>2, <1>5, <1>7, <2>1
  <2> QED
    BY <1>4, <2>1, <2>2
<1>8. ASSUME NEW i \in texts, NEW n \in Produced, n < Number(i)
      PROVE  \E j \in texts : Number(j) = n
  <2>1. n <= a.last
    BY <1>2, <1>5, <1>8
  <2> QED
    BY <1>1, <1>3, <2>1 DEF Shown
<1> QED
  BY <1>5, <1>6, <1>7, <1>8 DEF TextsAsProduced, texts

\* A step from StreamInv.
LEMMA StreamStep ==
    ASSUME StreamInv, [Next]_vars
    PROVE  StreamInv'
<1>1. ASSUME NEW kinds \in Contents, NEW used \in 0..MaxBlocks, NextMessage(kinds, used)
      PROVE  StreamInv'
  BY <1>1, NextMessageInv
<1>2. CASE ProcessBlockStart
  BY <1>2, BlockStartInv
<1>3. CASE ProcessBlockDelta
  BY <1>3, BlockDeltaInv
<1>4. CASE ProcessBlockStop
  BY <1>4, BlockStopInv
<1>5. CASE ProcessAssistantEvent
  BY <1>5, AssistantEventInv
<1>6. ASSUME NEW block \in due, AskUserQuestion(block)
      PROVE  StreamInv'
  BY <1>6, AskUserQuestionInv
<1>7. ASSUME NEW block \in due, ProcessUserEvent(block)
      PROVE  StreamInv'
  BY <1>7, UserEventInv
<1>8. CASE Finish
  BY <1>8, FinishInv
<1>9. CASE Fail
  BY <1>9, FailInv
<1>10. CASE HandleInit
  BY <1>10, HandleInitInv
<1>11. CASE HandleThinkingDelta
  BY <1>11, HandleThinkingDeltaInv
<1>12. CASE HandleTextDelta
  BY <1>12, HandleTextDeltaInv
<1>13. CASE HandleToolStart
  BY <1>13, HandleToolStartInv
<1>14. CASE HandleToolResult
  BY <1>14, HandleToolResultInv
<1>15. CASE HandleAskUserQuestion \/ HandleDone
  BY <1>15, SealedInv
<1>16. CASE HandleErrorEvent
  BY <1>16, HandleErrorEventInv
<1>17. CASE UNCHANGED vars
  BY <1>17, StreamStutters
<1> QED
  BY <1>1, <1>2, <1>3, <1>4, <1>5, <1>6, <1>7, <1>8, <1>9, <1>10, <1>11, <1>12,
     <1>13, <1>14, <1>15, <1>16, <1>17 DEF Next

\* Each text on the page is one that was produced, in that order and none left
\* out, and all but the last are complete.
THEOREM TextsAsProducedHolds == Spec => []TextsAsProduced
<1>1. Init => StreamInv
  BY StreamInitially
<1>2. StreamInv /\ [Next]_vars => StreamInv'
  BY StreamStep
<1>3. StreamInv => TextsAsProduced
  BY StreamImplies
<1> QED
  BY <1>1, <1>2, <1>3, PTL DEF Spec

-----------------------------------------------------------------------------
(* Types. That the texts of bubbles are short rests on the order of the    *)
(* events: an init is followed at once by the text it announces, or by an  *)
(* error, so that no delta of thinking meets a bubble.                     *)

AfterInit == {"text_delta", "error_event"}
Paired(w) == \A k \in 1..Len(w) - 1 : w[k].kind = "init" => w[k+1].kind \in AfterInit

\* A text is announced and not begun, by the last event the agent wrote.
Announced == IF wire = <<>> THEN thinking # None ELSE wire[Len(wire)].kind = "init"

EventInv ==
    /\ wire \in Seq(Events)
    /\ Paired(wire)
    /\ thinking # None /\ wire # <<>> => Head(wire).kind \in AfterInit
    /\ query = "running" /\ Announced => InText /\ open = 0

\* Only texts say something.
Quiet(ms) == \A i \in DOMAIN ms : ms[i].kind # "text" => ms[i].text = <<>>

BubbleInv ==
    /\ Quiet(messages)
    /\ thinking # None => \E i \in DOMAIN messages : messages[i].id = thinking
    /\ card \in [Numbers -> Nat \cup {None}]

TypeInv == StreamInv /\ EventInv /\ BubbleInv

\* Pairs stay together where events are added.
LEMMA PairedJoin ==
    ASSUME NEW S, NEW v \in Seq(S), NEW w \in Seq(S), Paired(v), Paired(w),
           v # <<>> /\ w # <<>> /\ v[Len(v)].kind = "init" => Head(w).kind \in AfterInit
    PROVE  /\ Paired(v \o w)
           /\ v \o w # <<>> =>
                 (v \o w)[Len(v \o w)] = IF w = <<>> THEN v[Len(v)] ELSE w[Len(w)]
           /\ v # <<>> => v \o w # <<>> /\ Head(v \o w) = Head(v)
           /\ v = <<>> => v \o w = w
           /\ w = <<>> => v \o w = v
<1> DEFINE m == Len(v)
           n == Len(w)
           u == v \o w
<1>1. /\ m \in Nat /\ n \in Nat /\ Len(u) = m + n
      /\ \A k \in 1..m : u[k] = v[k]
      /\ \A k \in 1..n : u[m + k] = w[k]
      /\ (v = <<>> <=> m = 0) /\ (w = <<>> <=> n = 0) /\ (u = <<>> <=> m + n = 0)
  OBVIOUS
<1>2. /\ (v # <<>> => Head(v) = v[1]) /\ (w # <<>> => Head(w) = w[1]) /\ (u # <<>> => Head(u) = u[1])
      /\ v = <<>> => u = w
      /\ w = <<>> => u = v
  OBVIOUS
<1> HIDE DEF m, n, u
<1>3. ASSUME NEW k \in 1..m + n - 1, u[k].kind = "init"
      PROVE  u[k+1].kind \in AfterInit
  <2>1. CASE k < m
    <3>1. k \in 1..m - 1 /\ k \in 1..m /\ k + 1 \in 1..m
      BY <2>1, <1>1
    <3>2. u[k] = v[k] /\ u[k+1] = v[k+1]
      BY <3>1, <1>1
    <3> QED
      BY <3>1, <3>2, <1>3 DEF Paired, m
  <2>2. CASE k = m
    <3>1. k \in 1..m /\ 1 \in 1..n
      BY <2>2, <1>1
    <3>2. u[k] = v[m] /\ u[k+1] = w[1] /\ v # <<>> /\ w # <<>>
      BY <3>1, <2>2, <1>1
    <3>3. v[m].kind = "init" /\ Head(w) = w[1]
      BY <3>2, <1>2, <1>3
    <3>4. Head(w).kind \in AfterInit
      BY <3>2, <3>3 DEF m
    <3> QED
      BY <3>2, <3>3, <3>4
  <2>3. CASE m < k
    <3> DEFINE l == k - m
    <3>1. l \in 1..n - 1 /\ l \in 1..n /\ l + 1 \in 1..n /\ m + l = k /\ m + (l + 1) = k + 1
      BY <2>3, <1>1
    <3> HIDE DEF l
    <3>2. u[k] = w[l] /\ u[k+1] = w[l+1]
      <4>1. u[m + l] = w[l] /\ u[m + (l + 1)] = w[l + 1]
        BY <3>1, <1>1
      <4> QED
        BY <4>1, <3>1
    <3> QED
      BY <3>1, <3>2, <1>3 DEF Paired, n
  <2> QED
    BY <2>1, <2>2, <2>3, <1>1
<1>4. Paired(u)
  BY <1>1, <1>3 DEF Paired
<1>5. u # <<>> => u[m + n] = IF w = <<>> THEN v[m] ELSE w[n]
  <2>1. CASE w = <<>> /\ u # <<>>
    BY <2>1, <1>1
  <2>2. CASE w # <<>>
    <3>1. n \in 1..n
      BY <2>2, <1>1
    <3> QED
      BY <3>1, <2>2, <1>1
  <2> QED
    BY <2>1, <2>2
<1>6. v # <<>> => u # <<>> /\ Head(u) = Head(v)
  <2> SUFFICES ASSUME v # <<>>
               PROVE  u # <<>> /\ Head(u) = Head(v)
    OBVIOUS
  <2>1. 1 \in 1..m /\ m + n # 0
    BY <1>1
  <2> QED
    BY <2>1, <1>1, <1>2
<1> QED
  BY <1>1, <1>2, <1>4, <1>5, <1>6 DEF u, m, n

\* What an event is.
LEMMA EventTyped ==
    ASSUME NEW kind \in EventKinds, NEW n \in Numbers \cup {None}, NEW text \in Texts
    PROVE  Event(kind, n, text) \in Events /\ Event(kind, n, text).kind = kind
BY DEF Event, Events, EventKinds

\* The texts of events.
LEMMA TextsTyped ==
    /\ <<>> \in Texts
    /\ \A n \in Numbers : <<n>> \in Texts /\ Whole(n) \in Texts
<1>1. <<>> \in [1..0 -> Numbers]
  OBVIOUS
<1>2. ASSUME NEW n \in Numbers
      PROVE  <<n>> \in [1..1 -> Numbers] /\ Whole(n) \in [1..2 -> Numbers]
  BY DEF Whole
<1>3. \A k \in 0..2 : [1..k -> Numbers] \subseteq Texts
  BY DEF Texts
<1>4. 0 \in 0..2 /\ 1 \in 0..2 /\ 2 \in 0..2
  OBVIOUS
<1> QED
  BY <1>1, <1>2, <1>3, <1>4

\* One event by itself.
LEMMA OneTyped ==
    ASSUME NEW e \in Events
    PROVE  /\ <<e>> \in Seq(Events) /\ Paired(<<e>>) /\ <<e>> # <<>>
           /\ Head(<<e>>) = e /\ <<e>>[Len(<<e>>)] = e
<1> DEFINE S == Events
<1> HIDE DEF S
<1>1. e \in S
  BY DEF S
<1>2. <<e>> \in Seq(S) /\ Len(<<e>>) = 1 /\ <<e>> # <<>> /\ Head(<<e>>) = e /\ <<e>>[1] = e
  BY <1>1
<1>3. 1..Len(<<e>>) - 1 = {}
  BY <1>2
<1>4. Paired(<<e>>)
  BY <1>3 DEF Paired
<1> QED
  BY <1>2, <1>4 DEF S

\* A text is whole after its block's events.
Closed(w) == w \in Seq(Events) /\ Paired(w) /\ (w # <<>> => w[Len(w)].kind # "init")

LEMMA BlockClosed ==
    ASSUME NEW block \in [kind : Kinds, n : Numbers]
    PROVE  Closed(BlockEvents(block))
<1>1. block.n \in Numbers /\ block.kind \in {"text", "thinking", "tool", "question"}
  BY DEF Kinds
<1>2. ASSUME NEW e \in Events, e.kind # "init"
      PROVE  Closed(<<e>>)
  BY <1>2, OneTyped DEF Closed
<1>3. /\ None \in Numbers \cup {None} /\ block.n \in Numbers \cup {None}
      /\ <<>> \in Texts /\ Whole(block.n) \in Texts
  BY <1>1, TextsTyped
<1>4. CASE block.kind = "text"
  <2> DEFINE e == Event("init", None, <<>>)
             f == Event("text_delta", None, Whole(block.n))
  <2>1. BlockEvents(block) = <<e, f>>
    BY <1>4 DEF BlockEvents
  <2>2. e \in Events /\ e.kind = "init" /\ f \in Events /\ f.kind = "text_delta"
    BY <1>3, KindsOfEvents, EventTyped
  <2> HIDE DEF e, f
  <2>3. /\ <<e, f>> \in Seq(Events) /\ Len(<<e, f>>) = 2
        /\ <<e, f>>[1] = e /\ <<e, f>>[2] = f
    <3> DEFINE S == Events
    <3>1. e \in S /\ f \in S
      BY <2>2
    <3> HIDE DEF S
    <3>2. <<e, f>> \in Seq(S)
      BY <3>1
    <3> QED
      BY <3>2 DEF S
  <2>4. Paired(<<e, f>>)
    <3>1. \A k \in 1..Len(<<e, f>>) - 1 : k = 1 /\ k + 1 = 2
      BY <2>3
    <3> QED
      BY <2>2, <2>3, <3>1 DEF Paired, AfterInit
  <2> QED
    BY <2>1, <2>2, <2>3, <2>4 DEF Closed
<1>5. CASE block.kind = "thinking"
  <2> DEFINE e == Event("thinking_delta", None, Whole(block.n))
  <2>1. BlockEvents(block) = <<e>>
    BY <1>5 DEF BlockEvents
  <2>2. e \in Events /\ e.kind # "init"
    BY <1>3, KindsOfEvents, EventTyped
  <2> HIDE DEF e
  <2> QED
    BY <1>2, <2>1, <2>2
<1>6. CASE block.kind = "tool"
  <2> DEFINE e == Event("tool_start", block.n, <<>>)
  <2>1. BlockEvents(block) = <<e>>
    BY <1>6 DEF BlockEvents
  <2>2. e \in Events /\ e.kind # "init"
    BY <1>3, KindsOfEvents, EventTyped
  <2> HIDE DEF e
  <2> QED
    BY <1>2, <2>1, <2>2
<1>7. CASE block.kind = "question"
  <2>1. BlockEvents(block) = <<>>
    BY <1>7 DEF BlockEvents
  <2>2. Paired(<<>>) /\ <<>> \in Seq(Events)
    BY DEF Paired
  <2> QED
    BY <2>1, <2>2 DEF Closed
<1> QED
  BY <1>1, <1>4, <1>5, <1>6, <1>7

\* And after those of a whole message.
LEMMA AllClosed ==
    ASSUME NEW c \in Message
    PROVE  Closed(AllBlockEvents(c))
<1> DEFINE B == [kind : Kinds, n : Numbers]
<1>1. Len(c) \in Nat /\ \A k \in 1..Len(c) : c[k] \in B
  <2>1. c \in Seq(B)
    BY DEF Message
  <2> HIDE DEF B
  <2> QED
    BY <2>1
<1> HIDE DEF B
<1>2. PICK f : /\ AllBlockEvents(c) = f[Len(c)]
               /\ f[0] = <<>>
               /\ \A k \in 1..Len(c) : f[k] = f[k-1] \o BlockEvents(c[k])
  BY <1>1, AllJoined
<1> DEFINE Bad == {k \in Nat : k <= Len(c) /\ ~Closed(f[k])}
<1>3. SUFFICES ASSUME ~Closed(f[Len(c)])
               PROVE  FALSE
  BY <1>2
<1>4. Bad \subseteq Nat /\ Len(c) \in Bad
  BY <1>1, <1>3
<1> HIDE DEF Bad
<1>5. PICK k \in Bad : \A l \in Bad : k <= l
  BY <1>4, LeastNumber
<1>6. k \in Nat /\ k <= Len(c) /\ ~Closed(f[k])
  BY <1>5 DEF Bad
<1>7. k # 0
  <2>1. Paired(<<>>) /\ <<>> \in Seq(Events)
    BY DEF Paired
  <2>2. Closed(<<>>)
    BY <2>1 DEF Closed
  <2> QED
    BY <1>2, <1>6, <2>2
<1>8. k \in 1..Len(c) /\ k - 1 \in Nat /\ k - 1 <= Len(c) /\ ~(k <= k - 1)
  BY <1>1, <1>6, <1>7
<1>9. Closed(f[k-1])
  BY <1>5, <1>8 DEF Bad
<1> DEFINE v == f[k-1]
           w == BlockEvents(c[k])
<1>10. Closed(v) /\ Closed(w)
  BY <1>1, <1>8, <1>9, BlockClosed DEF B
<1>11. f[k] = v \o w
  BY <1>2, <1>8
<1> HIDE DEF v, w
<1>12. /\ v \in Seq(Events) /\ w \in Seq(Events) /\ Paired(v) /\ Paired(w)
       /\ v # <<>> => v[Len(v)].kind # "init"
       /\ w # <<>> => w[Len(w)].kind # "init"
  BY <1>10 DEF Closed
<1>13. v \o w \in Seq(Events)
  BY <1>12
<1>14. /\ Paired(v \o w)
       /\ v \o w # <<>> =>
             (v \o w)[Len(v \o w)] = IF w = <<>> THEN v[Len(v)] ELSE w[Len(w)]
       /\ v = <<>> => v \o w = w
  BY <1>12, PairedJoin
<1>15. Closed(v \o w)
  BY <1>12, <1>13, <1>14 DEF Closed
<1> QED
  BY <1>6, <1>11, <1>15

\* The agent writes events that pair with those before them.
LEMMA EventsWritten ==
    ASSUME EventInv, NEW es \in Seq(Events), Paired(es), wire' = wire \o es, thinking' = thinking,
           Announced /\ es # <<>> => Head(es).kind \in AfterInit,
           query' = "running" /\ (IF es = <<>> THEN Announced ELSE es[Len(es)].kind = "init")
              => InText' /\ open' = 0
    PROVE  EventInv'
<1>1. wire \in Seq(Events) /\ Paired(wire)
  BY DEF EventInv
<1>2. wire # <<>> /\ es # <<>> /\ wire[Len(wire)].kind = "init" => Head(es).kind \in AfterInit
  BY DEF Announced
<1>3. /\ Paired(wire')
      /\ wire' # <<>> => wire'[Len(wire')] = IF es = <<>> THEN wire[Len(wire)] ELSE es[Len(es)]
      /\ wire # <<>> => wire' # <<>> /\ Head(wire') = Head(wire)
      /\ wire = <<>> => wire' = es
      /\ es = <<>> => wire' = wire
  BY <1>1, <1>2, PairedJoin
<1>4. wire' \in Seq(Events)
  BY <1>1
<1>5. thinking' # None /\ wire' # <<>> => Head(wire').kind \in AfterInit
  <2>1. CASE wire = <<>>
    BY <1>3, <2>1 DEF Announced
  <2>2. CASE wire # <<>>
    BY <1>3, <2>2 DEF EventInv
  <2> QED
    BY <2>1, <2>2
<1>6. Announced' <=> IF es = <<>> THEN Announced ELSE es[Len(es)].kind = "init"
  <2>1. CASE es = <<>>
    BY <1>3, <2>1 DEF Announced
  <2>2. CASE es # <<>>
    <3>1. wire' # <<>>
      BY <1>3, <2>2
    <3> QED
      BY <1>3, <2>2, <3>1 DEF Announced
  <2> QED
    BY <2>1, <2>2
<1>7. query' = "running" /\ Announced' => InText' /\ open' = 0
  BY <1>6
<1> QED
  BY <1>3, <1>4, <1>5, <1>7 DEF EventInv

\* One event, after which no text is announced.
LEMMA OneWritten ==
    ASSUME EventInv, NEW kind \in EventKinds, NEW n \in Numbers \cup {None}, NEW text \in Texts,
           wire' = wire \o <<Event(kind, n, text)>>, thinking' = thinking,
           Announced => kind \in AfterInit, kind # "init"
    PROVE  EventInv'
<1> DEFINE e == Event(kind, n, text)
           es == <<e>>
<1>1. e \in Events /\ e.kind = kind
  BY EventTyped
<1> HIDE DEF e
<1>2. es \in Seq(Events) /\ Paired(es) /\ es # <<>> /\ Head(es) = e /\ es[Len(es)] = e
  BY <1>1, OneTyped
<1>3. wire' = wire \o es
  BY DEF e
<1> HIDE DEF es
<1> QED
  BY <1>1, <1>2, <1>3, EventsWritten

\* It writes nothing while no text is announced.
LEMMA NoneWritten ==
    ASSUME EventInv, ~Announced, wire' = wire, thinking' = thinking
    PROVE  EventInv'
<1>1. ~Announced'
  BY DEF Announced
<1> QED
  BY <1>1 DEF EventInv

\* No text is announced between blocks.
LEMMA NotAnnounced ==
    ASSUME EventInv, query = "running", ~InText \/ open # 0
    PROVE  ~Announced
BY DEF EventInv

\* An event that is written leaves the page as it is.
LEMMA BubblesKept ==
    ASSUME BubbleInv, UNCHANGED pageVars
    PROVE  BubbleInv' /\ thinking' = thinking
<1>1. messages' = messages /\ thinking' = thinking /\ card' = card
  BY DEF pageVars
<1> QED
  BY <1>1 DEF BubbleInv

\* The number of the block that is streamed.
LEMMA CurrentBlock ==
    ASSUME AgentInv, at < Len(message)
    PROVE  message[at + 1].n \in Numbers
<1>1. at \in Nat /\ Len(message) \in Nat
  BY BlockFacts DEF AgentInv
<1>2. at + 1 \in 1..Len(message)
  BY <1>1
<1>3. message[at + 1] \in [kind : Kinds, n : Numbers]
  BY <1>2, BlockFacts
<1> QED
  BY <1>3

\* A step of the agent keeps the events in pairs.
LEMMA AgentEvents ==
    ASSUME TypeInv,
           \/ \E kinds \in Contents, used \in 0..MaxBlocks : NextMessage(kinds, used)
           \/ ProcessBlockStart \/ ProcessBlockDelta \/ ProcessBlockStop \/ ProcessAssistantEvent
           \/ \E block \in due : AskUserQuestion(block) \/ ProcessUserEvent(block)
           \/ Finish \/ Fail
    PROVE  EventInv' /\ BubbleInv'
<1>0. StreamInv /\ EventInv /\ BubbleInv /\ AgentInv
  BY DEF TypeInv, StreamInv
<1> USE <1>0
<1>1. UNCHANGED pageVars /\ query = "running"
  BY DEF NextMessage, ProcessBlockStart, ProcessBlockDelta, ProcessBlockStop, ProcessAssistantEvent,
         AskUserQuestion, ProcessUserEvent, Finish, Fail, Streaming
<1>2. BubbleInv' /\ thinking' = thinking
  BY <1>1, BubblesKept
<1>3. /\ <<>> \in Texts /\ None \in Numbers \cup {None}
      /\ \A n \in Numbers : n \in Numbers \cup {None} /\ <<n>> \in Texts
  BY TextsTyped
<1>4. ASSUME NEW kinds \in Contents, NEW used \in 0..MaxBlocks, NextMessage(kinds, used)
      PROVE  EventInv'
  <2>1. wire' = wire /\ message = <<>> /\ at = Len(message)
    BY <1>4 DEF NextMessage, AgentInv
  <2> QED
    BY <1>1, <1>2, <2>1, NoneOpen, NotAnnounced, NoneWritten
<1>5. CASE ProcessBlockStart
  <2>1. open = None /\ open' = 0 /\ UNCHANGED <<message, at>>
    BY <1>5 DEF ProcessBlockStart, sdkVars
  <2>2. ~Announced
    BY <1>1, <2>1, NotAnnounced DEF InText
  <2>3. CASE message[at + 1].kind = "text"
    <3> DEFINE e == Event("init", None, <<>>)
               es == <<e>>
    <3>1. wire' = wire \o es
      BY <1>5, <2>3 DEF ProcessBlockStart, Emit
    <3>2. e \in Events
      BY <1>3, KindsOfEvents, EventTyped
    <3> HIDE DEF e
    <3>3. es \in Seq(Events) /\ Paired(es) /\ es # <<>>
      BY <3>2, OneTyped
    <3>4. InText' /\ open' = 0
      BY <2>1, <2>3, StreamAssumption DEF InText
    <3> HIDE DEF es
    <3> QED
      BY <1>2, <2>2, <3>1, <3>3, <3>4, EventsWritten
  <2>4. CASE message[at + 1].kind # "text"
    <3>1. wire' = wire
      BY <1>5, <2>4 DEF ProcessBlockStart
    <3> QED
      BY <1>2, <2>2, <3>1, NoneWritten
  <2> QED
    BY <2>3, <2>4
<1>6. CASE ProcessBlockDelta
  <2> DEFINE block == message[at + 1]
  <2>1. block.n \in Numbers
    <3>1. at < Len(message)
      BY <1>6 DEF ProcessBlockDelta, Streaming
    <3> QED
      BY <3>1, CurrentBlock
  <2>2. \/ block.kind = "text" /\ wire' = wire \o <<Event("text_delta", None, <<block.n>>)>>
        \/ block.kind = "thinking" /\ wire' = wire \o <<Event("thinking_delta", None, <<block.n>>)>>
    BY <1>6 DEF ProcessBlockDelta, Emit
  <2>3. CASE block.kind = "text"
    <3>1. wire' = wire \o <<Event("text_delta", None, <<block.n>>)>>
      BY <2>2, <2>3
    <3>2. "text_delta" \in AfterInit
      BY DEF AfterInit
    <3> HIDE DEF block
    <3> QED
      BY <1>2, <1>3, <2>1, <3>1, <3>2, KindsOfEvents, OneWritten
  <2>4. CASE block.kind = "thinking"
    <3>1. wire' = wire \o <<Event("thinking_delta", None, <<block.n>>)>>
      BY <2>2, <2>4
    <3>2. ~Announced
      BY <1>1, <2>4, NotAnnounced DEF InText
    <3> HIDE DEF block
    <3> QED
      BY <1>2, <1>3, <2>1, <3>1, <3>2, KindsOfEvents, OneWritten
  <2> QED
    BY <2>2, <2>3, <2>4
<1>7. CASE ProcessBlockStop
  <2> DEFINE block == message[at + 1]
  <2>1. block.n \in Numbers
    <3>1. at < Len(message)
      BY <1>7 DEF ProcessBlockStop, Streaming
    <3> QED
      BY <3>1, CurrentBlock
  <2>2. ~Announced
    BY <1>1, <1>7, NotAnnounced DEF ProcessBlockStop, InText
  <2>3. CASE block.kind = "tool"
    <3>1. wire' = wire \o <<Event("tool_start", block.n, <<>>)>>
      BY <1>7, <2>3 DEF ProcessBlockStop, Emit
    <3> HIDE DEF block
    <3> QED
      BY <1>2, <1>3, <2>1, <2>2, <3>1, KindsOfEvents, OneWritten
  <2>4. CASE block.kind # "tool"
    <3>1. wire' = wire
      BY <1>7, <2>4 DEF ProcessBlockStop
    <3> QED
      BY <1>2, <2>2, <3>1, NoneWritten
  <2> QED
    BY <2>3, <2>4
<1>8. CASE ProcessAssistantEvent
  <2>1. message \in Message /\ (streamed => at = Len(message)) /\ wire' = wire \o ContentEvents(message)
    BY <1>8 DEF ProcessAssistantEvent, Emit, AgentInv
  <2>2. ~InText
    <3>1. CASE streamed
      BY <2>1, <3>1, NoneOpen
    <3>2. CASE ~streamed
      BY <3>2 DEF AgentInv, InText
    <3> QED
      BY <3>1, <3>2
  <2>3. ~Announced
    BY <1>1, <2>2, NotAnnounced
  <2> DEFINE es == ContentEvents(message)
  <2>4. Closed(es)
    <3>1. Closed(<<>>)
      BY DEF Closed, Paired
    <3> QED
      BY <2>1, <3>1, AllClosed DEF ContentEvents
  <2> HIDE DEF es
  <2>5. es \in Seq(Events) /\ Paired(es) /\ (es # <<>> => es[Len(es)].kind # "init") /\ wire' = wire \o es
    BY <2>1, <2>4 DEF Closed, es
  <2> QED
    BY <1>2, <2>3, <2>5, EventsWritten
<1>9. ASSUME NEW block \in due, AskUserQuestion(block) \/ ProcessUserEvent(block)
      PROVE  EventInv'
  <2>1. block.n \in Numbers /\ message = <<>> /\ at = Len(message)
    BY DEF AgentInv, Tools
  <2>2. ~Announced
    BY <1>1, <2>1, NoneOpen, NotAnnounced
  <2>3. \/ wire' = wire
        \/ wire' = wire \o <<Event("ask_user_question", block.n, <<>>)>>
        \/ wire' = wire \o <<Event("tool_result", block.n, <<>>)>>
    BY <1>9 DEF AskUserQuestion, ProcessUserEvent, Emit
  <2>4. CASE wire' = wire
    BY <1>2, <2>2, <2>4, NoneWritten
  <2>5. CASE wire' = wire \o <<Event("ask_user_question", block.n, <<>>)>>
    BY <1>2, <1>3, <2>1, <2>2, <2>5, KindsOfEvents, OneWritten
  <2>6. CASE wire' = wire \o <<Event("tool_result", block.n, <<>>)>>
    BY <1>2, <1>3, <2>1, <2>2, <2>6, KindsOfEvents, OneWritten
  <2> QED
    BY <2>3, <2>4, <2>5, <2>6
<1>10. CASE Finish
  <2>1. wire' = wire \o <<Event("done", None, <<>>)>> /\ message = <<>> /\ at = Len(message)
    BY <1>10 DEF Finish, Emit, AgentInv
  <2>2. ~Announced
    BY <1>1, <2>1, NoneOpen, NotAnnounced
  <2> QED
    BY <1>2, <1>3, <2>1, <2>2, KindsOfEvents, OneWritten
<1>11. CASE Fail
  <2> DEFINE e == Event("error_event", None, <<>>)
             f == Event("done", None, <<>>)
             es == <<e, f>>
  <2>1. wire' = wire \o es /\ query' = "failed"
    BY <1>11 DEF Fail, Emit
  <2>2. e \in Events /\ e.kind = "error_event" /\ f \in Events
    BY <1>3, KindsOfEvents, EventTyped
  <2> HIDE DEF e, f
  <2>3. es \in Seq(Events) /\ Len(es) = 2 /\ es[1] = e /\ Head(es) = e
    <3> DEFINE S == Events
    <3>1. e \in S /\ f \in S
      BY <2>2
    <3> HIDE DEF S
    <3>2. es \in Seq(S)
      BY <3>1
    <3> QED
      BY <3>2 DEF S
  <2>4. Paired(es)
    <3>1. \A k \in 1..Len(es) - 1 : k = 1
      BY <2>3
    <3> QED
      BY <2>2, <2>3, <3>1 DEF Paired
  <2>5. Head(es).kind \in AfterInit
    BY <2>2, <2>3 DEF AfterInit
  <2> HIDE DEF es
  <2> QED
    BY <1>2, <2>1, <2>3, <2>4, <2>5, EventsWritten
<1> QED
  BY <1>2, <1>4, <1>5, <1>6, <1>7, <1>8, <1>9, <1>10, <1>11

-----------------------------------------------------------------------------
(* The page takes an event.                                                *)

\* What the page has taken is followed by what belongs to it.
LEMMA EventTaken ==
    ASSUME EventInv, wire # <<>>, wire' = Tail(wire), UNCHANGED sdkVars, UNCHANGED agentVars,
           thinking' # None => Head(wire).kind = "init"
    PROVE  EventInv'
<1> DEFINE n == Len(wire)
           S == Events
<1>1. wire \in Seq(S) /\ Paired(wire)
  BY DEF EventInv
<1> HIDE DEF S
<1>2. /\ n \in Nat \ {0} /\ wire' \in Seq(S) /\ Len(wire') = n - 1 /\ Head(wire) = wire[1]
      /\ \A k \in 1..n - 1 : wire'[k] = wire[k+1]
      /\ wire' = <<>> <=> n = 1
      /\ wire' # <<>> => Head(wire') = wire'[1]
  <2>1. n \in Nat \ {0} /\ Head(wire) = wire[1]
    BY <1>1
  <2>2. wire' \in Seq(S) /\ Len(wire') = n - 1 /\ \A k \in 1..n - 1 : wire'[k] = wire[k+1]
    BY <1>1
  <2>3. \A s \in Seq(S) : (s = <<>> <=> Len(s) = 0) /\ (s # <<>> => Head(s) = s[1])
    OBVIOUS
  <2>4. (wire' = <<>> <=> Len(wire') = 0) /\ (wire' # <<>> => Head(wire') = wire'[1])
    BY <2>2, <2>3
  <2> QED
    BY <2>1, <2>2, <2>4
<1>3. \A k \in 1..n - 1 : wire[k].kind = "init" => wire[k+1].kind \in AfterInit
  BY <1>1 DEF Paired
<1> HIDE DEF n
<1>4. Paired(wire')
  <2> SUFFICES ASSUME NEW k \in 1..Len(wire') - 1, wire'[k].kind = "init"
               PROVE  wire'[k+1].kind \in AfterInit
    BY DEF Paired
  <2>1. k \in 1..n - 1 /\ k + 1 \in 1..n - 1
    BY <1>2
  <2>2. wire'[k] = wire[k+1] /\ wire'[k+1] = wire[(k+1)+1]
    BY <1>2, <2>1
  <2> QED
    BY <1>3, <2>1, <2>2
<1>5. thinking' # None /\ wire' # <<>> => Head(wire').kind \in AfterInit
  <2> SUFFICES ASSUME thinking' # None, wire' # <<>>
               PROVE  Head(wire').kind \in AfterInit
    OBVIOUS
  <2>1. 1 \in 1..n - 1 /\ wire[1].kind = "init"
    BY <1>2
  <2>2. wire[1 + 1].kind \in AfterInit /\ wire'[1] = wire[1 + 1]
    BY <1>2, <1>3, <2>1
  <2> QED
    BY <1>2, <2>2
<1>6. Announced' => Announced
  <2> SUFFICES ASSUME Announced'
               PROVE  Announced
    OBVIOUS
  <2>1. CASE wire' = <<>>
    <3>1. thinking' # None
      BY <2>1 DEF Announced
    <3> QED
      BY <1>2, <2>1, <3>1 DEF Announced, n
  <2>2. CASE wire' # <<>>
    <3>1. n - 1 \in 1..n - 1 /\ (n - 1) + 1 = n
      BY <1>2, <2>2
    <3>2. wire'[n - 1] = wire[n]
      BY <1>2, <3>1
    <3>3. wire'[n - 1].kind = "init"
      BY <1>2, <2>2 DEF Announced
    <3> QED
      BY <3>2, <3>3 DEF Announced, n
  <2> QED
    BY <2>1, <2>2
<1>7. (InText' <=> InText) /\ open' = open /\ query' = query
  BY DEF InText, sdkVars, agentVars
<1>8. query' = "running" /\ Announced' => InText' /\ open' = 0
  BY <1>6, <1>7 DEF EventInv
<1> QED
  BY <1>2, <1>4, <1>5, <1>8 DEF EventInv, S

\* An event that is taken while a text is announced is that text, or an error.
LEMMA NothingElse ==
    ASSUME EventInv, NEW kind, Take(kind), kind \notin AfterInit
    PROVE  thinking = None
BY DEF EventInv, Take

\* No message has the id None.
LEMMA NamedMessages ==
    ASSUME NEW ms, NEW next, Ordered(ms, next)
    PROVE  \A i \in DOMAIN ms : ms[i].id # None
<1> DEFINE M == PageMessage
<1>1. (\A x \in M : x.id \in Nat) /\ ms \in Seq(M)
  BY DEF PageMessage, Ordered
<1> HIDE DEF M
<1>2. \A i \in DOMAIN ms : ms[i] \in M
  BY <1>1
<1> QED
  BY <1>1, <1>2, StreamAssumption

\* Each of the messages of the page has its own id.
LEMMA OwnIds ==
    ASSUME NEW ms, NEW next, Ordered(ms, next), NEW i \in DOMAIN ms, NEW j \in DOMAIN ms,
           ms[i].id = ms[j].id
    PROVE  i = j
<1> DEFINE M == PageMessage
<1>1. (\A x \in M : x.id \in Nat) /\ ms \in Seq(M)
  BY DEF PageMessage, Ordered
<1> HIDE DEF M
<1>2. ms[i] \in M /\ ms[j] \in M /\ i \in Nat /\ j \in Nat
  BY <1>1
<1>3. ms[i].id \in Nat /\ ms[j].id \in Nat
  BY <1>1, <1>2
<1>4. ~(i < j) /\ ~(j < i)
  BY <1>3 DEF Ordered
<1> QED
  BY <1>2, <1>4

\* A message at the end that is a text or says nothing.
LEMMA AppendQuiet ==
    ASSUME NEW ms, NEW next, Ordered(ms, next), Quiet(ms), NEW m \in PageMessage, m.id = next,
           m.kind # "text" => m.text = <<>>
    PROVE  Quiet(Append(ms, m))
<1> DEFINE n == Len(ms)
           ns == Append(ms, m)
<1>1. /\ DOMAIN ms = 1..n /\ n \in Nat /\ DOMAIN ns = 1..n + 1
      /\ \A i \in 1..n : ns[i] = ms[i]
      /\ ns[n + 1] = m
  BY AppendFacts
<1> HIDE DEF n, ns
<1>2. \A i \in 1..n + 1 : i \in 1..n \/ i = n + 1
  BY <1>1
<1>3. Quiet(ns)
  BY <1>1, <1>2 DEF Quiet
<1> QED
  BY <1>3 DEF ns

\* An update of texts only, or with nothing to append.
LEMMA UpdateQuiet ==
    ASSUME NEW ms, NEW next, Ordered(ms, next), Quiet(ms), NEW id, NEW text \in Seq(Nat), NEW result \in BOOLEAN,
           text = <<>> \/ \A i \in DOMAIN ms : ms[i].id = id => ms[i].kind = "text"
    PROVE  Quiet(UpdateMessageById(ms, id, text, result))
<1> DEFINE ns == UpdateMessageById(ms, id, text, result)
<1>1. /\ DOMAIN ns = DOMAIN ms
      /\ \A i \in DOMAIN ms :
            /\ ns[i].kind = ms[i].kind
            /\ ns[i].text = IF ms[i].id = id THEN ms[i].text \o text ELSE ms[i].text
  BY UpdateFacts
<1> HIDE DEF ns
<1>2. ASSUME NEW i \in DOMAIN ms, ns[i].kind # "text"
      PROVE  ns[i].text = <<>>
  <2>1. ms[i].kind # "text" /\ ms[i].text = <<>>
    BY <1>1, <1>2 DEF Quiet
  <2>2. CASE ms[i].id = id
    <3>1. text = <<>>
      BY <2>1, <2>2
    <3>2. <<>> \o <<>> = <<>>
      OBVIOUS
    <3> QED
      BY <1>1, <2>1, <2>2, <3>1, <3>2
  <2>3. CASE ms[i].id # id
    BY <1>1, <2>1, <2>3
  <2> QED
    BY <2>2, <2>3
<1>3. Quiet(ns)
  BY <1>1, <1>2 DEF Quiet
<1> QED
  BY <1>3 DEF ns

\* Sealing leaves messages that were there.
LEMMA SealQuiet ==
    ASSUME PageInv, Quiet(messages)
    PROVE  Quiet(WithoutEmptyBubble)
<1>0. Ordered(messages, nextId) /\ NoTextBubble(messages, thinking)
  BY DEF PageInv
<1> DEFINE empty == {i \in DOMAIN messages : messages[i].id = thinking /\ messages[i].text = <<>>}
<1>1. CASE empty = {}
  <2>1. WithoutEmptyBubble = messages
    BY <1>1 DEF WithoutEmptyBubble
  <2> QED
    BY <2>1
<1>2. CASE empty # {}
  <2> DEFINE i == CHOOSE x \in empty : TRUE
  <2>1. i \in empty
    BY <1>2
  <2>2. WithoutEmptyBubble = Without(messages, i)
    BY <1>2 DEF WithoutEmptyBubble
  <2>3. i \in DOMAIN messages /\ messages[i].kind # "text"
    BY <1>0, <2>1 DEF NoTextBubble
  <2> HIDE DEF i
  <2>4. \A k \in DOMAIN Without(messages, i) : \E l \in DOMAIN messages : Without(messages, i)[k] = messages[l]
    BY <1>0, <2>3, WithoutSame
  <2> QED
    BY <2>2, <2>4 DEF Quiet
<1> QED
  BY <1>1, <1>2

\* A step of the page keeps the events in pairs, and what is not a text empty.
LEMMA PageEvents ==
    ASSUME TypeInv,
           \/ HandleInit \/ HandleThinkingDelta \/ HandleTextDelta \/ HandleToolStart
           \/ HandleToolResult \/ HandleAskUserQuestion \/ HandleDone \/ HandleErrorEvent
    PROVE  EventInv' /\ BubbleInv'
<1>0. StreamInv /\ EventInv /\ BubbleInv
  BY DEF TypeInv
<1> USE <1>0
<1>1. UNCHANGED sdkVars /\ UNCHANGED agentVars /\ wire # <<>> /\ wire' = Tail(wire)
  BY DEF HandleInit, HandleThinkingDelta, HandleTextDelta, HandleToolStart, HandleToolResult,
         HandleAskUserQuestion, HandleDone, HandleErrorEvent, Take
<1>2. /\ PageInv /\ Ordered(messages, nextId) /\ NoTextBubble(messages, thinking) /\ nextId \in Nat
      /\ Quiet(messages) /\ card \in [Numbers -> Nat \cup {None}]
  BY DEF StreamInv, PageInv, Ordered, BubbleInv
<1>3. Head(wire).text \in Seq(Nat) /\ Head(wire).n \in Numbers \cup {None} /\ None \in Numbers \cup {None}
  <2>1. Take(Head(wire).kind)
    BY <1>1 DEF Take
  <2> QED
    BY <2>1, TakeFacts
<1>4. <<>> \in Seq(Nat) /\ None \notin Nat
  BY StreamAssumption
<1>5. [n \in Numbers |-> None] \in [Numbers -> Nat \cup {None}]
  OBVIOUS
<1>6. Ordered(WithoutEmptyBubble, nextId) /\ Quiet(WithoutEmptyBubble) /\ SameTexts(messages, WithoutEmptyBubble)
  BY <1>2, SealFacts, SealQuiet
<1>7. CASE HandleInit
  <2> DEFINE m == NewMessage("thinking", None, <<>>)
  <2>1. /\ messages' = Append(messages, m) /\ thinking' = nextId /\ card' = card
        /\ Head(wire).kind = "init"
    BY <1>7 DEF HandleInit, Take
  <2>2. m \in PageMessage /\ m.id = nextId /\ m.kind = "thinking" /\ m.text = <<>>
    BY <1>2, <1>3, <1>4 DEF NewMessage, PageMessage
  <2> HIDE DEF m
  <2>3. EventInv'
    BY <1>1, <2>1, EventTaken
  <2>4. Quiet(messages')
    BY <1>2, <2>1, <2>2, AppendQuiet
  <2>5. \E i \in DOMAIN messages' : messages'[i].id = thinking'
    <3>1. /\ DOMAIN messages' = 1..Len(messages) + 1 /\ Len(messages) \in Nat
          /\ messages'[Len(messages) + 1] = m
      BY <1>2, <2>1, <2>2, AppendFacts
    <3>2. Len(messages) + 1 \in DOMAIN messages'
      BY <3>1
    <3> QED
      BY <2>1, <2>2, <3>1, <3>2
  <2> QED
    BY <1>2, <2>1, <2>3, <2>4, <2>5 DEF BubbleInv
<1>8. CASE HandleThinkingDelta \/ HandleToolResult
  <2>1. thinking' = thinking /\ card' = card
    BY <1>8 DEF HandleThinkingDelta, HandleToolResult
  <2>2. thinking = None
    <3>1. Take("thinking_delta") \/ Take("tool_result")
      BY <1>8 DEF HandleThinkingDelta, HandleToolResult
    <3>2. "thinking_delta" \notin AfterInit /\ "tool_result" \notin AfterInit
      BY DEF AfterInit
    <3> QED
      BY <3>1, <3>2, NothingElse
  <2>3. EventInv'
    BY <1>1, <2>1, <2>2, EventTaken
  <2>4. Quiet(messages')
    <3>1. CASE HandleThinkingDelta
      <4> DEFINE r == FALSE
                 t == Head(wire).text
      <4>1. messages' = UpdateMessageById(messages, thinking, t, r) /\ t \in Seq(Nat) /\ r \in BOOLEAN
        BY <1>3, <3>1 DEF HandleThinkingDelta
      <4>2. \A i \in DOMAIN messages : messages[i].id = thinking => messages[i].kind = "text"
        BY <1>2, <2>2, NamedMessages
      <4> HIDE DEF r, t
      <4> QED
        BY <1>2, <4>1, <4>2, UpdateQuiet
    <3>2. CASE HandleToolResult
      <4> DEFINE r == TRUE
                 t == <<>>
                 id == card[Head(wire).n]
      <4>1. messages' = UpdateMessageById(messages, id, t, r) /\ t \in Seq(Nat) /\ r \in BOOLEAN /\ t = <<>>
        BY <1>4, <3>2 DEF HandleToolResult
      <4> HIDE DEF r, t, id
      <4> QED
        BY <1>2, <4>1, UpdateQuiet
    <3> QED
      BY <1>8, <3>1, <3>2
  <2> QED
    BY <1>2, <2>1, <2>2, <2>3, <2>4 DEF BubbleInv
<1>9. CASE HandleTextDelta
  <2> DEFINE ms == WithoutEmptyBubble
             t == Head(wire).text
             m == NewMessage("text", None, t)
             r == FALSE
  <2>1. /\ thinking' = None /\ card' = card
        /\ \/ messages' = Append(ms, m)
           \/ assistant # None /\ messages' = UpdateMessageById(ms, assistant, t, r)
    BY <1>9 DEF HandleTextDelta
  <2>2. /\ m \in PageMessage /\ m.id = nextId /\ m.kind = "text"
        /\ t \in Seq(Nat) /\ r \in BOOLEAN
    BY <1>2, <1>3 DEF NewMessage, PageMessage
  <2>3. EventInv'
    BY <1>1, <2>1, EventTaken
  <2>4. Ordered(ms, nextId) /\ Quiet(ms) /\ SameTexts(messages, ms)
    BY <1>6
  <2> HIDE DEF ms, t, m, r
  <2>5. CASE messages' = Append(ms, m)
    <3>1. Quiet(messages')
      BY <2>2, <2>4, <2>5, AppendQuiet
    <3> QED
      BY <1>2, <2>1, <2>3, <3>1 DEF BubbleInv
  <2>6. CASE assistant # None /\ messages' = UpdateMessageById(ms, assistant, t, r)
    <3>1. PICK a \in Positions : PageAt(a)
      BY DEF StreamInv, Linked
    <3>2. Shown(messages, Produced, a) /\ LastText(messages, a, assistant)
      BY <2>6, <3>1 DEF PageAt
    <3>3. LastText(ms, a, assistant)
      BY <2>4, <3>2, ShownSame
    <3>4. PICK k \in DOMAIN ms : ms[k].kind = "text" /\ ms[k].id = assistant
      BY <3>3 DEF LastText, TextsOf
    <3>5. \A i \in DOMAIN ms : ms[i].id = assistant => ms[i].kind = "text"
      BY <2>4, <3>4, OwnIds
    <3>6. Quiet(messages')
      BY <2>2, <2>4, <2>6, <3>5, UpdateQuiet
    <3> QED
      BY <1>2, <2>1, <2>3, <3>6 DEF BubbleInv
  <2> QED
    BY <2>1, <2>5, <2>6
<1>10. CASE HandleToolStart
  <2> DEFINE ms == WithoutEmptyBubble
             m == NewMessage("tool", Head(wire).n, <<>>)
  <2>1. /\ messages' = Append(ms, m) /\ thinking' = None
        /\ card' = [card EXCEPT ![Head(wire).n] = nextId]
    BY <1>10 DEF HandleToolStart
  <2>2. m \in PageMessage /\ m.id = nextId /\ m.kind = "tool" /\ m.text = <<>>
    BY <1>2, <1>3, <1>4 DEF NewMessage, PageMessage
  <2>3. EventInv'
    BY <1>1, <2>1, EventTaken
  <2>4. Ordered(ms, nextId) /\ Quiet(ms)
    BY <1>6
  <2>5. card' \in [Numbers -> Nat \cup {None}]
    BY <1>2, <2>1
  <2> HIDE DEF ms, m
  <2>6. Quiet(messages')
    BY <2>1, <2>2, <2>4, AppendQuiet
  <2> QED
    BY <2>1, <2>3, <2>5, <2>6 DEF BubbleInv
<1>11. CASE HandleAskUserQuestion \/ HandleDone
  <2>1. /\ messages' = WithoutEmptyBubble /\ thinking' = None
        /\ card' = card \/ card' = [n \in Numbers |-> None]
    BY <1>11 DEF HandleAskUserQuestion, HandleDone
  <2>2. EventInv'
    BY <1>1, <2>1, EventTaken
  <2>3. card' \in [Numbers -> Nat \cup {None}]
    BY <1>2, <1>5, <2>1
  <2> QED
    BY <1>6, <2>1, <2>2, <2>3 DEF BubbleInv
<1>12. CASE HandleErrorEvent
  <2> DEFINE m == NewMessage("error", None, <<>>)
  <2>1. /\ messages' = Append(messages, m) /\ thinking' = None
        /\ card' = [n \in Numbers |-> None]
    BY <1>12 DEF HandleErrorEvent
  <2>2. m \in PageMessage /\ m.id = nextId /\ m.kind = "error" /\ m.text = <<>>
    BY <1>2, <1>3, <1>4 DEF NewMessage, PageMessage
  <2>3. EventInv'
    BY <1>1, <2>1, EventTaken
  <2> HIDE DEF m
  <2>4. Quiet(messages')
    BY <1>2, <2>1, <2>2, AppendQuiet
  <2>5. card' \in [Numbers -> Nat \cup {None}]
    BY <1>5, <2>1
  <2> QED
    BY <2>1, <2>3, <2>4, <2>5 DEF BubbleInv
<1> QED
  BY <1>7, <1>8, <1>9, <1>10, <1>11, <1>12

\* There are no events and no messages at first.
LEMMA TypeInitially ==
    ASSUME Init
    PROVE  TypeInv
<1>1. /\ wire = <<>> /\ messages = <<>> /\ thinking = None /\ card = [n \in Numbers |-> None]
  BY DEF Init
<1>2. Len(<<>>) = 0 /\ DOMAIN <<>> = {} /\ 1..0 - 1 = {}
  OBVIOUS
<1>3. EventInv
  <2>1. wire \in Seq(Events) /\ Paired(wire) /\ ~Announced
    BY <1>1, <1>2 DEF Paired, Announced
  <2> QED
    BY <1>1, <2>1 DEF EventInv
<1>4. BubbleInv
  BY <1>1, <1>2 DEF BubbleInv, Quiet
<1> QED
  BY <1>3, <1>4, StreamInitially DEF TypeInv

\* A step from TypeInv.
LEMMA TypeStep ==
    ASSUME TypeInv, [Next]_vars
    PROVE  TypeInv'
<1>1. StreamInv'
  BY StreamStep DEF TypeInv
<1>2. CASE UNCHANGED vars
  <2>1. /\ UNCHANGED <<message, at, open, query, wire, messages, thinking, card>>
    BY <1>2 DEF vars
  <2>2. (Announced' <=> Announced) /\ (InText' <=> InText)
    BY <2>1 DEF Announced, InText
  <2>3. EventInv'
    BY <2>1, <2>2 DEF TypeInv, EventInv
  <2>4. BubbleInv'
    BY <2>1 DEF TypeInv, BubbleInv
  <2> QED
    BY <1>1, <2>3, <2>4 DEF TypeInv
<1>3. CASE Next
  <2>1. \/ \E kinds \in Contents, used \in 0..MaxBlocks : NextMessage(kinds, used)
        \/ ProcessBlockStart \/ ProcessBlockDelta \/ ProcessBlockStop \/ ProcessAssistantEvent
        \/ \E block \in due : AskUserQuestion(block) \/ ProcessUserEvent(block)
        \/ Finish \/ Fail
        \/ HandleInit \/ HandleThinkingDelta \/ HandleTextDelta \/ HandleToolStart
        \/ HandleToolResult \/ HandleAskUserQuestion \/ HandleDone \/ HandleErrorEvent
    BY <1>3 DEF Next
  <2>2. EventInv' /\ BubbleInv'
    BY <2>1, AgentEvents, PageEvents
  <2> QED
    BY <1>1, <2>2 DEF TypeInv
<1> QED
  BY <1>2, <1>3

\* The numbers of what is produced are those of blocks of the query.
LEMMA ProducedNumbers ==
    ASSUME AgentInv
    PROVE  Produced \subseteq Numbers
<1>1. /\ Written \subseteq Blocks /\ Range(message) = {message[i] : i \in 1..Len(message)}
      /\ \A i \in 1..Len(message) : message[i] \in [kind : Kinds, n : Numbers]
  BY BlockFacts
<1>2. \A b \in Written : b.n \in Numbers
  BY <1>1 DEF Blocks
<1>3. \A b \in Range(message) : b.n \in Numbers
  BY <1>1
<1> QED
  BY <1>2, <1>3 DEF Produced

\* TypeInv is more than TypeOK.
LEMMA TypeImplies ==
    ASSUME TypeInv
    PROVE  TypeOK
<1>0. AgentInv /\ PageInv /\ Linked /\ EventInv /\ BubbleInv /\ StreamInv
  BY DEF TypeInv, StreamInv
<1>1. message \in Seq(Blocks)
  <2> DEFINE B == [kind : Kinds, n : Numbers]
             C == Blocks
  <2>1. message \in Seq(B)
    BY <1>0 DEF AgentInv, Message
  <2>2. B \subseteq C
    BY DEF Blocks
  <2> HIDE DEF B, C
  <2>3. message \in Seq(C)
    BY <2>1, <2>2
  <2> QED
    BY <2>3 DEF C
<1>2. due \subseteq Blocks
  <2>1. Tools \subseteq Blocks
    BY DEF Tools, Blocks, Kinds
  <2> QED
    BY <1>0, <2>1 DEF AgentInv
<1>3. /\ streamed \in BOOLEAN /\ typed \in BOOLEAN /\ emitted \in BOOLEAN
      /\ query \in {"running", "over", "failed"} /\ at \in 0..Len(message)
  BY <1>0 DEF AgentInv
<1>4. transcript \in Seq([role : {"user", "assistant"}, content : Seq(Blocks)])
  BY <1>0 DEF AgentInv, Record
<1>5. open \in 0..2 \cup {None}
  <2>1. open \in {None, 0, 1, 2}
    BY <1>0 DEF AgentInv
  <2> QED
    BY <2>1
<1>6. wire \in Seq(Events) /\ card \in [Numbers -> Nat \cup {None}]
  BY <1>0 DEF EventInv, BubbleInv
<1>7. nextId \in Nat /\ messages \in Seq(PageMessage)
  BY <1>0 DEF PageInv, Ordered
<1>8. \A i \in DOMAIN messages : messages[i].text \in Texts
  <2> TAKE i \in DOMAIN messages
  <2>1. CASE messages[i].kind = "text"
    <3>1. Number(i) \in Produced /\ messages[i].text \in {<<Number(i)>>, Whole(Number(i))}
      BY <1>0, <2>1, StreamImplies DEF TextsAsProduced
    <3>2. Number(i) \in Numbers
      BY <1>0, <3>1, ProducedNumbers
    <3> QED
      BY <3>1, <3>2, TextsTyped
  <2>2. CASE messages[i].kind # "text"
    <3>1. messages[i].text = <<>>
      BY <1>0, <2>2 DEF BubbleInv, Quiet
    <3> QED
      BY <3>1, TextsTyped
  <2> QED
    BY <2>1, <2>2
<1>9. messages \in Seq(ChatMessages)
  <2> DEFINE M == PageMessage
             C == ChatMessages
  <2>1. \A x \in M : x.text \in Texts => x \in C
    BY DEF PageMessage, ChatMessages
  <2> HIDE DEF M, C
  <2>2. messages \in Seq(M)
    BY <1>7 DEF M
  <2>3. /\ Len(messages) \in Nat /\ DOMAIN messages = 1..Len(messages)
        /\ \A i \in 1..Len(messages) : messages[i] \in M
    BY <2>2
  <2>4. \A i \in 1..Len(messages) : messages[i] \in C
    BY <1>8, <2>1, <2>3
  <2>5. messages = [i \in 1..Len(messages) |-> messages[i]]
    BY <2>2
  <2>6. messages \in Seq(C)
    BY <2>3, <2>4, <2>5
  <2> QED
    BY <2>6 DEF C
<1>10. \A id \in {thinking, assistant} \ {None} : \E i \in DOMAIN messages : messages[i].id = id
  <2>1. thinking # None => \E i \in DOMAIN messages : messages[i].id = thinking
    BY <1>0 DEF BubbleInv
  <2>2. assistant # None => \E i \in DOMAIN messages : messages[i].id = assistant
    BY <1>0 DEF Linked, PageAt, LastText, TextsOf
  <2> QED
    BY <2>1, <2>2
<1> QED
  BY <1>1, <1>2, <1>3, <1>4, <1>5, <1>6, <1>7, <1>9, <1>10 DEF TypeOK

\* Types: the page's current bubble and current text are messages it has, and no
\* text is longer than its block.
THEOREM StreamTypeCorrect == Spec => []TypeOK
<1>1. Init => TypeInv
  BY TypeInitially
<1>2. TypeInv /\ [Next]_vars => TypeInv'
  BY TypeStep
<1>3. TypeInv => TypeOK
  BY TypeImplies
<1> QED
  BY <1>1, <1>2, <1>3, PTL DEF Spec

\* The bubbles of the page stay empty: a delta of thinking finds no current bubble.
ThinkingEmpty == \A i \in DOMAIN messages : messages[i].kind = "thinking" => messages[i].text = <<>>

\* The page never shows any thinking while a query runs: the events of a text
\* follow each other at once, so that none of its bubbles is there when a
\* thinking_delta comes.
THEOREM ThinkingNotShown == Spec => []ThinkingEmpty
<1>1. Init => TypeInv
  BY TypeInitially
<1>2. TypeInv /\ [Next]_vars => TypeInv'
  BY TypeStep
<1>3. TypeInv => ThinkingEmpty
  BY DEF TypeInv, BubbleInv, Quiet, ThinkingEmpty
<1> QED
  BY <1>1, <1>2, <1>3, PTL DEF Spec
===============================================================================
