-------------------------- MODULE StreamRecord_proofs --------------------------
(***************************************************************************)
(* Proof that, for any number of blocks and any lengths of messages and of *)
(* the wire, the page shows of a query that is over what it would rebuild  *)
(* from the session's record (ShownAsRecorded).                            *)
(*                                                                         *)
(* A view says what is seen, texts and tools with their results, and what  *)
(* the page may be in the midst of: a text that was announced or begun.    *)
(* The page shows one, the agent has told one, and every event on the wire *)
(* turns a view into another (Turns): what is on the wire turns the page's *)
(* into the agent's (Joined). A step of the agent adds events that turn    *)
(* what it had told into what it has told then; a step of the page takes   *)
(* the first event and shows what that turns its view into. What the agent *)
(* has told is what is rebuilt from its record, with the blocks it has     *)
(* streamed of the message it is in (ToSee). When the query is over and    *)
(* the wire is empty, the two views are one, and no message is open.       *)
(*                                                                         *)
(* This is said for the texts alone, whatever happens, and for the texts   *)
(* with the tools as long as no tools are announced twice; once they are,  *)
(* they stay so (DoubledStays). Nothing is said of a query that failed.    *)
(***************************************************************************)
EXTENDS StreamRecord, MessageStream_proofs

-----------------------------------------------------------------------------
(* Sequences of messages.                                                  *)

\* What holds of 0 and is handed on from number to number holds of n.
LEMMA UpToN ==
    ASSUME NEW n \in Nat, NEW G, 0 \in G, \A k \in 1..n : k - 1 \in G => k \in G
    PROVE  n \in G
<1> DEFINE Bad == {k \in Nat : k <= n /\ k \notin G}
<1>1. SUFFICES ASSUME n \notin G
               PROVE  FALSE
  OBVIOUS
<1>2. Bad \subseteq Nat /\ n \in Bad
  BY <1>1
<1> HIDE DEF Bad
<1>3. PICK k \in Bad : \A l \in Bad : k <= l
  BY <1>2, LeastNumber
<1>4. k \in Nat /\ k <= n /\ k \notin G
  BY <1>3 DEF Bad
<1>5. k # 0
  BY <1>4
<1>6. k \in 1..n /\ k - 1 \in Nat /\ k - 1 <= n /\ ~(k <= k - 1)
  BY <1>4, <1>5
<1>7. k - 1 \in G
  BY <1>3, <1>6 DEF Bad
<1> QED
  BY <1>4, <1>6, <1>7

\* The first k elements of s.
Front(s, k) == [i \in 1..k |-> s[i]]

\* They are one more at a time.
LEMMA FrontFacts ==
    ASSUME NEW S, NEW s \in Seq(S)
    PROVE  /\ Len(s) \in Nat
           /\ Front(s, 0) = <<>>
           /\ Front(s, Len(s)) = s
           /\ \A k \in 0..Len(s) : Front(s, k) \in Seq(S) /\ Len(Front(s, k)) = k
           /\ \A k \in 1..Len(s) : s[k] \in S /\ Front(s, k) = Append(Front(s, k - 1), s[k])
<1>1. Len(s) \in Nat /\ DOMAIN s = 1..Len(s) /\ \A k \in 1..Len(s) : s[k] \in S
  OBVIOUS
<1>2. Front(s, 0) = <<>>
  BY DEF Front
<1>3. Front(s, Len(s)) = s
  BY <1>1 DEF Front
<1>4. ASSUME NEW k \in 0..Len(s)
      PROVE  Front(s, k) \in Seq(S) /\ Len(Front(s, k)) = k
  <2>1. k \in Nat /\ \A i \in 1..k : s[i] \in S
    BY <1>1
  <2> QED
    BY <2>1 DEF Front
<1>5. ASSUME NEW k \in 1..Len(s)
      PROVE  s[k] \in S /\ Front(s, k) = Append(Front(s, k - 1), s[k])
  <2>1. k \in Nat /\ k - 1 \in 0..Len(s) /\ (k - 1) + 1 = k /\ s[k] \in S
    BY <1>1
  <2> DEFINE f == Front(s, k - 1)
             g == Append(f, s[k])
  <2>2. f \in Seq(S) /\ Len(f) = k - 1 /\ \A i \in 1..k-1 : f[i] = s[i]
    BY <2>1, <1>4 DEF Front
  <2> HIDE DEF f
  <2>3. g \in Seq(S) /\ Len(g) = k /\ (\A i \in 1..k-1 : g[i] = f[i]) /\ g[k] = s[k]
    BY <2>1, <2>2
  <2> HIDE DEF g
  <2>4. \A i \in 1..k : i \in 1..k-1 \/ i = k
    BY <2>1
  <2>5. \A i \in 1..k : g[i] = s[i]
    BY <2>2, <2>3, <2>4
  <2>6. g = [i \in 1..k |-> s[i]]
    <3>1. g = [i \in 1..k |-> g[i]]
      BY <2>3
    <3> QED
      BY <3>1, <2>5
  <2> QED
    BY <2>1, <2>6 DEF Front, f, g
<1> QED
  BY <1>1, <1>2, <1>3, <1>4, <1>5

\* What OfKinds does with one message more.
Kept(ms, m, kinds) == IF m.kind \in kinds THEN Append(ms, m) ELSE ms

\* What OfKinds fills its function d with.
KeptUpTo(ms, kinds, m, d) ==
    [k \in 0..m |-> IF k = 0 THEN <<>> ELSE Kept(d[k-1], ms[k], kinds)]

\* For every beginning of a sequence there is such a function.
LEMMA KeptExists ==
    ASSUME NEW ms, NEW kinds, NEW m \in Nat
    PROVE  \E d : d = KeptUpTo(ms, kinds, m, d)
<1> DEFINE There(k) == \E d : d = KeptUpTo(ms, kinds, k, d)
           T == {k \in Nat : ~There(k)}
<1> HIDE DEF There
<1>1. SUFFICES ASSUME ~There(m)
               PROVE  FALSE
  BY DEF There
<1>2. T \subseteq Nat /\ m \in T
  BY <1>1
<1> HIDE DEF T
<1>3. PICK k \in T : \A l \in T : k <= l
  BY <1>2, LeastNumber
<1>4. k \in Nat /\ ~There(k)
  BY <1>3 DEF T
<1>5. CASE k = 0
  <2> DEFINE d == [l \in 0..0 |-> <<>>]
  <2>1. \A l \in 0..0 : l = 0
    OBVIOUS
  <2>2. d = KeptUpTo(ms, kinds, 0, d)
    BY <2>1 DEF KeptUpTo
  <2> HIDE DEF d
  <2> QED
    BY <2>2, <1>4, <1>5 DEF There
<1>6. CASE k # 0
  <2>1. k - 1 \in Nat /\ ~(k <= k - 1)
    BY <1>4, <1>6
  <2>2. There(k - 1)
    BY <2>1, <1>3 DEF T
  <2>3. PICK f : f = KeptUpTo(ms, kinds, k - 1, f)
    BY <2>2 DEF There
  <2> DEFINE d == [l \in 0..k |-> IF l = k THEN Kept(f[k-1], ms[k], kinds) ELSE f[l]]
  <2>4. \A l \in 0..k : l # k => l \in 0..k-1
    BY <1>4
  <2>5. \A l \in 0..k-1 : f[l] = IF l = 0 THEN <<>> ELSE Kept(f[l-1], ms[l], kinds)
    BY <2>3 DEF KeptUpTo
  <2>6. ASSUME NEW l \in 0..k
        PROVE  d[l] = IF l = 0 THEN <<>> ELSE Kept(d[l-1], ms[l], kinds)
    <3>1. CASE l = k
      <4>1. k - 1 \in 0..k /\ k - 1 # k /\ l # 0 /\ k \in 0..k
        BY <1>4, <1>6, <3>1
      <4>2. d[k-1] = f[k-1] /\ d[k] = Kept(f[k-1], ms[k], kinds)
        BY <4>1
      <4> QED
        BY <4>1, <4>2, <3>1
    <3>2. CASE l # k /\ l = 0
      <4>1. d[l] = f[l] /\ l \in 0..k-1
        BY <3>2, <2>4
      <4> QED
        BY <4>1, <2>5, <3>2
    <3>3. CASE l # k /\ l # 0
      <4>1. l \in 0..k-1 /\ l - 1 \in 0..k /\ l - 1 # k
        BY <3>3, <1>4
      <4>2. d[l] = f[l] /\ d[l-1] = f[l-1]
        BY <4>1, <3>3
      <4> QED
        BY <4>1, <4>2, <2>5, <3>3
    <3> QED
      BY <3>1, <3>2, <3>3
  <2>7. d = [l \in 0..k |-> d[l]]
    OBVIOUS
  <2> HIDE DEF d
  <2>8. d = KeptUpTo(ms, kinds, k, d)
    BY <2>6, <2>7 DEF KeptUpTo
  <2> QED
    BY <2>8, <1>4 DEF There
<1> QED
  BY <1>5, <1>6

\* So OfKinds keeps or leaves out the messages from the first to the last.
LEMMA AllKept ==
    ASSUME NEW ms, NEW kinds, Len(ms) \in Nat
    PROVE  \E f : /\ OfKinds(ms, kinds) = f[Len(ms)]
                  /\ f[0] = <<>>
                  /\ \A k \in 1..Len(ms) : f[k] = Kept(f[k-1], ms[k], kinds)
<1> DEFINE f == CHOOSE d : d = KeptUpTo(ms, kinds, Len(ms), d)
<1>1. OfKinds(ms, kinds) = f[Len(ms)]
  BY DEF OfKinds, KeptUpTo, Kept
<1>2. f = KeptUpTo(ms, kinds, Len(ms), f)
  BY KeptExists
<1> HIDE DEF f
<1>3. \A k \in 0..Len(ms) : f[k] = IF k = 0 THEN <<>> ELSE Kept(f[k-1], ms[k], kinds)
  BY <1>2 DEF KeptUpTo
<1>4. 0 \in 0..Len(ms) /\ \A k \in 1..Len(ms) : k \in 0..Len(ms) /\ k # 0
  OBVIOUS
<1>5. f[0] = <<>>
  BY <1>3, <1>4
<1>6. \A k \in 1..Len(ms) : f[k] = Kept(f[k-1], ms[k], kinds)
  BY <1>3, <1>4
<1> QED
  BY <1>1, <1>5, <1>6

\* Of no messages there are none.
LEMMA OfKindsNone == ASSUME NEW kinds PROVE OfKinds(<<>>, kinds) = <<>>
<1> DEFINE none == <<>>
<1>1. Len(none) = 0
  OBVIOUS
<1> HIDE DEF none
<1>2. Len(none) \in Nat
  BY <1>1
<1>3. PICK f : OfKinds(none, kinds) = f[Len(none)] /\ f[0] = <<>>
  BY <1>2, AllKept
<1>4. OfKinds(none, kinds) = <<>>
  BY <1>1, <1>3
<1> QED
  BY <1>4 DEF none

\* With one message more there is that one more, if it is of the kinds.
LEMMA OfKindsAppend ==
    ASSUME NEW S, NEW ms \in Seq(S), NEW m \in S, NEW kinds
    PROVE  OfKinds(Append(ms, m), kinds) = Kept(OfKinds(ms, kinds), m, kinds)
<1> DEFINE n == Len(ms)
           ns == Append(ms, m)
<1>2. n \in Nat /\ Len(ns) = n + 1 /\ (\A i \in 1..n : ns[i] = ms[i]) /\ ns[n + 1] = m
  OBVIOUS
<1>3. PICK f : /\ OfKinds(ms, kinds) = f[n]
               /\ f[0] = <<>>
               /\ \A k \in 1..n : f[k] = Kept(f[k-1], ms[k], kinds)
  BY <1>2, AllKept
<1> HIDE DEF ns
<1>4. PICK g : /\ OfKinds(ns, kinds) = g[n + 1]
               /\ g[0] = <<>>
               /\ \A k \in 1..n + 1 : g[k] = Kept(g[k-1], ns[k], kinds)
  <2>1. Len(ns) \in Nat
    BY <1>2
  <2> QED
    BY <1>2, <2>1, AllKept
<1> HIDE DEF n
<1> DEFINE Bad == {k \in Nat : k <= n /\ g[k] # f[k]}
<1>5. g[n] = f[n]
  <2>1. SUFFICES ASSUME g[n] # f[n]
                 PROVE  FALSE
    OBVIOUS
  <2>2. Bad \subseteq Nat /\ n \in Bad
    BY <1>2, <2>1
  <2> HIDE DEF Bad
  <2>3. PICK k \in Bad : \A l \in Bad : k <= l
    BY <2>2, LeastNumber
  <2>4. k \in Nat /\ k <= n /\ g[k] # f[k]
    BY <2>3 DEF Bad
  <2>5. k # 0
    BY <2>4, <1>3, <1>4
  <2>6. k \in 1..n /\ k \in 1..n+1 /\ k - 1 \in Nat /\ k - 1 <= n /\ ~(k <= k - 1)
    BY <2>4, <2>5, <1>2
  <2>7. g[k-1] = f[k-1]
    BY <2>3, <2>6 DEF Bad
  <2>8. ns[k] = ms[k]
    BY <2>6, <1>2
  <2>9. f[k] = Kept(f[k-1], ms[k], kinds) /\ g[k] = Kept(g[k-1], ns[k], kinds)
    BY <2>6, <1>3, <1>4
  <2> QED
    BY <2>4, <2>7, <2>8, <2>9
<1>6. n + 1 \in 1..n + 1 /\ (n + 1) - 1 = n
  BY <1>2
<1>7. g[n + 1] = Kept(g[n], m, kinds)
  <2>1. g[n + 1] = Kept(g[(n + 1) - 1], ns[n + 1], kinds)
    BY <1>4, <1>6
  <2> QED
    BY <2>1, <1>2, <1>6
<1> QED
  BY <1>3, <1>4, <1>5, <1>7 DEF ns

\* What is kept is of the same messages.
LEMMA OfKindsTyped ==
    ASSUME NEW S, NEW ms \in Seq(S), NEW kinds
    PROVE  OfKinds(ms, kinds) \in Seq(S)
<1>1. /\ Len(ms) \in Nat /\ Front(ms, 0) = <<>> /\ Front(ms, Len(ms)) = ms
      /\ \A k \in 0..Len(ms) : Front(ms, k) \in Seq(S)
      /\ \A k \in 1..Len(ms) : ms[k] \in S /\ Front(ms, k) = Append(Front(ms, k - 1), ms[k])
  BY FrontFacts
<1> DEFINE n == Len(ms)
           a(k) == OfKinds(Front(ms, k), kinds)
           G == {k \in Nat : a(k) \in Seq(S)}
<1>2. n \in Nat /\ 0 \in G
  <2>1. OfKinds(<<>>, kinds) = <<>>
    BY OfKindsNone
  <2> QED
    BY <1>1, <2>1
<1>3. ASSUME NEW k \in 1..n, k - 1 \in G
      PROVE  k \in G
  <2>1. k - 1 \in 0..Len(ms) /\ ms[k] \in S /\ Front(ms, k - 1) \in Seq(S) /\ k \in Nat
    BY <1>1
  <2>2. OfKinds(Append(Front(ms, k - 1), ms[k]), kinds) = Kept(a(k - 1), ms[k], kinds)
    BY <2>1, OfKindsAppend
  <2>3. a(k) = Kept(a(k - 1), ms[k], kinds)
    BY <1>1, <2>2
  <2>4. a(k - 1) \in Seq(S)
    BY <1>3
  <2> HIDE DEF a
  <2>5. a(k) \in Seq(S)
    BY <2>1, <2>3, <2>4 DEF Kept
  <2> QED
    BY <2>1, <2>5
<1>4. n \in G
  <2> HIDE DEF G, n
  <2> QED
    BY <1>2, <1>3, UpToN
<1> QED
  BY <1>1, <1>4

\* The message m, with a result if its tool is one of N.
Completed(m, N) == IF m.tool \in N THEN [m EXCEPT !.result = TRUE] ELSE m

\* The messages ms, with the results of the tools N.
WithResults(ms, N) == [i \in DOMAIN ms |-> Completed(ms[i], N)]

\* One message after the other.
LEMMA ResultsAppend ==
    ASSUME NEW S, NEW ms \in Seq(S), NEW m \in S, NEW N
    PROVE  WithResults(Append(ms, m), N) = Append(WithResults(ms, N), Completed(m, N))
<1> DEFINE n == Len(ms)
           ns == Append(ms, m)
           a == WithResults(ms, N)
           c == Completed(m, N)
           b == Append(a, c)
<1>1. n \in Nat /\ DOMAIN ms = 1..n /\ DOMAIN ns = 1..n + 1
      /\ (\A i \in 1..n : ns[i] = ms[i]) /\ ns[n + 1] = m
  OBVIOUS
<1> HIDE DEF n, ns
<1>2. a = [i \in 1..n |-> Completed(ms[i], N)]
  BY <1>1 DEF WithResults
<1> HIDE DEF a, c
<1>3. Len(a) = n /\ \A i \in 1..n : a[i] = Completed(ms[i], N)
  <2>1. \A i \in 1..n : a[i] = Completed(ms[i], N)
    BY <1>2
  <2>2. a \in Seq({a[i] : i \in 1..n}) /\ Len(a) = n
    BY <1>1, <1>2
  <2> QED
    BY <2>1, <2>2
<1>4. b = [i \in 1..n + 1 |-> IF i <= n THEN a[i] ELSE c]
  <2>1. a \in Seq({a[i] : i \in 1..n} \cup {c})
    BY <1>1, <1>2
  <2>2. /\ b \in Seq({a[i] : i \in 1..n} \cup {c}) /\ Len(b) = n + 1
        /\ (\A i \in 1..n : b[i] = a[i]) /\ b[n + 1] = c
    BY <2>1, <1>1, <1>3
  <2> HIDE DEF b
  <2>3. b = [i \in 1..n + 1 |-> b[i]]
    BY <2>2, <1>1
  <2>4. \A i \in 1..n + 1 : (i <= n /\ i \in 1..n) \/ (i = n + 1 /\ ~(i <= n))
    BY <1>1
  <2>5. \A i \in 1..n + 1 : b[i] = IF i <= n THEN a[i] ELSE c
    BY <2>2, <2>4
  <2> QED
    BY <2>3, <2>5
<1> HIDE DEF b
<1>5. \A i \in 1..n + 1 : Completed(ns[i], N) = IF i <= n THEN a[i] ELSE c
  <2>1. \A i \in 1..n + 1 : (i <= n /\ i \in 1..n) \/ (i = n + 1 /\ ~(i <= n))
    BY <1>1
  <2> QED
    BY <2>1, <1>1, <1>3 DEF c
<1>6. WithResults(ns, N) = b
  BY <1>1, <1>4, <1>5 DEF WithResults
<1> QED
  BY <1>6 DEF ns, b, a, c

\* Messages with the results of N, those of the kinds: so are what is kept of them.
LEMMA OfKindsResults ==
    ASSUME NEW S, NEW ms \in Seq(S), NEW ns \in Seq(S), Len(ns) = Len(ms), NEW kinds, NEW N,
           \A i \in 1..Len(ms) :
              /\ ns[i].kind = ms[i].kind
              /\ ms[i].kind \in kinds => ns[i] = Completed(ms[i], N)
    PROVE  OfKinds(ns, kinds) = WithResults(OfKinds(ms, kinds), N)
<1> DEFINE n == Len(ms)
           a(k) == OfKinds(Front(ms, k), kinds)
           b(k) == OfKinds(Front(ns, k), kinds)
           G == {k \in Nat : b(k) = WithResults(a(k), N)}
<1>1. /\ n \in Nat /\ Len(ns) = n
      /\ Front(ms, 0) = <<>> /\ Front(ms, n) = ms
      /\ Front(ns, 0) = <<>> /\ Front(ns, n) = ns
  BY FrontFacts
<1>2. ASSUME NEW k \in 1..n
      PROVE  /\ ms[k] \in S /\ Front(ms, k - 1) \in Seq(S)
             /\ Front(ms, k) = Append(Front(ms, k - 1), ms[k])
             /\ ns[k] \in S /\ Front(ns, k - 1) \in Seq(S)
             /\ Front(ns, k) = Append(Front(ns, k - 1), ns[k])
  <2>1. k - 1 \in 0..Len(ms) /\ k \in 1..Len(ms) /\ k - 1 \in 0..Len(ns) /\ k \in 1..Len(ns)
    BY <1>1
  <2>2. ms[k] \in S /\ Front(ms, k - 1) \in Seq(S) /\ Front(ms, k) = Append(Front(ms, k - 1), ms[k])
    BY <2>1, FrontFacts
  <2>3. ns[k] \in S /\ Front(ns, k - 1) \in Seq(S) /\ Front(ns, k) = Append(Front(ns, k - 1), ns[k])
    BY <2>1, FrontFacts
  <2> QED
    BY <2>2, <2>3
<1>3. 0 \in G
  <2>1. a(0) = <<>> /\ b(0) = <<>>
    BY <1>1, OfKindsNone
  <2>2. WithResults(<<>>, N) = <<>>
    BY DEF WithResults
  <2> QED
    BY <2>1, <2>2
<1>4. ASSUME NEW k \in 1..n, k - 1 \in G
      PROVE  k \in G
  <2>1. b(k - 1) = WithResults(a(k - 1), N) /\ k \in Nat
    BY <1>4
  <2>2. /\ a(k) = Kept(a(k - 1), ms[k], kinds)
        /\ b(k) = Kept(b(k - 1), ns[k], kinds)
    <3>1. OfKinds(Append(Front(ms, k - 1), ms[k]), kinds) = Kept(a(k - 1), ms[k], kinds)
      BY <1>2, OfKindsAppend
    <3>2. OfKinds(Append(Front(ns, k - 1), ns[k]), kinds) = Kept(b(k - 1), ns[k], kinds)
      BY <1>2, OfKindsAppend
    <3> QED
      BY <1>2, <3>1, <3>2
  <2>3. a(k - 1) \in Seq(S)
    BY <1>2, OfKindsTyped
  <2>4. ns[k].kind = ms[k].kind /\ (ms[k].kind \in kinds => ns[k] = Completed(ms[k], N)) /\ ms[k] \in S
    BY <1>2
  <2> HIDE DEF a, b
  <2>5. CASE ms[k].kind \in kinds
    <3>1. a(k) = Append(a(k - 1), ms[k]) /\ b(k) = Append(b(k - 1), Completed(ms[k], N))
      BY <2>2, <2>4, <2>5 DEF Kept
    <3>2. WithResults(Append(a(k - 1), ms[k]), N) = Append(WithResults(a(k - 1), N), Completed(ms[k], N))
      BY <2>3, <2>4, ResultsAppend
    <3> QED
      BY <2>1, <3>1, <3>2
  <2>6. CASE ms[k].kind \notin kinds
    <3>1. a(k) = a(k - 1) /\ b(k) = b(k - 1)
      BY <2>2, <2>4, <2>6 DEF Kept
    <3> QED
      BY <2>1, <3>1
  <2> QED
    BY <2>5, <2>6
<1>5. n \in G
  <2> HIDE DEF G, n
  <2> QED
    BY <1>1, <1>3, <1>4, UpToN
<1> QED
  BY <1>1, <1>5

\* Of messages that are all of the kinds all are kept.
LEMMA OfKindsAll ==
    ASSUME NEW S, NEW ms \in Seq(S), NEW kinds, \A i \in 1..Len(ms) : ms[i].kind \in kinds
    PROVE  OfKinds(ms, kinds) = ms
<1> DEFINE n == Len(ms)
           a(k) == OfKinds(Front(ms, k), kinds)
           G == {k \in Nat : a(k) = Front(ms, k)}
<1>1. n \in Nat /\ Front(ms, 0) = <<>> /\ Front(ms, n) = ms
  BY FrontFacts
<1>2. ASSUME NEW k \in 1..n
      PROVE  /\ ms[k] \in S /\ Front(ms, k - 1) \in Seq(S)
             /\ Front(ms, k) = Append(Front(ms, k - 1), ms[k])
  <2>1. k - 1 \in 0..Len(ms) /\ k \in 1..Len(ms)
    BY <1>1
  <2> QED
    BY <2>1, FrontFacts
<1>3. 0 \in G
  BY <1>1, OfKindsNone
<1>4. ASSUME NEW k \in 1..n, k - 1 \in G
      PROVE  k \in G
  <2>1. a(k - 1) = Front(ms, k - 1) /\ k \in Nat
    BY <1>4
  <2>2. a(k) = Kept(a(k - 1), ms[k], kinds)
    <3>1. OfKinds(Append(Front(ms, k - 1), ms[k]), kinds) = Kept(a(k - 1), ms[k], kinds)
      BY <1>2, OfKindsAppend
    <3> QED
      BY <1>2, <3>1
  <2> HIDE DEF a
  <2>3. a(k) = Front(ms, k)
    BY <2>1, <2>2, <1>2 DEF Kept
  <2> QED
    BY <2>1, <2>3
<1>5. n \in G
  <2> HIDE DEF G, n
  <2> QED
    BY <1>1, <1>3, <1>4, UpToN
<1> QED
  BY <1>1, <1>5

-----------------------------------------------------------------------------
(* The rebuilt messages.                                                   *)

\* What the record of these entries is rebuilt to.
Built(entries) ==
    LET built[k \in 0..Len(entries)] ==
            IF k = 0 THEN <<>> ELSE AddEntry(built[k-1], entries[k])
    IN  built[Len(entries)]

\* What it fills its function d with.
BuiltUpTo(entries, m, d) ==
    [k \in 0..m |-> IF k = 0 THEN <<>> ELSE AddEntry(d[k-1], entries[k])]

\* For every beginning of a record there is such a function.
LEMMA BuiltExists ==
    ASSUME NEW entries, NEW m \in Nat
    PROVE  \E d : d = BuiltUpTo(entries, m, d)
<1> DEFINE There(k) == \E d : d = BuiltUpTo(entries, k, d)
           T == {k \in Nat : ~There(k)}
<1> HIDE DEF There
<1>1. SUFFICES ASSUME ~There(m)
               PROVE  FALSE
  BY DEF There
<1>2. T \subseteq Nat /\ m \in T
  BY <1>1
<1> HIDE DEF T
<1>3. PICK k \in T : \A l \in T : k <= l
  BY <1>2, LeastNumber
<1>4. k \in Nat /\ ~There(k)
  BY <1>3 DEF T
<1>5. CASE k = 0
  <2> DEFINE d == [l \in 0..0 |-> <<>>]
  <2>1. \A l \in 0..0 : l = 0
    OBVIOUS
  <2>2. d = BuiltUpTo(entries, 0, d)
    BY <2>1 DEF BuiltUpTo
  <2> HIDE DEF d
  <2> QED
    BY <2>2, <1>4, <1>5 DEF There
<1>6. CASE k # 0
  <2>1. k - 1 \in Nat /\ ~(k <= k - 1)
    BY <1>4, <1>6
  <2>2. There(k - 1)
    BY <2>1, <1>3 DEF T
  <2>3. PICK f : f = BuiltUpTo(entries, k - 1, f)
    BY <2>2 DEF There
  <2> DEFINE d == [l \in 0..k |-> IF l = k THEN AddEntry(f[k-1], entries[k]) ELSE f[l]]
  <2>4. \A l \in 0..k : l # k => l \in 0..k-1
    BY <1>4
  <2>5. \A l \in 0..k-1 : f[l] = IF l = 0 THEN <<>> ELSE AddEntry(f[l-1], entries[l])
    BY <2>3 DEF BuiltUpTo
  <2>6. ASSUME NEW l \in 0..k
        PROVE  d[l] = IF l = 0 THEN <<>> ELSE AddEntry(d[l-1], entries[l])
    <3>1. CASE l = k
      <4>1. k - 1 \in 0..k /\ k - 1 # k /\ l # 0 /\ k \in 0..k
        BY <1>4, <1>6, <3>1
      <4>2. d[k-1] = f[k-1] /\ d[k] = AddEntry(f[k-1], entries[k])
        BY <4>1
      <4> QED
        BY <4>1, <4>2, <3>1
    <3>2. CASE l # k /\ l = 0
      <4>1. d[l] = f[l] /\ l \in 0..k-1
        BY <3>2, <2>4
      <4> QED
        BY <4>1, <2>5, <3>2
    <3>3. CASE l # k /\ l # 0
      <4>1. l \in 0..k-1 /\ l - 1 \in 0..k /\ l - 1 # k
        BY <3>3, <1>4
      <4>2. d[l] = f[l] /\ d[l-1] = f[l-1]
        BY <4>1, <3>3
      <4> QED
        BY <4>1, <4>2, <2>5, <3>3
    <3> QED
      BY <3>1, <3>2, <3>3
  <2>7. d = [l \in 0..k |-> d[l]]
    OBVIOUS
  <2> HIDE DEF d
  <2>8. d = BuiltUpTo(entries, k, d)
    BY <2>6, <2>7 DEF BuiltUpTo
  <2> QED
    BY <2>8, <1>4 DEF There
<1> QED
  BY <1>5, <1>6

\* So Built adds the entries from the first to the last.
LEMMA AllBuilt ==
    ASSUME NEW entries, Len(entries) \in Nat
    PROVE  \E f : /\ Built(entries) = f[Len(entries)]
                  /\ f[0] = <<>>
                  /\ \A k \in 1..Len(entries) : f[k] = AddEntry(f[k-1], entries[k])
<1> DEFINE f == CHOOSE d : d = BuiltUpTo(entries, Len(entries), d)
<1>1. Built(entries) = f[Len(entries)]
  BY DEF Built, BuiltUpTo
<1>2. f = BuiltUpTo(entries, Len(entries), f)
  BY BuiltExists
<1> HIDE DEF f
<1>3. \A k \in 0..Len(entries) : f[k] = IF k = 0 THEN <<>> ELSE AddEntry(f[k-1], entries[k])
  BY <1>2 DEF BuiltUpTo
<1>4. 0 \in 0..Len(entries) /\ \A k \in 1..Len(entries) : k \in 0..Len(entries) /\ k # 0
  OBVIOUS
<1>5. f[0] = <<>>
  BY <1>3, <1>4
<1>6. \A k \in 1..Len(entries) : f[k] = AddEntry(f[k-1], entries[k])
  BY <1>3, <1>4
<1> QED
  BY <1>1, <1>5, <1>6

\* Of an empty record there is nothing.
LEMMA BuiltNone == Built(<<>>) = <<>>
<1> DEFINE none == <<>>
<1>1. Len(none) = 0
  OBVIOUS
<1> HIDE DEF none
<1>2. Len(none) \in Nat
  BY <1>1
<1>3. PICK f : Built(none) = f[Len(none)] /\ f[0] = <<>>
  BY <1>2, AllBuilt
<1>4. Built(none) = <<>>
  BY <1>1, <1>3
<1> QED
  BY <1>4 DEF none

\* One entry more is added to what there was.
LEMMA BuiltAppend ==
    ASSUME NEW S, NEW entries \in Seq(S), NEW r \in S
    PROVE  Built(Append(entries, r)) = AddEntry(Built(entries), r)
<1> DEFINE n == Len(entries)
           ns == Append(entries, r)
<1>2. n \in Nat /\ Len(ns) = n + 1 /\ (\A i \in 1..n : ns[i] = entries[i]) /\ ns[n + 1] = r
  OBVIOUS
<1>3. PICK f : /\ Built(entries) = f[n]
               /\ f[0] = <<>>
               /\ \A k \in 1..n : f[k] = AddEntry(f[k-1], entries[k])
  BY <1>2, AllBuilt
<1> HIDE DEF ns
<1>4. PICK g : /\ Built(ns) = g[n + 1]
               /\ g[0] = <<>>
               /\ \A k \in 1..n + 1 : g[k] = AddEntry(g[k-1], ns[k])
  <2>1. Len(ns) \in Nat
    BY <1>2
  <2> QED
    BY <1>2, <2>1, AllBuilt
<1> HIDE DEF n
<1> DEFINE Bad == {k \in Nat : k <= n /\ g[k] # f[k]}
<1>5. g[n] = f[n]
  <2>1. SUFFICES ASSUME g[n] # f[n]
                 PROVE  FALSE
    OBVIOUS
  <2>2. Bad \subseteq Nat /\ n \in Bad
    BY <1>2, <2>1
  <2> HIDE DEF Bad
  <2>3. PICK k \in Bad : \A l \in Bad : k <= l
    BY <2>2, LeastNumber
  <2>4. k \in Nat /\ k <= n /\ g[k] # f[k]
    BY <2>3 DEF Bad
  <2>5. k # 0
    BY <2>4, <1>3, <1>4
  <2>6. k \in 1..n /\ k \in 1..n+1 /\ k - 1 \in Nat /\ k - 1 <= n /\ ~(k <= k - 1)
    BY <2>4, <2>5, <1>2
  <2>7. g[k-1] = f[k-1]
    BY <2>3, <2>6 DEF Bad
  <2>8. ns[k] = entries[k]
    BY <2>6, <1>2
  <2>9. f[k] = AddEntry(f[k-1], entries[k]) /\ g[k] = AddEntry(g[k-1], ns[k])
    BY <2>6, <1>3, <1>4
  <2> QED
    BY <2>4, <2>7, <2>8, <2>9
<1>6. n + 1 \in 1..n + 1 /\ (n + 1) - 1 = n
  BY <1>2
<1>7. g[n + 1] = AddEntry(g[n], r)
  <2>1. g[n + 1] = AddEntry(g[(n + 1) - 1], ns[n + 1])
    BY <1>4, <1>6
  <2> QED
    BY <2>1, <1>2, <1>6
<1> QED
  BY <1>3, <1>4, <1>5, <1>7 DEF ns

-----------------------------------------------------------------------------
(* Results that are left out.                                              *)

SeenMessage == [kind : {"thinking", "text", "tool", "question", "error"},
                tool : Numbers \cup {None}, text : Seq(Nat), result : BOOLEAN]

\* The message m, and the messages ms, as Expected has them.
MaskedOne(m, ty) == [m EXCEPT !.result = @ /\ ty]
Masked(ms, ty) == [i \in DOMAIN ms |-> MaskedOne(ms[i], ty)]

\* One message after the other.
LEMMA MaskedAppend ==
    ASSUME NEW S, NEW ms \in Seq(S), NEW m \in S, NEW ty
    PROVE  Masked(Append(ms, m), ty) = Append(Masked(ms, ty), MaskedOne(m, ty))
<1> DEFINE n == Len(ms)
           ns == Append(ms, m)
           a == Masked(ms, ty)
           c == MaskedOne(m, ty)
           b == Append(a, c)
<1>1. n \in Nat /\ DOMAIN ms = 1..n /\ DOMAIN ns = 1..n + 1
      /\ (\A i \in 1..n : ns[i] = ms[i]) /\ ns[n + 1] = m
  OBVIOUS
<1> HIDE DEF n, ns
<1>2. a = [i \in 1..n |-> MaskedOne(ms[i], ty)]
  BY <1>1 DEF Masked
<1> HIDE DEF a, c
<1>3. Len(a) = n /\ \A i \in 1..n : a[i] = MaskedOne(ms[i], ty)
  <2>1. \A i \in 1..n : a[i] = MaskedOne(ms[i], ty)
    BY <1>2
  <2>2. a \in Seq({a[i] : i \in 1..n}) /\ Len(a) = n
    BY <1>1, <1>2
  <2> QED
    BY <2>1, <2>2
<1>4. b = [i \in 1..n + 1 |-> IF i <= n THEN a[i] ELSE c]
  <2>1. a \in Seq({a[i] : i \in 1..n} \cup {c})
    BY <1>1, <1>2
  <2>2. /\ b \in Seq({a[i] : i \in 1..n} \cup {c}) /\ Len(b) = n + 1
        /\ (\A i \in 1..n : b[i] = a[i]) /\ b[n + 1] = c
    BY <2>1, <1>1, <1>3
  <2> HIDE DEF b
  <2>3. b = [i \in 1..n + 1 |-> b[i]]
    BY <2>2, <1>1
  <2>4. \A i \in 1..n + 1 : (i <= n /\ i \in 1..n) \/ (i = n + 1 /\ ~(i <= n))
    BY <1>1
  <2>5. \A i \in 1..n + 1 : b[i] = IF i <= n THEN a[i] ELSE c
    BY <2>2, <2>4
  <2> QED
    BY <2>3, <2>5
<1> HIDE DEF b
<1>5. \A i \in 1..n + 1 : MaskedOne(ns[i], ty) = IF i <= n THEN a[i] ELSE c
  <2>1. \A i \in 1..n + 1 : (i <= n /\ i \in 1..n) \/ (i = n + 1 /\ ~(i <= n))
    BY <1>1
  <2> QED
    BY <2>1, <1>1, <1>3 DEF c
<1>6. Masked(ns, ty) = b
  BY <1>1, <1>4, <1>5 DEF Masked
<1> QED
  BY <1>6 DEF ns, b, a, c

\* A message is left as it is by masking it where there are types, and where it
\* has no result.
LEMMA MaskedSame ==
    ASSUME NEW m \in SeenMessage
    PROVE  MaskedOne(m, TRUE) = m /\ (~m.result => \A ty \in BOOLEAN : MaskedOne(m, ty) = m)
<1>1. m = [m EXCEPT !.result = m.result]
  BY DEF SeenMessage
<1>2. m.result \in BOOLEAN
  BY DEF SeenMessage
<1>3. (m.result /\ TRUE) = m.result
  BY <1>2
<1>4. MaskedOne(m, TRUE) = [m EXCEPT !.result = m.result /\ TRUE]
  BY DEF MaskedOne
<1>5. MaskedOne(m, TRUE) = m
  BY <1>1, <1>3, <1>4
<1>6. ASSUME ~m.result, NEW ty \in BOOLEAN
      PROVE  MaskedOne(m, ty) = m
  <2>1. (m.result /\ ty) = m.result
    BY <1>2, <1>6
  <2>2. MaskedOne(m, ty) = [m EXCEPT !.result = m.result /\ ty]
    BY DEF MaskedOne
  <2> QED
    BY <1>1, <2>1, <2>2
<1> QED
  BY <1>5, <1>6

\* Masked messages with results, and those without.
LEMMA MaskedResults ==
    ASSUME NEW ms \in Seq(SeenMessage), NEW N
    PROVE  /\ Masked(WithResults(ms, N), TRUE) = WithResults(Masked(ms, TRUE), N)
           /\ Masked(WithResults(ms, N), FALSE) = Masked(ms, FALSE)
<1>1. DOMAIN ms = 1..Len(ms) /\ \A i \in DOMAIN ms : ms[i] \in SeenMessage
  OBVIOUS
<1>2. ASSUME NEW m \in SeenMessage
      PROVE  /\ Completed(m, N) \in SeenMessage
             /\ MaskedOne(Completed(m, N), TRUE) = Completed(MaskedOne(m, TRUE), N)
             /\ MaskedOne(Completed(m, N), FALSE) = MaskedOne(m, FALSE)
  <2>1. Completed(m, N) \in SeenMessage
    BY DEF Completed, SeenMessage
  <2>2. MaskedOne(Completed(m, N), TRUE) = Completed(MaskedOne(m, TRUE), N)
    BY <2>1, MaskedSame
  <2>3. MaskedOne(Completed(m, N), FALSE) = MaskedOne(m, FALSE)
    <3>1. \A x \in SeenMessage : MaskedOne(x, FALSE) = [x EXCEPT !.result = FALSE]
      BY DEF MaskedOne
    <3>2. [Completed(m, N) EXCEPT !.result = FALSE] = [m EXCEPT !.result = FALSE]
      BY DEF Completed, SeenMessage
    <3> QED
      BY <2>1, <3>1, <3>2
  <2> QED
    BY <2>1, <2>2, <2>3
<1>3. Masked(WithResults(ms, N), TRUE) = WithResults(Masked(ms, TRUE), N)
  <2>1. \A i \in DOMAIN ms : MaskedOne(Completed(ms[i], N), TRUE) = Completed(MaskedOne(ms[i], TRUE), N)
    BY <1>1, <1>2
  <2> QED
    BY <2>1 DEF Masked, WithResults
<1>4. Masked(WithResults(ms, N), FALSE) = Masked(ms, FALSE)
  <2>1. \A i \in DOMAIN ms : MaskedOne(Completed(ms[i], N), FALSE) = MaskedOne(ms[i], FALSE)
    BY <1>1, <1>2
  <2> QED
    BY <2>1 DEF Masked, WithResults
<1> QED
  BY <1>3, <1>4

-----------------------------------------------------------------------------
(* What the events do to what is seen.                                     *)

\* What is seen of the kinds that are looked at, and what the page is about to
\* show: after an init a text, after a text more of it, after the end nothing.
Views == [list : Seq(SeenMessage), mode : {"between", "begun", "text", "over"}]

TextSeen(text) == Seen("text", None, text, FALSE)
ToolSeen(n) == Seen("tool", n, <<>>, FALSE)

\* The event e turns the view a into b.
Turns(e, kinds, a, b) ==
    \/ /\ a.mode \in {"between", "text"}
       /\ \/ e.kind = "init" /\ b = [a EXCEPT !.mode = "begun"]
          \/ e.kind = "thinking_delta" /\ b = a
          \/ e.kind = "ask_user_question" /\ b = [a EXCEPT !.mode = "between"]
          \/ e.kind = "done" /\ b = [a EXCEPT !.mode = "over"]
          \/ /\ e.kind = "tool_start"
             /\ e.n \in Numbers
             /\ "tool" \in kinds => \A i \in 1..Len(a.list) : a.list[i].tool # e.n
             /\ b = [list |-> Kept(a.list, ToolSeen(e.n), kinds), mode |-> "between"]
          \/ /\ e.kind = "tool_result"
             /\ e.n \in Numbers
             /\ b = [a EXCEPT !.list = WithResults(a.list, {e.n})]
    \/ /\ e.kind = "text_delta"
       /\ a.mode = "begun"
       /\ b = [list |-> Append(a.list, TextSeen(e.text)), mode |-> "text"]
    \/ /\ e.kind = "text_delta"
       /\ a.mode = "text"
       /\ \E l \in Seq(SeenMessage), n \in Numbers :
            /\ a.list = Append(l, TextSeen(<<n>>))
            /\ e.text = <<n>>
            /\ b = [list |-> Append(l, TextSeen(Whole(n))), mode |-> "text"]

\* The events of w turn a into b, by views in between.
Becomes(w, kinds, a, b) ==
    \E views \in [0..Len(w) -> Views] :
        /\ views[0] = a
        /\ views[Len(w)] = b
        /\ \A k \in 1..Len(w) : Turns(w[k], kinds, views[k-1], views[k])

\* No event changes nothing.
LEMMA BecomesNone ==
    ASSUME NEW kinds, NEW a \in Views
    PROVE  Becomes(<<>>, kinds, a, a)
<1> DEFINE views == [k \in 0..0 |-> a]
<1>1. views \in [0..Len(<<>>) -> Views] /\ views[0] = a /\ views[Len(<<>>)] = a
  OBVIOUS
<1>2. \A k \in 1..Len(<<>>) : FALSE
  OBVIOUS
<1> HIDE DEF views
<1> QED
  BY <1>1, <1>2 DEF Becomes

\* One event does what it does.
LEMMA BecomesOne ==
    ASSUME NEW kinds, NEW a \in Views, NEW b \in Views, NEW e, Turns(e, kinds, a, b)
    PROVE  Becomes(<<e>>, kinds, a, b)
<1> DEFINE views == [k \in 0..1 |-> IF k = 0 THEN a ELSE b]
<1>1. Len(<<e>>) = 1 /\ <<e>>[1] = e
  OBVIOUS
<1>2. views \in [0..1 -> Views] /\ views[0] = a /\ views[1] = b
  OBVIOUS
<1>3. \A k \in 1..1 : k = 1 /\ k - 1 = 0
  OBVIOUS
<1> HIDE DEF views
<1>4. \A k \in 1..Len(<<e>>) : Turns(<<e>>[k], kinds, views[k-1], views[k])
  BY <1>1, <1>2, <1>3
<1> QED
  BY <1>1, <1>2, <1>4 DEF Becomes

\* And so do two.
LEMMA BecomesTwo ==
    ASSUME NEW kinds, NEW a \in Views, NEW b \in Views, NEW c \in Views,
           NEW e, NEW f, Turns(e, kinds, a, b), Turns(f, kinds, b, c)
    PROVE  Becomes(<<e, f>>, kinds, a, c)
<1> DEFINE views == [k \in 0..2 |-> IF k = 0 THEN a ELSE IF k = 1 THEN b ELSE c]
<1>1. Len(<<e, f>>) = 2 /\ <<e, f>>[1] = e /\ <<e, f>>[2] = f
  OBVIOUS
<1>2. views \in [0..2 -> Views] /\ views[0] = a /\ views[1] = b /\ views[2] = c
  OBVIOUS
<1>3. \A k \in 1..2 : (k = 1 /\ k - 1 = 0) \/ (k = 2 /\ k - 1 = 1)
  OBVIOUS
<1> HIDE DEF views
<1>4. \A k \in 1..Len(<<e, f>>) : Turns(<<e, f>>[k], kinds, views[k-1], views[k])
  BY <1>1, <1>2, <1>3
<1> QED
  BY <1>1, <1>2, <1>4 DEF Becomes

\* One stretch after the other.
LEMMA BecomesJoin ==
    ASSUME NEW S, NEW v \in Seq(S), NEW w \in Seq(S), NEW kinds, NEW a, NEW b, NEW c,
           Becomes(v, kinds, a, b), Becomes(w, kinds, b, c)
    PROVE  Becomes(v \o w, kinds, a, c)
<1>1. PICK f \in [0..Len(v) -> Views] :
          f[0] = a /\ f[Len(v)] = b /\ \A k \in 1..Len(v) : Turns(v[k], kinds, f[k-1], f[k])
  BY DEF Becomes
<1>2. PICK g \in [0..Len(w) -> Views] :
          g[0] = b /\ g[Len(w)] = c /\ \A k \in 1..Len(w) : Turns(w[k], kinds, g[k-1], g[k])
  BY DEF Becomes
<1>3. /\ Len(v) \in Nat /\ Len(w) \in Nat /\ Len(v \o w) = Len(v) + Len(w)
      /\ \A k \in 1..Len(v) + Len(w) :
            (v \o w)[k] = IF k <= Len(v) THEN v[k] ELSE w[k - Len(v)]
  OBVIOUS
<1> DEFINE m == Len(v)
           n == Len(w)
           u == v \o w
           views == [k \in 0..m + n |-> IF k <= m THEN f[k] ELSE g[k - m]]
<1>4. /\ m \in Nat /\ n \in Nat /\ Len(u) = m + n
      /\ \A k \in 1..m + n : u[k] = IF k <= m THEN v[k] ELSE w[k - m]
  BY <1>3
<1>5. f[m] = b /\ g[0] = b /\ g[n] = c /\ f[0] = a /\ f \in [0..m -> Views] /\ g \in [0..n -> Views]
  BY <1>1, <1>2
<1>6. /\ \A k \in 1..m : Turns(v[k], kinds, f[k-1], f[k])
      /\ \A k \in 1..n : Turns(w[k], kinds, g[k-1], g[k])
  BY <1>1, <1>2
<1> HIDE DEF m, n, u
<1>7. views \in [0..m + n -> Views]
  <2> SUFFICES ASSUME NEW k \in 0..m + n
               PROVE  (IF k <= m THEN f[k] ELSE g[k - m]) \in Views
    OBVIOUS
  <2>1. CASE k <= m
    BY <2>1, <1>4, <1>5
  <2>2. CASE ~(k <= m)
    <3>1. k - m \in 0..n
      BY <2>2, <1>4
    <3> QED
      BY <2>2, <3>1, <1>5
  <2> QED
    BY <2>1, <2>2
<1>8. views[0] = a /\ views[m + n] = c
  <2>1. 0 \in 0..m+n /\ m + n \in 0..m+n /\ 0 <= m
    BY <1>4
  <2>2. views[0] = a
    BY <2>1, <1>5
  <2>3. CASE n = 0
    BY <2>1, <2>3, <1>4, <1>5
  <2>4. CASE n # 0
    <3>1. ~(m + n <= m) /\ (m + n) - m = n
      BY <2>4, <1>4
    <3> QED
      BY <2>1, <2>2, <3>1, <1>5
  <2> QED
    BY <2>2, <2>3, <2>4
<1>9. ASSUME NEW k \in 1..m + n
      PROVE  Turns(u[k], kinds, views[k-1], views[k])
  <2>1. k \in 0..m+n /\ k - 1 \in 0..m+n
    BY <1>4
  <2>2. CASE k <= m
    <3>1. views[k] = f[k] /\ views[k-1] = f[k-1] /\ u[k] = v[k] /\ k \in 1..m
      BY <2>1, <2>2, <1>4
    <3> QED
      BY <3>1, <1>6
  <2>3. CASE k = m + 1
    <3>3. ~(k <= m) /\ k - m = 1 /\ k - 1 = m /\ m <= m /\ 1 \in 1..n /\ 1 - 1 = 0
      BY <2>3, <1>4
    <3>1. views[k] = g[1] /\ views[k-1] = b /\ u[k] = w[1]
      BY <2>1, <3>3, <1>4, <1>5
    <3>2. Turns(w[1], kinds, g[1 - 1], g[1])
      BY <3>3, <1>6
    <3> QED
      BY <3>1, <3>2, <3>3, <1>5
  <2>4. CASE ~(k <= m) /\ k # m + 1
    <3>1. ~(k - 1 <= m) /\ (k - 1) - m = (k - m) - 1 /\ k - m \in 1..n
      BY <2>1, <2>4, <1>4
    <3>2. views[k] = g[k - m] /\ views[k-1] = g[(k - m) - 1] /\ u[k] = w[k - m]
      BY <2>1, <2>4, <3>1, <1>4
    <3> QED
      BY <3>1, <3>2, <1>6
  <2> QED
    BY <2>2, <2>3, <2>4, <1>4
<1> HIDE DEF views
<1>10. Becomes(u, kinds, a, c)
  BY <1>4, <1>7, <1>8, <1>9 DEF Becomes
<1> QED
  BY <1>10 DEF u

\* The first event, and the others.
LEMMA BecomesTail ==
    ASSUME NEW S, NEW w \in Seq(S), w # <<>>, NEW kinds, NEW a, NEW b, Becomes(w, kinds, a, b)
    PROVE  /\ a \in Views
           /\ \E c \in Views : Turns(Head(w), kinds, a, c) /\ Becomes(Tail(w), kinds, c, b)
<1>1. PICK f \in [0..Len(w) -> Views] :
          f[0] = a /\ f[Len(w)] = b /\ \A k \in 1..Len(w) : Turns(w[k], kinds, f[k-1], f[k])
  BY DEF Becomes
<1> DEFINE n == Len(w)
           t == Tail(w)
           g == [k \in 0..n - 1 |-> f[k + 1]]
<1>2. /\ n \in Nat \ {0} /\ Len(t) = n - 1 /\ Head(w) = w[1]
      /\ \A k \in 1..n - 1 : t[k] = w[k + 1]
  OBVIOUS
<1>3. /\ f \in [0..n -> Views] /\ f[0] = a /\ f[n] = b
      /\ \A k \in 1..n : Turns(w[k], kinds, f[k-1], f[k])
  BY <1>1
<1> HIDE DEF n, t
<1>4. \A k \in 0..n - 1 : k + 1 \in 0..n
  BY <1>2
<1>5. g \in [0..n - 1 -> Views]
  BY <1>3, <1>4
<1>6. g[0] = f[1] /\ g[n - 1] = b
  <2>1. 0 \in 0..n-1 /\ n - 1 \in 0..n-1 /\ 0 + 1 = 1 /\ (n - 1) + 1 = n
    BY <1>2
  <2> QED
    BY <2>1, <1>3
<1>7. ASSUME NEW k \in 1..n - 1
      PROVE  Turns(t[k], kinds, g[k-1], g[k])
  <2>1. k \in 0..n-1 /\ k - 1 \in 0..n-1 /\ (k - 1) + 1 = (k + 1) - 1 /\ k + 1 \in 1..n
    BY <1>2
  <2>2. g[k-1] = f[(k+1)-1] /\ g[k] = f[k+1] /\ t[k] = w[k+1]
    BY <2>1, <1>2
  <2> QED
    BY <2>1, <2>2, <1>3
<1> HIDE DEF g
<1>8. Becomes(t, kinds, f[1], b)
  BY <1>2, <1>5, <1>6, <1>7 DEF Becomes
<1>9. 1 \in 1..n /\ 1 \in 0..n /\ 0 \in 0..n /\ 1 - 1 = 0
  BY <1>2
<1>10. Turns(w[1], kinds, f[1 - 1], f[1]) /\ f[1] \in Views /\ a \in Views
  BY <1>3, <1>9
<1>11. Turns(Head(w), kinds, a, f[1])
  BY <1>2, <1>3, <1>9, <1>10
<1> QED
  BY <1>8, <1>10, <1>11 DEF t

-----------------------------------------------------------------------------
(* What is rebuilt from an answer, block by block.                         *)

\* The kinds that are looked at.
KindSets == {{"text"}, {"text", "tool"}}

\* What is rebuilt, the messages ms before and k blocks of the answer c.
Sofar(ms, c, k) == ms \o [j \in 1..k |-> Rebuilt(c[j])]

\* What of it is to be seen live.
Reload(ms, c, k, kinds, ty) == Masked(OfKinds(Sofar(ms, c, k), kinds), ty)

\* The message of a block.
LEMMA RebuiltFacts ==
    ASSUME NEW block \in [kind : Kinds, n : Numbers]
    PROVE  /\ Rebuilt(block) \in SeenMessage
           /\ Rebuilt(block).kind = block.kind
           /\ Rebuilt(block).tool \in {None, block.n}
           /\ ~Rebuilt(block).result
           /\ block.kind = "text" => Rebuilt(block) = TextSeen(Whole(block.n))
           /\ block.kind = "tool" => Rebuilt(block) = ToolSeen(block.n)
<1>1. block.n \in Numbers /\ block.n \in Nat /\ block.kind \in {"thinking", "text", "tool", "question"}
  BY StreamAssumption DEF Numbers, Kinds
<1>2. Whole(block.n) \in Seq(Nat) /\ <<>> \in Seq(Nat)
  BY <1>1 DEF Whole
<1> DEFINE r == Rebuilt(block)
<1>3. CASE block.kind \in {"tool", "question"}
  <2>1. r = Seen(block.kind, block.n, <<>>, FALSE)
    BY <1>3 DEF Rebuilt
  <2> HIDE DEF r
  <2>2. r.kind = block.kind /\ r.tool = block.n /\ ~r.result
    BY <2>1 DEF Seen
  <2>3. r \in SeenMessage
    BY <1>1, <1>2, <1>3, <2>1 DEF Seen, SeenMessage
  <2>4. block.kind = "tool" => r = ToolSeen(block.n)
    BY <2>1 DEF ToolSeen
  <2>5. block.kind # "text"
    BY <1>3
  <2> QED
    BY <2>2, <2>3, <2>4, <2>5 DEF r
<1>4. CASE block.kind \in {"text", "thinking"}
  <2>1. r = Seen(block.kind, None, Whole(block.n), FALSE)
    BY <1>4 DEF Rebuilt
  <2> HIDE DEF r
  <2>2. r.kind = block.kind /\ r.tool = None /\ ~r.result
    BY <2>1 DEF Seen
  <2>3. r \in SeenMessage
    BY <1>1, <1>2, <1>4, <2>1 DEF Seen, SeenMessage
  <2>4. block.kind = "text" => r = TextSeen(Whole(block.n))
    BY <2>1 DEF TextSeen
  <2>5. block.kind # "tool"
    BY <1>4
  <2> QED
    BY <2>2, <2>3, <2>4, <2>5 DEF r
<1> QED
  BY <1>1, <1>3, <1>4

\* The numbers and kinds of a text and of a tool that are seen.
LEMMA SeenFacts ==
    ASSUME NEW n \in Numbers, NEW text \in Seq(Nat)
    PROVE  /\ TextSeen(text) \in SeenMessage /\ TextSeen(text).kind = "text"
           /\ TextSeen(text).text = text /\ TextSeen(text).tool = None
           /\ ToolSeen(n) \in SeenMessage /\ ToolSeen(n).kind = "tool" /\ ToolSeen(n).tool = n
           /\ Whole(n) \in Seq(Nat) /\ <<n>> \in Seq(Nat)
<1>1. n \in Nat
  BY StreamAssumption DEF Numbers
<1>2. Whole(n) \in Seq(Nat) /\ <<n>> \in Seq(Nat) /\ <<>> \in Seq(Nat)
  BY <1>1 DEF Whole
<1> QED
  BY <1>2 DEF TextSeen, ToolSeen, Seen, SeenMessage

\* Masked messages are messages, as many, of the same tools.
LEMMA MaskedTyped ==
    ASSUME NEW ms \in Seq(SeenMessage), NEW ty \in BOOLEAN
    PROVE  /\ Masked(ms, ty) \in Seq(SeenMessage)
           /\ Len(Masked(ms, ty)) = Len(ms)
           /\ \A i \in 1..Len(ms) : Masked(ms, ty)[i].tool = ms[i].tool
<1> DEFINE n == Len(ms)
           ns == Masked(ms, ty)
<1>1. n \in Nat /\ DOMAIN ms = 1..n /\ \A i \in 1..n : ms[i] \in SeenMessage
  <2>1. n \in Nat /\ DOMAIN ms = 1..n
    OBVIOUS
  <2>2. \A i \in 1..n : ms[i] \in SeenMessage
    OBVIOUS
  <2> QED
    BY <2>1, <2>2
<1> HIDE DEF n
<1>2. \A m \in SeenMessage : MaskedOne(m, ty) \in SeenMessage /\ MaskedOne(m, ty).tool = m.tool
  BY DEF MaskedOne, SeenMessage
<1>3. ns = [i \in 1..n |-> MaskedOne(ms[i], ty)]
  BY <1>1 DEF Masked
<1>4. \A i \in 1..n : ns[i] \in SeenMessage /\ ns[i].tool = ms[i].tool
  BY <1>1, <1>2, <1>3
<1> HIDE DEF ns
<1>5. ns \in Seq(SeenMessage) /\ Len(ns) = n
  <2>1. ns \in [1..n -> SeenMessage]
    BY <1>3, <1>4
  <2> HIDE DEF SeenMessage
  <2> QED
    BY <1>1, <2>1
<1> QED
  BY <1>4, <1>5 DEF ns, n

\* One block after the other, up to the whole answer.
LEMMA SofarStep ==
    ASSUME NEW S, NEW ms \in Seq(S), NEW c \in Message,
           \A k \in 1..Len(c) : Rebuilt(c[k]) \in S
    PROVE  /\ Sofar(ms, c, 0) = ms
           /\ \A k \in 0..Len(c) : Sofar(ms, c, k) \in Seq(S)
           /\ \A k \in 1..Len(c) : Sofar(ms, c, k) = Append(Sofar(ms, c, k - 1), Rebuilt(c[k]))
           /\ AddEntry(ms, [role |-> "assistant", content |-> c]) = Sofar(ms, c, Len(c))
<1>1. Len(c) \in Nat /\ DOMAIN c = 1..Len(c) /\ Len(ms) \in Nat
  BY DEF Message
<1> DEFINE p(k) == [j \in 1..k |-> Rebuilt(c[j])]
<1>2. ASSUME NEW k \in 0..Len(c)
      PROVE  p(k) \in Seq(S) /\ Len(p(k)) = k /\ \A j \in 1..k : p(k)[j] = Rebuilt(c[j])
  <2>1. k \in Nat /\ \A j \in 1..k : j \in 1..Len(c)
    BY <1>1
  <2>2. p(k) \in [1..k -> S]
    BY <2>1
  <2> QED
    BY <2>1, <2>2
<1>3. Sofar(ms, c, 0) = ms
  <2>1. p(0) = <<>>
    OBVIOUS
  <2> QED
    BY <2>1 DEF Sofar
<1>4. ASSUME NEW k \in 0..Len(c)
      PROVE  Sofar(ms, c, k) \in Seq(S)
  BY <1>2 DEF Sofar
<1>5. ASSUME NEW k \in 1..Len(c)
      PROVE  Sofar(ms, c, k) = Append(Sofar(ms, c, k - 1), Rebuilt(c[k]))
  <2>1. k - 1 \in 0..Len(c) /\ k \in 0..Len(c) /\ k \in Nat
    BY <1>1
  <2> DEFINE q == p(k)
             r == p(k - 1)
             x == Rebuilt(c[k])
  <2>2. q \in Seq(S) /\ Len(q) = k /\ \A j \in 1..k : q[j] = Rebuilt(c[j])
    BY <2>1, <1>2
  <2>3. r \in Seq(S) /\ Len(r) = k - 1 /\ \A j \in 1..k - 1 : r[j] = Rebuilt(c[j])
    BY <2>1, <1>2
  <2>4. x \in S /\ q[k] = x
    BY <2>1, <2>2
  <2> HIDE DEF q, r, x
  <2>5. q = Append(r, x)
    <3>1. \A j \in 1..k : j \in 1..k - 1 \/ j = k
      BY <2>1
    <3>2. Len(Append(r, x)) = k /\ Append(r, x) \in Seq(S)
      BY <2>1, <2>3, <2>4
    <3>3. (\A j \in 1..k - 1 : Append(r, x)[j] = r[j]) /\ Append(r, x)[k] = x
      BY <2>1, <2>3, <2>4
    <3>4. \A j \in 1..k : Append(r, x)[j] = q[j]
      BY <3>1, <3>3, <2>2, <2>3, <2>4
    <3> QED
      BY <3>2, <3>4, <2>1, <2>2
  <2>6. ms \o Append(r, x) = Append(ms \o r, x)
    BY <2>3, <2>4
  <2> QED
    BY <2>5, <2>6 DEF Sofar, q, r, x
<1>6. AddEntry(ms, [role |-> "assistant", content |-> c]) = Sofar(ms, c, Len(c))
  BY <1>1 DEF AddEntry, Sofar
<1> QED
  BY <1>3, <1>4, <1>5, <1>6

\* The blocks of an answer, and what they are rebuilt to.
LEMMA BlocksOf ==
    ASSUME NEW c \in Message
    PROVE  /\ Len(c) \in Nat
           /\ \A k \in 1..Len(c) : /\ c[k] \in [kind : Kinds, n : Numbers]
                                   /\ Rebuilt(c[k]) \in SeenMessage
<1> DEFINE B == [kind : Kinds, n : Numbers]
<1>1. c \in Seq(B)
  BY DEF Message
<1>2. \A b \in B : Rebuilt(b) \in SeenMessage
  BY RebuiltFacts
<1> HIDE DEF B
<1>3. Len(c) \in Nat /\ \A k \in 1..Len(c) : c[k] \in B
  BY <1>1
<1> QED
  BY <1>2, <1>3 DEF B

\* What is to be seen of it, one block after the other.
LEMMA ReloadStep ==
    ASSUME NEW ms \in Seq(SeenMessage), NEW c \in Message, NEW kinds, NEW ty \in BOOLEAN
    PROVE  /\ Reload(ms, c, 0, kinds, ty) = Masked(OfKinds(ms, kinds), ty)
           /\ \A k \in 0..Len(c) : Reload(ms, c, k, kinds, ty) \in Seq(SeenMessage)
           /\ \A k \in 1..Len(c) :
                 Reload(ms, c, k, kinds, ty) = Kept(Reload(ms, c, k - 1, kinds, ty), Rebuilt(c[k]), kinds)
<1>1. /\ Len(c) \in Nat
      /\ \A k \in 1..Len(c) : c[k] \in [kind : Kinds, n : Numbers] /\ Rebuilt(c[k]) \in SeenMessage
  BY BlocksOf
<1>2. /\ Sofar(ms, c, 0) = ms
      /\ \A k \in 0..Len(c) : Sofar(ms, c, k) \in Seq(SeenMessage)
      /\ \A k \in 1..Len(c) : Sofar(ms, c, k) = Append(Sofar(ms, c, k - 1), Rebuilt(c[k]))
  <2>1. \A k \in 1..Len(c) : Rebuilt(c[k]) \in SeenMessage
    BY <1>1
  <2> QED
    BY <2>1, SofarStep, ZenonT(30)
<1>3. ASSUME NEW k \in 0..Len(c)
      PROVE  OfKinds(Sofar(ms, c, k), kinds) \in Seq(SeenMessage)
  BY <1>2, OfKindsTyped
<1>4. ASSUME NEW k \in 1..Len(c)
      PROVE  Reload(ms, c, k, kinds, ty) = Kept(Reload(ms, c, k - 1, kinds, ty), Rebuilt(c[k]), kinds)
  <2> DEFINE s == Sofar(ms, c, k - 1)
             o == OfKinds(s, kinds)
             r == Rebuilt(c[k])
  <2>1. k - 1 \in 0..Len(c)
    BY <1>1
  <2>2. s \in Seq(SeenMessage) /\ r \in SeenMessage /\ Sofar(ms, c, k) = Append(s, r)
    BY <2>1, <1>1, <1>2
  <2>3. o \in Seq(SeenMessage)
    BY <2>1, <1>3
  <2>4. ~r.result
    BY <1>1, RebuiltFacts
  <2> HIDE DEF s, r
  <2>5. OfKinds(Append(s, r), kinds) = Kept(o, r, kinds)
    BY <2>2, OfKindsAppend
  <2> HIDE DEF o
  <2>6. MaskedOne(r, ty) = r
    BY <2>2, <2>4, MaskedSame
  <2>7. Masked(Append(o, r), ty) = Append(Masked(o, ty), MaskedOne(r, ty))
    BY <2>2, <2>3, MaskedAppend
  <2>8. Masked(Kept(o, r, kinds), ty) = Kept(Masked(o, ty), r, kinds)
    BY <2>6, <2>7 DEF Kept
  <2> QED
    BY <2>2, <2>5, <2>8 DEF Reload, s, o, r
<1>5. ASSUME NEW k \in 0..Len(c)
      PROVE  Reload(ms, c, k, kinds, ty) \in Seq(SeenMessage)
  BY <1>3, MaskedTyped DEF Reload
<1> QED
  BY <1>2, <1>4, <1>5 DEF Reload

\* A tool that is neither before nor in these blocks is not seen of them.
LEMMA ReloadTools ==
    ASSUME NEW ms \in Seq(SeenMessage), NEW c \in Message, NEW kinds, NEW ty \in BOOLEAN,
           NEW k \in 0..Len(c), NEW n \in Numbers,
           \A i \in 1..Len(ms) : ms[i].tool # n,
           \A j \in 1..k : c[j].n # n
    PROVE  \A i \in 1..Len(Reload(ms, c, k, kinds, ty)) : Reload(ms, c, k, kinds, ty)[i].tool # n
<1> DEFINE S == {m \in SeenMessage : m.tool # n}
           p == [j \in 1..k |-> Rebuilt(c[j])]
           o == OfKinds(Sofar(ms, c, k), kinds)
<1>1. /\ Len(c) \in Nat /\ k \in Nat
      /\ \A j \in 1..Len(c) : c[j] \in [kind : Kinds, n : Numbers] /\ Rebuilt(c[j]) \in SeenMessage
  BY BlocksOf
<1>2. \A j \in 1..k : Rebuilt(c[j]) \in S
  <2> TAKE j \in 1..k
  <2>1. j \in 1..Len(c) /\ c[j].n # n
    BY <1>1
  <2>2. Rebuilt(c[j]).tool \in {None, c[j].n}
    BY <2>1, <1>1, RebuiltFacts
  <2>3. None # n
    BY StreamAssumption DEF Numbers
  <2> QED
    BY <2>1, <2>2, <2>3, <1>1
<1>3. p \in Seq(S)
  <2>1. p \in [1..k -> S]
    BY <1>2
  <2> HIDE DEF S, p
  <2> QED
    BY <2>1, <1>1
<1>4. ms \in Seq(S)
  <2>1. \A i \in 1..Len(ms) : ms[i] \in SeenMessage
    OBVIOUS
  <2>2. \A i \in 1..Len(ms) : ms[i] \in S
    BY <2>1
  <2> HIDE DEF S
  <2> QED
    BY <2>2
<1>5. Sofar(ms, c, k) \in Seq(S)
  <2> HIDE DEF S, p
  <2>1. ms \o p \in Seq(S)
    BY <1>3, <1>4
  <2> QED
    BY <2>1 DEF Sofar, p
<1>6. o \in Seq(S)
  <2> HIDE DEF S
  <2> QED
    BY <1>5, OfKindsTyped
<1>7. o \in Seq(SeenMessage) /\ \A i \in 1..Len(o) : o[i].tool # n
  <2>1. Len(o) \in Nat /\ \A i \in 1..Len(o) : o[i] \in S
    <3> HIDE DEF S, o
    <3> QED
      BY <1>6
  <2>2. \A i \in 1..Len(o) : o[i] \in SeenMessage /\ o[i].tool # n
    BY <2>1
  <2>3. S \subseteq SeenMessage
    OBVIOUS
  <2> HIDE DEF S, o
  <2>4. o \in Seq(SeenMessage)
    BY <1>6, <2>3
  <2> QED
    BY <2>2, <2>4
<1> HIDE DEF o
<1>8. /\ Len(Masked(o, ty)) = Len(o)
      /\ \A i \in 1..Len(o) : Masked(o, ty)[i].tool = o[i].tool
  BY <1>7, MaskedTyped
<1> QED
  BY <1>7, <1>8 DEF Reload, o

\* Nothing is seen of blocks of other kinds.
LEMMA ReloadSilent ==
    ASSUME NEW ms \in Seq(SeenMessage), NEW c \in Message, NEW kinds, NEW ty \in BOOLEAN,
           \A k \in 1..Len(c) : c[k].kind \notin kinds
    PROVE  Reload(ms, c, Len(c), kinds, ty) = Reload(ms, c, 0, kinds, ty)
<1> DEFINE a(k) == Reload(ms, c, k, kinds, ty)
           G == {k \in Nat : a(k) = a(0)}
<1>1. /\ Len(c) \in Nat
      /\ \A k \in 1..Len(c) : c[k] \in [kind : Kinds, n : Numbers]
  BY BlocksOf
<1>2. ASSUME NEW k \in 1..Len(c), k - 1 \in G
      PROVE  k \in G
  <2>1. a(k) = Kept(a(k - 1), Rebuilt(c[k]), kinds)
    BY ReloadStep
  <2>2. Rebuilt(c[k]).kind \notin kinds
    BY <1>1, RebuiltFacts
  <2>3. a(k) = a(k - 1)
    BY <2>1, <2>2 DEF Kept
  <2>4. a(k - 1) = a(0)
    BY <1>2
  <2> QED
    BY <2>3, <2>4
<1>3. 0 \in G
  OBVIOUS
<1>4. Len(c) \in G
  <2> HIDE DEF G
  <2> QED
    BY <1>1, <1>2, <1>3, UpToN
<1> QED
  BY <1>4

-----------------------------------------------------------------------------
(* The events of a whole message, and what is seen of them.                *)

Calm == {"between", "text"}

\* The sets of kinds that are looked at.
LEMMA KindSetFacts ==
    ASSUME NEW kinds \in KindSets
    PROVE  "text" \in kinds /\ "thinking" \notin kinds /\ "question" \notin kinds
BY DEF KindSets

\* A view's parts.
LEMMA ViewFacts ==
    ASSUME NEW l \in Seq(SeenMessage), NEW mode \in {"between", "begun", "text", "over"}
    PROVE  /\ [list |-> l, mode |-> mode] \in Views
           /\ [list |-> l, mode |-> mode].list = l
           /\ [list |-> l, mode |-> mode].mode = mode
<1> DEFINE L == Seq(SeenMessage)
<1> HIDE DEF L
<1>1. [list |-> l, mode |-> mode] \in [list : L, mode : {"between", "begun", "text", "over"}]
  BY DEF L
<1> QED
  BY <1>1 DEF Views, L

\* The events of a block show what it is rebuilt to.
LEMMA BlockBecomes ==
    ASSUME NEW kinds \in KindSets, NEW block \in [kind : Kinds, n : Numbers],
           NEW a \in Views, a.mode \in Calm,
           \A i \in 1..Len(a.list) : a.list[i].tool # block.n
    PROVE  \E b \in Views : /\ Becomes(BlockEvents(block), kinds, a, b)
                            /\ b.list = Kept(a.list, Rebuilt(block), kinds)
                            /\ b.mode \in Calm
<1>0. /\ "text" \in kinds /\ "thinking" \notin kinds /\ "question" \notin kinds
      /\ block.n \in Numbers /\ block.kind \in Kinds
      /\ Rebuilt(block) \in SeenMessage /\ Rebuilt(block).kind = block.kind
  BY KindSetFacts, RebuiltFacts
<1> DEFINE l == a.list
           r == Rebuilt(block)
<1>1. l \in Seq(SeenMessage) /\ Kept(l, r, kinds) \in Seq(SeenMessage)
  <2>1. l \in Seq(SeenMessage)
    BY DEF Views
  <2> HIDE DEF l, r
  <2>2. r \in SeenMessage
    BY <1>0 DEF r
  <2> QED
    BY <2>1, <2>2 DEF Kept
<1>2. CASE block.kind = "text"
  <2> DEFINE e == Event("init", None, <<>>)
             f == Event("text_delta", None, Whole(block.n))
             m == [list |-> l, mode |-> "begun"]
             b == [list |-> Append(l, r), mode |-> "text"]
  <2>1. e.kind = "init" /\ f.kind = "text_delta" /\ f.text = Whole(block.n)
    BY DEF Event
  <2>2. r = TextSeen(Whole(block.n)) /\ Kept(l, r, kinds) = Append(l, r)
    BY <1>0, <1>2, RebuiltFacts DEF Kept
  <2>3. /\ m \in Views /\ m.list = l /\ m.mode = "begun"
        /\ b \in Views /\ b.list = Append(l, r) /\ b.mode = "text"
    BY <1>1, <2>2, ViewFacts
  <2>4. [a EXCEPT !.mode = "begun"] = m
    BY DEF Views
  <2>5. BlockEvents(block) = <<e, f>>
    BY <1>2 DEF BlockEvents
  <2> HIDE DEF e, f, m
  <2>6. Turns(e, kinds, a, m)
    BY <2>1, <2>4 DEF Turns, Calm
  <2>7. Turns(f, kinds, m, b)
    BY <2>1, <2>2, <2>3 DEF Turns
  <2> HIDE DEF b
  <2>8. Becomes(<<e, f>>, kinds, a, b)
    BY <2>3, <2>6, <2>7, BecomesTwo
  <2> QED
    BY <2>2, <2>3, <2>5, <2>8 DEF Calm
<1>3. CASE block.kind = "thinking"
  <2> DEFINE e == Event("thinking_delta", None, Whole(block.n))
  <2>1. e.kind = "thinking_delta"
    BY DEF Event
  <2>2. BlockEvents(block) = <<e>>
    BY <1>3 DEF BlockEvents
  <2> HIDE DEF e
  <2>3. Turns(e, kinds, a, a)
    BY <2>1 DEF Turns, Calm
  <2>4. Becomes(<<e>>, kinds, a, a)
    BY <2>3, BecomesOne
  <2>5. Kept(l, r, kinds) = a.list
    BY <1>0, <1>3 DEF Kept
  <2> QED
    BY <2>2, <2>4, <2>5
<1>4. CASE block.kind = "tool"
  <2> DEFINE e == Event("tool_start", block.n, <<>>)
             b == [list |-> Kept(l, r, kinds), mode |-> "between"]
  <2>1. e.kind = "tool_start" /\ e.n = block.n
    BY DEF Event
  <2>2. BlockEvents(block) = <<e>>
    BY <1>4 DEF BlockEvents
  <2>3. b \in Views /\ b.list = Kept(l, r, kinds) /\ b.mode = "between"
    BY <1>1, ViewFacts
  <2>4. r = ToolSeen(e.n)
    BY <1>4, <2>1, RebuiltFacts
  <2> HIDE DEF e
  <2>5. Turns(e, kinds, a, b)
    BY <1>0, <2>1, <2>4 DEF Turns, Calm
  <2> HIDE DEF b
  <2>6. Becomes(<<e>>, kinds, a, b)
    BY <2>3, <2>5, BecomesOne
  <2> QED
    BY <2>2, <2>3, <2>6 DEF Calm
<1>5. CASE block.kind = "question"
  <2>1. BlockEvents(block) = <<>>
    BY <1>5 DEF BlockEvents
  <2>2. Becomes(<<>>, kinds, a, a)
    BY BecomesNone
  <2>3. Kept(l, r, kinds) = a.list
    BY <1>0, <1>5 DEF Kept
  <2> QED
    BY <2>1, <2>2, <2>3
<1> QED
  BY <1>0, <1>2, <1>3, <1>4, <1>5 DEF Kinds

\* The events of an answer show it all.
LEMMA AllBecome ==
    ASSUME NEW ms \in Seq(SeenMessage), NEW c \in Message, NEW kinds \in KindSets, NEW ty \in BOOLEAN,
           \A k, l \in 1..Len(c) : k < l => c[k].n < c[l].n,
           \A k \in 1..Len(c), i \in 1..Len(ms) : ms[i].tool # c[k].n,
           NEW a \in Views, a.mode \in Calm, a.list = Reload(ms, c, 0, kinds, ty),
           \A block \in [kind : Kinds, n : Numbers] : BlockEvents(block) \in Seq(WireEvent)
    PROVE  \E b \in Views : /\ Becomes(AllBlockEvents(c), kinds, a, b)
                            /\ b.list = Reload(ms, c, Len(c), kinds, ty)
                            /\ b.mode \in Calm
<1>1. /\ Len(c) \in Nat
      /\ \A k \in 1..Len(c) : c[k] \in [kind : Kinds, n : Numbers]
  BY BlocksOf
<1>2. PICK f : /\ AllBlockEvents(c) = f[Len(c)]
               /\ f[0] = <<>>
               /\ \A k \in 1..Len(c) : f[k] = f[k-1] \o BlockEvents(c[k])
  BY <1>1, AllJoined
<1> DEFINE Fine(k) == /\ f[k] \in Seq(WireEvent)
                      /\ \E b \in Views : /\ Becomes(f[k], kinds, a, b)
                                          /\ b.list = Reload(ms, c, k, kinds, ty)
                                          /\ b.mode \in Calm
           G == {k \in Nat : Fine(k)}
<1>3. 0 \in G
  <2>1. Becomes(<<>>, kinds, a, a) /\ <<>> \in Seq(WireEvent)
    BY BecomesNone
  <2>2. Fine(0)
    BY <1>2, <2>1
  <2> HIDE DEF Fine
  <2> QED
    BY <2>2
<1>4. ASSUME NEW k \in 1..Len(c), k - 1 \in G
      PROVE  k \in G
  <2>1. PICK b \in Views : /\ Becomes(f[k-1], kinds, a, b)
                           /\ b.list = Reload(ms, c, k - 1, kinds, ty)
                           /\ b.mode \in Calm
    BY <1>4
  <2>2. f[k-1] \in Seq(WireEvent)
    BY <1>4
  <2> DEFINE block == c[k]
  <2>3. block \in [kind : Kinds, n : Numbers] /\ block.n \in Numbers
    BY <1>1
  <2>4. \A i \in 1..Len(b.list) : b.list[i].tool # block.n
    <3>1. k - 1 \in 0..Len(c) /\ k \in Nat
      BY <1>1
    <3>2. \A j \in 1..k - 1 : j \in 1..Len(c) /\ j < k
      BY <1>1, <3>1
    <3>3. \A j \in 1..k - 1 : c[j].n # c[k].n
      <4> TAKE j \in 1..k - 1
      <4>1. c[j].n < c[k].n
        BY <3>2
      <4>2. c[j].n \in Nat /\ c[k].n \in Nat
        BY <3>2, <1>1, StreamAssumption DEF Numbers
      <4> QED
        BY <4>1, <4>2
    <3>4. \A i \in 1..Len(ms) : ms[i].tool # c[k].n
      OBVIOUS
    <3> DEFINE n == c[k].n
               j == k - 1
    <3>5. /\ j \in 0..Len(c) /\ n \in Numbers
          /\ \A i \in 1..Len(ms) : ms[i].tool # n
          /\ \A x \in 1..j : c[x].n # n
      BY <2>3, <3>1, <3>3, <3>4
    <3> HIDE DEF n, j
    <3>6. \A i \in 1..Len(Reload(ms, c, j, kinds, ty)) : Reload(ms, c, j, kinds, ty)[i].tool # n
      BY <3>5, ReloadTools
    <3> QED
      BY <2>1, <3>6 DEF n, j
  <2>5. Reload(ms, c, k, kinds, ty) = Kept(b.list, Rebuilt(block), kinds)
    BY <2>1, ReloadStep
  <2> HIDE DEF block
  <2>6. PICK d \in Views : /\ Becomes(BlockEvents(block), kinds, b, d)
                           /\ d.list = Kept(b.list, Rebuilt(block), kinds)
                           /\ d.mode \in Calm
    BY <2>1, <2>3, <2>4, BlockBecomes
  <2>7. BlockEvents(block) \in Seq(WireEvent)
    BY <2>3
  <2>8. f[k] = f[k-1] \o BlockEvents(block)
    BY <1>2 DEF block
  <2>9. f[k] \in Seq(WireEvent) /\ Becomes(f[k], kinds, a, d)
    BY <2>1, <2>2, <2>6, <2>7, <2>8, BecomesJoin
  <2>10. Fine(k)
    BY <2>5, <2>6, <2>9
  <2> HIDE DEF Fine
  <2> QED
    BY <2>10
<1>5. Len(c) \in G
  <2> HIDE DEF G
  <2> QED
    BY <1>1, <1>3, <1>4, UpToN
<1> QED
  BY <1>2, <1>5

-----------------------------------------------------------------------------
(* The view of the agent and that of the page.                             *)

\* What of the record, and of the blocks that were streamed, is to be seen.
ToSee(kinds) == Reload(BuildMessagesFromTranscript, message, at, kinds, typed)

\* The text the agent is in the midst of, as far as it has come.
OpenText == TextSeen(IF open = 1 THEN <<message[at + 1].n>> ELSE Whole(message[at + 1].n))

\* The agent has told v.
AgentSees(kinds, v) ==
    /\ v.list = IF InText /\ open # 0 THEN Append(ToSee(kinds), OpenText) ELSE ToSee(kinds)
    /\ query = "running" => IF InText THEN v.mode = IF open = 0 THEN "begun" ELSE "text"
                            ELSE v.mode \in Calm
    /\ query = "over" => v.mode = "over"

\* A message, and messages, of the page as they are seen.
SeenOne(m) == Seen(m.kind, m.tool, m.text, m.result)
SeenOf(ms) == [i \in DOMAIN ms |-> SeenOne(ms[i])]

\* The messages ms show v: texts and tools, of which the last is the current text if
\* there is one, and where tools are looked at, the results of each will find it.
Shows(kinds, ms, v) ==
    /\ ms \in Seq(PageMessage)
    /\ OfKinds(SeenOf(ms), kinds) = v.list
    /\ \A i \in 1..Len(ms) : \/ ms[i].kind = "text" /\ ms[i].tool = None
                             \/ ms[i].kind = "tool" /\ ms[i].tool \in Numbers
    /\ IF v.mode = "text"
       THEN Len(ms) > 0 /\ ms[Len(ms)].kind = "text" /\ ms[Len(ms)].id = assistant
       ELSE assistant = None
    /\ v.mode # "over" =>
          \A i \in 1..Len(ms) :
             /\ "tool" \in kinds /\ ms[i].kind = "tool" => card[ms[i].tool] = ms[i].id
             /\ \A n \in Numbers : card[n] = ms[i].id => ms[i].kind = "tool" /\ ms[i].tool = n

\* The page shows v: after an init there is an empty bubble besides.
PageSees(kinds, v) ==
    \E ms \in Seq(PageMessage) :
        /\ Shows(kinds, ms, v)
        /\ IF v.mode = "begun"
           THEN \E bubble \in PageMessage :
                   /\ messages = Append(ms, bubble)
                   /\ bubble.kind = "thinking" /\ bubble.text = <<>> /\ bubble.id = thinking
           ELSE messages = ms /\ thinking = None

\* What is on the wire turns what the page shows into what the agent has told.
Joined(kinds) ==
    \E a, b \in Views : PageSees(kinds, a) /\ AgentSees(kinds, b) /\ Becomes(wire, kinds, a, b)

\* The rebuilt messages are of blocks of the record.
SeenOfRecord == {m \in SeenMessage : m.tool \in {None} \cup {b.n : b \in Written}}
BuiltInv == BuildMessagesFromTranscript \in Seq(SeenOfRecord)

\* Cards are of messages there were.
CardInv ==
    /\ card \in [Numbers -> Nat \cup {None}]
    /\ \A n \in Numbers : card[n] # None => card[n] < nextId

\* Unless the query has failed, what is told is shown; tools that are announced
\* twice are not looked at.
RecordInv ==
    /\ StreamInv
    /\ BuiltInv
    /\ CardInv
    /\ query = "over" => message = <<>>
    /\ query # "failed" => Joined({"text"}) /\ (~ToolsDoubled => Joined({"text", "tool"}))

-----------------------------------------------------------------------------
(* Steps of the agent.                                                     *)

\* The agent writes events that turn what it has told into what it has told then.
LEMMA AgentShows ==
    ASSUME AgentInv, NEW kinds, Joined(kinds), NEW es \in Seq(WireEvent), wire' = wire \o es,
           UNCHANGED pageVars,
           \A b \in Views : AgentSees(kinds, b) =>
              \E c \in Views : Becomes(es, kinds, b, c) /\ AgentSees(kinds, c)'
    PROVE  Joined(kinds)'
<1>1. PICK a \in Views, b \in Views :
          PageSees(kinds, a) /\ AgentSees(kinds, b) /\ Becomes(wire, kinds, a, b)
  BY DEF Joined
<1>2. PICK c \in Views : Becomes(es, kinds, b, c) /\ AgentSees(kinds, c)'
  BY <1>1
<1>3. wire \in Seq(WireEvent)
  BY DEF AgentInv
<1>4. Becomes(wire \o es, kinds, a, c)
  BY <1>1, <1>2, <1>3, BecomesJoin
<1>5. Becomes(wire, kinds, a, c)'
  BY <1>4 DEF Becomes
<1>6. PageSees(kinds, a)'
  BY <1>1 DEF PageSees, Shows, pageVars
<1> QED
  BY <1>2, <1>5, <1>6 DEF Joined

\* It writes nothing.
LEMMA AgentRests ==
    ASSUME NEW kinds, Joined(kinds), wire' = wire, UNCHANGED pageVars,
           \A b \in Views : AgentSees(kinds, b) => AgentSees(kinds, b)'
    PROVE  Joined(kinds)'
<1>1. PICK a \in Views, b \in Views :
          PageSees(kinds, a) /\ AgentSees(kinds, b) /\ Becomes(wire, kinds, a, b)
  BY DEF Joined
<1>2. Becomes(wire, kinds, a, b)'
  BY <1>1 DEF Becomes
<1>3. PageSees(kinds, a)'
  BY <1>1 DEF PageSees, Shows, pageVars
<1>4. AgentSees(kinds, b)'
  BY <1>1
<1> QED
  BY <1>2, <1>3, <1>4 DEF Joined

\* The record is rebuilt to the same, as long as it is the same.
LEMMA SameBuilt ==
    ASSUME transcript' = transcript
    PROVE  BuildMessagesFromTranscript' = BuildMessagesFromTranscript
BY DEF BuildMessagesFromTranscript, AddEntry, Rebuilt, Results, Seen, Whole, Range

\* What they are.
LEMMA BuiltTyped ==
    ASSUME BuiltInv
    PROVE  /\ BuildMessagesFromTranscript \in Seq(SeenMessage)
           /\ \A i \in 1..Len(BuildMessagesFromTranscript) :
                 BuildMessagesFromTranscript[i].tool \in {None} \cup {b.n : b \in Written}
<1> DEFINE ms == BuildMessagesFromTranscript
           S == SeenOfRecord
<1>1. ms \in Seq(S)
  BY DEF BuiltInv
<1>2. S \subseteq SeenMessage /\ \A m \in S : m.tool \in {None} \cup {b.n : b \in Written}
  BY DEF SeenOfRecord
<1> HIDE DEF ms, S
<1>3. ms \in Seq(SeenMessage) /\ \A i \in 1..Len(ms) : ms[i] \in S
  BY <1>1, <1>2
<1>4. \A i \in 1..Len(ms) : ms[i].tool \in {None} \cup {b.n : b \in Written}
  BY <1>2, <1>3
<1> QED
  BY <1>3, <1>4 DEF ms

\* A message is begun.
LEMMA NextMessageJoined ==
    ASSUME RecordInv, AgentInv', NEW kinds, Joined(kinds),
           NEW answer \in Contents, NEW used \in 0..MaxBlocks, NextMessage(answer, used)
    PROVE  Joined(kinds)'
<1>0. AgentInv /\ BuiltInv
  BY DEF RecordInv, StreamInv
<1>1. /\ query = "running" /\ message = <<>>
      /\ UNCHANGED <<streamed, typed, at, due, transcript, open, emitted, query, wire>>
      /\ UNCHANGED pageVars
  BY DEF NextMessage, agentVars
<1>2. at = 0 /\ at = Len(message)
  BY <1>0, <1>1 DEF AgentInv
<1>3. open = None /\ ~InText
  BY <1>0, <1>2, NoneOpen
<1>4. ~InText'
  BY <1>1, <1>3 DEF InText
<1>5. message \in Message /\ message' \in Message /\ typed \in BOOLEAN
  BY <1>0 DEF AgentInv
<1> DEFINE ms == BuildMessagesFromTranscript
<1>6. ms' = ms /\ ms \in Seq(SeenMessage)
  BY <1>0, <1>1, SameBuilt, BuiltTyped
<1> HIDE DEF ms
<1>7. /\ Reload(ms, message, 0, kinds, typed) = Masked(OfKinds(ms, kinds), typed)
      /\ Reload(ms, message', 0, kinds, typed) = Masked(OfKinds(ms, kinds), typed)
  BY <1>5, <1>6, ReloadStep
<1>8. ToSee(kinds)' = ToSee(kinds)
  <2>1. ToSee(kinds) = Reload(ms, message, 0, kinds, typed)
    BY <1>2 DEF ToSee, ms
  <2>2. ToSee(kinds)' = Reload(ms', message', 0, kinds, typed)
    BY <1>1, <1>2 DEF ToSee, ms
  <2> QED
    BY <2>1, <2>2, <1>6, <1>7
<1>9. \A b \in Views : AgentSees(kinds, b) => AgentSees(kinds, b)'
  BY <1>1, <1>3, <1>4, <1>8 DEF AgentSees
<1> QED
  BY <1>1, <1>9, AgentRests

\* One event of the agent.
LEMMA AgentSays ==
    ASSUME AgentInv, NEW kinds, Joined(kinds), NEW e \in WireEvent, wire' = wire \o <<e>>,
           UNCHANGED pageVars,
           \A b \in Views : AgentSees(kinds, b) =>
              \E c \in Views : Turns(e, kinds, b, c) /\ AgentSees(kinds, c)'
    PROVE  Joined(kinds)'
<1>1. <<e>> \in Seq(WireEvent)
  OBVIOUS
<1>2. ASSUME NEW b \in Views, AgentSees(kinds, b)
      PROVE  \E c \in Views : Becomes(<<e>>, kinds, b, c) /\ AgentSees(kinds, c)'
  <2>1. PICK c \in Views : Turns(e, kinds, b, c) /\ AgentSees(kinds, c)'
    BY <1>2
  <2>2. Becomes(<<e>>, kinds, b, c)
    BY <2>1, BecomesOne
  <2> QED
    BY <2>1, <2>2
<1> QED
  BY <1>1, <1>2, AgentShows

\* What is to be seen is a sequence of messages.
LEMMA ToSeeTyped ==
    ASSUME AgentInv, BuiltInv, NEW kinds
    PROVE  ToSee(kinds) \in Seq(SeenMessage)
<1>1. at \in 0..Len(message) /\ message \in Message /\ typed \in BOOLEAN
  BY DEF AgentInv
<1>2. BuildMessagesFromTranscript \in Seq(SeenMessage)
  BY BuiltTyped
<1> QED
  BY <1>1, <1>2, ReloadStep DEF ToSee

\* A block begins.
LEMMA BlockStartJoined ==
    ASSUME RecordInv, NEW kinds, Joined(kinds), ProcessBlockStart
    PROVE  Joined(kinds)'
<1>0. AgentInv /\ BuiltInv
  BY DEF RecordInv, StreamInv
<1>1. /\ query = "running" /\ open = None /\ open' = 0
      /\ UNCHANGED <<streamed, typed, message, at, due, transcript, query>> /\ UNCHANGED pageVars
  BY DEF ProcessBlockStart, Streaming, sdkVars
<1>2. ~InText /\ (InText' <=> message[at + 1].kind = "text")
  <2>1. None # 0
    BY StreamAssumption
  <2> QED
    BY <1>1, <2>1 DEF InText
<1>3. ToSee(kinds)' = ToSee(kinds)
  BY <1>1, SameBuilt DEF ToSee
<1>4. CASE message[at + 1].kind = "text"
  <2> DEFINE e == Event("init", None, <<>>)
  <2>1. wire' = wire \o <<e>>
    BY <1>4 DEF ProcessBlockStart, Emit
  <2>2. e \in WireEvent /\ e.kind = "init"
    BY KindsOfEvents DEF Event, WireEvent
  <2> HIDE DEF e
  <2>3. ASSUME NEW b \in Views, AgentSees(kinds, b)
        PROVE  \E c \in Views : Turns(e, kinds, b, c) /\ AgentSees(kinds, c)'
    <3> DEFINE c == [b EXCEPT !.mode = "begun"]
    <3>1. b.list = ToSee(kinds) /\ b.mode \in Calm
      BY <1>1, <1>2, <2>3 DEF AgentSees
    <3>2. c \in Views /\ c.list = b.list /\ c.mode = "begun"
      BY DEF Views
    <3>3. Turns(e, kinds, b, c)
      BY <2>2, <3>1 DEF Turns, Calm
    <3> HIDE DEF c
    <3>4. AgentSees(kinds, c)'
      BY <1>1, <1>2, <1>3, <1>4, <3>1, <3>2 DEF AgentSees
    <3> QED
      BY <3>2, <3>3, <3>4
  <2> QED
    BY <1>0, <1>1, <2>1, <2>2, <2>3, AgentSays
<1>5. CASE message[at + 1].kind # "text"
  <2>1. wire' = wire
    BY <1>5 DEF ProcessBlockStart
  <2>2. \A b \in Views : AgentSees(kinds, b) => AgentSees(kinds, b)'
    BY <1>1, <1>2, <1>3, <1>5 DEF AgentSees
  <2> QED
    BY <1>1, <2>1, <2>2, AgentRests
<1> QED
  BY <1>4, <1>5

\* A chunk of it.
LEMMA BlockDeltaJoined ==
    ASSUME RecordInv, NEW kinds, Joined(kinds), ProcessBlockDelta
    PROVE  Joined(kinds)'
<1>0. AgentInv /\ BuiltInv
  BY DEF RecordInv, StreamInv
<1> DEFINE m == message[at + 1]
<1>1. /\ query = "running" /\ at < Len(message) /\ open \in {0, 1} /\ open' = open + 1
      /\ m.kind = "text" \/ m.kind = "thinking"
      /\ UNCHANGED <<streamed, typed, message, at, due, transcript, query>> /\ UNCHANGED pageVars
  BY DEF ProcessBlockDelta, Streaming, sdkVars
<1>2. m.n \in Nat /\ m.n \in Numbers
  <2>1. at + 1 \in 1..Len(message)
    BY <1>0, <1>1, ToldFacts
  <2>2. message \in Message
    BY <1>0 DEF AgentInv
  <2> QED
    BY <1>0, <1>1, ToldFacts
<1>3. (InText <=> m.kind = "text") /\ (InText' <=> m.kind = "text")
  <2>1. open # None /\ open' # None
    BY <1>1, StreamAssumption
  <2> QED
    BY <1>1, <2>1 DEF InText
<1>4. ToSee(kinds)' = ToSee(kinds) /\ ToSee(kinds) \in Seq(SeenMessage)
  BY <1>0, <1>1, SameBuilt, ToSeeTyped DEF ToSee
<1>5. CASE m.kind = "text"
  <2> DEFINE e == Event("text_delta", None, <<m.n>>)
             s == ToSee(kinds)
             k == m.n
  <2>1. wire' = wire \o <<e>>
    BY <1>5 DEF ProcessBlockDelta, Emit
  <2>2. e \in WireEvent /\ e.kind = "text_delta" /\ e.text = <<k>>
    BY <1>2, KindsOfEvents DEF Event, WireEvent
  <2> HIDE DEF e
  <2>3. /\ OpenText = TextSeen(IF open = 1 THEN <<k>> ELSE Whole(k))
        /\ OpenText' = TextSeen(IF open' = 1 THEN <<k>> ELSE Whole(k))
    BY <1>1 DEF OpenText
  <2>4. TextSeen(<<k>>) \in SeenMessage /\ TextSeen(Whole(k)) \in SeenMessage /\ s \in Seq(SeenMessage)
    <3>1. <<k>> \in Seq(Nat) /\ Whole(k) \in Seq(Nat)
      BY <1>2 DEF Whole
    <3> QED
      BY <1>2, <1>4, <3>1, SeenFacts
  <2> HIDE DEF s, k
  <2>5. ASSUME NEW b \in Views, AgentSees(kinds, b)
        PROVE  \E c \in Views : Turns(e, kinds, b, c) /\ AgentSees(kinds, c)'
    <3>1. CASE open = 0
      <4>1. b.list = s /\ b.mode = "begun"
        BY <1>1, <1>3, <1>5, <2>5, <3>1 DEF AgentSees, s
      <4>2. Append(s, TextSeen(<<k>>)) \in Seq(SeenMessage)
        BY <2>4
      <4>3. PICK c \in Views : /\ c = [list |-> Append(s, TextSeen(<<k>>)), mode |-> "text"]
                              /\ c.list = Append(s, TextSeen(<<k>>)) /\ c.mode = "text"
        BY <4>2, ViewFacts, ZenonT(30)
      <4>4. Turns(e, kinds, b, c)
        BY <2>2, <4>1, <4>3 DEF Turns
      <4>5. open' = 1 /\ InText' /\ query' = "running"
        BY <1>1, <1>3, <1>5, <3>1
      <4>6. OpenText' = TextSeen(<<k>>)
        BY <2>3, <4>5
      <4>7. AgentSees(kinds, c)'
        BY <4>3, <4>5, <4>6, <1>4 DEF AgentSees, s
      <4> QED
        BY <4>3, <4>4, <4>7
    <3>2. CASE open = 1
      <4>1. b.list = Append(s, TextSeen(<<k>>)) /\ b.mode = "text"
        BY <1>1, <1>3, <1>5, <2>3, <2>5, <3>2 DEF AgentSees, s
      <4>2. Append(s, TextSeen(Whole(k))) \in Seq(SeenMessage)
        BY <2>4
      <4>3. PICK c \in Views : /\ c = [list |-> Append(s, TextSeen(Whole(k))), mode |-> "text"]
                              /\ c.list = Append(s, TextSeen(Whole(k))) /\ c.mode = "text"
        BY <4>2, ViewFacts
      <4>4. s \in Seq(SeenMessage) /\ k \in Numbers
        BY <1>2, <2>4 DEF k
      <4>5. Turns(e, kinds, b, c)
        BY <2>2, <4>1, <4>3, <4>4 DEF Turns
      <4>6. open' = 2 /\ InText' /\ query' = "running"
        BY <1>1, <1>3, <1>5, <3>2
      <4>7. OpenText' = TextSeen(Whole(k))
        BY <2>3, <4>6
      <4>8. AgentSees(kinds, c)'
        BY <4>3, <4>6, <4>7, <1>4 DEF AgentSees, s
      <4> QED
        BY <4>3, <4>5, <4>8
    <3> QED
      BY <1>1, <3>1, <3>2
  <2> QED
    BY <1>0, <1>1, <2>1, <2>2, <2>5, AgentSays
<1>6. CASE m.kind = "thinking"
  <2> DEFINE e == Event("thinking_delta", None, <<m.n>>)
  <2>1. wire' = wire \o <<e>>
    BY <1>6 DEF ProcessBlockDelta, Emit
  <2>2. e \in WireEvent /\ e.kind = "thinking_delta"
    BY <1>2, KindsOfEvents DEF Event, WireEvent
  <2> HIDE DEF e
  <2>3. ASSUME NEW b \in Views, AgentSees(kinds, b)
        PROVE  \E c \in Views : Turns(e, kinds, b, c) /\ AgentSees(kinds, c)'
    <3>1. b.list = ToSee(kinds) /\ b.mode \in Calm
      BY <1>1, <1>3, <1>6, <2>3 DEF AgentSees
    <3>2. Turns(e, kinds, b, b)
      BY <2>2, <3>1 DEF Turns, Calm
    <3>3. AgentSees(kinds, b)'
      BY <1>1, <1>3, <1>4, <1>6, <3>1 DEF AgentSees
    <3> QED
      BY <3>2, <3>3
  <2> QED
    BY <1>0, <1>1, <2>1, <2>2, <2>3, AgentSays
<1> QED
  BY <1>1, <1>5, <1>6

\* The tools of the message are none of the record.
LEMMA NewTools ==
    ASSUME AgentInv, BuiltInv
    PROVE  /\ message \in Message /\ Len(message) \in Nat /\ at \in 0..Len(message) /\ typed \in BOOLEAN
           /\ BuildMessagesFromTranscript \in Seq(SeenMessage)
           /\ \A k \in 1..Len(message) : message[k] \in [kind : Kinds, n : Numbers] /\ message[k].n \in Nat
           /\ \A k, l \in 1..Len(message) : k < l => message[k].n < message[l].n
           /\ \A k \in 1..Len(message), i \in 1..Len(BuildMessagesFromTranscript) :
                 BuildMessagesFromTranscript[i].tool # message[k].n
<1> DEFINE ms == BuildMessagesFromTranscript
<1>1. /\ message \in Message /\ at \in 0..Len(message) /\ typed \in BOOLEAN
      /\ \A i \in 1..Len(message), b \in Written : b.n < message[i].n
      /\ \A k, l \in 1..Len(message) : k < l => message[k].n < message[l].n
  BY DEF AgentInv
<1>2. /\ Len(message) \in Nat
      /\ \A k \in 1..Len(message) : message[k] \in [kind : Kinds, n : Numbers] /\ message[k].n \in Nat
  BY BlockFacts
<1>3. /\ ms \in Seq(SeenMessage)
      /\ \A i \in 1..Len(ms) : ms[i].tool \in {None} \cup {b.n : b \in Written}
  BY BuiltTyped
<1> HIDE DEF ms
<1>4. ASSUME NEW k \in 1..Len(message), NEW i \in 1..Len(ms)
      PROVE  ms[i].tool # message[k].n
  <2>1. message[k].n \in Nat
    BY <1>2
  <2>2. CASE ms[i].tool = None
    BY <2>1, <2>2, StreamAssumption
  <2>3. CASE ms[i].tool \in {b.n : b \in Written}
    <3>1. PICK b \in Written : ms[i].tool = b.n
      BY <2>3
    <3>2. b.n < message[k].n
      BY <1>1
    <3>3. b.n # message[k].n
      BY <2>1, <3>2
    <3> QED
      BY <3>1, <3>3
  <2> QED
    BY <2>2, <2>3, <1>3
<1> QED
  BY <1>1, <1>2, <1>3, <1>4 DEF ms

\* A block ends.
LEMMA BlockStopJoined ==
    ASSUME RecordInv, NEW kinds \in KindSets, Joined(kinds), ProcessBlockStop
    PROVE  Joined(kinds)'
<1>0. AgentInv /\ BuiltInv
  BY DEF RecordInv, StreamInv
<1> DEFINE m == message[at + 1]
           ms == BuildMessagesFromTranscript
<1>1. /\ query = "running" /\ at < Len(message)
      /\ open = IF m.kind \in {"text", "thinking"} THEN 2 ELSE 0
      /\ open' = None /\ at' = at + 1
      /\ UNCHANGED <<streamed, typed, message, due, transcript, query>> /\ UNCHANGED pageVars
  BY DEF ProcessBlockStop, Streaming
<1>2. /\ message \in Message /\ Len(message) \in Nat /\ at \in 0..Len(message) /\ typed \in BOOLEAN
      /\ ms \in Seq(SeenMessage)
      /\ \A k \in 1..Len(message) : message[k] \in [kind : Kinds, n : Numbers] /\ message[k].n \in Nat
      /\ \A k, l \in 1..Len(message) : k < l => message[k].n < message[l].n
      /\ \A k \in 1..Len(message), i \in 1..Len(ms) : ms[i].tool # message[k].n
  BY <1>0, NewTools
<1>3. /\ at \in Nat /\ at + 1 \in 1..Len(message) /\ (at + 1) - 1 = at
      /\ \A j \in 1..at : j \in 1..Len(message) /\ j < at + 1
  BY <1>1, <1>2
<1>4. m \in [kind : Kinds, n : Numbers] /\ m.n \in Numbers /\ m.kind \in Kinds
  BY <1>2, <1>3
<1>5. "text" \in kinds /\ "thinking" \notin kinds /\ "question" \notin kinds
  BY KindSetFacts
<1>6. (InText <=> m.kind = "text") /\ ~InText'
  <2>1. open # None
    BY <1>1, StreamAssumption
  <2> QED
    BY <1>1, <2>1 DEF InText
<1>7. ToSee(kinds)' = Kept(ToSee(kinds), Rebuilt(m), kinds) /\ ToSee(kinds) \in Seq(SeenMessage)
  <2>1. Reload(ms, message, at + 1, kinds, typed) =
           Kept(Reload(ms, message, (at + 1) - 1, kinds, typed), Rebuilt(message[at + 1]), kinds)
    <3> DEFINE k == at + 1
    <3>1. k \in 1..Len(message)
      BY <1>3
    <3> HIDE DEF k, ms
    <3>2. Reload(ms, message, k, kinds, typed) =
             Kept(Reload(ms, message, k - 1, kinds, typed), Rebuilt(message[k]), kinds)
      BY <1>2, <3>1, ReloadStep
    <3> QED
      BY <3>2 DEF k
  <2>2. ToSee(kinds)' = Reload(ms, message, at + 1, kinds, typed)
    BY <1>1, SameBuilt DEF ToSee
  <2> QED
    BY <2>1, <2>2, <1>0, <1>3, ToSeeTyped DEF ToSee
<1>8. Rebuilt(m) \in SeenMessage /\ Rebuilt(m).kind = m.kind
  BY <1>4, RebuiltFacts
<1> DEFINE r == Rebuilt(m)
           s == ToSee(kinds)
<1>9. CASE m.kind = "text"
  <2>1. wire' = wire
    BY <1>9 DEF ProcessBlockStop
  <2>2. r = TextSeen(Whole(m.n))
    BY <1>4, <1>9, RebuiltFacts
  <2>3. s' = Append(s, OpenText)
    <3>1. open # 1
      BY <1>1, <1>9
    <3> QED
      BY <1>5, <1>7, <1>8, <1>9, <2>2, <3>1 DEF Kept, OpenText
  <2>4. open # 0
    BY <1>1, <1>9
  <2> HIDE DEF s
  <2>5. \A b \in Views : AgentSees(kinds, b) => AgentSees(kinds, b)'
    BY <1>1, <1>6, <1>9, <2>3, <2>4 DEF AgentSees, s, Calm
  <2> QED
    BY <1>1, <2>1, <2>5, AgentRests
<1>10. CASE m.kind \in {"thinking", "question"}
  <2>1. wire' = wire
    BY <1>10 DEF ProcessBlockStop
  <2>2. s' = s
    BY <1>5, <1>7, <1>8, <1>10 DEF Kept
  <2> HIDE DEF s
  <2>3. \A b \in Views : AgentSees(kinds, b) => AgentSees(kinds, b)'
    BY <1>1, <1>6, <1>10, <2>2 DEF AgentSees, s
  <2> QED
    BY <1>1, <2>1, <2>3, AgentRests
<1>11. CASE m.kind = "tool"
  <2> DEFINE e == Event("tool_start", m.n, <<>>)
  <2>1. wire' = wire \o <<e>>
    BY <1>11 DEF ProcessBlockStop, Emit
  <2>2. e \in WireEvent /\ e.kind = "tool_start" /\ e.n = m.n
    BY <1>4, KindsOfEvents DEF Event, WireEvent
  <2>3. r = ToolSeen(m.n)
    BY <1>4, <1>11, RebuiltFacts
  <2>4. \A i \in 1..Len(s) : s[i].tool # m.n
    <3> DEFINE n == m.n
    <3>1. \A j \in 1..at : message[j].n # n
      <4> TAKE j \in 1..at
      <4>1. message[j].n < message[at + 1].n /\ message[j].n \in Nat /\ message[at + 1].n \in Nat
        BY <1>2, <1>3
      <4> QED
        BY <4>1
    <3>2. n \in Numbers /\ \A i \in 1..Len(ms) : ms[i].tool # n
      BY <1>2, <1>3, <1>4
    <3> HIDE DEF n, ms
    <3>3. \A i \in 1..Len(Reload(ms, message, at, kinds, typed)) :
             Reload(ms, message, at, kinds, typed)[i].tool # n
      BY <1>2, <3>1, <3>2, ReloadTools
    <3> QED
      BY <3>3 DEF ToSee, n, ms
  <2> HIDE DEF e
  <2>5. ASSUME NEW b \in Views, AgentSees(kinds, b)
        PROVE  \E c \in Views : Turns(e, kinds, b, c) /\ AgentSees(kinds, c)'
    <3>1. b.list = s /\ b.mode \in Calm
      BY <1>1, <1>6, <1>11, <2>5 DEF AgentSees
    <3> HIDE DEF s, r
    <3>2. Kept(s, r, kinds) \in Seq(SeenMessage)
      BY <1>7, <1>8 DEF Kept, s, r
    <3>3. PICK c \in Views : /\ c = [list |-> Kept(s, r, kinds), mode |-> "between"]
                             /\ c.list = Kept(s, r, kinds) /\ c.mode = "between"
      BY <3>2, ViewFacts, ZenonT(30)
    <3>4. Turns(e, kinds, b, c)
      BY <1>4, <2>2, <2>3, <2>4, <3>1, <3>3 DEF Turns, Calm
    <3>5. AgentSees(kinds, c)'
      BY <1>1, <1>6, <1>7, <3>3 DEF AgentSees, Calm, s, r
    <3> QED
      BY <3>4, <3>5
  <2> QED
    BY <1>0, <1>1, <2>1, <2>2, <2>5, AgentSays
<1> QED
  BY <1>4, <1>9, <1>10, <1>11 DEF Kinds

\* One entry more of the record is one entry more to rebuild.
LEMMA RecordGrows ==
    ASSUME transcript \in Seq(Record), NEW r \in Record, transcript' = Append(transcript, r)
    PROVE  BuildMessagesFromTranscript' = AddEntry(BuildMessagesFromTranscript, r)
<1>1. BuildMessagesFromTranscript = Built(transcript)
  BY DEF BuildMessagesFromTranscript, Built
<1>2. BuildMessagesFromTranscript' = Built(transcript')
  BY DEF BuildMessagesFromTranscript, Built, AddEntry, Rebuilt, Results, Seen, Whole, Range
<1>3. Built(Append(transcript, r)) = AddEntry(Built(transcript), r)
  <2> HIDE DEF Record
  <2> QED
    BY BuiltAppend
<1> QED
  BY <1>1, <1>2, <1>3

\* Events of a block are events.
LEMMA BlockEventsTyped ==
    ASSUME NEW block \in [kind : Kinds, n : Numbers]
    PROVE  BlockEvents(block) \in Seq(WireEvent)
<1>1. block.n \in Numbers /\ block.n \in Nat /\ block.kind \in {"thinking", "text", "tool", "question"}
  BY StreamAssumption DEF Numbers, Kinds
<1>2. Whole(block.n) \in Seq(Nat) /\ <<>> \in Seq(Nat)
  BY <1>1 DEF Whole
<1>3. CASE block.kind = "text"
  <2> DEFINE e == Event("init", None, <<>>)
             f == Event("text_delta", None, Whole(block.n))
  <2>1. e \in WireEvent /\ f \in WireEvent
    BY <1>2, KindsOfEvents DEF Event, WireEvent
  <2>2. BlockEvents(block) = <<e, f>>
    BY <1>3 DEF BlockEvents
  <2> HIDE DEF e, f
  <2> QED
    BY <2>1, <2>2
<1>4. CASE block.kind = "thinking"
  <2> DEFINE e == Event("thinking_delta", None, Whole(block.n))
  <2>1. e \in WireEvent
    BY <1>2, KindsOfEvents DEF Event, WireEvent
  <2>2. BlockEvents(block) = <<e>>
    BY <1>4 DEF BlockEvents
  <2> HIDE DEF e
  <2> QED
    BY <2>1, <2>2
<1>5. CASE block.kind = "tool"
  <2> DEFINE e == Event("tool_start", block.n, <<>>)
  <2>1. e \in WireEvent
    BY <1>1, <1>2, KindsOfEvents DEF Event, WireEvent
  <2>2. BlockEvents(block) = <<e>>
    BY <1>5 DEF BlockEvents
  <2> HIDE DEF e
  <2> QED
    BY <2>1, <2>2
<1>6. CASE block.kind = "question"
  <2>1. BlockEvents(block) = <<>>
    BY <1>6 DEF BlockEvents
  <2> QED
    BY <2>1
<1> QED
  BY <1>1, <1>3, <1>4, <1>5, <1>6

\* So are those of an answer.
LEMMA AllEventsTyped ==
    ASSUME NEW c \in Message
    PROVE  AllBlockEvents(c) \in Seq(WireEvent)
<1>1. Len(c) \in Nat /\ \A k \in 1..Len(c) : c[k] \in [kind : Kinds, n : Numbers]
  BY BlocksOf
<1>2. PICK f : /\ AllBlockEvents(c) = f[Len(c)]
               /\ f[0] = <<>>
               /\ \A k \in 1..Len(c) : f[k] = f[k-1] \o BlockEvents(c[k])
  BY <1>1, AllJoined
<1> DEFINE G == {k \in Nat : f[k] \in Seq(WireEvent)}
<1>3. 0 \in G
  <2>1. <<>> \in Seq(WireEvent)
    OBVIOUS
  <2>2. f[0] \in Seq(WireEvent)
    BY <1>2, <2>1
  <2> QED
    BY <2>2
<1>4. ASSUME NEW k \in 1..Len(c), k - 1 \in G
      PROVE  k \in G
  <2>1. BlockEvents(c[k]) \in Seq(WireEvent)
    BY <1>1, BlockEventsTyped
  <2>2. f[k-1] \in Seq(WireEvent) /\ k \in Nat
    BY <1>4
  <2> DEFINE v == f[k-1]
             w == BlockEvents(c[k])
  <2>3. f[k] = v \o w
    BY <1>2
  <2> HIDE DEF v, w
  <2>4. f[k] \in Seq(WireEvent)
    BY <2>1, <2>2, <2>3 DEF v, w
  <2> QED
    BY <2>2, <2>4
<1>5. Len(c) \in G
  <2> HIDE DEF G
  <2> QED
    BY <1>1, <1>3, <1>4, UpToN
<1> QED
  BY <1>2, <1>5

\* An answer is an entry of the record.
LEMMA AnswerRecord ==
    ASSUME AgentInv
    PROVE  [role |-> "assistant", content |-> message] \in Record
<1>1. /\ message \in Message /\ Len(message) \in Nat
      /\ \A i \in 1..Len(message) : message[i] \in [kind : Kinds, n : Numbers]
  BY BlockFacts DEF AgentInv
<1>2. \A i \in 1..Len(message) : message[i] \in Blocks
  BY <1>1 DEF Blocks
<1>3. message \in [1..Len(message) -> Blocks]
  BY <1>1, <1>2 DEF Message
<1>4. message \in Seq(Blocks)
  BY <1>1, <1>3
<1> QED
  BY <1>4 DEF Record

\* So is a result.
LEMMA ResultRecord ==
    ASSUME AgentInv, NEW block \in due
    PROVE  [role |-> "user", content |-> <<[kind |-> "result", n |-> block.n]>>] \in Record
<1> DEFINE rb == [kind |-> "result", n |-> block.n]
<1>1. block.n \in Numbers
  BY DEF AgentInv, Tools
<1>2. rb \in Blocks
  BY <1>1 DEF Blocks
<1> HIDE DEF rb
<1>3. <<rb>> \in Seq(Blocks)
  BY <1>2
<1>4. [role |-> "user", content |-> <<rb>>] \in Record
  BY <1>3 DEF Record
<1> QED
  BY <1>4 DEF rb

\* A tool of a message that was streamed, where there is no text yet, is announced
\* twice.
LEMMA Doubled ==
    ASSUME AgentInv, ProcessAssistantEvent, streamed, ~emitted,
           NEW k \in 1..Len(message), message[k].kind = "tool"
    PROVE  ToolsDoubled'
<1>1. /\ transcript' = Append(transcript, [role |-> "assistant", content |-> message])
      /\ at = Len(message) /\ streamed'
  BY DEF ProcessAssistantEvent
<1> DEFINE r == [role |-> "assistant", content |-> message]
<1>2. /\ Written \subseteq Blocks /\ Len(message) \in Nat /\ DOMAIN message = 1..Len(message)
      /\ Range(message) = {message[i] : i \in 1..Len(message)}
      /\ \A i \in 1..Len(message) : message[i] \in [kind : Kinds, n : Numbers]
  BY BlockFacts
<1>3. r \in Record
  BY AnswerRecord
<1>4. transcript \in Seq(Record)
  BY DEF AgentInv
<1>5. /\ Len(transcript) \in Nat /\ DOMAIN transcript' = 1..Len(transcript) + 1
      /\ transcript'[Len(transcript) + 1] = r
  <2> HIDE DEF r, Record
  <2>1. transcript' = Append(transcript, r)
    BY <1>1 DEF r
  <2> QED
    BY <1>3, <1>4, <2>1
<1>6. r.content = message
  OBVIOUS
<1>7. Written' = Written \cup Range(message)
  <2>1. transcript' = Append(transcript, r)
    BY <1>1
  <2> HIDE DEF r
  <2>2. Written' = Written \cup Range(r.content)
    BY <1>3, <1>4, <2>1, WrittenAppend
  <2> QED
    BY <2>2, <1>6
<1>8. \A b \in Written' : b.kind # "text"
  <2>1. TextsIn(Written) = {} /\ TextsTo(message, at) = {}
    BY DEF AgentInv, Told
  <2>2. \A b \in Written : b.kind # "text"
    BY <2>1 DEF TextsIn
  <2>3. \A i \in 1..Len(message) : message[i].kind # "text"
    BY <2>1, <1>1 DEF TextsTo
  <2>4. \A b \in Range(message) : b.kind # "text"
    BY <2>3, <1>2
  <2> QED
    BY <2>2, <2>4, <1>7
<1> DEFINE n == Len(transcript) + 1
<1>9. n \in DOMAIN transcript' /\ n \in Nat /\ n = Len(transcript) + 1
  BY <1>5
<1> HIDE DEF n, r
<1>10. \E b \in Range(transcript'[n].content) : b.kind = "tool"
  <2>1. message[k] \in Range(message)
    BY <1>2
  <2> QED
    BY <2>1, <1>5, <1>6, <1>9
<1>11. \A j \in 1..n : ~\E b \in Range(transcript'[j].content) : b.kind = "text"
  <2> SUFFICES ASSUME NEW j \in 1..n, NEW b \in Range(transcript'[j].content)
               PROVE  b.kind # "text"
    OBVIOUS
  <2>1. j \in DOMAIN transcript'
    BY <1>5, <1>9
  <2>2. b \in Written'
    BY <2>1 DEF Written
  <2> QED
    BY <2>2, <1>8
<1> QED
  BY <1>1, <1>9, <1>10, <1>11 DEF ToolsDoubled, Has

\* After an answer, what is to be seen is what it is rebuilt to.
LEMMA AnswerSeen ==
    ASSUME AgentInv, BuiltInv, ProcessAssistantEvent, NEW kinds
    PROVE  /\ BuildMessagesFromTranscript' = Sofar(BuildMessagesFromTranscript, message, Len(message))
           /\ ToSee(kinds)' = Reload(BuildMessagesFromTranscript, message, Len(message), kinds, typed)
<1> DEFINE ms == BuildMessagesFromTranscript
           c == message
           r == [role |-> "assistant", content |-> c]
<1>1. /\ transcript' = Append(transcript, r) /\ message' = <<>> /\ at' = 0 /\ typed' = typed
      /\ transcript \in Seq(Record)
  BY DEF ProcessAssistantEvent, AgentInv
<1>2. c \in Message /\ Len(c) \in Nat /\ typed \in BOOLEAN /\ ms \in Seq(SeenMessage)
  BY NewTools
<1>3. \A k \in 1..Len(c) : c[k] \in [kind : Kinds, n : Numbers] /\ Rebuilt(c[k]) \in SeenMessage
  BY <1>2, BlocksOf
<1>4. r \in Record
  BY AnswerRecord
<1>5. ms' = AddEntry(ms, r)
  <2> HIDE DEF r
  <2> QED
    BY <1>1, <1>4, RecordGrows
<1>6. ms' = Sofar(ms, c, Len(c)) /\ ms' \in Seq(SeenMessage)
  <2>1. \A k \in 1..Len(c) : Rebuilt(c[k]) \in SeenMessage
    BY <1>3
  <2> DEFINE n == Len(c)
  <2>2. /\ n \in 0..Len(c)
        /\ ms' = AddEntry(ms, [role |-> "assistant", content |-> c])
    BY <1>2, <1>5
  <2> HIDE DEF ms, c
  <2>3. /\ \A k \in 0..Len(c) : Sofar(ms, c, k) \in Seq(SeenMessage)
        /\ AddEntry(ms, [role |-> "assistant", content |-> c]) = Sofar(ms, c, Len(c))
    BY <1>2, <2>1, SofarStep
  <2> QED
    BY <2>2, <2>3
<1> DEFINE ns == ms'
           e == <<>>
<1>7. e \in Message /\ Len(e) = 0
  BY DEF Message
<1>8. ToSee(kinds)' = Reload(ns, e, 0, kinds, typed)
  BY <1>1 DEF ToSee
<1>9. ns \in Seq(SeenMessage) /\ ns = Sofar(ms, c, Len(c))
  BY <1>6
<1> HIDE DEF ns, e, ms, c
<1>10. Reload(ns, e, 0, kinds, typed) = Masked(OfKinds(ns, kinds), typed)
  BY <1>2, <1>7, <1>9, ReloadStep
<1>11. ToSee(kinds)' = Reload(ms, c, Len(c), kinds, typed)
  BY <1>8, <1>9, <1>10 DEF Reload
<1> QED
  BY <1>6, <1>11 DEF ms, c

\* An answer is written, or has been told block by block.
LEMMA AssistantEventJoined ==
    ASSUME RecordInv, NEW kinds \in KindSets, Joined(kinds), ProcessAssistantEvent,
           "tool" \in kinds => ~ToolsDoubled'
    PROVE  Joined(kinds)'
<1>0. AgentInv /\ BuiltInv
  BY DEF RecordInv, StreamInv
<1> DEFINE ms == BuildMessagesFromTranscript
           c == message
<1>1. /\ query = "running" /\ query' = "running"
      /\ streamed => at = Len(c)
      /\ wire' = wire \o ContentEvents(c)
      /\ open' = open /\ UNCHANGED pageVars
  BY DEF ProcessAssistantEvent, Emit, agentVars
<1>2. /\ c \in Message /\ Len(c) \in Nat /\ typed \in BOOLEAN
      /\ ms \in Seq(SeenMessage)
      /\ \A k \in 1..Len(c) : c[k] \in [kind : Kinds, n : Numbers]
      /\ \A k, l \in 1..Len(c) : k < l => c[k].n < c[l].n
      /\ \A k \in 1..Len(c), i \in 1..Len(ms) : ms[i].tool # c[k].n
  BY <1>0, NewTools
<1>3. open = None /\ ~InText /\ ~InText'
  <2>1. CASE streamed
    <3>1. open = None /\ ~InText
      BY <1>0, <1>1, <2>1, NoneOpen
    <3> QED
      BY <1>1, <3>1 DEF InText
  <2>2. CASE ~streamed
    <3>1. open = None
      BY <1>0, <2>2 DEF AgentInv
    <3> QED
      BY <1>1, <3>1 DEF InText
  <2> QED
    BY <2>1, <2>2
<1>4. ToSee(kinds)' = Reload(ms, c, Len(c), kinds, typed)
  BY <1>0, AnswerSeen
<1>5. ToSee(kinds) = Reload(ms, c, at, kinds, typed)
  BY DEF ToSee
<1>6. CASE emitted
  <2>1. ContentEvents(c) = <<>> /\ at = Len(c)
    BY <1>0, <1>1, <1>6 DEF ContentEvents, AgentInv
  <2>2. wire' = wire
    <3>1. wire \in Seq(WireEvent)
      BY <1>0 DEF AgentInv
    <3> HIDE DEF c
    <3> QED
      BY <1>1, <2>1, <3>1
  <2>3. ToSee(kinds)' = ToSee(kinds)
    BY <1>4, <1>5, <2>1
  <2>4. \A b \in Views : AgentSees(kinds, b) => AgentSees(kinds, b)'
    BY <1>1, <1>3, <2>3 DEF AgentSees
  <2> QED
    BY <1>1, <2>2, <2>4, AgentRests
<1>7. CASE ~emitted
  <2> DEFINE es == AllBlockEvents(c)
  <2>1. es \in Seq(WireEvent) /\ wire' = wire \o es
    BY <1>1, <1>2, <1>7, AllEventsTyped DEF ContentEvents
  <2>2. ToSee(kinds) = Reload(ms, c, 0, kinds, typed)
    <3>1. CASE ~streamed
      BY <1>0, <1>5, <3>1 DEF AgentInv
    <3>2. CASE streamed
      <4>1. at = Len(c)
        BY <1>1, <3>2
      <4>2. \A k \in 1..Len(c) : c[k].kind # "text"
        <5>1. TextsTo(c, at) = {}
          BY <1>0, <1>7, <3>2 DEF AgentInv, Told
        <5> QED
          BY <4>1, <5>1 DEF TextsTo
      <4>3. \A k \in 1..Len(c) : c[k].kind = "tool" => "tool" \notin kinds
        BY <1>0, <1>7, <3>2, Doubled
      <4>4. \A k \in 1..Len(c) : c[k].kind \notin kinds
        BY <4>2, <4>3 DEF KindSets
      <4> HIDE DEF ms, c
      <4>5. Reload(ms, c, Len(c), kinds, typed) = Reload(ms, c, 0, kinds, typed)
        BY <1>2, <4>4, ReloadSilent
      <4> QED
        BY <1>5, <4>1, <4>5
    <3> QED
      BY <3>1, <3>2
  <2>3. \A block \in [kind : Kinds, n : Numbers] : BlockEvents(block) \in Seq(WireEvent)
    BY BlockEventsTyped
  <2>4. ASSUME NEW b \in Views, AgentSees(kinds, b)
        PROVE  \E d \in Views : Becomes(es, kinds, b, d) /\ AgentSees(kinds, d)'
    <3>1. b.list = Reload(ms, c, 0, kinds, typed) /\ b.mode \in Calm
      BY <1>1, <1>3, <2>2, <2>4 DEF AgentSees
    <3> HIDE DEF ms, c, es
    <3>2. PICK d \in Views : /\ Becomes(AllBlockEvents(c), kinds, b, d)
                             /\ d.list = Reload(ms, c, Len(c), kinds, typed)
                             /\ d.mode \in Calm
      BY SMTT(30), <1>2, <2>3, <3>1, AllBecome
    <3>3. AgentSees(kinds, d)'
      BY <1>1, <1>3, <1>4, <3>2 DEF AgentSees
    <3> QED
      BY <3>2, <3>3 DEF es
  <2> HIDE DEF es
  <2> QED
    BY <1>0, <1>1, <2>1, <2>4, AgentShows
<1> QED
  BY <1>6, <1>7

\* Messages with results are messages, as many, of the same tools.
LEMMA ResultsTyped ==
    ASSUME NEW ms \in Seq(SeenMessage), NEW N
    PROVE  /\ WithResults(ms, N) \in Seq(SeenMessage)
           /\ Len(WithResults(ms, N)) = Len(ms) /\ Len(ms) \in Nat
           /\ \A i \in 1..Len(ms) : /\ ms[i] \in SeenMessage
                                    /\ WithResults(ms, N)[i] = Completed(ms[i], N)
                                    /\ Completed(ms[i], N) \in SeenMessage
                                    /\ Completed(ms[i], N).tool = ms[i].tool
                                    /\ Completed(ms[i], N).kind = ms[i].kind
<1> DEFINE n == Len(ms)
           ns == WithResults(ms, N)
           S == SeenMessage
<1>1. \A m \in S : /\ Completed(m, N) \in S
                   /\ Completed(m, N).tool = m.tool /\ Completed(m, N).kind = m.kind
  BY DEF Completed, SeenMessage
<1> HIDE DEF S
<1>2. n \in Nat /\ DOMAIN ms = 1..n /\ \A i \in 1..n : ms[i] \in S
  BY DEF S
<1> HIDE DEF n
<1>3. ns = [i \in 1..n |-> Completed(ms[i], N)]
  BY <1>2 DEF WithResults
<1>4. \A i \in 1..n : ns[i] = Completed(ms[i], N) /\ ns[i] \in S
  BY <1>1, <1>2, <1>3
<1>5. ns \in [1..n -> S]
  BY <1>3, <1>4
<1> HIDE DEF ns
<1>6. ns \in Seq(S) /\ Len(ns) = n
  BY <1>2, <1>5
<1> QED
  BY <1>1, <1>2, <1>4, <1>6 DEF n, ns, S

\* A question is asked.
LEMMA AskUserQuestionJoined ==
    ASSUME RecordInv, NEW kinds, Joined(kinds), NEW block \in due, AskUserQuestion(block)
    PROVE  Joined(kinds)'
<1>0. AgentInv /\ BuiltInv
  BY DEF RecordInv, StreamInv
<1> DEFINE e == Event("ask_user_question", block.n, <<>>)
<1>1. /\ query = "running" /\ wire' = wire \o <<e>>
      /\ UNCHANGED <<streamed, typed, message, at, transcript, open, emitted, query>>
      /\ UNCHANGED pageVars
  BY DEF AskUserQuestion, Emit, agentVars
<1>2. block.n \in Numbers /\ ~InText /\ ~InText'
  <2>1. block \in Tools /\ ~InText
    BY <1>0, WhileToolsRun DEF AgentInv
  <2> QED
    BY <1>1, <2>1 DEF Tools, InText
<1>3. e \in WireEvent /\ e.kind = "ask_user_question"
  BY <1>2, KindsOfEvents DEF Event, WireEvent
<1> HIDE DEF e
<1>4. ToSee(kinds)' = ToSee(kinds)
  BY <1>1, SameBuilt DEF ToSee
<1>5. ASSUME NEW b \in Views, AgentSees(kinds, b)
      PROVE  \E c \in Views : Turns(e, kinds, b, c) /\ AgentSees(kinds, c)'
  <2> DEFINE c == [b EXCEPT !.mode = "between"]
  <2>1. b.list = ToSee(kinds) /\ b.mode \in Calm
    BY <1>1, <1>2, <1>5 DEF AgentSees
  <2>2. c \in Views /\ c.list = b.list /\ c.mode = "between"
    BY DEF Views
  <2>3. Turns(e, kinds, b, c)
    BY <1>3, <2>1 DEF Turns, Calm
  <2> HIDE DEF c
  <2>4. AgentSees(kinds, c)'
    BY <1>1, <1>2, <1>4, <2>1, <2>2 DEF AgentSees, Calm
  <2> QED
    BY <2>2, <2>3, <2>4
<1> QED
  BY <1>0, <1>1, <1>3, <1>5, AgentSays

\* The result of a tool, on record.
LEMMA ResultSeen ==
    ASSUME AgentInv, BuiltInv, NEW block \in due, ProcessUserEvent(block), NEW kinds
    PROVE  /\ BuildMessagesFromTranscript' = WithResults(BuildMessagesFromTranscript, {block.n})
           /\ typed => ToSee(kinds)' = WithResults(ToSee(kinds), {block.n})
           /\ ~typed => ToSee(kinds)' = ToSee(kinds)
<1> DEFINE ms == BuildMessagesFromTranscript
           N == {block.n}
           rb == [kind |-> "result", n |-> block.n]
           r == [role |-> "user", content |-> <<rb>>]
<1>1. /\ transcript' = Append(transcript, r) /\ transcript \in Seq(Record)
      /\ UNCHANGED <<typed, message, at>>
  BY DEF ProcessUserEvent, AgentInv
<1>2. /\ ms \in Seq(SeenMessage) /\ typed \in BOOLEAN /\ message \in Message
      /\ message = <<>> /\ at = 0
  BY NewTools, WhileToolsRun
<1>3. rb.kind = "result" /\ rb.n = block.n /\ r.content = <<rb>> /\ r.role = "user"
  OBVIOUS
<1>5. r \in Record
  BY ResultRecord
<1> HIDE DEF rb
<1>6. Results(<<rb>>) = N
  <2>1. DOMAIN <<rb>> = {1} /\ <<rb>>[1] = rb
    OBVIOUS
  <2>2. Range(<<rb>>) = {rb}
    BY <2>1 DEF Range
  <2> QED
    BY <1>3, <2>2 DEF Results
<1> HIDE DEF r
<1>7. ms' = AddEntry(ms, r)
  BY <1>1, <1>5, RecordGrows
<1>8. AddEntry(ms, r) = WithResults(ms, N)
  BY <1>3, <1>6 DEF AddEntry, WithResults, Completed
<1> DEFINE ns == ms'
           o == OfKinds(ms, kinds)
<1>9. ns = WithResults(ms, N)
  BY <1>7, <1>8
<1>10. /\ ns \in Seq(SeenMessage) /\ Len(ns) = Len(ms)
       /\ \A i \in 1..Len(ms) : ns[i].kind = ms[i].kind /\ ns[i] = Completed(ms[i], N)
  <2> HIDE DEF ns, N, ms
  <2> QED
    BY <1>2, <1>9, ResultsTyped
<1>11. OfKinds(ns, kinds) = WithResults(o, N) /\ o \in Seq(SeenMessage)
  <2> HIDE DEF ns, N, ms
  <2> QED
    BY <1>2, <1>10, OfKindsResults, OfKindsTyped
<1> HIDE DEF o, ns, N
<1>12. /\ Masked(WithResults(o, N), TRUE) = WithResults(Masked(o, TRUE), N)
       /\ Masked(WithResults(o, N), FALSE) = Masked(o, FALSE)
  BY <1>11, MaskedResults
<1>13. ToSee(kinds)' = Masked(OfKinds(ns, kinds), typed)
  <2>1. ToSee(kinds)' = Reload(ns, message, 0, kinds, typed)
    BY <1>1, <1>2 DEF ToSee, ns
  <2> QED
    BY <1>2, <1>10, <2>1, ReloadStep
<1>14. ToSee(kinds) = Masked(o, typed)
  <2> HIDE DEF ms
  <2>1. ToSee(kinds) = Reload(ms, message, 0, kinds, typed)
    BY <1>2 DEF ToSee, ms
  <2> QED
    BY <1>2, <2>1, ReloadStep DEF o
<1>15. ASSUME typed
       PROVE  ToSee(kinds)' = WithResults(ToSee(kinds), N)
  <2>1. typed = TRUE
    BY <1>2, <1>15
  <2> QED
    BY <1>11, <1>12, <1>13, <1>14, <2>1
<1>16. ASSUME ~typed
       PROVE  ToSee(kinds)' = ToSee(kinds)
  <2>1. typed = FALSE
    BY <1>2, <1>16
  <2> QED
    BY <1>11, <1>12, <1>13, <1>14, <2>1
<1> QED
  BY <1>9, <1>15, <1>16 DEF N, ns

\* A tool has its result.
LEMMA UserEventJoined ==
    ASSUME RecordInv, NEW kinds, Joined(kinds), NEW block \in due, ProcessUserEvent(block)
    PROVE  Joined(kinds)'
<1>0. AgentInv /\ BuiltInv
  BY DEF RecordInv, StreamInv
<1>1. /\ query = "running"
      /\ UNCHANGED <<streamed, typed, message, at, open, emitted, query>>
      /\ UNCHANGED pageVars
  BY DEF ProcessUserEvent, agentVars
<1>2. block.n \in Numbers /\ ~InText /\ ~InText'
  <2>1. block \in Tools /\ ~InText
    BY <1>0, WhileToolsRun DEF AgentInv
  <2> QED
    BY <1>1, <2>1 DEF Tools, InText
<1>3. CASE typed
  <2> DEFINE e == Event("tool_result", block.n, <<>>)
             n == block.n
             s == ToSee(kinds)
             t == WithResults(s, {n})
  <2>1. wire' = wire \o <<e>>
    BY <1>3 DEF ProcessUserEvent, Emit
  <2>2. e \in WireEvent /\ e.kind = "tool_result" /\ e.n = n /\ n \in Numbers
    BY <1>2, KindsOfEvents DEF Event, WireEvent
  <2>3. s' = t
    BY <1>0, <1>3, ResultSeen
  <2>4. s \in Seq(SeenMessage)
    BY <1>0, ToSeeTyped
  <2> HIDE DEF s, e, n
  <2>5. t \in Seq(SeenMessage)
    BY <2>4, ResultsTyped
  <2> HIDE DEF t
  <2>6. ASSUME NEW b \in Views, AgentSees(kinds, b)
        PROVE  \E c \in Views : Turns(e, kinds, b, c) /\ AgentSees(kinds, c)'
    <3>1. b.list = s /\ b.mode \in Calm
      BY <1>1, <1>2, <2>6 DEF AgentSees, s
    <3>2. b.mode \in {"between", "begun", "text", "over"}
      BY <3>1 DEF Calm
    <3> DEFINE w == b.mode
    <3>w. w \in {"between", "begun", "text", "over"}
      BY <3>2
    <3> HIDE DEF w
    <3>3. PICK c \in Views : c = [list |-> t, mode |-> w] /\ c.list = t /\ c.mode = w
      <4>1. /\ [list |-> t, mode |-> w] \in Views
            /\ [list |-> t, mode |-> w].list = t
            /\ [list |-> t, mode |-> w].mode = w
        BY <2>5, <3>w, ViewFacts
      <4> QED
        BY <4>1
    <3>4. c = [b EXCEPT !.list = WithResults(b.list, {e.n})]
      <4>1. b = [list |-> s, mode |-> w]
        BY <3>1 DEF Views, w
      <4>2. [b EXCEPT !.list = t] = [list |-> t, mode |-> w]
        BY <4>1
      <4> QED
        BY <2>2, <3>1, <3>3, <4>2 DEF t
    <3>5. Turns(e, kinds, b, c)
      BY <2>2, <3>1, <3>4 DEF Turns, Calm
    <3>6. AgentSees(kinds, c)'
      BY <1>1, <1>2, <2>3, <3>1, <3>3 DEF AgentSees, s, w
    <3> QED
      BY <3>5, <3>6
  <2> QED
    BY <1>0, <1>1, <2>1, <2>2, <2>6, AgentSays
<1>4. CASE ~typed
  <2>1. wire' = wire
    BY <1>4 DEF ProcessUserEvent
  <2>2. ToSee(kinds)' = ToSee(kinds)
    BY <1>0, <1>4, ResultSeen
  <2>3. \A b \in Views : AgentSees(kinds, b) => AgentSees(kinds, b)'
    BY <1>1, <1>2, <2>2 DEF AgentSees
  <2> QED
    BY <1>1, <2>1, <2>3, AgentRests
<1> QED
  BY <1>3, <1>4

\* The query is over.
LEMMA FinishJoined ==
    ASSUME RecordInv, NEW kinds, Joined(kinds), Finish
    PROVE  Joined(kinds)'
<1>0. AgentInv /\ BuiltInv
  BY DEF RecordInv, StreamInv
<1> DEFINE e == Event("done", None, <<>>)
<1>1. /\ query = "running" /\ query' = "over" /\ wire' = wire \o <<e>> /\ message = <<>>
      /\ UNCHANGED <<streamed, typed, message, at, transcript, open, emitted>>
      /\ UNCHANGED pageVars
  BY DEF Finish, Emit, sdkVars
<1>2. ~InText /\ ~InText'
  <2>1. at = Len(message)
    BY <1>0, <1>1 DEF AgentInv
  <2>2. ~InText
    BY <1>0, <2>1, NoneOpen
  <2> QED
    BY <1>1, <2>2 DEF InText
<1>3. e \in WireEvent /\ e.kind = "done"
  BY KindsOfEvents DEF Event, WireEvent
<1> HIDE DEF e
<1>4. ToSee(kinds)' = ToSee(kinds)
  BY <1>1, SameBuilt DEF ToSee
<1>5. ASSUME NEW b \in Views, AgentSees(kinds, b)
      PROVE  \E c \in Views : Turns(e, kinds, b, c) /\ AgentSees(kinds, c)'
  <2> DEFINE c == [b EXCEPT !.mode = "over"]
  <2>1. b.list = ToSee(kinds) /\ b.mode \in Calm
    BY <1>1, <1>2, <1>5 DEF AgentSees
  <2>2. c \in Views /\ c.list = b.list /\ c.mode = "over"
    BY DEF Views
  <2>3. Turns(e, kinds, b, c)
    BY <1>3, <2>1 DEF Turns, Calm
  <2> HIDE DEF c
  <2>4. AgentSees(kinds, c)'
    BY <1>1, <1>2, <1>4, <2>1, <2>2 DEF AgentSees
  <2> QED
    BY <2>2, <2>3, <2>4
<1> QED
  BY <1>0, <1>1, <1>3, <1>5, AgentSays

-----------------------------------------------------------------------------
(* The record.                                                             *)

\* As long as the record is the same, so are the blocks of what is rebuilt.
LEMMA BuiltKept ==
    ASSUME BuiltInv, transcript' = transcript
    PROVE  BuiltInv'
<1>1. BuildMessagesFromTranscript' = BuildMessagesFromTranscript
  BY SameBuilt
<1>2. Written' = Written
  BY DEF Written
<1>3. SeenOfRecord' = SeenOfRecord
  BY <1>2 DEF SeenOfRecord
<1> QED
  BY <1>1, <1>3 DEF BuiltInv

\* The blocks of an entry are added to those of the record.
LEMMA BuiltGrows ==
    ASSUME AgentInv, BuiltInv, NEW r \in Record, transcript' = Append(transcript, r)
    PROVE  /\ Written' = Written \cup Range(r.content)
           /\ BuildMessagesFromTranscript \in Seq(SeenOfRecord')
<1>1. Written' = Written \cup Range(r.content)
  BY WrittenAppend DEF AgentInv
<1>2. SeenOfRecord \subseteq SeenOfRecord'
  BY <1>1 DEF SeenOfRecord
<1> DEFINE ms == BuildMessagesFromTranscript
           S == SeenOfRecord
           T == SeenOfRecord'
<1>3. ms \in Seq(S) /\ S \subseteq T
  BY <1>2 DEF BuiltInv
<1> HIDE DEF ms, S, T
<1>4. ms \in Seq(T)
  BY <1>3
<1> QED
  BY <1>1, <1>4 DEF ms, T

\* An answer is on record.
LEMMA AssistantEventBuilt ==
    ASSUME AgentInv, BuiltInv, ProcessAssistantEvent
    PROVE  BuiltInv'
<1> DEFINE ms == BuildMessagesFromTranscript
           c == message
           r == [role |-> "assistant", content |-> c]
           T == SeenOfRecord'
<1>1. transcript' = Append(transcript, r) /\ transcript \in Seq(Record)
  BY DEF ProcessAssistantEvent, AgentInv
<1>2. /\ c \in Message /\ Len(c) \in Nat /\ DOMAIN c = 1..Len(c)
      /\ \A k \in 1..Len(c) : /\ c[k] \in [kind : Kinds, n : Numbers]
                              /\ Rebuilt(c[k]) \in SeenMessage
  BY NewTools, BlocksOf, BlockFacts
<1>3. r \in Record /\ r.content = c
  BY AnswerRecord
<1> HIDE DEF r
<1>4. Written' = Written \cup Range(c) /\ ms \in Seq(T)
  BY <1>1, <1>3, BuiltGrows
<1>5. \A k \in 1..Len(c) : Rebuilt(c[k]) \in T
  <2> TAKE k \in 1..Len(c)
  <2>1. c[k] \in Written'
    BY <1>2, <1>4 DEF Range
  <2>2. Rebuilt(c[k]).tool \in {None, c[k].n}
    BY <1>2, RebuiltFacts
  <2>3. Rebuilt(c[k]).tool \in {None} \cup {b.n : b \in Written'}
    BY <2>1, <2>2
  <2> QED
    BY <1>2, <2>3 DEF SeenOfRecord
<1>6. ms' = Sofar(ms, c, Len(c))
  BY AnswerSeen
<1>7. Len(c) \in 0..Len(c)
  BY <1>2
<1> HIDE DEF T, ms, c
<1>8. Sofar(ms, c, Len(c)) \in Seq(T)
  BY <1>2, <1>4, <1>5, <1>7, SofarStep
<1> QED
  BY <1>6, <1>8 DEF BuiltInv, T, ms

\* A result is on record.
LEMMA UserEventBuilt ==
    ASSUME AgentInv, BuiltInv, NEW block \in due, ProcessUserEvent(block)
    PROVE  BuiltInv'
<1> DEFINE ms == BuildMessagesFromTranscript
           r == [role |-> "user", content |-> <<[kind |-> "result", n |-> block.n]>>]
           N == {block.n}
           T == SeenOfRecord'
<1>1. transcript' = Append(transcript, r) /\ transcript \in Seq(Record)
  BY DEF ProcessUserEvent, AgentInv
<1>2. r \in Record
  BY ResultRecord
<1> HIDE DEF r
<1>3. ms \in Seq(T) /\ ms \in Seq(SeenMessage)
  BY <1>1, <1>2, BuiltGrows, BuiltTyped
<1>4. ms' = WithResults(ms, N)
  BY ResultSeen
<1> HIDE DEF ms, N
<1>5. /\ WithResults(ms, N) \in Seq(SeenMessage)
      /\ Len(WithResults(ms, N)) = Len(ms) /\ Len(ms) \in Nat
      /\ \A i \in 1..Len(ms) : /\ WithResults(ms, N)[i] = Completed(ms[i], N)
                               /\ Completed(ms[i], N) \in SeenMessage
                               /\ Completed(ms[i], N).tool = ms[i].tool
  BY <1>3, ResultsTyped
<1>6. \A i \in 1..Len(ms) : WithResults(ms, N)[i] \in T
  <2> TAKE i \in 1..Len(ms)
  <2>1. ms[i] \in T
    <3> HIDE DEF T
    <3> QED
      BY <1>3
  <2>2. ms[i].tool \in {None} \cup {b.n : b \in Written'}
    BY <2>1 DEF SeenOfRecord
  <2> QED
    BY <1>5, <2>2 DEF SeenOfRecord
<1> DEFINE ns == WithResults(ms, N)
           n == Len(ms)
<1>7. ns \in Seq(SeenMessage) /\ Len(ns) = n /\ n \in Nat /\ \A i \in 1..n : ns[i] \in T
  BY <1>5, <1>6
<1> HIDE DEF ns, n, T
<1>8. ns \in Seq(T)
  <2>1. ns \in [1..n -> T]
    <3> HIDE DEF SeenMessage
    <3> QED
      BY <1>7
  <2> QED
    BY <1>7, <2>1
<1> QED
  BY <1>4, <1>8 DEF BuiltInv, T, ms, ns

\* Tools that are announced twice remain so.
LEMMA DoubledStays ==
    ASSUME AgentInv, ToolsDoubled, streamed' = streamed,
           transcript' = transcript \/ \E r \in Record : transcript' = Append(transcript, r)
    PROVE  ToolsDoubled'
<1>1. PICK i \in DOMAIN transcript : Has(i, "tool") /\ \A j \in 1..i : ~Has(j, "text")
  BY DEF ToolsDoubled
<1>2. transcript \in Seq(Record)
  BY DEF AgentInv
<1>3. /\ Len(transcript) \in Nat /\ DOMAIN transcript = 1..Len(transcript)
      /\ DOMAIN transcript \subseteq DOMAIN transcript'
      /\ \A j \in DOMAIN transcript : transcript'[j] = transcript[j]
  <2> HIDE DEF Record
  <2>1. CASE transcript' = transcript
    BY <1>2, <2>1
  <2>2. CASE \E r \in Record : transcript' = Append(transcript, r)
    BY <1>2, <2>2
  <2> QED
    BY <2>1, <2>2
<1>4. \A j \in 1..i : j \in DOMAIN transcript
  BY <1>3
<1>5. \A kind : \A j \in DOMAIN transcript : Has(j, kind)' <=> Has(j, kind)
  BY <1>3 DEF Has
<1>6. Has(i, "tool")' /\ \A j \in 1..i : ~Has(j, "text")'
  BY <1>1, <1>4, <1>5
<1>7. i \in DOMAIN transcript' /\ streamed'
  BY <1>3 DEF ToolsDoubled
<1> QED
  BY <1>6, <1>7 DEF ToolsDoubled

-----------------------------------------------------------------------------
(* Steps of the page.                                                      *)

\* It is enough to say what the page shows after an event.
LEMMA PageShows ==
    ASSUME AgentInv, NEW kinds, Joined(kinds), wire # <<>>, wire' = Tail(wire),
           UNCHANGED sdkVars, UNCHANGED agentVars,
           \A a, c \in Views :
              PageSees(kinds, a) /\ Turns(Head(wire), kinds, a, c) => PageSees(kinds, c)'
    PROVE  Joined(kinds)'
<1>1. PICK a \in Views, b \in Views :
          PageSees(kinds, a) /\ AgentSees(kinds, b) /\ Becomes(wire, kinds, a, b)
  BY DEF Joined
<1>2. wire \in Seq(WireEvent)
  BY DEF AgentInv
<1>3. PICK c \in Views : Turns(Head(wire), kinds, a, c) /\ Becomes(Tail(wire), kinds, c, b)
  BY <1>1, <1>2, BecomesTail
<1>4. PageSees(kinds, c)'
  BY <1>1, <1>3
<1>5. UNCHANGED <<streamed, typed, message, at, due, transcript>> /\ UNCHANGED <<open, emitted, query>>
  BY DEF sdkVars, agentVars
<1>6. /\ (InText' <=> InText) /\ OpenText' = OpenText /\ ToSee(kinds)' = ToSee(kinds)
  BY <1>5, SameBuilt DEF InText, OpenText, ToSee
<1>7. AgentSees(kinds, b)'
  BY <1>1, <1>5, <1>6 DEF AgentSees
<1>8. Becomes(wire, kinds, c, b)'
  BY <1>3 DEF Becomes
<1> QED
  BY <1>4, <1>7, <1>8 DEF Joined

\* A message as it is seen.
LEMMA SeenOneFacts ==
    ASSUME NEW m \in PageMessage
    PROVE  /\ SeenOne(m) \in SeenMessage
           /\ SeenOne(m).kind = m.kind /\ SeenOne(m).tool = m.tool
           /\ SeenOne(m).text = m.text /\ SeenOne(m).result = m.result
BY DEF SeenOne, Seen, SeenMessage, PageMessage

\* Messages as they are seen.
LEMMA SeenOfFacts ==
    ASSUME NEW ms \in Seq(PageMessage)
    PROVE  /\ SeenOf(ms) \in Seq(SeenMessage)
           /\ Len(SeenOf(ms)) = Len(ms) /\ Len(ms) \in Nat /\ DOMAIN ms = 1..Len(ms)
           /\ \A i \in 1..Len(ms) : ms[i] \in PageMessage /\ SeenOf(ms)[i] = SeenOne(ms[i])
<1> DEFINE n == Len(ms)
           ns == SeenOf(ms)
           S == SeenMessage
           P == PageMessage
<1>1. \A m \in P : SeenOne(m) \in S
  BY SeenOneFacts
<1> HIDE DEF S, P
<1>2. n \in Nat /\ DOMAIN ms = 1..n /\ \A i \in 1..n : ms[i] \in P
  BY DEF P
<1> HIDE DEF n
<1>3. ns = [i \in 1..n |-> SeenOne(ms[i])]
  BY <1>2 DEF SeenOf
<1>4. \A i \in 1..n : ns[i] = SeenOne(ms[i]) /\ ns[i] \in S
  BY <1>1, <1>2, <1>3
<1>5. ns \in [1..n -> S]
  BY <1>3, <1>4
<1> HIDE DEF ns
<1>6. ns \in Seq(S) /\ Len(ns) = n
  BY <1>2, <1>5
<1> QED
  BY <1>2, <1>4, <1>6 DEF n, ns, S, P

\* One more.
LEMMA SeenOfAppend ==
    ASSUME NEW ms \in Seq(PageMessage), NEW m \in PageMessage, NEW kinds
    PROVE  OfKinds(SeenOf(Append(ms, m)), kinds) = Kept(OfKinds(SeenOf(ms), kinds), SeenOne(m), kinds)
<1> DEFINE n == Len(ms)
           ns == Append(ms, m)
           a == SeenOf(ms)
           x == SeenOne(m)
           b == Append(a, x)
           P == PageMessage
<1>1. /\ ns \in Seq(P) /\ Len(ns) = n + 1 /\ n \in Nat
      /\ (\A i \in 1..n : ns[i] = ms[i]) /\ ns[n + 1] = m
  <2> HIDE DEF P
  <2>1. ms \in Seq(P) /\ m \in P
    BY DEF P
  <2> QED
    BY <2>1
<1>2. a \in Seq(SeenMessage) /\ Len(a) = n /\ \A i \in 1..n : a[i] = SeenOne(ms[i])
  BY SeenOfFacts
<1>3. x \in SeenMessage
  BY SeenOneFacts
<1>4. /\ SeenOf(ns) \in Seq(SeenMessage) /\ Len(SeenOf(ns)) = n + 1
      /\ \A i \in 1..n + 1 : SeenOf(ns)[i] = SeenOne(ns[i])
  <2> HIDE DEF ns
  <2>1. ns \in Seq(PageMessage)
    BY <1>1 DEF P
  <2>2. /\ SeenOf(ns) \in Seq(SeenMessage) /\ Len(SeenOf(ns)) = Len(ns)
        /\ \A i \in 1..Len(ns) : SeenOf(ns)[i] = SeenOne(ns[i])
    BY <2>1, SeenOfFacts
  <2> QED
    BY <1>1, <2>2
<1> HIDE DEF n, ns, a, P
<1>5. b \in Seq(SeenMessage) /\ Len(b) = n + 1 /\ (\A i \in 1..n : b[i] = a[i]) /\ b[n + 1] = x
  <2> HIDE DEF x, SeenMessage
  <2> QED
    BY <1>1, <1>2, <1>3
<1> DEFINE c == SeenOf(ns)
<1>6. \A i \in 1..n + 1 : c[i] = b[i]
  <2>1. \A i \in 1..n + 1 : i \in 1..n \/ i = n + 1
    BY <1>1
  <2>2. 1..n \subseteq 1..n + 1 /\ n + 1 \in 1..n + 1
    BY <1>1
  <2> QED
    BY <1>1, <1>2, <1>4, <1>5, <2>1, <2>2
<1>7. c = b
  <2>1. c \in Seq(SeenMessage) /\ Len(c) = n + 1
    BY <1>4
  <2> HIDE DEF c, b, SeenMessage
  <2> QED
    BY <1>1, <1>5, <1>6, <2>1
<1> HIDE DEF x, c
<1>8. OfKinds(Append(a, x), kinds) = Kept(OfKinds(a, kinds), x, kinds)
  BY <1>2, <1>3, OfKindsAppend
<1> QED
  BY <1>7, <1>8 DEF c, ns, a, x

\* What the page shows without the bubble it seals away.
LEMMA SealShown ==
    ASSUME PageInv, NEW ms \in Seq(PageMessage),
           \/ messages = ms /\ thinking = None
           \/ \E bubble \in PageMessage :
                 /\ messages = Append(ms, bubble)
                 /\ bubble.kind = "thinking" /\ bubble.text = <<>> /\ bubble.id = thinking
    PROVE  WithoutEmptyBubble = ms /\ Ordered(ms, nextId)
<1>0. Ordered(messages, nextId)
  BY DEF PageInv
<1> DEFINE empty == {i \in DOMAIN messages : messages[i].id = thinking /\ messages[i].text = <<>>}
           P == PageMessage
<1>1. CASE messages = ms /\ thinking = None
  <2>1. \A i \in DOMAIN messages : messages[i].id \in Nat
    <3>1. \A x \in P : x.id \in Nat
      BY DEF PageMessage
    <3> HIDE DEF P
    <3>2. messages \in Seq(P)
      BY <1>1 DEF P
    <3>3. \A i \in DOMAIN messages : messages[i] \in P
      BY <3>2
    <3> QED
      BY <3>1, <3>3
  <2>2. empty = {}
    BY <1>1, <2>1, StreamAssumption
  <2> QED
    BY <1>0, <1>1, <2>2 DEF WithoutEmptyBubble
<1>2. ASSUME NEW bubble \in PageMessage, messages = Append(ms, bubble),
             bubble.text = <<>>, bubble.id = thinking
      PROVE  WithoutEmptyBubble = ms
  <2> DEFINE n == Len(ms)
  <2>1. /\ n \in Nat /\ Len(messages) = n + 1 /\ DOMAIN messages = 1..n + 1
        /\ (\A i \in 1..n : messages[i] = ms[i]) /\ messages[n + 1] = bubble
        /\ DOMAIN ms = 1..n /\ ms = [i \in 1..n |-> ms[i]]
    <3> HIDE DEF P
    <3>1. ms \in Seq(P) /\ bubble \in P
      BY DEF P
    <3> QED
      BY <1>2, <3>1
  <2> HIDE DEF n
  <2>2. \A i \in 1..n + 1 : i = n + 1 \/ (i \in 1..n /\ i < n + 1)
    BY <2>1
  <2>3. n + 1 \in 1..n + 1 /\ 1..n \subseteq 1..n + 1
    BY <2>1
  <2>4. thinking \in Nat
    BY <1>2 DEF PageMessage
  <2>5. \A i \in 1..n : messages[i].id # thinking
    <3> TAKE i \in 1..n
    <3>1. messages[i].id < messages[n + 1].id
      BY <1>0, <2>1, <2>2, <2>3 DEF Ordered
    <3>2. messages[i].id \in Nat
      <4> HIDE DEF P
      <4>1. messages \in Seq(P) /\ i \in DOMAIN messages
        BY <1>0, <2>1, <2>3 DEF Ordered, P
      <4>2. messages[i] \in P
        BY <4>1
      <4> QED
        BY <4>2 DEF P, PageMessage
    <3> QED
      BY <1>2, <2>1, <2>4, <3>1, <3>2
  <2>6. empty = {n + 1}
    BY <1>2, <2>1, <2>2, <2>3, <2>5
  <2>7. (CHOOSE i \in empty : TRUE) = n + 1
    BY <2>6
  <2>8. WithoutEmptyBubble = Without(messages, n + 1)
    BY <2>6, <2>7 DEF WithoutEmptyBubble
  <2>9. Len(messages) - 1 = n /\ \A k \in 1..n : k < n + 1
    BY <2>1
  <2>10. Without(messages, n + 1) = [k \in 1..n |-> messages[k]]
    BY <2>9 DEF Without
  <2>11. [k \in 1..n |-> messages[k]] = [k \in 1..n |-> ms[k]]
    BY <2>1
  <2> QED
    BY <2>1, <2>8, <2>10, <2>11
<1>3. WithoutEmptyBubble = ms
  BY <1>1, <1>2
<1> QED
  BY <1>3, SealFacts

\* The messages a view is of, with ids in their order.
LEMMA ViewShown ==
    ASSUME PageInv, NEW kinds, NEW a \in Views, PageSees(kinds, a)
    PROVE  \E ms \in Seq(PageMessage) :
              /\ Shows(kinds, ms, a)
              /\ WithoutEmptyBubble = ms /\ Ordered(ms, nextId)
              /\ a.mode # "begun" => messages = ms /\ thinking = None
<1>1. PICK ms \in Seq(PageMessage) :
        /\ Shows(kinds, ms, a)
        /\ IF a.mode = "begun"
           THEN \E bubble \in PageMessage :
                   /\ messages = Append(ms, bubble)
                   /\ bubble.kind = "thinking" /\ bubble.text = <<>> /\ bubble.id = thinking
           ELSE messages = ms /\ thinking = None
  BY DEF PageSees
<1>2. WithoutEmptyBubble = ms /\ Ordered(ms, nextId)
  BY <1>1, SealShown
<1> QED
  BY <1>1, <1>2

\* The parts of a view an event turns into another.
LEMMA TurnFacts ==
    ASSUME NEW a \in Views
    PROVE  /\ a.list \in Seq(SeenMessage)
           /\ [a EXCEPT !.mode = "begun"].list = a.list /\ [a EXCEPT !.mode = "begun"].mode = "begun"
           /\ [a EXCEPT !.mode = "between"].list = a.list /\ [a EXCEPT !.mode = "between"].mode = "between"
           /\ [a EXCEPT !.mode = "over"].list = a.list /\ [a EXCEPT !.mode = "over"].mode = "over"
           /\ \A l : [a EXCEPT !.list = l].list = l /\ [a EXCEPT !.list = l].mode = a.mode
BY DEF Views

\* init: a bubble.
LEMMA HandleInitSees ==
    ASSUME RecordInv, HandleInit, NEW kinds, NEW a \in Views, NEW c \in Views,
           PageSees(kinds, a), Turns(Head(wire), kinds, a, c)
    PROVE  PageSees(kinds, c)'
<1>0. StreamInv /\ PageInv
  BY DEF RecordInv, StreamInv
<1> DEFINE m == NewMessage("thinking", None, <<>>)
<1>1. /\ messages' = Append(messages, m) /\ thinking' = nextId /\ assistant' = None /\ card' = card
  BY DEF HandleInit
<1>2. Head(wire).kind = "init"
  BY <1>0, TakeFacts DEF HandleInit
<1>3. a.mode \in Calm /\ c = [a EXCEPT !.mode = "begun"]
  BY <1>2 DEF Turns, Calm
<1>4. c.list = a.list /\ c.mode = "begun"
  BY <1>3, TurnFacts
<1>5. PICK ms \in Seq(PageMessage) : Shows(kinds, ms, a) /\ messages = ms /\ thinking = None
  BY <1>0, <1>3, ViewShown DEF Calm
<1>6. m \in PageMessage /\ m.id = nextId /\ m.kind = "thinking" /\ m.text = <<>>
  BY <1>0 DEF NewMessage, PageMessage, PageInv, Ordered
<1> HIDE DEF m
<1>7. Shows(kinds, ms, c)'
  BY <1>1, <1>3, <1>4, <1>5 DEF Shows, Calm
<1> QED
  BY <1>1, <1>4, <1>5, <1>6, <1>7 DEF PageSees

\* Thinking has no bubble to go to.
LEMMA HandleThinkingDeltaSees ==
    ASSUME RecordInv, HandleThinkingDelta, NEW kinds, NEW a \in Views, NEW c \in Views,
           PageSees(kinds, a), Turns(Head(wire), kinds, a, c)
    PROVE  PageSees(kinds, c)'
<1>0. StreamInv /\ PageInv
  BY DEF RecordInv, StreamInv
<1>1. /\ messages' = UpdateMessageById(messages, thinking, Head(wire).text, FALSE)
      /\ thinking' = thinking /\ assistant' = assistant /\ card' = card
  BY DEF HandleThinkingDelta
<1>2. Head(wire).kind = "thinking_delta"
  BY <1>0, TakeFacts DEF HandleThinkingDelta
<1>3. a.mode \in Calm /\ c = a
  BY <1>2 DEF Turns, Calm
<1>4. PICK ms \in Seq(PageMessage) : Shows(kinds, ms, a) /\ messages = ms /\ thinking = None
  BY <1>0, <1>3, ViewShown DEF Calm
<1>5. messages' = messages
  <2> DEFINE P == PageMessage
  <2>1. \A x \in P : x.id \in Nat
    BY DEF PageMessage
  <2>2. messages \in Seq(P)
    BY <1>4
  <2> HIDE DEF P
  <2>3. \A i \in DOMAIN messages : messages[i].id # thinking
    BY <1>4, <2>1, <2>2, StreamAssumption
  <2>4. messages' = [i \in DOMAIN messages |-> messages[i]]
    BY <1>1, <2>3 DEF UpdateMessageById
  <2> QED
    BY <2>2, <2>4
<1>6. Shows(kinds, ms, c)'
  BY <1>1, <1>3, <1>4 DEF Shows
<1> QED
  BY <1>1, <1>3, <1>4, <1>5, <1>6 DEF PageSees, Calm

\* A message at the end.
LEMMA AppendShown ==
    ASSUME NEW kinds, NEW a, NEW ms, Shows(kinds, ms, a), Ordered(ms, nextId), CardInv, a.mode # "over",
           NEW m \in PageMessage, m.id = nextId
    PROVE  /\ Append(ms, m) \in Seq(PageMessage)
           /\ DOMAIN ms = 1..Len(ms) /\ Len(ms) \in Nat /\ Len(Append(ms, m)) = Len(ms) + 1
           /\ \A i \in 1..Len(ms) + 1 : i \in 1..Len(ms) \/ i = Len(ms) + 1
           /\ \A i \in 1..Len(ms) : /\ Append(ms, m)[i] = ms[i]
                                    /\ ms[i].id < nextId /\ ms[i].id \in Nat /\ ms[i].id # nextId
           /\ Append(ms, m)[Len(ms) + 1] = m
           /\ OfKinds(SeenOf(Append(ms, m)), kinds) = Kept(a.list, SeenOne(m), kinds)
           /\ \A n \in Numbers : card[n] # nextId
           /\ nextId \in Nat /\ nextId # None
<1>1. ms \in Seq(PageMessage) /\ OfKinds(SeenOf(ms), kinds) = a.list /\ nextId \in Nat
  BY DEF Shows, Ordered
<1>2. /\ Ordered(Append(ms, m), nextId + 1)
      /\ DOMAIN ms = 1..Len(ms) /\ Len(ms) \in Nat
      /\ DOMAIN Append(ms, m) = 1..Len(ms) + 1
      /\ \A i \in 1..Len(ms) : Append(ms, m)[i] = ms[i] /\ ms[i].id < nextId /\ ms[i].id \in Nat
      /\ Append(ms, m)[Len(ms) + 1] = m
  BY AppendFacts
<1>3. Append(ms, m) \in Seq(PageMessage)
  BY <1>2 DEF Ordered
<1>4. Len(Append(ms, m)) = Len(ms) + 1
  <2> HIDE DEF PageMessage
  <2> QED
    BY <1>1
<1>5. OfKinds(SeenOf(Append(ms, m)), kinds) = Kept(a.list, SeenOne(m), kinds)
  BY <1>1, SeenOfAppend
<1>6. \A n \in Numbers : card[n] # nextId
  BY <1>1, StreamAssumption DEF CardInv
<1>7. \A i \in 1..Len(ms) : ms[i].id # nextId
  BY <1>1, <1>2
<1>8. \A i \in 1..Len(ms) + 1 : i \in 1..Len(ms) \/ i = Len(ms) + 1
  BY <1>2
<1> QED
  BY <1>1, <1>2, <1>3, <1>4, <1>5, <1>6, <1>7, <1>8, StreamAssumption

\* A text begins.
LEMMA TextBegins ==
    ASSUME RecordInv, HandleTextDelta, NEW kinds \in KindSets, NEW a \in Views, NEW c \in Views,
           PageSees(kinds, a), Turns(Head(wire), kinds, a, c), a.mode = "begun"
    PROVE  PageSees(kinds, c)'
<1>0. StreamInv /\ PageInv /\ CardInv
  BY DEF RecordInv, StreamInv
<1> DEFINE e == Head(wire)
           m == NewMessage("text", None, e.text)
<1>2. e.kind = "text_delta" /\ e.text \in Seq(Nat)
  BY <1>0, TakeFacts DEF HandleTextDelta
<1>3. c = [list |-> Append(a.list, TextSeen(e.text)), mode |-> "text"]
  BY <1>2 DEF Turns
<1>4. c.list = Append(a.list, TextSeen(e.text)) /\ c.mode = "text"
  BY <1>3
<1>5. PICK ms \in Seq(PageMessage) : Shows(kinds, ms, a) /\ WithoutEmptyBubble = ms /\ Ordered(ms, nextId)
  BY <1>0, ViewShown
<1>6. assistant = None
  BY <1>5 DEF Shows
<1>7. /\ messages' = Append(ms, m) /\ assistant' = nextId /\ thinking' = None /\ card' = card
  BY <1>5, <1>6 DEF HandleTextDelta
<1>8. m \in PageMessage /\ m.id = nextId /\ m.kind = "text" /\ m.tool = None /\ m.text = e.text
      /\ SeenOne(m) = TextSeen(e.text)
  <2>1. m \in PageMessage /\ m.id = nextId /\ m.kind = "text" /\ m.text = e.text
    BY <1>0, <1>2 DEF NewMessage, PageMessage, PageInv, Ordered
  <2>2. m.tool = None /\ m.result = FALSE
    BY DEF NewMessage
  <2> HIDE DEF m, e
  <2> QED
    BY <2>1, <2>2 DEF SeenOne, TextSeen
<1> HIDE DEF m, e
<1>s. PICK ns : ns = Append(ms, m)
  OBVIOUS
<1> DEFINE n == Len(ms)
<1>9. /\ ns \in Seq(PageMessage)
      /\ n \in Nat /\ Len(ns) = n + 1
      /\ \A i \in 1..n + 1 : i \in 1..n \/ i = n + 1
      /\ \A i \in 1..n : ns[i] = ms[i] /\ ms[i].id # nextId
      /\ ns[n + 1] = m
      /\ OfKinds(SeenOf(ns), kinds) = Kept(a.list, SeenOne(m), kinds)
      /\ \A x \in Numbers : card[x] # nextId
  BY <1>0, <1>5, <1>8, <1>s, AppendShown
<1>10. Kept(a.list, SeenOne(m), kinds) = c.list
  <2>1. SeenOne(m).kind = "text" /\ "text" \in kinds
    BY <1>8, SeenOneFacts, KindSetFacts
  <2> QED
    BY <1>4, <1>8, <2>1 DEF Kept
<1>11. /\ \A i \in 1..n : \/ ms[i].kind = "text" /\ ms[i].tool = None
                          \/ ms[i].kind = "tool" /\ ms[i].tool \in Numbers
       /\ \A i \in 1..n :
             /\ "tool" \in kinds /\ ms[i].kind = "tool" => card[ms[i].tool] = ms[i].id
             /\ \A x \in Numbers : card[x] = ms[i].id => ms[i].kind = "tool" /\ ms[i].tool = x
  BY <1>5 DEF Shows
<1> HIDE DEF n
<1>12. \A i \in 1..n + 1 : \/ ns[i].kind = "text" /\ ns[i].tool = None
                           \/ ns[i].kind = "tool" /\ ns[i].tool \in Numbers
  BY <1>8, <1>9, <1>11
<1>13. \A i \in 1..n + 1 :
          /\ "tool" \in kinds /\ ns[i].kind = "tool" => card[ns[i].tool] = ns[i].id
          /\ \A x \in Numbers : card[x] = ns[i].id => ns[i].kind = "tool" /\ ns[i].tool = x
  BY <1>8, <1>9, <1>11
<1>14. Len(ns) > 0 /\ ns[Len(ns)].kind = "text" /\ ns[Len(ns)].id = nextId
  BY <1>8, <1>9
<1>15. Shows(kinds, ns, c)'
  BY <1>4, <1>7, <1>9, <1>10, <1>12, <1>13, <1>14 DEF Shows
<1>16. messages' = ns
  BY <1>7, <1>s
<1> QED
  BY <1>4, <1>7, <1>9, <1>15, <1>16 DEF PageSees

\* The messages us are ms after an update, part by part.
Updated(ms, us, id, text, result) ==
    /\ us \in Seq(PageMessage) /\ Len(us) = Len(ms) /\ Len(ms) \in Nat
    /\ \A i \in 1..Len(ms) :
          /\ us[i] \in PageMessage /\ ms[i] \in PageMessage
          /\ us[i].id = ms[i].id /\ us[i].kind = ms[i].kind /\ us[i].tool = ms[i].tool
          /\ ms[i].id # id => us[i] = ms[i]
          /\ ms[i].id = id => us[i].text = ms[i].text \o text
          /\ ms[i].id = id /\ result => us[i].result = TRUE
          /\ ms[i].id = id /\ ~result => us[i].result = ms[i].result

\* That is what an update does.
LEMMA UpdateEach ==
    ASSUME NEW ms, NEW next, Ordered(ms, next), NEW id, NEW text \in Seq(Nat), NEW result \in BOOLEAN,
           NEW us, us = UpdateMessageById(ms, id, text, result)
    PROVE  Updated(ms, us, id, text, result)
<1> DEFINE n == Len(ms)
           P == PageMessage
<1>0. /\ Ordered(UpdateMessageById(ms, id, text, result), next)
      /\ DOMAIN UpdateMessageById(ms, id, text, result) = DOMAIN ms
  BY UpdateFacts
<1>1. ms \in Seq(P) /\ us \in Seq(P) /\ DOMAIN us = DOMAIN ms
  BY <1>0 DEF Ordered
<1> HIDE DEF P
<1>2. /\ n \in Nat /\ DOMAIN ms = 1..n /\ Len(us) = n
      /\ \A i \in 1..n : us[i] \in P /\ ms[i] \in P
  BY <1>1
<1> HIDE DEF n
<1>3. us = [i \in 1..n |-> IF ms[i].id = id
                           THEN [ms[i] EXCEPT !.text = @ \o text, !.result = @ \/ result]
                           ELSE ms[i]]
  BY <1>2 DEF UpdateMessageById
<1>4. ASSUME NEW i \in 1..n, ms[i].id = id
      PROVE  /\ us[i].id = ms[i].id /\ us[i].kind = ms[i].kind /\ us[i].tool = ms[i].tool
             /\ us[i].text = ms[i].text \o text
             /\ result => us[i].result = TRUE
             /\ ~result => us[i].result = ms[i].result
  <2> DEFINE t == ms[i].text \o text
             r == ms[i].result \/ result
  <2>1. us[i] = [ms[i] EXCEPT !.text = t, !.result = r]
    BY <1>3, <1>4
  <2>2. ms[i] \in PageMessage
    BY <1>2 DEF P
  <2> HIDE DEF t, r
  <2>3. /\ us[i].id = ms[i].id /\ us[i].kind = ms[i].kind /\ us[i].tool = ms[i].tool
        /\ us[i].text = t /\ us[i].result = r
    BY <2>1, <2>2 DEF PageMessage
  <2>4. (result => r = TRUE) /\ (~result => r = ms[i].result)
    BY <2>2 DEF r, PageMessage
  <2> QED
    BY <2>3, <2>4 DEF t
<1>5. \A i \in 1..n : ms[i].id # id => us[i] = ms[i]
  BY <1>3
<1> QED
  BY <1>1, <1>2, <1>4, <1>5 DEF Updated, n, P

\* The end of a sequence.
LEMMA AppendSplits ==
    ASSUME NEW S, NEW s \in Seq(S), NEW t \in Seq(S), NEW x \in S, NEW y \in S,
           Append(s, x) = Append(t, y)
    PROVE  s = t /\ x = y
<1>1. Len(Append(s, x)) = Len(s) + 1 /\ Len(Append(t, y)) = Len(t) + 1
  OBVIOUS
<1>2. Len(s) = Len(t) /\ Len(s) \in Nat
  BY <1>1
<1>3. x = y
  <2>1. Append(s, x)[Len(s) + 1] = x /\ Append(t, y)[Len(t) + 1] = y
    OBVIOUS
  <2> QED
    BY <1>2, <2>1
<1>4. \A i \in 1..Len(s) : s[i] = t[i]
  <2>1. \A i \in 1..Len(s) : Append(s, x)[i] = s[i]
    OBVIOUS
  <2>2. \A i \in 1..Len(t) : Append(t, y)[i] = t[i]
    OBVIOUS
  <2> QED
    BY <1>2, <2>1, <2>2
<1> QED
  BY <1>2, <1>3, <1>4

\* A text goes on.
LEMMA TextGoesOn ==
    ASSUME RecordInv, HandleTextDelta, NEW kinds \in KindSets, NEW a \in Views, NEW c \in Views,
           PageSees(kinds, a), Turns(Head(wire), kinds, a, c), a.mode = "text"
    PROVE  PageSees(kinds, c)'
<1>0. StreamInv /\ PageInv /\ CardInv
  BY DEF RecordInv, StreamInv
<1>1. Head(wire).kind = "text_delta"
  BY <1>0, TakeFacts DEF HandleTextDelta
<1>2. PICK l \in Seq(SeenMessage), k \in Numbers :
         /\ a.list = Append(l, TextSeen(<<k>>))
         /\ Head(wire).text = <<k>>
         /\ c = [list |-> Append(l, TextSeen(Whole(k))), mode |-> "text"]
  BY <1>1 DEF Turns
<1>3. c.list = Append(l, TextSeen(Whole(k))) /\ c.mode = "text" /\ k \in Nat
  BY <1>2, StreamAssumption DEF Numbers
<1>4. PICK ms \in Seq(PageMessage) :
         /\ Shows(kinds, ms, a) /\ WithoutEmptyBubble = ms /\ Ordered(ms, nextId)
         /\ messages = ms /\ thinking = None
  BY <1>0, ViewShown
<1> DEFINE n == Len(ms)
<1>5. n > 0 /\ ms[n].kind = "text" /\ ms[n].id = assistant
  BY <1>4 DEF Shows
<1>6. /\ n \in Nat /\ DOMAIN ms = 1..n /\ n \in 1..n /\ n - 1 \in 0..n
      /\ (\A i \in 1..n - 1 : i \in 1..n /\ i < n) /\ \A i \in 1..n : i = n \/ i \in 1..n - 1
      /\ ms[n] \in PageMessage
  <2> DEFINE P == PageMessage
  <2> HIDE DEF P
  <2>1. n \in Nat /\ DOMAIN ms = 1..n /\ \A i \in 1..n : ms[i] \in P
    BY DEF P
  <2> HIDE DEF n
  <2> QED
    BY <1>5, <2>1 DEF P
<1>7. assistant # None
  BY <1>5, <1>6, StreamAssumption DEF PageMessage
<1> DEFINE t == <<k>>
           r == FALSE
<1>8. /\ messages' = UpdateMessageById(ms, assistant, t, r)
      /\ assistant' = assistant /\ thinking' = None /\ card' = card
  BY <1>2, <1>4, <1>7 DEF HandleTextDelta
<1>9. t \in Seq(Nat) /\ r \in BOOLEAN
  BY <1>3
<1>u. PICK us : us = UpdateMessageById(ms, assistant, t, r)
  OBVIOUS
<1>10. messages' = us
  BY <1>8, <1>u
<1> HIDE DEF t, r
<1>11. /\ us \in Seq(PageMessage) /\ Len(us) = n
       /\ \A i \in 1..n :
             /\ us[i] \in PageMessage
             /\ us[i].id = ms[i].id /\ us[i].kind = ms[i].kind /\ us[i].tool = ms[i].tool
             /\ ms[i].id # assistant => us[i] = ms[i]
             /\ ms[i].id = assistant => us[i].text = ms[i].text \o t
             /\ ms[i].id = assistant => us[i].result = ms[i].result
  <2>1. Updated(ms, us, assistant, t, r)
    BY <1>4, <1>9, <1>u, UpdateEach
  <2>2. ~r
    BY DEF r
  <2> QED
    BY <2>1, <2>2 DEF Updated
<1>12. \A i \in 1..n - 1 : ms[i].id # assistant
  <2> TAKE i \in 1..n - 1
  <2>1. ms[i].id < ms[n].id
    BY <1>4, <1>6 DEF Ordered
  <2>2. ms[i].id \in Nat /\ ms[n].id \in Nat
    <3> DEFINE P == PageMessage
    <3> HIDE DEF P
    <3>1. i \in 1..n
      BY <1>6
    <3>2. ms[i] \in P
      BY <3>1 DEF P
    <3> QED
      BY <1>6, <3>2 DEF P, PageMessage
  <2> QED
    BY <1>5, <2>1, <2>2
<1> DEFINE f == Front(ms, n - 1)
           m == ms[n]
           w == us[n]
<1>13. Front(us, n - 1) = f
  BY <1>6, <1>11, <1>12 DEF Front
<1>14. /\ f \in Seq(PageMessage)
       /\ ms = Append(f, m) /\ us = Append(f, w)
  <2> DEFINE P == PageMessage
  <2> HIDE DEF P
  <2>1. ms \in Seq(P) /\ us \in Seq(P)
    BY <1>11 DEF P
  <2>2. /\ Front(ms, n) = ms /\ Front(ms, n - 1) \in Seq(P)
        /\ Front(ms, n) = Append(Front(ms, n - 1), ms[n])
    BY <1>6, <2>1, FrontFacts
  <2>3. Front(us, n) = us /\ Front(us, n) = Append(Front(us, n - 1), us[n])
    <3>1. n \in 1..Len(us) /\ Len(us) = n
      BY <1>6, <1>11
    <3> HIDE DEF n
    <3> QED
      BY <2>1, <3>1, FrontFacts
  <2> QED
    BY <1>13, <2>2, <2>3 DEF P
<1>15. /\ m \in PageMessage /\ w \in PageMessage /\ m.kind = "text" /\ w.kind = "text"
       /\ w.tool = m.tool /\ w.text = m.text \o t /\ w.result = m.result
  BY <1>5, <1>6, <1>11
<1> DEFINE F == OfKinds(SeenOf(f), kinds)
<1>16. F \in Seq(SeenMessage)
  <2> HIDE DEF f
  <2> QED
    BY <1>14, SeenOfFacts, OfKindsTyped
<1>17. a.list = Append(F, SeenOne(m)) /\ OfKinds(SeenOf(us), kinds) = Append(F, SeenOne(w))
  <2> HIDE DEF f, m, w
  <2>1. OfKinds(SeenOf(ms), kinds) = Kept(F, SeenOne(m), kinds)
    BY <1>14, <1>15, SeenOfAppend
  <2>2. OfKinds(SeenOf(us), kinds) = Kept(F, SeenOne(w), kinds)
    BY <1>14, <1>15, SeenOfAppend
  <2>3. SeenOne(m).kind = "text" /\ SeenOne(w).kind = "text" /\ "text" \in kinds
    BY <1>15, SeenOneFacts, KindSetFacts
  <2>4. OfKinds(SeenOf(ms), kinds) = a.list
    BY <1>4 DEF Shows
  <2> QED
    BY <2>1, <2>2, <2>3, <2>4 DEF Kept
<1>18. TextSeen(<<k>>) \in SeenMessage /\ SeenOne(m) \in SeenMessage
  <2>1. <<k>> \in Seq(Nat)
    BY <1>3
  <2> HIDE DEF m
  <2> QED
    BY <1>15, <2>1, SeenFacts, SeenOneFacts
<1> HIDE DEF F, m, w, f
<1>19. F = l /\ SeenOne(m) = TextSeen(<<k>>)
  <2>1. Append(F, SeenOne(m)) = Append(l, TextSeen(<<k>>))
    BY <1>2, <1>17
  <2> DEFINE x == SeenOne(m)
             y == TextSeen(<<k>>)
             S == SeenMessage
  <2>2. x \in S /\ y \in S /\ F \in Seq(S) /\ l \in Seq(S) /\ Append(F, x) = Append(l, y)
    BY <1>16, <1>18, <2>1
  <2> HIDE DEF x, y, S
  <2>3. F = l /\ x = y
    BY <2>2, AppendSplits
  <2> QED
    BY <2>3 DEF x, y
<1>20. m.tool = None /\ m.text = <<k>> /\ ~m.result
  <2>1. /\ SeenOne(m).tool = m.tool /\ SeenOne(m).text = m.text /\ SeenOne(m).result = m.result
    BY <1>15, SeenOneFacts
  <2>2. TextSeen(<<k>>).tool = None /\ TextSeen(<<k>>).text = <<k>> /\ TextSeen(<<k>>).result = FALSE
    BY DEF TextSeen, Seen
  <2> QED
    BY <1>19, <2>1, <2>2
<1>21. SeenOne(w) = TextSeen(Whole(k))
  <2>1. <<k>> \o <<k>> = <<k, k>>
    <3> DEFINE u == <<k>> \o <<k>>
               v == <<k, k>>
    <3>1. u \in Seq(Nat) /\ Len(u) = 2 /\ u[1] = k /\ u[2] = k
      BY <1>3
    <3>2. v \in Seq(Nat) /\ Len(v) = 2 /\ v[1] = k /\ v[2] = k
      BY <1>3
    <3> HIDE DEF u, v
    <3>3. \A i \in 1..2 : u[i] = v[i]
      <4>1. \A i \in 1..2 : i = 1 \/ i = 2
        OBVIOUS
      <4> QED
        BY <3>1, <3>2, <4>1
    <3>4. u = v
      BY <3>1, <3>2, <3>3, SeqEqual
    <3> QED
      BY <3>4 DEF u, v
  <2>2. w.kind = "text" /\ w.tool = None /\ w.text = Whole(k) /\ w.result = FALSE
    BY <1>15, <1>20, <2>1 DEF t, Whole
  <2> QED
    BY <2>2 DEF SeenOne, TextSeen
<1>22. OfKinds(SeenOf(us), kinds) = c.list
  BY <1>3, <1>17, <1>19, <1>21
<1>23. /\ \A i \in 1..n : \/ ms[i].kind = "text" /\ ms[i].tool = None
                          \/ ms[i].kind = "tool" /\ ms[i].tool \in Numbers
       /\ \A i \in 1..n :
             /\ "tool" \in kinds /\ ms[i].kind = "tool" => card[ms[i].tool] = ms[i].id
             /\ \A x \in Numbers : card[x] = ms[i].id => ms[i].kind = "tool" /\ ms[i].tool = x
  BY <1>4 DEF Shows
<1> HIDE DEF n
<1>e. \A i \in 1..n : us[i].id = ms[i].id /\ us[i].kind = ms[i].kind /\ us[i].tool = ms[i].tool
  BY <1>11
<1>24. /\ \A i \in 1..n : \/ us[i].kind = "text" /\ us[i].tool = None
                          \/ us[i].kind = "tool" /\ us[i].tool \in Numbers
       /\ \A i \in 1..n :
             /\ "tool" \in kinds /\ us[i].kind = "tool" => card[us[i].tool] = us[i].id
             /\ \A x \in Numbers : card[x] = us[i].id => us[i].kind = "tool" /\ us[i].tool = x
  BY <1>e, <1>23
<1>25. Len(us) > 0 /\ us[Len(us)].kind = "text" /\ us[Len(us)].id = assistant
  BY <1>5, <1>6, <1>11
<1>26. Shows(kinds, us, c)'
  BY <1>3, <1>8, <1>11, <1>22, <1>24, <1>25 DEF Shows
<1> QED
  BY <1>3, <1>8, <1>10, <1>11, <1>26 DEF PageSees

\* A tool's card comes after what was shown.
LEMMA HandleToolStartSees ==
    ASSUME RecordInv, HandleToolStart, NEW kinds \in KindSets, NEW a \in Views, NEW c \in Views,
           PageSees(kinds, a), Turns(Head(wire), kinds, a, c)
    PROVE  PageSees(kinds, c)'
<1>0. StreamInv /\ PageInv /\ CardInv
  BY DEF RecordInv, StreamInv
<1>1. Head(wire).kind = "tool_start"
  BY <1>0, TakeFacts DEF HandleToolStart
<1>2. PICK t : t = Head(wire).n
  OBVIOUS
<1>3. /\ a.mode \in Calm /\ t \in Numbers
      /\ "tool" \in kinds => \A i \in 1..Len(a.list) : a.list[i].tool # t
      /\ c = [list |-> Kept(a.list, ToolSeen(t), kinds), mode |-> "between"]
  BY <1>1, <1>2 DEF Turns, Calm
<1>4. c.list = Kept(a.list, ToolSeen(t), kinds) /\ c.mode = "between"
  BY <1>3
<1>5. PICK ms \in Seq(PageMessage) :
         Shows(kinds, ms, a) /\ WithoutEmptyBubble = ms /\ Ordered(ms, nextId)
  BY <1>0, ViewShown
<1> DEFINE e == NewMessage("tool", t, <<>>)
<1>6. /\ e \in PageMessage /\ e.id = nextId /\ e.kind = "tool" /\ e.tool = t
      /\ SeenOne(e) = ToolSeen(t)
  <2>1. e \in PageMessage /\ e.id = nextId /\ e.kind = "tool" /\ e.text = <<>>
    BY <1>0, <1>3 DEF NewMessage, PageMessage, PageInv, Ordered
  <2>2. e.tool = t /\ e.result = FALSE
    BY DEF NewMessage
  <2> HIDE DEF e
  <2> QED
    BY <2>1, <2>2 DEF SeenOne, ToolSeen
<1>7. /\ messages' = Append(ms, e) /\ assistant' = None /\ thinking' = None
      /\ card' = [card EXCEPT ![t] = nextId]
  BY <1>2, <1>5 DEF HandleToolStart
<1> HIDE DEF e
<1>8. PICK m : m = e
  OBVIOUS
<1>9. PICK ns : ns = Append(ms, m)
  OBVIOUS
<1> DEFINE n == Len(ms)
<1>10. /\ ns \in Seq(PageMessage)
       /\ n \in Nat /\ Len(ns) = n + 1
       /\ \A i \in 1..n + 1 : i \in 1..n \/ i = n + 1
       /\ \A i \in 1..n : ns[i] = ms[i] /\ ms[i].id # nextId
       /\ ns[n + 1] = m
       /\ OfKinds(SeenOf(ns), kinds) = Kept(a.list, SeenOne(m), kinds)
       /\ \A x \in Numbers : card[x] # nextId
  <2>1. a.mode # "over" /\ m \in PageMessage /\ m.id = nextId
    BY <1>3, <1>6, <1>8 DEF Calm
  <2> QED
    BY <1>0, <1>5, <1>9, <2>1, AppendShown
<1>11. /\ \A i \in 1..n : \/ ms[i].kind = "text" /\ ms[i].tool = None
                          \/ ms[i].kind = "tool" /\ ms[i].tool \in Numbers
       /\ \A i \in 1..n :
             /\ "tool" \in kinds /\ ms[i].kind = "tool" => card[ms[i].tool] = ms[i].id
             /\ \A x \in Numbers : card[x] = ms[i].id => ms[i].kind = "tool" /\ ms[i].tool = x
  BY <1>3, <1>5 DEF Shows, Calm
<1>12. "tool" \in kinds => \A i \in 1..n : ms[i].tool # t
  <2> SUFFICES ASSUME "tool" \in kinds, NEW i \in 1..n
               PROVE  ms[i].tool # t
    OBVIOUS
  <2> DEFINE s == SeenOf(ms)
  <2>1. /\ s \in Seq(SeenMessage) /\ Len(s) = n
        /\ \A j \in 1..n : ms[j] \in PageMessage /\ s[j] = SeenOne(ms[j])
    BY SeenOfFacts
  <2>2. \A j \in 1..n : s[j].kind \in kinds /\ s[j].tool = ms[j].tool
    BY <1>11, <2>1, SeenOneFacts, KindSetFacts
  <2> HIDE DEF s
  <2>3. OfKinds(s, kinds) = s
    BY <2>1, <2>2, OfKindsAll
  <2>4. a.list = s
    BY <1>5, <2>3 DEF Shows, s
  <2> QED
    BY <1>3, <2>1, <2>2, <2>4
<1> HIDE DEF n
<1>13. OfKinds(SeenOf(ns), kinds) = c.list
  BY <1>4, <1>6, <1>8, <1>10
<1>14. card \in [Numbers -> Nat \cup {None}]
  BY <1>0 DEF CardInv
<1>15. card'[t] = nextId /\ \A x \in Numbers : x # t => card'[x] = card[x]
  BY <1>3, <1>7, <1>14
<1>16. \A i \in 1..n + 1 : \/ ns[i].kind = "text" /\ ns[i].tool = None
                           \/ ns[i].kind = "tool" /\ ns[i].tool \in Numbers
  BY <1>3, <1>6, <1>8, <1>10, <1>11
<1>17. ASSUME NEW i \in 1..n + 1
       PROVE  /\ "tool" \in kinds /\ ns[i].kind = "tool" => card'[ns[i].tool] = ns[i].id
              /\ \A x \in Numbers : card'[x] = ns[i].id => ns[i].kind = "tool" /\ ns[i].tool = x
  <2>1. CASE i \in 1..n
    <3>1. ns[i] = ms[i] /\ ms[i].id # nextId
      BY <1>10, <2>1
    <3>2. "tool" \in kinds /\ ms[i].kind = "tool" => card'[ms[i].tool] = ms[i].id
      BY <1>11, <1>12, <1>15, <2>1
    <3>3. \A x \in Numbers : card'[x] = ms[i].id => ms[i].kind = "tool" /\ ms[i].tool = x
      BY <1>11, <1>15, <2>1, <3>1
    <3> QED
      BY <3>1, <3>2, <3>3
  <2>2. CASE i = n + 1
    <3>1. ns[i].id = nextId /\ ns[i].tool = t /\ ns[i].kind = "tool"
      BY <1>6, <1>8, <1>10, <2>2
    <3>2. \A x \in Numbers : card'[x] = nextId => x = t
      BY <1>10, <1>15
    <3> QED
      BY <1>15, <3>1, <3>2
  <2> QED
    BY <1>10, <2>1, <2>2
<1>18. Shows(kinds, ns, c)'
  BY <1>4, <1>7, <1>10, <1>13, <1>16, <1>17 DEF Shows
<1>19. messages' = ns
  BY <1>7, <1>8, <1>9
<1> QED
  BY <1>4, <1>7, <1>10, <1>18, <1>19 DEF PageSees

\* A message with another result.
LEMMA SeenWith ==
    ASSUME NEW kind, NEW tool, NEW text, NEW old, NEW result
    PROVE  [Seen(kind, tool, text, old) EXCEPT !.result = result] = Seen(kind, tool, text, result)
BY DEF Seen

\* The result of a tool goes to its card.
LEMMA HandleToolResultSees ==
    ASSUME RecordInv, HandleToolResult, NEW kinds \in KindSets, NEW a \in Views, NEW c \in Views,
           PageSees(kinds, a), Turns(Head(wire), kinds, a, c)
    PROVE  PageSees(kinds, c)'
<1>0. StreamInv /\ PageInv /\ CardInv
  BY DEF RecordInv, StreamInv
<1>1. Head(wire).kind = "tool_result"
  BY <1>0, TakeFacts DEF HandleToolResult
<1>2. PICK t : t = Head(wire).n
  OBVIOUS
<1>3. /\ a.mode \in Calm /\ t \in Numbers
      /\ c = [a EXCEPT !.list = WithResults(a.list, {t})]
  BY <1>1, <1>2 DEF Turns, Calm
<1>4. c.list = WithResults(a.list, {t}) /\ c.mode = a.mode
  BY <1>3, TurnFacts
<1>5. PICK ms \in Seq(PageMessage) :
         Shows(kinds, ms, a) /\ Ordered(ms, nextId) /\ messages = ms /\ thinking = None
  BY <1>0, <1>3, ViewShown DEF Calm
<1> DEFINE r == TRUE
           e == <<>>
<1>6. PICK id : id = card[t]
  OBVIOUS
<1>7. PICK us : us = UpdateMessageById(ms, id, e, r)
  OBVIOUS
<1>8. messages' = us /\ assistant' = assistant /\ thinking' = None /\ card' = card
  BY <1>2, <1>5, <1>6, <1>7 DEF HandleToolResult
<1>9. e \in Seq(Nat) /\ r \in BOOLEAN
  OBVIOUS
<1> HIDE DEF e, r
<1>10. Updated(ms, us, id, e, r)
  BY <1>5, <1>7, <1>9, UpdateEach
<1> DEFINE n == Len(ms)
<1>11. /\ us \in Seq(PageMessage) /\ Len(us) = n /\ n \in Nat
       /\ \A i \in 1..n :
             /\ us[i] \in PageMessage /\ ms[i] \in PageMessage
             /\ us[i].id = ms[i].id /\ us[i].kind = ms[i].kind /\ us[i].tool = ms[i].tool
             /\ ms[i].id # id => us[i] = ms[i]
             /\ ms[i].id = id => us[i].text = ms[i].text \o e /\ us[i].result = TRUE
  BY <1>10 DEF Updated, r
<1>12. /\ \A i \in 1..n : \/ ms[i].kind = "text" /\ ms[i].tool = None
                          \/ ms[i].kind = "tool" /\ ms[i].tool \in Numbers
       /\ \A i \in 1..n :
             /\ "tool" \in kinds /\ ms[i].kind = "tool" => card[ms[i].tool] = ms[i].id
             /\ \A x \in Numbers : card[x] = ms[i].id => ms[i].kind = "tool" /\ ms[i].tool = x
  BY <1>3, <1>5 DEF Shows, Calm
<1> DEFINE s == SeenOf(ms)
           w == SeenOf(us)
           N == {t}
<1>13. /\ s \in Seq(SeenMessage) /\ Len(s) = n /\ w \in Seq(SeenMessage) /\ Len(w) = n
       /\ \A i \in 1..n : s[i] = SeenOne(ms[i]) /\ w[i] = SeenOne(us[i])
  BY <1>11, SeenOfFacts
<1> HIDE DEF n
<1>14. ASSUME NEW i \in 1..n
       PROVE  /\ w[i].kind = s[i].kind
              /\ s[i].kind \in kinds => w[i] = Completed(s[i], N)
  <2>1. /\ ms[i] \in PageMessage /\ us[i] \in PageMessage
        /\ us[i].id = ms[i].id /\ us[i].kind = ms[i].kind /\ us[i].tool = ms[i].tool
        /\ ms[i].id # id => us[i] = ms[i]
        /\ ms[i].id = id => us[i].text = ms[i].text \o e /\ us[i].result = TRUE
    BY <1>11
  <2>2. /\ SeenOne(ms[i]).kind = ms[i].kind /\ SeenOne(us[i]).kind = us[i].kind
        /\ SeenOne(ms[i]).tool = ms[i].tool
    BY <2>1, SeenOneFacts
  <2>3. s[i] = SeenOne(ms[i]) /\ w[i] = SeenOne(us[i])
    BY <1>13
  <2>4. CASE ms[i].id = id
    <3>1. ms[i].tool = t
      BY <1>3, <1>6, <1>12, <2>4
    <3>2. us[i].text = ms[i].text
      <4>1. ms[i].text \in Seq(Nat)
        BY <2>1 DEF PageMessage
      <4>2. ms[i].text \o <<>> = ms[i].text
        BY <4>1
      <4> QED
        BY <2>1, <2>4, <4>2 DEF e
    <3>3. SeenOne(us[i]) = [SeenOne(ms[i]) EXCEPT !.result = TRUE]
      <4>1. us[i].result = TRUE
        BY <2>1, <2>4
      <4> DEFINE v == TRUE
                 old == ms[i].result
      <4>2. SeenOne(us[i]) = Seen(ms[i].kind, ms[i].tool, ms[i].text, v)
        BY <2>1, <3>2, <4>1 DEF SeenOne
      <4>3. SeenOne(ms[i]) = Seen(ms[i].kind, ms[i].tool, ms[i].text, old)
        BY DEF SeenOne
      <4> HIDE DEF v, old
      <4>4. [Seen(ms[i].kind, ms[i].tool, ms[i].text, old) EXCEPT !.result = v]
               = Seen(ms[i].kind, ms[i].tool, ms[i].text, v)
        BY SeenWith
      <4>5. SeenOne(us[i]) = [SeenOne(ms[i]) EXCEPT !.result = v]
        BY <4>2, <4>3, <4>4
      <4> QED
        BY <4>5 DEF v
    <3>4. s[i].tool \in N
      BY <2>2, <2>3, <3>1
    <3> QED
      BY <2>1, <2>2, <2>3, <3>3, <3>4 DEF Completed
  <2>5. CASE ms[i].id # id
    <3>1. us[i] = ms[i]
      BY <2>1, <2>5
    <3>2. s[i].kind \in kinds => s[i].tool # t
      <4>1. CASE ms[i].kind = "text"
        <5>1. ms[i].tool = None
          BY <1>12, <4>1
        <5> QED
          BY <1>3, <2>2, <2>3, <5>1, StreamAssumption DEF Numbers
      <4>2. CASE ms[i].kind = "tool"
        BY <1>6, <1>12, <2>2, <2>3, <2>5, <4>2
      <4> QED
        BY <1>12, <4>1, <4>2
    <3>3. w[i] = s[i]
      BY <2>3, <3>1
    <3> QED
      BY <3>2, <3>3 DEF Completed
  <2> QED
    BY <2>4, <2>5
<1>15. OfKinds(w, kinds) = WithResults(OfKinds(s, kinds), N)
  <2> HIDE DEF s, w, N
  <2> QED
    BY <1>13, <1>14, OfKindsResults
<1>16. OfKinds(SeenOf(us), kinds) = c.list
  BY <1>4, <1>5, <1>15 DEF Shows
<1>17. IF a.mode = "text"
       THEN n > 0 /\ ms[n].kind = "text" /\ ms[n].id = assistant
       ELSE assistant = None
  BY <1>5 DEF Shows, n
<1>18. \A i \in 1..n : us[i].id = ms[i].id /\ us[i].kind = ms[i].kind /\ us[i].tool = ms[i].tool
  BY <1>11
<1>19. IF c.mode = "text"
       THEN Len(us) > 0 /\ us[Len(us)].kind = "text" /\ us[Len(us)].id = assistant
       ELSE assistant = None
  <2>1. n > 0 => n \in 1..n
    BY <1>11
  <2> QED
    BY <1>4, <1>11, <1>17, <1>18, <2>1
<1>20. /\ \A i \in 1..n : \/ us[i].kind = "text" /\ us[i].tool = None
                          \/ us[i].kind = "tool" /\ us[i].tool \in Numbers
       /\ \A i \in 1..n :
             /\ "tool" \in kinds /\ us[i].kind = "tool" => card[us[i].tool] = us[i].id
             /\ \A x \in Numbers : card[x] = us[i].id => us[i].kind = "tool" /\ us[i].tool = x
  BY <1>12, <1>18
<1>21. Shows(kinds, us, c)'
  BY <1>8, <1>11, <1>16, <1>19, <1>20 DEF Shows
<1> QED
  BY <1>3, <1>4, <1>8, <1>11, <1>21 DEF PageSees, Calm

\* Nothing is left to seal.
LEMMA SealedSees ==
    ASSUME RecordInv, HandleAskUserQuestion \/ HandleDone, NEW kinds, NEW a \in Views, NEW c \in Views,
           PageSees(kinds, a), Turns(Head(wire), kinds, a, c)
    PROVE  PageSees(kinds, c)'
<1>0. StreamInv /\ PageInv
  BY DEF RecordInv, StreamInv
<1>1. /\ messages' = WithoutEmptyBubble /\ assistant' = None /\ thinking' = None
      /\ HandleAskUserQuestion => card' = card
  BY DEF HandleAskUserQuestion, HandleDone
<1>2. \/ Head(wire).kind = "ask_user_question" /\ HandleAskUserQuestion
      \/ Head(wire).kind = "done"
  BY <1>0, TakeFacts DEF HandleAskUserQuestion, HandleDone
<1>3. /\ a.mode \in Calm
      /\ \/ c = [a EXCEPT !.mode = "between"] /\ card' = card
         \/ c = [a EXCEPT !.mode = "over"]
  BY <1>1, <1>2 DEF Turns, Calm
<1>4. /\ c.list = a.list
      /\ \/ c.mode = "between" /\ card' = card
         \/ c.mode = "over"
  <2>1. CASE c = [a EXCEPT !.mode = "between"] /\ card' = card
    <3>1. c.list = a.list /\ c.mode = "between"
      BY <2>1, TurnFacts
    <3> QED
      BY <2>1, <3>1
  <2>2. CASE c = [a EXCEPT !.mode = "over"]
    <3>1. c.list = a.list /\ c.mode = "over"
      BY <2>2, TurnFacts
    <3> QED
      BY <3>1
  <2> QED
    BY <1>3, <2>1, <2>2
<1>5. PICK ms \in Seq(PageMessage) : Shows(kinds, ms, a) /\ WithoutEmptyBubble = ms
  BY <1>0, ViewShown
<1>6. Shows(kinds, ms, c)'
  BY <1>1, <1>3, <1>4, <1>5 DEF Shows, Calm
<1> QED
  BY <1>1, <1>4, <1>5, <1>6 DEF PageSees

\* The page takes an event.
LEMMA PageStepJoined ==
    ASSUME RecordInv, NEW kinds \in KindSets, Joined(kinds),
           \/ HandleInit \/ HandleThinkingDelta \/ HandleTextDelta \/ HandleToolStart
           \/ HandleToolResult \/ HandleAskUserQuestion \/ HandleDone \/ HandleErrorEvent
    PROVE  Joined(kinds)'
<1>0. AgentInv
  BY DEF RecordInv, StreamInv
<1>1. /\ wire # <<>> /\ wire' = Tail(wire)
      /\ UNCHANGED sdkVars /\ UNCHANGED agentVars
  BY DEF HandleInit, HandleThinkingDelta, HandleTextDelta, HandleToolStart, HandleToolResult,
         HandleAskUserQuestion, HandleDone, HandleErrorEvent, Take
<1>2. ASSUME NEW a \in Views, NEW c \in Views, PageSees(kinds, a), Turns(Head(wire), kinds, a, c)
      PROVE  PageSees(kinds, c)'
  <2>1. CASE HandleInit
    BY <1>2, <2>1, HandleInitSees
  <2>2. CASE HandleThinkingDelta
    BY <1>2, <2>2, HandleThinkingDeltaSees
  <2>3. CASE HandleTextDelta
    <3>1. Head(wire).kind = "text_delta"
      BY <2>3 DEF HandleTextDelta, Take
    <3>2. a.mode \in {"begun", "text"}
      BY <1>2, <3>1 DEF Turns
    <3> QED
      BY <1>2, <2>3, <3>2, TextBegins, TextGoesOn
  <2>4. CASE HandleToolStart
    BY <1>2, <2>4, HandleToolStartSees
  <2>5. CASE HandleToolResult
    BY <1>2, <2>5, HandleToolResultSees
  <2>6. CASE HandleAskUserQuestion \/ HandleDone
    BY <1>2, <2>6, SealedSees
  <2>7. CASE HandleErrorEvent
    <3>1. Head(wire).kind = "error_event"
      BY <2>7 DEF HandleErrorEvent, Take
    <3> QED
      BY <1>2, <3>1 DEF Turns
  <2> QED
    BY <2>1, <2>2, <2>3, <2>4, <2>5, <2>6, <2>7
<1> QED
  BY <1>0, <1>1, <1>2, PageShows

\* A step that changes nothing.
LEMMA StutterJoined ==
    ASSUME NEW kinds, Joined(kinds), UNCHANGED vars
    PROVE  Joined(kinds)'
<1>1. /\ UNCHANGED <<streamed, typed, message, at, due, transcript>> /\ UNCHANGED <<open, emitted, query>>
      /\ wire' = wire /\ UNCHANGED pageVars
  BY DEF vars, pageVars
<1>2. /\ (InText' <=> InText) /\ OpenText' = OpenText /\ ToSee(kinds)' = ToSee(kinds)
  BY <1>1, SameBuilt DEF InText, OpenText, ToSee
<1>3. \A b \in Views : AgentSees(kinds, b) => AgentSees(kinds, b)'
  BY <1>1, <1>2 DEF AgentSees
<1> QED
  BY <1>1, <1>3, AgentRests

-----------------------------------------------------------------------------
(* All steps, for the record.                                              *)

\* What is told is shown, as long as the query does not fail.
LEMMA JoinedStep ==
    ASSUME RecordInv, StreamInv', [Next]_vars, NEW kinds \in KindSets, Joined(kinds),
           query' # "failed", "tool" \in kinds => ~ToolsDoubled'
    PROVE  Joined(kinds)'
<1>0. AgentInv'
  BY DEF StreamInv
<1>1. ASSUME NEW answer \in Contents, NEW used \in 0..MaxBlocks, NextMessage(answer, used)
      PROVE  Joined(kinds)'
  BY <1>0, <1>1, NextMessageJoined
<1>2. CASE ProcessBlockStart
  BY <1>2, BlockStartJoined
<1>3. CASE ProcessBlockDelta
  BY <1>3, BlockDeltaJoined
<1>4. CASE ProcessBlockStop
  BY <1>4, BlockStopJoined
<1>5. CASE ProcessAssistantEvent
  BY <1>5, AssistantEventJoined
<1>6. ASSUME NEW block \in due, AskUserQuestion(block)
      PROVE  Joined(kinds)'
  BY <1>6, AskUserQuestionJoined
<1>7. ASSUME NEW block \in due, ProcessUserEvent(block)
      PROVE  Joined(kinds)'
  BY <1>7, UserEventJoined
<1>8. CASE Finish
  BY <1>8, FinishJoined
<1>9. CASE Fail
  BY <1>9 DEF Fail
<1>10. CASE \/ HandleInit \/ HandleThinkingDelta \/ HandleTextDelta \/ HandleToolStart
            \/ HandleToolResult \/ HandleAskUserQuestion \/ HandleDone \/ HandleErrorEvent
  BY <1>10, PageStepJoined
<1>11. CASE UNCHANGED vars
  BY <1>11, StutterJoined
<1> QED
  BY <1>1, <1>2, <1>3, <1>4, <1>5, <1>6, <1>7, <1>8, <1>9, <1>10, <1>11 DEF Next

\* What a step does to the record, and to the end of the query.
LEMMA RecordParts ==
    ASSUME RecordInv, [Next]_vars
    PROVE  /\ streamed' = streamed
           /\ transcript' = transcript \/ \E r \in Record : transcript' = Append(transcript, r)
           /\ query' # "failed" => query # "failed"
           /\ query' = "over" => message' = <<>>
           /\ BuiltInv'
<1>0. AgentInv /\ BuiltInv /\ (query = "over" => message = <<>>)
  BY DEF RecordInv, StreamInv
<1>1. CASE ProcessAssistantEvent
  <2>1. /\ transcript' = Append(transcript, [role |-> "assistant", content |-> message])
        /\ streamed' = streamed /\ query = "running" /\ query' = query
    BY <1>1 DEF ProcessAssistantEvent, agentVars
  <2>2. BuiltInv'
    BY <1>0, <1>1, AssistantEventBuilt
  <2> QED
    BY <1>0, <2>1, <2>2, AnswerRecord
<1>2. ASSUME NEW block \in due, ProcessUserEvent(block)
      PROVE  /\ streamed' = streamed
             /\ transcript' = transcript \/ \E r \in Record : transcript' = Append(transcript, r)
             /\ query' # "failed" => query # "failed"
             /\ query' = "over" => message' = <<>>
             /\ BuiltInv'
  <2>1. /\ transcript' = Append(transcript, [role |-> "user",
                              content |-> <<[kind |-> "result", n |-> block.n]>>])
        /\ streamed' = streamed /\ query = "running" /\ query' = query
    BY <1>2 DEF ProcessUserEvent, agentVars
  <2>2. BuiltInv'
    BY <1>0, <1>2, UserEventBuilt
  <2> QED
    BY <1>0, <2>1, <2>2, ResultRecord
<1>3. ASSUME streamed' = streamed, transcript' = transcript,
             query' # "failed" => query # "failed", query' = "over" => message' = <<>>
      PROVE  /\ streamed' = streamed
             /\ transcript' = transcript \/ \E r \in Record : transcript' = Append(transcript, r)
             /\ query' # "failed" => query # "failed"
             /\ query' = "over" => message' = <<>>
             /\ BuiltInv'
  BY <1>0, <1>3, BuiltKept
<1>4. ASSUME NEW answer \in Contents, NEW used \in 0..MaxBlocks, NextMessage(answer, used)
      PROVE  /\ streamed' = streamed /\ transcript' = transcript
             /\ query = "running" /\ query' = "running"
  BY <1>4 DEF NextMessage, agentVars
<1>5. CASE ProcessBlockStart \/ ProcessBlockDelta \/ ProcessBlockStop
  <2>1. /\ streamed' = streamed /\ transcript' = transcript
        /\ query = "running" /\ query' = "running"
    BY <1>5 DEF ProcessBlockStart, ProcessBlockDelta, ProcessBlockStop, Streaming, sdkVars
  <2> QED
    BY <1>3, <2>1
<1>6. ASSUME NEW block \in due, AskUserQuestion(block)
      PROVE  /\ streamed' = streamed /\ transcript' = transcript
             /\ query = "running" /\ query' = "running"
  BY <1>6 DEF AskUserQuestion, agentVars
<1>7. CASE Finish \/ Fail
  <2>1. /\ streamed' = streamed /\ transcript' = transcript /\ query = "running"
        /\ query' = "over" => message' = <<>>
    BY <1>7 DEF Finish, Fail, sdkVars
  <2> QED
    BY <1>3, <2>1
<1>8. CASE \/ HandleInit \/ HandleThinkingDelta \/ HandleTextDelta \/ HandleToolStart
           \/ HandleToolResult \/ HandleAskUserQuestion \/ HandleDone \/ HandleErrorEvent
  <2>1. UNCHANGED sdkVars /\ UNCHANGED agentVars
    BY <1>8 DEF HandleInit, HandleThinkingDelta, HandleTextDelta, HandleToolStart, HandleToolResult,
                HandleAskUserQuestion, HandleDone, HandleErrorEvent
  <2>2. streamed' = streamed /\ transcript' = transcript /\ query' = query /\ message' = message
    BY <2>1 DEF sdkVars, agentVars
  <2> QED
    BY <1>0, <1>3, <2>2
<1>9. CASE UNCHANGED vars
  <2>1. streamed' = streamed /\ transcript' = transcript /\ query' = query /\ message' = message
    BY <1>9 DEF vars
  <2> QED
    BY <1>0, <1>3, <2>1
<1>10. query = "running" => query # "failed" /\ query # "over"
  OBVIOUS
<1> QED
  BY <1>1, <1>2, <1>3, <1>4, <1>5, <1>6, <1>7, <1>8, <1>9, <1>10 DEF Next

\* Cards are of messages, whatever the step.
LEMMA CardStep ==
    ASSUME RecordInv, [Next]_vars
    PROVE  CardInv'
<1>0. /\ nextId \in Nat /\ card \in [Numbers -> Nat \cup {None}]
      /\ \A n \in Numbers : card[n] # None => card[n] < nextId
  BY DEF RecordInv, StreamInv, PageInv, Ordered, CardInv
<1>1. ASSUME card' = card, nextId' \in {nextId, nextId + 1}
      PROVE  CardInv'
  <2> SUFFICES ASSUME NEW n \in Numbers, card[n] # None
               PROVE  card[n] < nextId'
    BY <1>0, <1>1 DEF CardInv
  <2>1. card[n] \in Nat /\ card[n] < nextId
    BY <1>0
  <2> QED
    BY <1>0, <1>1, <2>1
<1>2. ASSUME card' = [n \in Numbers |-> None]
      PROVE  CardInv'
  BY <1>2 DEF CardInv
<1>3. CASE HandleToolStart
  <2>1. card' = [card EXCEPT ![Head(wire).n] = nextId] /\ nextId' = nextId + 1
    BY <1>3 DEF HandleToolStart
  <2>2. card' \in [Numbers -> Nat \cup {None}]
    BY <1>0, <2>1
  <2> SUFFICES ASSUME NEW n \in Numbers, card'[n] # None
               PROVE  card'[n] < nextId'
    BY <2>2 DEF CardInv
  <2>3. card'[n] = nextId \/ (card'[n] = card[n])
    BY <1>0, <2>1
  <2>4. card[n] # None => card[n] < nextId /\ card[n] \in Nat
    BY <1>0
  <2> QED
    BY <1>0, <2>1, <2>3, <2>4
<1>4. CASE HandleDone \/ HandleErrorEvent
  BY <1>2, <1>4 DEF HandleDone, HandleErrorEvent
<1>5. CASE \/ HandleInit \/ HandleThinkingDelta \/ HandleTextDelta
           \/ HandleToolResult \/ HandleAskUserQuestion
  <2>1. card' = card /\ nextId' \in {nextId, nextId + 1}
    BY <1>5 DEF HandleInit, HandleThinkingDelta, HandleTextDelta, HandleToolResult, HandleAskUserQuestion
  <2> QED
    BY <1>1, <2>1
<1>6. ASSUME UNCHANGED pageVars
      PROVE  CardInv'
  BY <1>1, <1>6 DEF pageVars
<1>7. ASSUME NEW answer \in Contents, NEW used \in 0..MaxBlocks, NextMessage(answer, used)
      PROVE  UNCHANGED pageVars
  BY <1>7 DEF NextMessage
<1>8. CASE ProcessBlockStart \/ ProcessBlockDelta \/ ProcessBlockStop \/ ProcessAssistantEvent
           \/ Finish \/ Fail
  <2>1. UNCHANGED pageVars
    BY <1>8 DEF ProcessBlockStart, ProcessBlockDelta, ProcessBlockStop, ProcessAssistantEvent, Finish, Fail
  <2> QED
    BY <1>6, <2>1
<1>9. ASSUME NEW block \in due, AskUserQuestion(block) \/ ProcessUserEvent(block)
      PROVE  UNCHANGED pageVars
  BY <1>9 DEF AskUserQuestion, ProcessUserEvent
<1>10. CASE UNCHANGED vars
  <2>1. UNCHANGED pageVars
    BY <1>10 DEF vars, pageVars
  <2> QED
    BY <1>6, <2>1
<1> QED
  BY <1>3, <1>4, <1>5, <1>6, <1>7, <1>8, <1>9, <1>10 DEF Next

-----------------------------------------------------------------------------
(* What a reload shows.                                                    *)

\* Nothing is recorded, told or shown at first.
LEMMA RecordInitially ==
    ASSUME Init
    PROVE  RecordInv
<1>1. /\ typed \in BOOLEAN /\ message = <<>> /\ at = 0 /\ transcript = <<>>
      /\ query = "running" /\ wire = <<>> /\ messages = <<>>
      /\ nextId = 0 /\ thinking = None /\ assistant = None /\ card = [n \in Numbers |-> None]
  BY DEF Init
<1>2. StreamInv /\ AgentInv
  BY StreamInitially DEF StreamInv
<1>3. BuildMessagesFromTranscript = <<>>
  BY <1>1, BuiltNone DEF BuildMessagesFromTranscript, Built
<1>4. BuiltInv
  BY <1>3 DEF BuiltInv
<1>5. CardInv
  BY <1>1 DEF CardInv
<1>6. ~InText
  <2>1. at = Len(message)
    BY <1>1
  <2> QED
    BY <2>1, <1>2, NoneOpen
<1>7. ASSUME NEW kinds
      PROVE  Joined(kinds)
  <2>1. PICK a \in Views : a.list = <<>> /\ a.mode = "between"
    <3>1. [list |-> <<>>, mode |-> "between"] \in Views
      BY DEF Views
    <3> QED
      BY <3>1
  <2>2. ToSee(kinds) = <<>>
    <3>1. message \in Message /\ BuildMessagesFromTranscript \in Seq(SeenMessage)
      BY <1>2, <1>3 DEF AgentInv
    <3>2. ToSee(kinds) = Masked(OfKinds(BuildMessagesFromTranscript, kinds), typed)
      BY <3>1, <1>1, ReloadStep DEF ToSee
    <3>3. OfKinds(BuildMessagesFromTranscript, kinds) = <<>>
      BY <1>3, OfKindsNone
    <3> QED
      BY <3>2, <3>3 DEF Masked
  <2>3. AgentSees(kinds, a)
    BY <2>1, <2>2, <1>1, <1>6 DEF AgentSees, Calm
  <2>4. Shows(kinds, <<>>, a)
    <3>1. OfKinds(SeenOf(<<>>), kinds) = <<>>
      <4>1. SeenOf(<<>>) = <<>>
        BY DEF SeenOf
      <4> QED
        BY <4>1, OfKindsNone
    <3>2. 1..Len(<<>>) = {} /\ <<>> \in Seq(PageMessage)
      OBVIOUS
    <3> QED
      BY <3>1, <3>2, <2>1, <1>1 DEF Shows
  <2>5. PageSees(kinds, a)
    <3>1. a.mode # "begun" /\ messages = <<>> /\ thinking = None /\ <<>> \in Seq(PageMessage)
      BY <2>1, <1>1
    <3> QED
      BY <3>1, <2>4 DEF PageSees
  <2>6. Becomes(wire, kinds, a, a)
    BY <1>1, BecomesNone
  <2> QED
    BY <2>3, <2>5, <2>6 DEF Joined
<1> QED
  BY <1>1, <1>2, <1>4, <1>5, <1>7 DEF RecordInv

\* A step from RecordInv.
LEMMA RecordStep ==
    ASSUME RecordInv, [Next]_vars
    PROVE  RecordInv'
<1>1. StreamInv /\ AgentInv
  BY DEF RecordInv, StreamInv
<1>2. StreamInv'
  BY <1>1, StreamStep
<1>3. /\ streamed' = streamed
      /\ transcript' = transcript \/ \E r \in Record : transcript' = Append(transcript, r)
      /\ query' # "failed" => query # "failed"
      /\ query' = "over" => message' = <<>>
      /\ BuiltInv'
  BY RecordParts
<1>4. CardInv'
  BY CardStep
<1>5. {"text"} \in KindSets /\ {"text", "tool"} \in KindSets /\ "tool" \notin {"text"}
  BY DEF KindSets
<1>6. ASSUME query' # "failed"
      PROVE  Joined({"text"})'
  <2>1. Joined({"text"})
    BY <1>3, <1>6 DEF RecordInv
  <2> QED
    BY <2>1, <1>2, <1>5, <1>6, JoinedStep
<1>7. ASSUME query' # "failed", ~ToolsDoubled'
      PROVE  Joined({"text", "tool"})'
  <2>1. ~ToolsDoubled
    BY <1>1, <1>3, <1>7, DoubledStays
  <2>2. Joined({"text", "tool"})
    BY <2>1, <1>3, <1>7 DEF RecordInv
  <2> QED
    BY <2>2, <1>2, <1>5, <1>7, JoinedStep
<1> QED
  BY <1>2, <1>3, <1>4, <1>6, <1>7 DEF RecordInv

\* When all is shown, the page shows what the agent has told, and that is the record.
LEMMA ShownIsRecord ==
    ASSUME RecordInv, AllShown, NEW kinds, Joined(kinds)
    PROVE  /\ OfKinds(Live, kinds) = Expected(kinds)
           /\ Live \in Seq(SeenMessage)
           /\ \A i \in 1..Len(Live) : Live[i].kind \in {"text", "tool"}
<1>1. AgentInv /\ BuiltInv /\ query = "over" /\ wire = <<>> /\ message = <<>>
  BY DEF RecordInv, StreamInv, AllShown
<1>2. /\ at = Len(message) /\ at = 0 /\ message \in Message /\ typed \in BOOLEAN
      /\ BuildMessagesFromTranscript \in Seq(SeenMessage)
  BY <1>1, BuiltTyped DEF AgentInv
<1>3. ~InText
  BY <1>1, <1>2, NoneOpen
<1>4. PICK a \in Views, b \in Views :
          PageSees(kinds, a) /\ AgentSees(kinds, b) /\ Becomes(<<>>, kinds, a, b)
  BY <1>1 DEF Joined
<1>5. a = b
  BY <1>4 DEF Becomes
<1>6. a.mode = "over" /\ a.list = ToSee(kinds)
  BY <1>1, <1>3, <1>4, <1>5 DEF AgentSees
<1>7. ToSee(kinds) = Expected(kinds)
  <2>1. ToSee(kinds) = Masked(OfKinds(BuildMessagesFromTranscript, kinds), typed)
    BY <1>2, ReloadStep DEF ToSee
  <2> QED
    BY <2>1 DEF Expected, Masked, MaskedOne
<1>8. Shows(kinds, messages, a)
  BY <1>4, <1>6 DEF PageSees
<1>9. Live = SeenOf(messages)
  BY DEF Live, SeenOf, SeenOne
<1>10. messages \in Seq(PageMessage) /\ OfKinds(Live, kinds) = a.list
  BY <1>8, <1>9 DEF Shows
<1>11. /\ Live \in Seq(SeenMessage) /\ Len(Live) = Len(messages)
       /\ \A i \in 1..Len(messages) : messages[i] \in PageMessage /\ Live[i] = SeenOne(messages[i])
  BY <1>9, <1>10, SeenOfFacts
<1>12. \A i \in 1..Len(messages) : Live[i].kind = messages[i].kind
  BY <1>11, SeenOneFacts
<1>13. \A i \in 1..Len(messages) : messages[i].kind \in {"text", "tool"}
  BY <1>8 DEF Shows
<1> QED
  BY <1>6, <1>7, <1>10, <1>11, <1>12, <1>13

\* It is what a reload shows.
LEMMA RecordImplies ==
    ASSUME RecordInv
    PROVE  ShownAsRecorded
<1> SUFFICES ASSUME AllShown
             PROVE  /\ OfKinds(Live, {"text"}) = Expected({"text"})
                    /\ ~ToolsDoubled => Live = Expected({"text", "tool"})
  BY DEF ShownAsRecorded
<1>1. query # "failed"
  BY DEF AllShown
<1>2. OfKinds(Live, {"text"}) = Expected({"text"})
  BY <1>1, ShownIsRecord DEF RecordInv
<1>3. ASSUME ~ToolsDoubled
      PROVE  Live = Expected({"text", "tool"})
  <2>1. /\ OfKinds(Live, {"text", "tool"}) = Expected({"text", "tool"})
        /\ Live \in Seq(SeenMessage)
        /\ \A i \in 1..Len(Live) : Live[i].kind \in {"text", "tool"}
    BY <1>1, <1>3, ShownIsRecord DEF RecordInv
  <2>2. OfKinds(Live, {"text", "tool"}) = Live
    BY <2>1, OfKindsAll
  <2> QED
    BY <2>1, <2>2
<1> QED
  BY <1>2, <1>3

\* When a query is over, the page shows what it would show after a reload.
THEOREM ShownAsRecordedHolds == Spec => []ShownAsRecorded
<1>1. Init => RecordInv
  BY RecordInitially
<1>2. RecordInv /\ [Next]_vars => RecordInv'
  BY RecordStep
<1>3. RecordInv => ShownAsRecorded
  BY RecordImplies
<1> QED
  BY <1>1, <1>2, <1>3, PTL DEF Spec
================================================================================
