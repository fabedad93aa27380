-------------------------- MODULE StrategyProofs --------------------------
(***************************************************************************)
(* A strategy on its way to a mandate: what build answers for its graph,   *)
(* what is said of its risks and fees, the plan it is turned into and the  *)
(* simulations of it are sound, for any nodes, tokens, allowances, fees,   *)
(* callers and numbers of faults; and what the database says of an intent  *)
(* that the planners answer with strategies is sound as well, for any      *)
(* intents, templates, policies and language models, and however the two   *)
(* planners interleave.                                                    *)
(*                                                                         *)
(* The two share no variable: the first part is of EngineSpec, the last of *)
(* IntentPlanning's specification.  The recursions of the model (Only, the *)
(* liquidity score) are functions on 0 .. n; what they compute is proved   *)
(* from the least argument at which it would fail (LeastNatural), so that  *)
(* no induction over data is needed.                                       *)
(***************************************************************************)
EXTENDS IntentPlanning, LegacySimulation, FiniteSetTheorems, TLAPS

-----------------------------------------------------------------------------
(* Numbers and sequences *)

LEMMA LeastNatural ==
  ASSUME NEW T, T \subseteq Nat, T # {}
  PROVE  \E x \in T : \A y \in T : x <= y
<1> DEFINE R == {ss \in Nat \X Nat : ss[1] < ss[2]}
<1>1. IsWellFoundedOn(R, Nat)
  BY NatLessThanWellFounded DEF OpToRel
<1>2. \A x, y \in Nat : y < x => <<y, x>> \in R
  OBVIOUS
<1> HIDE DEF R
<1>3. \E x \in T : \A y \in T : ~(<<y, x>> \in R)
  BY <1>1, WFMin
<1>4. PICK x \in T : \A y \in T : ~(<<y, x>> \in R)
  BY <1>3
<1>5. ASSUME NEW y \in T PROVE x <= y
  <2>1. ~(y < x)
    BY <1>2, <1>4
  <2> QED BY <2>1
<1> QED BY <1>5

(* A set of numbers up to n that has the successor of every member below n *)
(* and 0 has them all.                                                     *)
LEMMA Upwards ==
  ASSUME NEW n \in Nat, NEW T, 0 \in T, \A k \in 0 .. n - 1 : k \in T => k + 1 \in T
  PROVE  0 .. n \subseteq T
<1> DEFINE Bad == {k \in 0 .. n : k \notin T}
<1> SUFFICES ASSUME Bad # {} PROVE FALSE
  OBVIOUS
<1>1. PICK b \in Bad : \A y \in Bad : b <= y
  <2>1. Bad \subseteq Nat
    OBVIOUS
  <2> HIDE DEF Bad
  <2> QED BY <2>1, LeastNatural
<1>2. b # 0 /\ b - 1 \in 0 .. n - 1 /\ b - 1 \notin Bad
  BY <1>1
<1>3. b - 1 \in T
  BY <1>2
<1>4. b \in T
  BY <1>2, <1>3
<1> QED BY <1>1, <1>4

(* A recursion over 0 .. n whose steps stay in D defines a function.       *)
Stays(g, D, n) == \A x \in D, k \in 1 .. n : g[<<x, k>>] \in D
RunsFrom(h, d, g, n) == h[0] = d /\ \A k \in 1 .. n : h[k] = g[<<h[k - 1], k>>]

LEMMA RecursionExists ==
  ASSUME NEW D, NEW d \in D, NEW n \in Nat, NEW g, Stays(g, D, n)
  PROVE  \E h \in [0 .. n -> D] : RunsFrom(h, d, g, n)
<1> DEFINE Good(m, h) == h \in [0 .. m -> D] /\ h[0] = d /\ \A k \in 1 .. m : h[k] = g[<<h[k - 1], k>>]
           T == {m \in 0 .. n : \E h : Good(m, h)}
<1>1. 0 \in T
  <2> DEFINE e == [k \in 0 .. 0 |-> d]
  <2>1. e \in [0 .. 0 -> D] /\ e[0] = d
    OBVIOUS
  <2> HIDE DEF e
  <2>2. Good(0, e)
    BY <2>1
  <2> QED BY <2>2
<1>2. ASSUME NEW m \in 0 .. n - 1, m \in T PROVE m + 1 \in T
  <2>1. PICK h : Good(m, h)
    BY <1>2
  <2> DEFINE e == [k \in 0 .. m + 1 |-> IF k = m + 1 THEN g[<<h[m], m + 1>>] ELSE h[k]]
  <2>2. g[<<h[m], m + 1>>] \in D
    BY <2>1 DEF Stays
  <2>3. e \in [0 .. m + 1 -> D]
    BY <2>1, <2>2
  <2>4. e[0] = d /\ e[m + 1] = g[<<h[m], m + 1>>] /\ \A k \in 0 .. m : e[k] = h[k]
    BY <2>1
  <2> HIDE DEF e
  <2>5. ASSUME NEW k \in 1 .. m + 1 PROVE e[k] = g[<<e[k - 1], k>>]
    <3>1. CASE k = m + 1
      BY <2>4, <3>1
    <3>2. CASE k \in 1 .. m
      BY <2>1, <2>4, <3>2
    <3> QED BY <3>1, <3>2
  <2>6. Good(m + 1, e)
    BY <2>3, <2>4, <2>5
  <2> QED BY <2>6
<1>3. n \in T
  <2> HIDE DEF T
  <2>1. 0 .. n \subseteq T
    BY <1>1, <1>2, Upwards
  <2> QED BY <2>1
<1> QED BY <1>3 DEF RunsFrom
(* Only(s, K) is the last value of the recursion that defines it.          *)
Kept(s, K, h) ==
  /\ h[0] = <<>>
  /\ \A k \in 1 .. Len(s) : h[k] = IF s[k] \in K THEN Append(h[k - 1], s[k]) ELSE h[k - 1]

LEMMA OnlyIsKept ==
  ASSUME NEW S, NEW s \in Seq(S), NEW K
  PROVE  \E h \in [0 .. Len(s) -> Seq(S)] : Kept(s, K, h) /\ Only(s, K) = h[Len(s)]
<1> DEFINE Step(x, k) == IF s[k] \in K THEN Append(x, s[k]) ELSE x
           g == [p \in Seq(S) \X (1 .. Len(s)) |-> Step(p[1], p[2])]
           Body(f) == [k \in 0 .. Len(s) |-> IF k = 0 THEN <<>> ELSE Step(f[k - 1], k)]
           F == CHOOSE f : f = Body(f)
<1>1. PICK n \in Nat : n = Len(s)
  OBVIOUS
<1>2. ASSUME NEW x \in Seq(S), NEW k \in 1 .. n PROVE Step(x, k) \in Seq(S)
  <2>1. s[k] \in S
    BY <1>1
  <2> QED BY <2>1
<1>3. <<>> \in Seq(S)
  OBVIOUS
<1>4. Only(s, K) = F[n]
  BY <1>1 DEF Only
<1> HIDE DEF Step
<1>5. \A x \in Seq(S), k \in 1 .. n : g[<<x, k>>] = Step(x, k)
  BY <1>1
<1> HIDE DEF g
<1>6. \A x \in Seq(S), k \in 1 .. n : g[<<x, k>>] \in Seq(S)
  BY <1>2, <1>5
<1>7. PICK h \in [0 .. n -> Seq(S)] : h[0] = <<>> /\ \A k \in 1 .. n : h[k] = g[<<h[k - 1], k>>]
  <2>1. Stays(g, Seq(S), n)
    BY <1>6 DEF Stays
  <2>2. \E h \in [0 .. n -> Seq(S)] : RunsFrom(h, <<>>, g, n)
    BY <1>1, <1>3, <2>1, RecursionExists
  <2> QED BY <2>2 DEF RunsFrom
<1>8. ASSUME NEW k \in 1 .. n PROVE h[k] = Step(h[k - 1], k)
  <2>1. h[k - 1] \in Seq(S)
    BY <1>7
  <2> QED BY <1>5, <1>7, <2>1
<1>9. h = Body(h)
  BY <1>1, <1>7, <1>8
<1>10. F = Body(F)
  BY <1>9
<1> HIDE DEF F
<1>11. F[0] = <<>> /\ \A k \in 1 .. n : F[k] = Step(F[k - 1], k)
  BY <1>1, <1>10
<1> DEFINE T == {k \in 0 .. n : F[k] \in Seq(S)}
<1>12. 0 \in T
  <2>1. 0 \in 0 .. n /\ F[0] \in Seq(S)
    BY <1>3, <1>11
  <2> QED BY <2>1
<1>13. ASSUME NEW k \in 0 .. n - 1, k \in T PROVE k + 1 \in T
  <2>1. k + 1 \in 1 .. n /\ (k + 1) - 1 = k
    OBVIOUS
  <2>2. F[k + 1] = Step(F[k], k + 1)
    BY <1>11, <2>1
  <2>3. Step(F[k], k + 1) \in Seq(S)
    BY <1>2, <1>13, <2>1
  <2> QED BY <2>1, <2>2, <2>3
<1> HIDE DEF T
<1>14. 0 .. n \subseteq T
  BY <1>12, <1>13, Upwards
<1>15. F \in [0 .. n -> Seq(S)]
  <2>1. \A k \in 0 .. n : F[k] \in Seq(S)
    BY <1>14 DEF T
  <2>2. F = [k \in 0 .. n |-> F[k]]
    BY <1>1, <1>10
  <2> QED BY <2>1, <2>2
<1>16. Kept(s, K, F)
  BY <1>1, <1>11 DEF Kept, Step
<1> QED BY <1>1, <1>4, <1>15, <1>16

LEMMA OnlyEmpty == \A K : Only(<<>>, K) = <<>>
<1> SUFFICES ASSUME NEW K PROVE Only(<<>>, K) = <<>>
  OBVIOUS
<1>1. PICK s : s = <<>>
  OBVIOUS
<1>2. s \in Seq({}) /\ Len(s) = 0
  <2>1. <<>> \in Seq({})
    OBVIOUS
  <2>2. Len(<<>>) = 0
    OBVIOUS
  <2> QED BY <1>1, <2>1, <2>2
<1>3. PICK h \in [0 .. Len(s) -> Seq({})] : Kept(s, K, h) /\ Only(s, K) = h[Len(s)]
  BY <1>2, OnlyIsKept
<1> QED BY <1>1, <1>2, <1>3 DEF Kept

LEMMA OnlyAppend ==
  ASSUME NEW S, NEW s \in Seq(S), NEW x \in S, NEW K
  PROVE  /\ Only(s, K) \in Seq(S)
         /\ Only(Append(s, x), K) = IF x \in K THEN Append(Only(s, K), x) ELSE Only(s, K)
<1>1. PICK n \in Nat : n = Len(s)
  OBVIOUS
<1>2. PICK t \in Seq(S) : t = Append(s, x)
  <2>1. Append(s, x) \in Seq(S)
    OBVIOUS
  <2> QED BY <2>1
<1>3. Len(t) = n + 1 /\ t[n + 1] = x /\ \A k \in 1 .. n : t[k] = s[k]
  BY <1>1, <1>2
<1>4. PICK h \in [0 .. n -> Seq(S)] : Kept(s, K, h) /\ Only(s, K) = h[n]
  BY <1>1, OnlyIsKept
<1>5. PICK f \in [0 .. n + 1 -> Seq(S)] : Kept(t, K, f) /\ Only(t, K) = f[n + 1]
  <2>1. \E f \in [0 .. Len(t) -> Seq(S)] : Kept(t, K, f) /\ Only(t, K) = f[Len(t)]
    BY OnlyIsKept
  <2> QED BY <2>1, <1>3
<1> DEFINE T == {k \in 0 .. n : f[k] = h[k]}
<1>6. 0 \in T
  BY <1>4, <1>5 DEF Kept
<1>7. ASSUME NEW k \in 0 .. n - 1, k \in T PROVE k + 1 \in T
  <2>1. k + 1 \in 1 .. n /\ (k + 1) - 1 = k /\ k + 1 \in 1 .. n + 1
    OBVIOUS
  <2>2. h[k + 1] = IF s[k + 1] \in K THEN Append(h[k], s[k + 1]) ELSE h[k]
    BY <1>1, <1>4, <2>1 DEF Kept
  <2>3. f[k + 1] = IF t[k + 1] \in K THEN Append(f[k], t[k + 1]) ELSE f[k]
    BY <1>3, <1>5, <2>1 DEF Kept
  <2>4. f[k] = h[k] /\ t[k + 1] = s[k + 1]
    BY <1>3, <1>7, <2>1
  <2> QED BY <2>1, <2>2, <2>3, <2>4
<1> HIDE DEF T
<1>8. 0 .. n \subseteq T
  BY <1>6, <1>7, Upwards
<1>9. f[n] = h[n]
  BY <1>8 DEF T
<1>10. f[n + 1] = IF x \in K THEN Append(f[n], x) ELSE f[n]
  <2>1. n + 1 \in 1 .. Len(t) /\ (n + 1) - 1 = n
    BY <1>3
  <2>2. f[n + 1] = IF t[n + 1] \in K THEN Append(f[n], t[n + 1]) ELSE f[n]
    BY <1>5, <2>1 DEF Kept
  <2> QED BY <1>3, <2>2
<1> QED BY <1>2, <1>4, <1>5, <1>9, <1>10

(* What is kept are the members in K, and once each if they were.          *)
Once(s) == \A i, j \in 1 .. Len(s) : s[i] = s[j] => i = j

LEMMA LenIsNat == ASSUME NEW S, NEW s \in Seq(S) PROVE Len(s) \in Nat
OBVIOUS

LEMMA DomainIs == ASSUME NEW S, NEW s \in Seq(S) PROVE Len(s) \in Nat /\ DOMAIN s = 1 .. Len(s)
OBVIOUS

LEMMA MembersAppend ==
  ASSUME NEW S, NEW s \in Seq(S), NEW x
  PROVE  /\ Members(Append(s, x)) = Members(s) \cup {x}
         /\ (Once(s) /\ x \notin Members(s)) => Once(Append(s, x))
         /\ Members(s) \subseteq S
<1>1. PICK n \in Nat : n = Len(s) /\ DOMAIN s = 1 .. n
  OBVIOUS
<1>2. Len(Append(s, x)) = n + 1 /\ DOMAIN Append(s, x) = 1 .. n + 1
  BY <1>1
<1>3. Append(s, x)[n + 1] = x /\ \A k \in 1 .. n : Append(s, x)[k] = s[k]
  BY <1>1
<1>4. PICK t : t = Append(s, x)
  OBVIOUS
<1>5. Members(t) = Members(s) \cup {x}
  <2>1. Members(t) = {t[k] : k \in 1 .. n + 1}
    BY <1>2, <1>4 DEF Members
  <2>2. Members(s) = {s[k] : k \in 1 .. n}
    BY <1>1 DEF Members
  <2>3. 1 .. n + 1 = 1 .. n \cup {n + 1}
    OBVIOUS
  <2>4. Members(t) = {t[k] : k \in 1 .. n} \cup {t[n + 1]}
    BY <2>1, <2>3, Zenon
  <2>5. {t[k] : k \in 1 .. n} = {s[k] : k \in 1 .. n}
    BY <1>3, <1>4, Zenon
  <2> QED BY <1>3, <1>4, <2>2, <2>4, <2>5, Zenon
<1>6. (Once(s) /\ x \notin Members(s)) => Once(t)
  <2> SUFFICES ASSUME Once(s), x \notin Members(s), NEW i \in 1 .. n + 1, NEW j \in 1 .. n + 1, t[i] = t[j]
               PROVE  i = j
    BY <1>2, <1>4 DEF Once
  <2>1. \A k \in 1 .. n : t[k] = s[k] /\ s[k] # x
    BY <1>1, <1>3, <1>4 DEF Members
  <2>2. t[n + 1] = x
    BY <1>3, <1>4
  <2>3. \A k \in 1 .. n + 1 : k \in 1 .. n \/ k = n + 1
    OBVIOUS
  <2>4. CASE i \in 1 .. n /\ j \in 1 .. n
    BY <1>1, <2>1, <2>4 DEF Once
  <2> QED BY <2>1, <2>2, <2>3, <2>4
<1>7. Members(s) \subseteq S
  BY <1>1 DEF Members
<1> QED BY <1>4, <1>5, <1>6, <1>7

LEMMA OnlyMembers ==
  ASSUME NEW S, NEW s \in Seq(S), NEW K
  PROVE  /\ Only(s, K) \in Seq(S)
         /\ Members(Only(s, K)) = Members(s) \cap K
         /\ Once(s) => Once(Only(s, K))
<1>1. PICK n \in Nat : n = Len(s) /\ DOMAIN s = 1 .. n /\ \A k \in 1 .. n : s[k] \in S
  OBVIOUS
<1>2. PICK h \in [0 .. n -> Seq(S)] : Kept(s, K, h) /\ Only(s, K) = h[n]
  BY <1>1, OnlyIsKept
<1> DEFINE First(k) == {s[j] : j \in 1 .. k}
           T == {k \in 0 .. n : Members(h[k]) = First(k) \cap K /\ (Once(s) => Once(h[k]))}
<1>3. 0 \in T
  <2>1. h[0] = <<>>
    BY <1>2 DEF Kept
  <2>2. Members(<<>>) = {} /\ Once(<<>>) /\ First(0) = {}
    BY DEF Members, Once
  <2> QED BY <2>1, <2>2
<1>4. ASSUME NEW k \in 0 .. n - 1, k \in T PROVE k + 1 \in T
  <2>1. k + 1 \in 1 .. n /\ (k + 1) - 1 = k /\ k \in 0 .. n
    OBVIOUS
  <2>2. PICK g \in Seq(S), x \in S : g = h[k] /\ x = s[k + 1]
    BY <1>1, <2>1
  <2>3. h[k + 1] = IF x \in K THEN Append(g, x) ELSE g
    BY <1>1, <1>2, <2>1, <2>2 DEF Kept
  <2>4. First(k + 1) = First(k) \cup {x}
    <3>1. 1 .. k + 1 = 1 .. k \cup {k + 1}
      OBVIOUS
    <3> QED BY <2>2, <3>1
  <2>5. Members(g) = First(k) \cap K /\ (Once(s) => Once(g))
    BY <1>4, <2>2
  <2>6. Once(s) => x \notin First(k)
    BY <1>1, <2>1, <2>2 DEF Once
  <2> HIDE DEF First
  <2>7. Members(Append(g, x)) = Members(g) \cup {x} /\ (Once(g) /\ x \notin Members(g) => Once(Append(g, x)))
    BY MembersAppend
  <2>8. CASE x \in K
    <3>1. Members(h[k + 1]) = First(k + 1) \cap K
      BY <2>3, <2>4, <2>5, <2>7, <2>8
    <3>2. Once(s) => Once(h[k + 1])
      BY <2>3, <2>5, <2>6, <2>7, <2>8
    <3> QED BY <2>1, <3>1, <3>2
  <2>9. CASE x \notin K
    BY <2>1, <2>3, <2>4, <2>5, <2>9
  <2> QED BY <2>8, <2>9
<1> HIDE DEF T
<1>5. 0 .. n \subseteq T
  BY <1>3, <1>4, Upwards
<1>6. Members(h[n]) = First(n) \cap K /\ (Once(s) => Once(h[n]))
  BY <1>5 DEF T
<1>7. Members(s) = First(n)
  BY <1>1 DEF Members
<1> QED BY <1>2, <1>6, <1>7

-----------------------------------------------------------------------------
(* The depth-first visit, of edges E and a stack S, with F the nodes left  *)
(* for good.                                                               *)

Frame(N) == [node : N, next : Nat]
Arc(N)   == [from : N, to : N]

(* The stack is a path along the edges that its calls stopped at.          *)
OnPath(E, S) ==
  /\ \A i, j \in 1 .. Len(S) : S[i].node = S[j].node => i = j
  /\ \A i \in 1 .. Len(S) : S[i].next \in 1 .. Len(E) + 1
  /\ \A i \in 1 .. Len(S) - 1 :
       /\ S[i].next - 1 \in 1 .. Len(E)
       /\ E[S[i].next - 1].from = S[i].node
       /\ E[S[i].next - 1].to = S[i + 1].node

(* Every edge that a call has passed leads to a node left for good, or to  *)
(* the call above it.                                                      *)
Passed(E, S, F) ==
  \A i \in 1 .. Len(S), k \in 1 .. Len(E) :
    (k < S[i].next /\ E[k].from = S[i].node) =>
      E[k].to \in F \/ (i < Len(S) /\ E[k].to = S[i + 1].node)

Closed(E, F) == \A k \in 1 .. Len(E) : E[k].from \in F => E[k].to \in F

(* No part of F feeds itself.                                              *)
Fed(E, C, n) == \E k \in 1 .. Len(E) : E[k].to = n /\ E[k].from \in C
Ranked(E, F) == \A C \in SUBSET F : C # {} => \E n \in C : ~Fed(E, C, n)

Dfs(E, V, S) ==
  LET F == V \ Frames(S)
  IN  Frames(S) \subseteq V /\ OnPath(E, S) /\ Passed(E, S, F) /\ Closed(E, F) /\ Ranked(E, F)

LEMMA FramesOf ==
  ASSUME NEW N, NEW S \in Seq(Frame(N))
  PROVE  /\ Frames(S) = {S[i].node : i \in 1 .. Len(S)} /\ Frames(S) \subseteq N
         /\ \A i \in 1 .. Len(S) : S[i] \in Frame(N) /\ S[i].node \in N /\ S[i].next \in Nat
<1>1. DOMAIN S = 1 .. Len(S) /\ \A i \in 1 .. Len(S) : S[i] \in Frame(N)
  OBVIOUS
<1>2. \A f \in Frame(N) : f.node \in N /\ f.next \in Nat
  BY DEF Frame
<1>3. Frames(S) = {S[i].node : i \in 1 .. Len(S)}
  BY <1>1 DEF Frames
<1> QED BY <1>1, <1>2, <1>3

(* A call of a node that was not seen, from an empty stack.                *)
LEMMA DfsRoot ==
  ASSUME NEW N, NEW E \in Seq(Arc(N)), NEW V \in SUBSET N, NEW n \in N, n \notin V, Dfs(E, V, <<>>),
         NEW S \in Seq(Frame(N)), Len(S) = 1, S[1].node = n, S[1].next = 1
  PROVE  Dfs(E, V \cup {n}, S)
<1>1. PICK l \in Nat : l = Len(E)
  BY LenIsNat, Zenon
<1>2. Frames(S) = {n}
  <2>1. Frames(S) = {S[i].node : i \in 1 .. Len(S)}
    BY FramesOf
  <2>2. 1 .. Len(S) = {1}
    OBVIOUS
  <2> QED BY <2>1, <2>2
<1>3. Frames(<<>>) = {}
  BY DEF Frames
<1>4. (V \cup {n}) \ Frames(S) = V /\ V \ Frames(<<>>) = V
  BY <1>2, <1>3
<1>5. OnPath(E, S)
  BY <1>1 DEF OnPath
<1>6. Passed(E, S, V)
  BY <1>1 DEF Passed
<1> QED BY <1>2, <1>4, <1>5, <1>6 DEF Dfs

(* The top call passes an edge of another node, or to a node left for good. *)
LEMMA DfsSkip ==
  ASSUME NEW N, NEW E \in Seq(Arc(N)), NEW V, NEW S \in Seq(Frame(N)), Dfs(E, V, S),
         NEW m \in Nat \ {0}, m = Len(S), S[m].next \in 1 .. Len(E),
         E[S[m].next].from # S[m].node \/ E[S[m].next].to \in V \ Frames(S),
         NEW T \in Seq(Frame(N)), Len(T) = m, T[m].node = S[m].node, T[m].next = S[m].next + 1,
         \A i \in 1 .. m - 1 : T[i] = S[i]
  PROVE  Dfs(E, V, T)
<1>1. PICK l \in Nat : l = Len(E)
  BY LenIsNat, Zenon
<1> DEFINE F == V \ Frames(S)
<1>2. \A i \in 1 .. m : i \in 1 .. m - 1 \/ i = m
  OBVIOUS
<1>3. \A i \in 1 .. m : T[i].node = S[i].node
  BY <1>2
<1>4. Frames(T) = Frames(S)
  <2>1. Frames(S) = {S[i].node : i \in 1 .. m} /\ Frames(T) = {T[i].node : i \in 1 .. m}
    BY FramesOf
  <2>2. \A x : x \in Frames(S) <=> \E i \in 1 .. m : x = S[i].node
    BY <2>1
  <2>3. \A x : x \in Frames(T) <=> \E i \in 1 .. m : x = S[i].node
    BY <1>3, <2>1
  <2> QED BY <2>2, <2>3
<1>5. \A i \in 1 .. m : S[i].next \in Nat /\ T[i].next \in Nat
  BY FramesOf
<1>6. OnPath(E, S) /\ Passed(E, S, F)
  BY DEF Dfs
<1> HIDE DEF F
<1>7. OnPath(E, T)
  <2>1. \A i, j \in 1 .. m : T[i].node = T[j].node => i = j
    BY <1>3, <1>6 DEF OnPath
  <2>2. \A i \in 1 .. m : T[i].next \in 1 .. l + 1
    BY <1>1, <1>2, <1>6 DEF OnPath
  <2>3. ASSUME NEW i \in 1 .. m - 1
        PROVE  /\ T[i].next - 1 \in 1 .. l
               /\ E[T[i].next - 1].from = T[i].node
               /\ E[T[i].next - 1].to = T[i + 1].node
    <3>1. T[i] = S[i] /\ i + 1 \in 1 .. m
      BY SMTT(20)
    <3>2. T[i + 1].node = S[i + 1].node
      BY <1>3, <3>1
    <3> QED BY <1>1, <1>6, <3>1, <3>2 DEF OnPath
  <2> QED BY <1>1, <2>1, <2>2, <2>3 DEF OnPath
<1>8. Passed(E, T, F)
  <2> SUFFICES ASSUME NEW i \in 1 .. m, NEW k \in 1 .. l, k < T[i].next, E[k].from = T[i].node
               PROVE  E[k].to \in F \/ (i < m /\ E[k].to = T[i + 1].node)
    BY <1>1 DEF Passed
  <2>1. k < S[i].next => E[k].to \in F \/ (i < m /\ E[k].to = S[i + 1].node)
    BY <1>1, <1>3, <1>6 DEF Passed
  <2>2. i < m => T[i + 1].node = S[i + 1].node
    <3>1. i < m => i + 1 \in 1 .. m
      OBVIOUS
    <3> QED BY <1>3, <3>1
  <2>3. CASE i < m
    BY <2>1, <2>2, <2>3
  <2>4. CASE i = m /\ k = S[m].next
    BY <1>3, <2>4 DEF F
  <2>5. CASE i = m /\ k < S[m].next
    BY <2>1, <2>5
  <2> QED BY <1>5, <2>3, <2>4, <2>5
<1> QED BY <1>4, <1>7, <1>8 DEF Dfs, F

(* It follows an edge to a node that was not seen.                         *)
LEMMA DfsPush ==
  ASSUME NEW N, NEW E \in Seq(Arc(N)), NEW V, NEW S \in Seq(Frame(N)), Dfs(E, V, S),
         NEW m \in Nat \ {0}, m = Len(S), S[m].next \in 1 .. Len(E),
         E[S[m].next].from = S[m].node, NEW n \in N, n = E[S[m].next].to, n \notin V,
         NEW T \in Seq(Frame(N)), Len(T) = m + 1, T[m].node = S[m].node, T[m].next = S[m].next + 1,
         \A i \in 1 .. m - 1 : T[i] = S[i],
         T[m + 1].node = n, T[m + 1].next = 1
  PROVE  Dfs(E, V \cup {n}, T)
<1>1. PICK l \in Nat : l = Len(E)
  BY LenIsNat, Zenon
<1> DEFINE F == V \ Frames(S)
<1>2. \A i \in 1 .. m + 1 : i \in 1 .. m - 1 \/ i = m \/ i = m + 1
  OBVIOUS
<1>3. \A i \in 1 .. m : T[i].node = S[i].node
  BY <1>2
<1>4. Frames(S) = {S[i].node : i \in 1 .. m} /\ Frames(T) = {T[i].node : i \in 1 .. m + 1}
  BY FramesOf
<1>5. Frames(T) = Frames(S) \cup {n}
  <2>1. ASSUME NEW x \in Frames(T) PROVE x \in Frames(S) \cup {n}
    <3>1. PICK i \in 1 .. m + 1 : x = T[i].node
      BY <1>4, <2>1
    <3>2. CASE i \in 1 .. m
      BY <1>3, <1>4, <3>1, <3>2
    <3> QED BY <3>1, <3>2
  <2>2. ASSUME NEW x \in Frames(S) PROVE x \in Frames(T)
    <3>1. PICK i \in 1 .. m : x = S[i].node
      BY <1>4, <2>2
    <3> QED BY <1>3, <1>4, <3>1
  <2>3. n \in Frames(T)
    BY <1>4
  <2> QED BY <2>1, <2>2, <2>3
<1>6. Frames(S) \subseteq V /\ OnPath(E, S) /\ Passed(E, S, F) /\ Closed(E, F) /\ Ranked(E, F)
  BY DEF Dfs
<1>7. (V \cup {n}) \ Frames(T) = F /\ Frames(T) \subseteq V \cup {n}
  BY <1>5, <1>6
<1>8. \A i \in 1 .. m : S[i].next \in Nat /\ S[i].node # n
  BY <1>4, <1>6, FramesOf
<1> HIDE DEF F
<1>9. OnPath(E, T)
  <2>1. ASSUME NEW i \in 1 .. m + 1, NEW j \in 1 .. m + 1, T[i].node = T[j].node PROVE i = j
    <3>1. CASE i \in 1 .. m /\ j \in 1 .. m
      BY <1>3, <1>6, <2>1, <3>1 DEF OnPath
    <3> QED BY <1>3, <1>8, <2>1, <3>1
  <2>2. \A i \in 1 .. m + 1 : T[i].next \in 1 .. l + 1
    <3>1. \A i \in 1 .. m - 1 : S[i].next \in 1 .. l + 1
      BY <1>1, <1>6 DEF OnPath
    <3>2. T[m].next \in 1 .. l + 1 /\ T[m + 1].next \in 1 .. l + 1
      BY <1>1
    <3>3. \A i \in 1 .. m - 1 : T[i].next \in 1 .. l + 1
      BY <3>1, Zenon
    <3> QED BY <1>2, <3>2, <3>3, Zenon
  <2>3. ASSUME NEW i \in 1 .. m
        PROVE  /\ T[i].next - 1 \in 1 .. l
               /\ E[T[i].next - 1].from = T[i].node
               /\ E[T[i].next - 1].to = T[i + 1].node
    <3>1. CASE i \in 1 .. m - 1
      <4>1. T[i] = S[i] /\ i + 1 \in 1 .. m
        BY <3>1, SMTT(20)
      <4>2. T[i + 1].node = S[i + 1].node
        BY <1>3, <4>1
      <4> QED BY <1>1, <1>6, <3>1, <4>1, <4>2 DEF OnPath
    <3>2. CASE i = m
      <4>1. T[m].next - 1 = S[m].next
        BY <1>8
      <4> QED BY <1>1, <3>2, <4>1
    <3> QED BY <3>1, <3>2
  <2> QED BY <1>1, <2>1, <2>2, <2>3 DEF OnPath
<1>10. Passed(E, T, F)
  <2> SUFFICES ASSUME NEW i \in 1 .. m + 1, NEW k \in 1 .. l, k < T[i].next, E[k].from = T[i].node
               PROVE  E[k].to \in F \/ (i < m + 1 /\ E[k].to = T[i + 1].node)
    BY <1>1 DEF Passed
  <2>1. CASE i \in 1 .. m - 1
    <3>1. T[i + 1].node = S[i + 1].node /\ T[i] = S[i]
      <4>1. i + 1 \in 1 .. m
        BY <2>1
      <4> QED BY <1>3, <2>1, <4>1, Zenon
    <3>2. E[k].to \in F \/ (i < m /\ E[k].to = S[i + 1].node)
      BY <1>1, <1>6, <2>1, <3>1 DEF Passed
    <3> QED BY <2>1, <3>1, <3>2
  <2>2. CASE i = m /\ k < S[m].next
    BY <1>1, <1>6, <2>2 DEF Passed
  <2>3. CASE i = m /\ k = S[m].next
    BY <2>3
  <2>4. CASE i = m + 1
    BY <2>4
  <2> QED BY <1>2, <1>8, <2>1, <2>2, <2>3, <2>4
<1> QED BY <1>6, <1>7, <1>9, <1>10 DEF Dfs

(* A call that has passed all edges returns: nothing leads from what was   *)
(* left before to its node, nor from its node to itself.                   *)
LEMMA DfsPop ==
  ASSUME NEW N, NEW E \in Seq(Arc(N)), NEW V, NEW S \in Seq(Frame(N)), Dfs(E, V, S),
         NEW m \in Nat \ {0}, m = Len(S), S[m].next > Len(E),
         NEW T \in Seq(Frame(N)), Len(T) = m - 1, \A i \in 1 .. m - 1 : T[i] = S[i]
  PROVE  Dfs(E, V, T)
<1>1. PICK l \in Nat : l = Len(E)
  BY LenIsNat, Zenon
<1> DEFINE F == V \ Frames(S)  t == S[m].node  G == F \cup {t}
<1>2. Frames(S) = {S[i].node : i \in 1 .. m} /\ Frames(T) = {T[i].node : i \in 1 .. m - 1}
  BY FramesOf
<1>3. Frames(S) \subseteq V /\ OnPath(E, S) /\ Passed(E, S, F) /\ Closed(E, F) /\ Ranked(E, F)
  BY DEF Dfs
<1>4. t \notin Frames(T) /\ Frames(S) = Frames(T) \cup {t}
  <2>1. \A i \in 1 .. m - 1 : T[i].node # t
    <3>1. \A i \in 1 .. m - 1 : S[i].node = S[m].node => i = m
      BY <1>3 DEF OnPath
    <3> QED BY <3>1
  <2>2. 1 .. m = 1 .. m - 1 \cup {m}
    OBVIOUS
  <2>3. \A i \in 1 .. m - 1 : T[i].node = S[i].node
    OBVIOUS
  <2>4. Frames(S) = {S[i].node : i \in 1 .. m - 1} \cup {t}
    BY <1>2, <2>2
  <2>5. Frames(T) = {S[i].node : i \in 1 .. m - 1}
    BY <1>2, <2>3, ZenonT(30)
  <2>6. t \notin Frames(T)
    BY <1>2, <2>1
  <2> QED BY <2>4, <2>5, <2>6
<1>5. V \ Frames(T) = G /\ Frames(T) \subseteq V /\ t \notin F
  BY <1>3, <1>4
<1>6. \A i \in 1 .. m : S[i].next \in Nat
  BY FramesOf
<1>7. \A k \in 1 .. l : E[k].from = t => E[k].to \in F
  BY <1>1, <1>3, <1>6 DEF Passed
<1> HIDE DEF F, t
<1>8. OnPath(E, T)
  <2>1. \A i, j \in 1 .. m - 1 : T[i].node = T[j].node => i = j
    <3>1. \A i, j \in 1 .. m : S[i].node = S[j].node => i = j
      BY <1>3 DEF OnPath
    <3>2. \A i \in 1 .. m - 1 : i \in 1 .. m /\ T[i].node = S[i].node
      <4>1. \A i \in 1 .. m - 1 : i \in 1 .. m
        OBVIOUS
      <4>2. \A i \in 1 .. m - 1 : T[i].node = S[i].node
        BY Zenon
      <4> QED BY <4>1, <4>2, Zenon
    <3>3. ASSUME NEW i \in 1 .. m - 1, NEW j \in 1 .. m - 1, T[i].node = T[j].node PROVE i = j
      <4>1. i \in 1 .. m /\ j \in 1 .. m /\ S[i].node = S[j].node
        BY <3>2, <3>3, Zenon
      <4> QED BY <3>1, <4>1, Zenon
    <3> QED BY <3>3
  <2>2. \A i \in 1 .. m - 1 : T[i].next \in 1 .. l + 1
    BY <1>1, <1>3 DEF OnPath
  <2>3. ASSUME NEW i \in 1 .. m - 2
        PROVE  /\ T[i].next - 1 \in 1 .. l
               /\ E[T[i].next - 1].from = T[i].node
               /\ E[T[i].next - 1].to = T[i + 1].node
    <3>1. i \in 1 .. m - 1 /\ T[i] = S[i] /\ T[i + 1] = S[i + 1]
      OBVIOUS
    <3> QED BY <1>1, <1>3, <3>1 DEF OnPath
  <2> QED BY <1>1, <2>1, <2>2, <2>3 DEF OnPath
<1>9. Passed(E, T, G)
  <2> SUFFICES ASSUME NEW i \in 1 .. m - 1, NEW k \in 1 .. l, k < T[i].next, E[k].from = T[i].node
               PROVE  E[k].to \in G \/ (i < m - 1 /\ E[k].to = T[i + 1].node)
    BY <1>1 DEF Passed
  <2>1. E[k].to \in F \/ (i < m /\ E[k].to = S[i + 1].node)
    <3>1. i \in 1 .. m /\ T[i] = S[i]
      OBVIOUS
    <3> QED BY <1>1, <1>3, <3>1 DEF Passed
  <2>2. CASE i = m - 1
    <3>1. S[i + 1].node = t
      BY <2>2 DEF t
    <3> QED BY <2>1, <3>1
  <2>3. CASE i < m - 1
    BY <2>1, <2>3
  <2> QED BY <2>2, <2>3
<1>10. Closed(E, G)
  BY <1>1, <1>3, <1>7 DEF Closed
<1>11. Ranked(E, G)
  <2> SUFFICES ASSUME NEW C \in SUBSET G, C # {}
               PROVE  \E n \in C : ~Fed(E, C, n)
    BY DEF Ranked
  <2>1. CASE t \in C
    <3>1. ASSUME NEW k \in 1 .. l, E[k].to = t, E[k].from \in C PROVE FALSE
      <4>1. CASE E[k].from = t
        BY <1>5, <1>7, <3>1, <4>1
      <4>2. CASE E[k].from \in F
        BY <1>1, <1>3, <1>5, <3>1, <4>2 DEF Closed
      <4> QED BY <3>1, <4>1, <4>2
    <3> QED BY <1>1, <2>1, <3>1 DEF Fed
  <2>2. CASE t \notin C
    BY <1>3, <2>2 DEF Ranked
  <2> QED BY <2>1, <2>2
<1> QED BY <1>5, <1>8, <1>9, <1>10, <1>11 DEF Dfs

Loops(N, E) == \E C \in (SUBSET N) \ {{}} : \A n \in C : Fed(E, C, n)

(* An edge from the top of the path back into it: what lies above its end  *)
(* feeds itself.                                                           *)
LEMMA DfsRefuse ==
  ASSUME NEW N, NEW E \in Seq(Arc(N)), NEW S \in Seq(Frame(N)), OnPath(E, S),
         NEW m \in Nat \ {0}, m = Len(S), S[m].next \in 1 .. Len(E),
         E[S[m].next].from = S[m].node, E[S[m].next].to \in Frames(S)
  PROVE  Loops(N, E)
<1>1. PICK l \in Nat : l = Len(E)
  BY LenIsNat, Zenon
<1>2. PICK p \in 1 .. m : E[S[m].next].to = S[p].node
  BY FramesOf
<1> DEFINE C == {S[i].node : i \in p .. m}
<1>3. C \subseteq N /\ C # {}
  <2>1. \A i \in p .. m : S[i].node \in N
    BY FramesOf
  <2>2. S[p].node \in C
    OBVIOUS
  <2> QED BY <2>1, <2>2
<1>4. ASSUME NEW n \in C PROVE \E k \in 1 .. l : E[k].to = n /\ E[k].from \in C
  <2>1. PICK i \in p .. m : n = S[i].node
    OBVIOUS
  <2>2. CASE i = p
    <3>1. S[m].node \in C
      OBVIOUS
    <3> QED BY <1>1, <1>2, <2>1, <2>2, <3>1
  <2>3. CASE i # p
    <3>1. i - 1 \in p .. m /\ i - 1 \in 1 .. m - 1 /\ (i - 1) + 1 = i
      BY <2>3
    <3>2. PICK j \in p .. m : j = i - 1 /\ j \in 1 .. m - 1 /\ j + 1 = i
      BY <3>1
    <3>3. PICK k : k = S[j].next - 1
      OBVIOUS
    <3>4. k \in 1 .. l /\ E[k].from = S[j].node /\ E[k].to = S[j + 1].node
      BY <1>1, <3>2, <3>3 DEF OnPath
    <3>5. S[j].node \in C
      OBVIOUS
    <3> QED BY <2>1, <3>2, <3>4, <3>5
  <2> QED BY <2>2, <2>3
<1> HIDE DEF C
<1>5. \A n \in C : Fed(E, C, n)
  BY <1>1, <1>4 DEF Fed
<1> QED BY <1>3, <1>5 DEF Loops

(* When nothing is left to visit, no part of the graph feeds itself.       *)
LEMMA DfsEnd ==
  ASSUME NEW N, NEW E, NEW V, N \subseteq V, Dfs(E, V, <<>>)
  PROVE  ~Loops(N, E)
<1>1. V \ Frames(<<>>) = V
  BY DEF Frames
<1> QED BY <1>1 DEF Dfs, Ranked, Loops

-----------------------------------------------------------------------------
(* The sort.  Gone are the edges that it has taken away: those out of the  *)
(* nodes of its result, and of the node on turn those before the next.     *)

Gone(E, O, t) ==
  {k \in 1 .. Len(E) : E[k].from \in Members(O) /\ (t.next # 0 /\ E[k].from = t.node => k < t.next)}
Into(E, n) == {k \in 1 .. Len(E) : E[k].to = n}
Left(E, G, n) == Into(E, n) \ G

FollowsEdges(E, O) ==
  \A k \in 1 .. Len(E), j \in 1 .. Len(O) :
    E[k].to = O[j] => \E i \in 1 .. j - 1 : O[i] = E[k].from

Kahn(N, E, D, Q, O, t) ==
  LET G == Gone(E, O, t)
  IN  /\ D \in [N -> Nat] /\ \A n \in N : D[n] = Cardinality(Left(E, G, n))
      /\ \A n \in N : n \in Members(O) \cup Members(Q) <=> Left(E, G, n) = {}
      /\ Once(O) /\ Once(Q) /\ Members(O) \cap Members(Q) = {}
      /\ FollowsEdges(E, O)
      /\ t.next # 0 => t.node \in Members(O) /\ t.next \in 1 .. Len(E) + 1

LEMMA LeftFinite ==
  ASSUME NEW N, NEW E \in Seq(Arc(N)), NEW G, NEW n
  PROVE  /\ IsFiniteSet(Left(E, G, n)) /\ Cardinality(Left(E, G, n)) \in 0 .. Len(E)
         /\ Cardinality(Left(E, G, n)) = 0 <=> Left(E, G, n) = {}
<1>1. PICK l \in Nat : l = Len(E)
  BY LenIsNat, Zenon
<1>2. IsFiniteSet(1 .. l) /\ Cardinality(1 .. l) = l
  <2>1. IsFiniteSet(1 .. l) /\ Cardinality(1 .. l) = IF 1 > l THEN 0 ELSE l - 1 + 1
    BY FS_Interval
  <2> QED BY <2>1
<1>3. Left(E, G, n) \subseteq 1 .. l
  BY <1>1 DEF Left, Into
<1> HIDE DEF Left
<1>4. IsFiniteSet(Left(E, G, n)) /\ Cardinality(Left(E, G, n)) <= l
  BY <1>2, <1>3, FS_Subset
<1>5. Cardinality(Left(E, G, n)) \in Nat
  BY <1>4, FS_CardinalityType
<1>6. Cardinality(Left(E, G, n)) = 0 <=> Left(E, G, n) = {}
  BY <1>4, FS_EmptySet
<1> QED BY <1>1, <1>4, <1>5, <1>6

LEMMA KahnStart ==
  ASSUME NEW N, NEW E \in Seq(Arc(N)), NEW D, NEW Q \in Seq(N), NEW t, t.next = 0,
         D = [n \in N |-> Cardinality(Into(E, n))],
         Members(Q) = {n \in N : Cardinality(Into(E, n)) = 0}, Once(Q)
  PROVE  Kahn(N, E, D, Q, <<>>, t)
<1>1. Members(<<>>) = {} /\ Once(<<>>) /\ FollowsEdges(E, <<>>)
  BY DEF Members, Once, FollowsEdges
<1>2. Gone(E, <<>>, t) = {}
  BY <1>1 DEF Gone
<1>3. \A n : Left(E, {}, n) = Into(E, n)
  BY DEF Left
<1>4. \A n \in N : Cardinality(Into(E, n)) \in Nat /\ (Cardinality(Into(E, n)) = 0 <=> Into(E, n) = {})
  BY <1>3, LeftFinite
<1> QED BY <1>1, <1>2, <1>3, <1>4 DEF Kahn

(* The head of the queue is taken: all edges into it come from the result. *)
LEMMA KahnShift ==
  ASSUME NEW N, NEW E \in Seq(Arc(N)), NEW D, NEW Q \in Seq(N), NEW O \in Seq(N), NEW t, t.next = 0,
         Kahn(N, E, D, Q, O, t), NEW h \in N, NEW R \in Seq(N),
         Members(Q) = Members(R) \cup {h}, h \notin Members(R), Once(R),
         NEW P \in Seq(N), P = Append(O, h), NEW u, u.node = h, u.next = 1
  PROVE  Kahn(N, E, D, R, P, u)
<1>1. PICK l \in Nat : l = Len(E)
  BY LenIsNat, Zenon
<1>2. PICK o \in Nat : o = Len(O) /\ DOMAIN O = 1 .. o
  BY DomainIs, Zenon
<1>3. Len(P) = o + 1 /\ P[o + 1] = h /\ \A i \in 1 .. o : P[i] = O[i]
  BY <1>2
<1> DEFINE G == Gone(E, O, t)
<1>4. /\ Members(O) \cap Members(Q) = {} /\ Once(O) /\ FollowsEdges(E, O)
      /\ D \in [N -> Nat] /\ \A n \in N : D[n] = Cardinality(Left(E, G, n))
      /\ \A n \in N : n \in Members(O) \cup Members(Q) <=> Left(E, G, n) = {}
  BY DEF Kahn
<1>5. Members(P) = Members(O) \cup {h} /\ Once(P)
  BY <1>4, MembersAppend
<1>6. Gone(E, P, u) = G
  <2>1. \A k \in 1 .. l : ~(k < 1)
    OBVIOUS
  <2> QED BY <1>1, <1>4, <1>5, <2>1 DEF Gone
<1>7. \A k \in 1 .. l : E[k].to = h => E[k].from \in Members(O)
  <2>1. Left(E, G, h) = {}
    BY <1>4
  <2> QED BY <1>1, <2>1 DEF Left, Into, Gone
<1> HIDE DEF G
<1>8. FollowsEdges(E, P)
  <2> SUFFICES ASSUME NEW k \in 1 .. Len(E), NEW j \in 1 .. Len(P), E[k].to = P[j]
               PROVE  \E i \in 1 .. j - 1 : P[i] = E[k].from
    BY DEF FollowsEdges
  <2>0. k \in 1 .. l /\ j \in 1 .. o + 1
    BY <1>1, <1>3
  <2>1. CASE j \in 1 .. o
    <3>0. E[k].to = O[j] /\ k \in 1 .. Len(E) /\ j \in 1 .. Len(O)
      BY <1>1, <1>2, <1>3, <2>0, <2>1
    <3>1. PICK i \in 1 .. j - 1 : O[i] = E[k].from
      BY <1>4, <3>0 DEF FollowsEdges
    <3>2. i \in 1 .. o
      BY <2>1
    <3> QED BY <1>3, <3>1, <3>2
  <2>2. CASE j = o + 1
    <3>1. E[k].from \in Members(O)
      BY <1>3, <1>7, <2>0, <2>2
    <3>2. PICK i \in 1 .. o : O[i] = E[k].from
      BY <1>2, <3>1 DEF Members
    <3>3. i \in 1 .. j - 1
      BY <2>2
    <3> QED BY <1>3, <3>2, <3>3
  <2>3. j \in 1 .. o \/ j = o + 1
    BY <2>0
  <2> QED BY <2>1, <2>2, <2>3
<1>9. \A n : n \in Members(P) \cup Members(R) <=> n \in Members(O) \cup Members(Q)
  BY <1>5
<1>10. Members(P) \cap Members(R) = {}
  BY <1>4, <1>5
<1>11. h \in Members(P) /\ 1 \in 1 .. l + 1
  BY <1>5
<1> QED BY <1>1, <1>4, <1>5, <1>6, <1>8, <1>9, <1>10, <1>11 DEF Kahn

(* An edge of another node is passed, or the turn ends: nothing changes.   *)
LEMMA KahnPass ==
  ASSUME NEW N, NEW E \in Seq(Arc(N)), NEW D, NEW Q, NEW O, NEW t, NEW u, Kahn(N, E, D, Q, O, t),
         t.next # 0,
         \/ t.next <= Len(E) /\ E[t.next].from # t.node /\ u.node = t.node /\ u.next = t.next + 1
         \/ t.next > Len(E) /\ u.next = 0
  PROVE  Kahn(N, E, D, Q, O, u)
<1>1. PICK l \in Nat : l = Len(E)
  BY LenIsNat, Zenon
<1>2. t.next \in 1 .. l + 1 /\ t.node \in Members(O)
  BY <1>1 DEF Kahn
<1>3. u.next # 0 => u.node \in Members(O) /\ u.next \in 1 .. l + 1
  BY <1>1, <1>2
<1>4. ASSUME NEW k \in 1 .. l
      PROVE  (t.next # 0 /\ E[k].from = t.node => k < t.next) <=> (u.next # 0 /\ E[k].from = u.node => k < u.next)
  <2>1. CASE t.next <= l /\ E[t.next].from # t.node /\ u.node = t.node /\ u.next = t.next + 1
    <3>1. k # t.next => (k < t.next <=> k < u.next)
      BY <1>2, <2>1
    <3>2. k = t.next => E[k].from # t.node
      BY <2>1
    <3> QED BY <1>2, <2>1, <3>1, <3>2
  <2>2. CASE t.next > l /\ u.next = 0
    BY <1>2, <2>2
  <2> QED BY <1>1, <2>1, <2>2
<1>5. Gone(E, O, u) = Gone(E, O, t)
  BY <1>1, <1>4 DEF Gone
<1> QED BY <1>1, <1>3, <1>5 DEF Kahn

Released(D, Q, e, C, R) ==
  C = [D EXCEPT ![e] = @ - 1] /\ R = IF D[e] = 1 THEN Append(Q, e) ELSE Q

(* An edge out of the node on turn is taken away, which queues its end     *)
(* after the last of them.                                                 *)
LEMMA KahnRelease ==
  ASSUME NEW N, NEW E \in Seq(Arc(N)), NEW D, NEW Q \in Seq(N), NEW O \in Seq(N), NEW t, NEW u,
         Kahn(N, E, D, Q, O, t),
         t.next # 0, t.next <= Len(E), E[t.next].from = t.node, u.node = t.node, u.next = t.next + 1,
         NEW e \in N, e = E[t.next].to, NEW C, NEW R \in Seq(N), Released(D, Q, e, C, R)
  PROVE  Kahn(N, E, C, R, O, u)
<1>1. PICK l \in Nat : l = Len(E)
  BY LenIsNat, Zenon
<1>2. PICK k0 \in 1 .. l : k0 = t.next /\ E[k0].from = t.node /\ E[k0].to = e
  <2>1. t.next \in 1 .. l + 1
    BY <1>1 DEF Kahn
  <2>2. t.next \in 1 .. l
    BY <1>1, <2>1
  <2> QED BY <2>2
<1> DEFINE G == Gone(E, O, t)  H == Gone(E, O, u)
<1>3. /\ D \in [N -> Nat] /\ \A n \in N : D[n] = Cardinality(Left(E, G, n))
      /\ \A n \in N : n \in Members(O) \cup Members(Q) <=> Left(E, G, n) = {}
      /\ Once(O) /\ Once(Q) /\ Members(O) \cap Members(Q) = {}
      /\ FollowsEdges(E, O)
      /\ t.node \in Members(O)
  BY DEF Kahn
<1>4. H = G \cup {k0} /\ k0 \notin G
  <2>1. ASSUME NEW k \in 1 .. l
        PROVE  k \in H <=> k \in G \/ k = k0
    <3>1. k # k0 => (k < k0 <=> k < k0 + 1)
      OBVIOUS
    <3>2. k0 < k0 + 1 /\ k0 # 0 /\ k0 + 1 # 0
      OBVIOUS
    <3> QED BY <1>1, <1>2, <1>3, <3>1, <3>2 DEF Gone
  <2>2. H \subseteq 1 .. l /\ G \subseteq 1 .. l
    BY <1>1 DEF Gone
  <2>3. ~(k0 < k0)
    OBVIOUS
  <2>4. k0 \notin G
    BY <1>2, <2>3 DEF Gone
  <2> QED BY <2>1, <2>2, <2>4
<1> HIDE DEF G, H
<1>5. k0 \in Left(E, G, e) /\ Left(E, H, e) = Left(E, G, e) \ {k0}
  BY <1>1, <1>2, <1>4 DEF Left, Into
<1>6. \A n \in N : n # e => Left(E, H, n) = Left(E, G, n)
  BY <1>1, <1>2, <1>4 DEF Left, Into
<1>7. PICK c \in Nat : c = D[e] /\ c = Cardinality(Left(E, G, e)) /\ Cardinality(Left(E, H, e)) = c - 1
  <2>1. IsFiniteSet(Left(E, G, e))
    BY LeftFinite
  <2>2. Cardinality(Left(E, G, e) \ {k0}) = Cardinality(Left(E, G, e)) - 1
    BY <1>5, <2>1, FS_RemoveElement
  <2> QED BY <1>3, <1>5, <2>2
<1>8. c - 1 \in Nat /\ (c - 1 = 0 <=> Left(E, H, e) = {})
  BY <1>7, LeftFinite
<1>9. C \in [N -> Nat] /\ C[e] = c - 1 /\ \A n \in N : n # e => C[n] = D[n]
  BY <1>3, <1>7, <1>8 DEF Released
<1>10. \A n \in N : C[n] = Cardinality(Left(E, H, n))
  BY <1>3, <1>6, <1>7, <1>9
<1>11. e \notin Members(O) \cup Members(Q)
  BY <1>3, <1>5
<1>12. Members(R) = (IF c = 1 THEN Members(Q) \cup {e} ELSE Members(Q)) /\ Once(R)
  <2>1. Members(Append(Q, e)) = Members(Q) \cup {e} /\ Once(Append(Q, e))
    BY <1>3, <1>11, MembersAppend
  <2> QED BY <1>3, <1>7, <2>1 DEF Released
<1>13. \A n \in N : n \in Members(O) \cup Members(R) <=> Left(E, H, n) = {}
  <2>1. ASSUME NEW n \in N, n # e PROVE n \in Members(O) \cup Members(R) <=> Left(E, H, n) = {}
    BY <1>3, <1>6, <1>12, <2>1
  <2>2. e \in Members(O) \cup Members(R) <=> Left(E, H, e) = {}
    <3>1. c - 1 = 0 <=> c = 1
      OBVIOUS
    <3> QED BY <1>8, <1>11, <1>12, <3>1
  <2> QED BY <2>1, <2>2
<1>14. Members(O) \cap Members(R) = {}
  BY <1>3, <1>11, <1>12
<1>15. u.node \in Members(O) /\ u.next \in 1 .. Len(E) + 1
  BY <1>1, <1>2, <1>3
<1> QED BY <1>3, <1>9, <1>10, <1>12, <1>13, <1>14, <1>15 DEF Kahn, H

(* When the queue is empty, what the sort has not put out feeds itself.    *)
LEMMA KahnEnd ==
  ASSUME NEW N, NEW E \in Seq(Arc(N)), NEW D, NEW O \in Seq(N), NEW t, t.next = 0,
         Kahn(N, E, D, <<>>, O, t), ~Loops(N, E)
  PROVE  Members(O) = N
<1> DEFINE C == N \ Members(O)
<1>1. Members(O) \subseteq N
  BY DEF Members
<1>2. Members(<<>>) = {}
  BY DEF Members
<1>3. ASSUME NEW n \in C PROVE Fed(E, C, n)
  <2>1. Left(E, Gone(E, O, t), n) # {}
    BY <1>2 DEF Kahn
  <2>2. PICK k \in 1 .. Len(E) : E[k].to = n /\ k \notin Gone(E, O, t)
    BY <2>1 DEF Left, Into
  <2>3. E[k].from \notin Members(O)
    BY <2>2 DEF Gone
  <2>4. E[k].from \in N
    <3>1. E[k] \in Arc(N)
      OBVIOUS
    <3> QED BY <3>1 DEF Arc
  <2> QED BY <2>2, <2>3, <2>4 DEF Fed
<1>4. C = {}
  BY <1>3 DEF Loops
<1> QED BY <1>1, <1>4

(* As many members as places, where none comes twice.                      *)
LEMMA OnceCardinality ==
  ASSUME NEW S, NEW s \in Seq(S), Once(s)
  PROVE  IsFiniteSet(Members(s)) /\ Cardinality(Members(s)) = Len(s)
<1>1. PICK n \in Nat : n = Len(s) /\ DOMAIN s = 1 .. n
  OBVIOUS
<1>2. IsFiniteSet(1 .. n) /\ Cardinality(1 .. n) = n
  <2>1. IsFiniteSet(1 .. n) /\ Cardinality(1 .. n) = IF 1 > n THEN 0 ELSE n - 1 + 1
    BY FS_Interval
  <2> QED BY <2>1
<1>3. s \in Bijection(1 .. n, Members(s))
  <2>1. s \in [1 .. n -> Members(s)]
    BY <1>1 DEF Members
  <2>2. \A i, j \in 1 .. n : s[i] = s[j] => i = j
    BY <1>1 DEF Once
  <2>3. \A x \in Members(s) : \E i \in 1 .. n : s[i] = x
    BY <1>1 DEF Members
  <2> QED BY <2>1, <2>2, <2>3 DEF Bijection, Injection, Surjection, IsInjective
<1> QED BY <1>1, <1>2, <1>3, FS_Bijection DEF ExistsBijection

-----------------------------------------------------------------------------
(* The inductive invariant of the graph                                    *)

Ground ==
  /\ nodes \in Seq(Nodes) /\ Once(nodes)
  /\ kind \in [Members(nodes) -> Kinds]
  /\ edges \in Seq(Arc(Members(nodes)))

VisitInv ==
  /\ phase \in {"adding", "visiting", "sorting", "built", "thrown"}
  /\ visited \subseteq Members(nodes) /\ stack \in Seq(Frame(Members(nodes)))
  /\ phase = "adding" => visited = {} /\ stack = <<>>
  /\ phase = "visiting" => Dfs(edges, visited, stack)
  /\ phase \in {"sorting", "built"} => ~Loops(Members(nodes), edges)
  /\ phase = "thrown" /\ visited # {} => Loops(Members(nodes), edges)

SortInv ==
  /\ queue \in Seq(Members(nodes)) /\ order \in Seq(Members(nodes))
  /\ phase \in {"adding", "visiting"} => queue = <<>> /\ order = <<>> /\ turn = NoTurn
  /\ phase = "sorting" =>
       /\ Kahn(Members(nodes), edges, inDegree, queue, order, turn)
       /\ turn # NoTurn => turn \in [node : Members(nodes), next : Nat \ {0}]
  /\ phase # "sorting" => inDegree = [n \in {} |-> 0]
  /\ phase = "built" => Members(order) = Members(nodes) /\ Once(order)

GraphInv == Ground /\ VisitInv /\ SortInv

LEMMA EmptySeq == \A S : <<>> \in Seq(S) /\ Len(<<>>) = 0 /\ Members(<<>>) = {} /\ Once(<<>>)
<1>1. \A S : <<>> \in Seq(S)
  OBVIOUS
<1>2. Len(<<>>) = 0
  OBVIOUS
<1>3. Members(<<>>) = {} /\ Once(<<>>)
  BY DEF Members, Once
<1> QED BY <1>1, <1>2, <1>3

LEMMA SeqGrows == \A S, T, s : S \subseteq T /\ s \in Seq(S) => s \in Seq(T)
<1> SUFFICES ASSUME NEW S, NEW T, NEW s \in Seq(S), S \subseteq T PROVE s \in Seq(T)
  OBVIOUS
<1>1. PICK n \in Nat : n = Len(s)
  OBVIOUS
<1>2. s = [i \in 1 .. n |-> s[i]] /\ \A i \in 1 .. n : s[i] \in T
  BY <1>1
<1> QED BY <1>2

LEMMA GraphStarts == ASSUME GraphInit PROVE GraphInv
<1>1. nodes \in Seq(Nodes) /\ Members(nodes) = {} /\ Once(nodes)
  BY EmptySeq DEF GraphInit
<1>2. edges \in Seq(Arc(Members(nodes))) /\ stack \in Seq(Frame(Members(nodes)))
  BY EmptySeq DEF GraphInit
<1>3. queue \in Seq(Members(nodes)) /\ order \in Seq(Members(nodes))
  BY EmptySeq DEF GraphInit
<1>4. kind \in [Members(nodes) -> Kinds]
  BY <1>1 DEF GraphInit
<1>5. phase = "adding" /\ visited = {} /\ stack = <<>> /\ queue = <<>> /\ order = <<>> /\ turn = NoTurn
      /\ inDegree = [n \in {} |-> 0]
  BY DEF GraphInit
<1>6. Ground
  BY <1>1, <1>2, <1>4 DEF Ground
<1>7. VisitInv
  BY <1>2, <1>5 DEF VisitInv
<1>8. SortInv
  BY <1>3, <1>5 DEF SortInv
<1> QED BY <1>6, <1>7, <1>8 DEF GraphInv

LEMMA AddNodeGrows ==
  ASSUME GraphInv, NEW n \in Nodes, NEW k \in Kinds, AddNode(n, k)
  PROVE  GraphInv'
<1>1. /\ phase = "adding" /\ visited = {} /\ stack = <<>> /\ queue = <<>> /\ order = <<>> /\ turn = NoTurn
      /\ inDegree = [m \in {} |-> 0]
      /\ edges' = edges /\ visited' = visited /\ stack' = stack /\ queue' = queue /\ order' = order /\ turn' = turn
      /\ inDegree' = inDegree
  BY DEF AddNode, GraphInv, VisitInv, SortInv, visit, sorting
<1>2. Ground
  BY DEF GraphInv
<1>3. CASE n \in Members(nodes)
  <2>1. phase' = "thrown" /\ nodes' = nodes /\ kind' = kind
    BY <1>3 DEF AddNode
  <2>2. Ground'
    BY <1>1, <1>2, <2>1 DEF Ground
  <2>3. VisitInv' /\ SortInv'
    <3>1. \A S : <<>> \in Seq(S)
      BY EmptySeq
    <3> QED BY <1>1, <2>1, <3>1 DEF VisitInv, SortInv
  <2> QED BY <2>2, <2>3 DEF GraphInv
<1>4. CASE n \notin Members(nodes)
  <2>1. phase' = "adding" /\ nodes' = Append(nodes, n)
        /\ kind' = [m \in Members(nodes') |-> IF m = n THEN k ELSE kind[m]]
    BY <1>1, <1>4 DEF AddNode
  <2>2. Members(nodes') = Members(nodes) \cup {n} /\ Once(nodes') /\ nodes' \in Seq(Nodes)
    <3>1. PICK s \in Seq(Nodes) : s = nodes /\ Once(s)
      BY <1>2 DEF Ground
    <3>2. Members(Append(s, n)) = Members(s) \cup {n} /\ Once(Append(s, n)) /\ Append(s, n) \in Seq(Nodes)
      <4>1. n \notin Members(s)
        BY <1>4, <3>1
      <4>2. Append(s, n) \in Seq(Nodes)
        OBVIOUS
      <4> QED BY <3>1, <4>1, <4>2, MembersAppend
    <3> QED BY <2>1, <3>1, <3>2
  <2>3. kind' \in [Members(nodes') -> Kinds]
    <3>1. PICK M, M1, f : M = Members(nodes) /\ M1 = Members(nodes') /\ f = kind
      OBVIOUS
    <3>2. f \in [M -> Kinds] /\ M1 = M \cup {n}
      BY <1>2, <2>2, <3>1 DEF Ground
    <3>3. [m \in M1 |-> IF m = n THEN k ELSE f[m]] \in [M1 -> Kinds]
      BY <3>2
    <3> QED BY <2>1, <3>1, <3>3
  <2>4. edges' \in Seq(Arc(Members(nodes')))
    <3>1. \A M, M1 : M \subseteq M1 => Arc(M) \subseteq Arc(M1)
      BY DEF Arc
    <3>2. Arc(Members(nodes)) \subseteq Arc(Members(nodes'))
      BY <2>2, <3>1
    <3>3. edges \in Seq(Arc(Members(nodes)))
      BY <1>2 DEF Ground
    <3> QED BY <1>1, <3>2, <3>3, SeqGrows
  <2>5. Ground'
    BY <2>2, <2>3, <2>4 DEF Ground
  <2>6. VisitInv' /\ SortInv'
    <3>1. \A S : <<>> \in Seq(S)
      BY EmptySeq
    <3> QED BY <1>1, <2>1, <3>1 DEF VisitInv, SortInv
  <2> QED BY <2>5, <2>6 DEF GraphInv
<1> QED BY <1>3, <1>4

LEMMA AddEdgeGrows ==
  ASSUME GraphInv, NEW e \in Edge, AddEdge(e)
  PROVE  GraphInv'
<1>1. /\ phase = "adding" /\ visited = {} /\ stack = <<>> /\ queue = <<>> /\ order = <<>> /\ turn = NoTurn
      /\ inDegree = [m \in {} |-> 0]
      /\ nodes' = nodes /\ kind' = kind
      /\ visited' = visited /\ stack' = stack /\ queue' = queue /\ order' = order /\ turn' = turn
      /\ inDegree' = inDegree
  BY DEF AddEdge, GraphInv, VisitInv, SortInv, visit, sorting
<1>2. Ground
  BY DEF GraphInv
<1>3. phase' \in {"adding", "thrown"}
  BY <1>1 DEF AddEdge
<1>4. edges' \in Seq(Arc(Members(nodes)))
  <2>1. edges \in Seq(Arc(Members(nodes)))
    BY <1>2 DEF Ground
  <2>2. CASE {e.from, e.to} \subseteq Members(nodes)
    <3>1. e \in Arc(Members(nodes))
      BY <2>2 DEF Edge, Arc
    <3>2. edges' = Append(edges, e)
      BY <2>2 DEF AddEdge
    <3>3. PICK A, s : A = Arc(Members(nodes)) /\ s = edges
      OBVIOUS
    <3>4. Append(s, e) \in Seq(A)
      BY <2>1, <3>1, <3>3
    <3> QED BY <3>2, <3>3, <3>4
  <2>3. CASE ~({e.from, e.to} \subseteq Members(nodes))
    BY <2>1, <2>3 DEF AddEdge
  <2> QED BY <2>2, <2>3
<1>5. Ground'
  BY <1>1, <1>2, <1>4 DEF Ground
<1>6. VisitInv' /\ SortInv'
  <2>1. \A S : <<>> \in Seq(S)
    BY EmptySeq
  <2> QED BY <1>1, <1>3, <2>1 DEF VisitInv, SortInv
<1> QED BY <1>5, <1>6 DEF GraphInv

LEMMA BuildStarts == ASSUME GraphInv, Build PROVE GraphInv'
<1>1. /\ phase' = "visiting" /\ visited = {} /\ stack = <<>> /\ queue = <<>> /\ order = <<>> /\ turn = NoTurn
      /\ inDegree = [m \in {} |-> 0]
      /\ nodes' = nodes /\ kind' = kind /\ edges' = edges
      /\ visited' = visited /\ stack' = stack /\ queue' = queue /\ order' = order /\ turn' = turn
      /\ inDegree' = inDegree
  BY DEF Build, GraphInv, VisitInv, SortInv, construction, visit, sorting
<1>2. Dfs(edges, {}, <<>>)
  <2>1. Frames(<<>>) = {}
    BY DEF Frames
  <2>2. OnPath(edges, <<>>) /\ \A F : Passed(edges, <<>>, F)
    BY EmptySeq DEF OnPath, Passed
  <2>3. Closed(edges, {}) /\ Ranked(edges, {})
    BY DEF Closed, Ranked
  <2> QED BY <2>1, <2>2, <2>3 DEF Dfs
<1>3. Ground'
  BY <1>1 DEF Ground, GraphInv
<1>4. VisitInv' /\ SortInv'
  <2>1. \A S : <<>> \in Seq(S)
    BY EmptySeq
  <2> QED BY <1>1, <1>2, <2>1 DEF VisitInv, SortInv
<1> QED BY <1>3, <1>4 DEF GraphInv

(* The steps of the visit leave the rest alone.                            *)
LEMMA VisitSteps ==
  ASSUME GraphInv, phase = "visiting", UNCHANGED <<construction, sorting>>,
         phase' \in {"visiting", "thrown"}, VisitInv'
  PROVE  GraphInv'
<1>1. nodes' = nodes /\ kind' = kind /\ edges' = edges /\ queue' = queue /\ order' = order /\ turn' = turn
      /\ inDegree' = inDegree
  BY DEF construction, sorting
<1>2. Ground'
  BY <1>1 DEF Ground, GraphInv
<1>3. SortInv'
  BY <1>1 DEF SortInv, GraphInv
<1> QED BY <1>2, <1>3 DEF GraphInv

LEMMA VisitVisits ==
  ASSUME GraphInv, NEW n \in Nodes, Visit(n)
  PROVE  GraphInv'
<1>1. /\ phase = "visiting" /\ stack = <<>> /\ n \in Members(nodes) /\ n \notin visited
      /\ phase' = phase /\ nodes' = nodes /\ edges' = edges
      /\ visited' = visited \cup {n} /\ stack' = Append(stack, [node |-> n, next |-> 1])
  BY DEF Visit, Call, Members, construction
<1>2. PICK N, E, V, S : N = Members(nodes) /\ E = edges /\ V = visited /\ S = stack'
  OBVIOUS
<1>3. E \in Seq(Arc(N)) /\ V \in SUBSET N /\ Dfs(E, V, <<>>)
  BY <1>1, <1>2 DEF GraphInv, Ground, VisitInv
<1>4. S \in Seq(Frame(N)) /\ Len(S) = 1 /\ S[1].node = n /\ S[1].next = 1
  <2>1. [node |-> n, next |-> 1] \in Frame(N)
    BY <1>1, <1>2 DEF Frame
  <2>2. PICK f \in Frame(N) : f = [node |-> n, next |-> 1]
    BY <2>1
  <2>3. S = Append(<<>>, f)
    BY <1>1, <1>2, <2>2
  <2>4. S \in Seq(Frame(N)) /\ Len(S) = 1 /\ S[1] = f
    BY <2>3
  <2> QED BY <2>2, <2>4
<1>5. Dfs(E, V \cup {n}, S)
  BY <1>1, <1>2, <1>3, <1>4, DfsRoot
<1>6. VisitInv'
  <2>1. V \cup {n} \subseteq N
    BY <1>1, <1>2, <1>3
  <2> QED BY <1>1, <1>2, <1>4, <1>5, <2>1 DEF VisitInv
<1> QED BY <1>1, <1>6, VisitSteps DEF Visit

LEMMA RefuseRefuses == ASSUME GraphInv, Refuse PROVE GraphInv'
<1>1. /\ phase = "visiting" /\ stack # <<>> /\ Top.next <= Len(edges)
      /\ edges[Top.next].from = Top.node /\ edges[Top.next].to \in Frames(stack)
      /\ phase' = "thrown" /\ nodes' = nodes /\ edges' = edges /\ visited' = visited /\ stack' = stack
  BY DEF Refuse, construction, visit
<1>2. PICK N, E, S : N = Members(nodes) /\ E = edges /\ S = stack
  OBVIOUS
<1>3. E \in Seq(Arc(N)) /\ S \in Seq(Frame(N)) /\ OnPath(E, S)
  BY <1>1, <1>2 DEF GraphInv, Ground, VisitInv, Dfs
<1>4. PICK m \in Nat \ {0} : m = Len(S)
  BY <1>1, <1>2, <1>3
<1>5. S[m].next \in 1 .. Len(E) /\ E[S[m].next].from = S[m].node /\ E[S[m].next].to \in Frames(S)
  <2>1. S[m].next \in 1 .. Len(E) + 1
    BY <1>3, <1>4 DEF OnPath
  <2> QED BY <1>1, <1>2, <1>3, <1>4, <2>1 DEF Top
<1>6. Loops(N, E)
  BY <1>3, <1>4, <1>5, DfsRefuse
<1>7. VisitInv'
  BY <1>1, <1>2, <1>6 DEF VisitInv, GraphInv
<1> QED BY <1>1, <1>7, VisitSteps DEF Refuse

(* Advanced moves the top call on by one edge.                             *)
LEMMA AdvancedOf ==
  ASSUME NEW N, stack \in Seq(Frame(N)), NEW m \in Nat \ {0}, m = Len(stack)
  PROVE  /\ Advanced \in Seq(Frame(N)) /\ Len(Advanced) = m
         /\ Advanced[m].node = stack[m].node /\ Advanced[m].next = stack[m].next + 1
         /\ \A i \in 1 .. m - 1 : Advanced[i] = stack[i]
<1>1. PICK S \in Seq(Frame(N)) : S = stack
  OBVIOUS
<1>2. PICK f \in Frame(N) : f = S[m]
  BY <1>1
<1>3. PICK g : g = [f EXCEPT !.next = @ + 1]
  OBVIOUS
<1>4. g \in Frame(N) /\ g.node = f.node /\ g.next = f.next + 1
  <2>1. f.node \in N /\ f.next \in Nat /\ f = [node |-> f.node, next |-> f.next]
    BY DEF Frame
  <2>2. PICK a \in N, b \in Nat : a = f.node /\ b = f.next
    BY <2>1
  <2>3. g = [node |-> a, next |-> b + 1]
    BY <1>3, <2>1, <2>2
  <2>4. b + 1 \in Nat
    OBVIOUS
  <2> QED BY <2>2, <2>3, <2>4 DEF Frame
<1>5. Advanced = [S EXCEPT ![m] = g]
  BY <1>1, <1>2, <1>3 DEF Advanced
<1>6. PICK A : A = [S EXCEPT ![m] = g]
  OBVIOUS
<1>7. A \in Seq(Frame(N)) /\ Len(A) = m
  BY <1>1, <1>4, <1>6
<1>8. A[m] = g /\ \A i \in 1 .. m - 1 : A[i] = S[i]
  BY <1>1, <1>4, <1>6
<1> QED BY <1>1, <1>2, <1>4, <1>5, <1>6, <1>7, <1>8

LEMMA ExploreExplores == ASSUME GraphInv, Explore PROVE GraphInv'
<1>1. /\ phase = "visiting" /\ stack # <<>> /\ Top.next <= Len(edges)
      /\ ~(edges[Top.next].from = Top.node /\ edges[Top.next].to \in Frames(stack))
      /\ phase' = phase /\ nodes' = nodes /\ edges' = edges
  BY DEF Explore, construction
<1>2. PICK N, E, V, S : N = Members(nodes) /\ E = edges /\ V = visited /\ S = stack
  OBVIOUS
<1>3. E \in Seq(Arc(N)) /\ V \in SUBSET N /\ S \in Seq(Frame(N)) /\ Dfs(E, V, S)
  BY <1>1, <1>2 DEF GraphInv, Ground, VisitInv
<1>4. PICK m \in Nat \ {0} : m = Len(S)
  BY <1>1, <1>2, <1>3
<1>5. S[m].next \in 1 .. Len(E) /\ ~(E[S[m].next].from = S[m].node /\ E[S[m].next].to \in Frames(S))
  <2>1. S[m].next \in 1 .. Len(E) + 1
    BY <1>3, <1>4 DEF OnPath, Dfs
  <2> QED BY <1>1, <1>2, <1>3, <1>4, <2>1 DEF Top
<1>6. PICK A \in Seq(Frame(N)) :
        /\ A = Advanced /\ Len(A) = m
        /\ A[m].node = S[m].node /\ A[m].next = S[m].next + 1
        /\ \A i \in 1 .. m - 1 : A[i] = S[i]
  BY <1>2, <1>3, <1>4, AdvancedOf
<1>7. PICK n \in N : n = E[S[m].next].to
  <2>1. \A a \in Arc(N) : a.to \in N
    BY DEF Arc
  <2>2. E[S[m].next] \in Arc(N)
    BY <1>3, <1>5
  <2> QED BY <2>1, <2>2
<1>8. PICK e : e = edges[Top.next]
  OBVIOUS
<1>9. e.from = E[S[m].next].from /\ e.to = n /\ (e.from = Top.node <=> E[S[m].next].from = S[m].node)
  BY <1>2, <1>4, <1>7, <1>8 DEF Top
<1>10. CASE E[S[m].next].from = S[m].node /\ n \notin V
  <2>1. visited' = V \cup {n} /\ stack' = Append(A, [node |-> n, next |-> 1])
    BY <1>2, <1>6, <1>8, <1>9, <1>10 DEF Explore
  <2>2. PICK f \in Frame(N) : f = [node |-> n, next |-> 1]
    BY DEF Frame
  <2>3. PICK T : T = Append(A, f)
    OBVIOUS
  <2>4. T \in Seq(Frame(N)) /\ Len(T) = m + 1 /\ T[m + 1] = f /\ \A i \in 1 .. m : T[i] = A[i]
    BY <1>6, <2>3
  <2>5. T[m].node = S[m].node /\ T[m].next = S[m].next + 1 /\ \A i \in 1 .. m - 1 : T[i] = S[i]
    BY <1>6, <2>4
  <2>6. T[m + 1].node = n /\ T[m + 1].next = 1
    BY <2>2, <2>4
  <2>7. Dfs(E, V \cup {n}, T)
    BY <1>3, <1>4, <1>5, <1>7, <1>10, <2>4, <2>5, <2>6, DfsPush
  <2>8. V \cup {n} \subseteq N
    BY <1>3
  <2>9. VisitInv'
    BY <1>1, <1>2, <2>1, <2>2, <2>3, <2>4, <2>7, <2>8 DEF VisitInv
  <2> QED BY <1>1, <2>9, VisitSteps DEF Explore
<1>11. CASE ~(E[S[m].next].from = S[m].node /\ n \notin V)
  <2>1. visited' = V /\ stack' = A
    BY <1>2, <1>6, <1>8, <1>9, <1>11 DEF Explore
  <2>2. E[S[m].next].from # S[m].node \/ E[S[m].next].to \in V \ Frames(S)
    BY <1>5, <1>7, <1>11
  <2>3. Dfs(E, V, A)
    BY <1>3, <1>4, <1>5, <1>6, <2>2, DfsSkip
  <2>4. VisitInv'
    BY <1>1, <1>2, <1>3, <1>6, <2>1, <2>3 DEF VisitInv
  <2> QED BY <1>1, <2>4, VisitSteps DEF Explore
<1> QED BY <1>10, <1>11

LEMMA ReturnReturns == ASSUME GraphInv, Return PROVE GraphInv'
<1>1. /\ phase = "visiting" /\ stack # <<>> /\ Top.next > Len(edges)
      /\ phase' = phase /\ nodes' = nodes /\ edges' = edges /\ visited' = visited
      /\ stack' = SubSeq(stack, 1, Len(stack) - 1)
  BY DEF Return, construction
<1>2. PICK N, E, V, S : N = Members(nodes) /\ E = edges /\ V = visited /\ S = stack
  OBVIOUS
<1>3. E \in Seq(Arc(N)) /\ V \in SUBSET N /\ S \in Seq(Frame(N)) /\ Dfs(E, V, S)
  BY <1>1, <1>2 DEF GraphInv, Ground, VisitInv
<1>4. PICK m \in Nat \ {0} : m = Len(S)
  BY <1>1, <1>2, <1>3
<1>5. PICK T : T = SubSeq(S, 1, m - 1)
  OBVIOUS
<1>6. T \in Seq(Frame(N)) /\ Len(T) = m - 1 /\ \A i \in 1 .. m - 1 : T[i] = S[i]
  BY <1>3, <1>4, <1>5
<1>7. S[m].next > Len(E)
  BY <1>1, <1>2, <1>4 DEF Top
<1>8. Dfs(E, V, T)
  BY <1>3, <1>4, <1>6, <1>7, DfsPop
<1>9. VisitInv'
  BY <1>1, <1>2, <1>3, <1>4, <1>5, <1>6, <1>8 DEF VisitInv
<1> QED BY <1>1, <1>9, VisitSteps DEF Return

(* The steps of the sort leave the rest alone.                             *)
LEMMA SortSteps ==
  ASSUME GraphInv, phase = "sorting", UNCHANGED <<construction, visit>>,
         phase' \in {"sorting", "built"}, SortInv'
  PROVE  GraphInv'
<1>1. nodes' = nodes /\ kind' = kind /\ edges' = edges /\ visited' = visited /\ stack' = stack
  BY DEF construction, visit
<1>2. Ground'
  BY <1>1 DEF Ground, GraphInv
<1>3. VisitInv'
  BY <1>1 DEF VisitInv, GraphInv
<1> QED BY <1>2, <1>3 DEF GraphInv

LEMMA InDegreeOf ==
  ASSUME NEW N, edges \in Seq(Arc(N)), NEW n
  PROVE  InDegree(n) = Cardinality(Into(edges, n))
<1>1. DOMAIN edges = 1 .. Len(edges)
  OBVIOUS
<1> QED BY <1>1 DEF InDegree, Into

LEMMA StartSortStarts == ASSUME GraphInv, StartSort PROVE GraphInv'
<1>1. /\ phase = "visiting" /\ stack = <<>> /\ Members(nodes) \subseteq visited
      /\ phase' = "sorting" /\ visited' = {} /\ stack' = stack
      /\ inDegree' = [n \in Members(nodes) |-> InDegree(n)]
      /\ queue' = Only(nodes, {n \in Nodes : InDegree(n) = 0})
      /\ nodes' = nodes /\ kind' = kind /\ edges' = edges /\ order' = order /\ turn' = turn
  BY DEF StartSort, construction
<1>2. PICK N, E, V, s : N = Members(nodes) /\ E = edges /\ V = visited /\ s = nodes
  OBVIOUS
<1>3. E \in Seq(Arc(N)) /\ Dfs(E, V, <<>>) /\ N \subseteq V /\ s \in Seq(Nodes) /\ Once(s) /\ N = Members(s)
      /\ order = <<>> /\ turn = NoTurn
  BY <1>1, <1>2 DEF GraphInv, Ground, VisitInv, SortInv
<1>4. ~Loops(N, E)
  BY <1>3, DfsEnd
<1>5. \A n : InDegree(n) = Cardinality(Into(E, n))
  BY <1>2, <1>3, InDegreeOf
<1>6. PICK K : K = {n \in Nodes : Cardinality(Into(E, n)) = 0}
  OBVIOUS
<1>7. PICK Q : Q = Only(s, K)
  OBVIOUS
<1>8. queue' = Q
  BY <1>1, <1>2, <1>5, <1>6, <1>7
<1>9. Q \in Seq(Nodes) /\ Members(Q) = N \cap K /\ Once(Q)
  BY <1>3, <1>7, OnlyMembers
<1>10. N \subseteq Nodes
  BY <1>3 DEF Members
<1>11. Members(Q) = {n \in N : Cardinality(Into(E, n)) = 0}
  BY <1>6, <1>9, <1>10
<1>12. Q \in Seq(N)
  <2>1. PICK l \in Nat : l = Len(Q) /\ DOMAIN Q = 1 .. l
    BY <1>9
  <2>2. \A i \in 1 .. l : Q[i] \in Members(Q)
    BY <2>1 DEF Members
  <2>3. Q = [i \in 1 .. l |-> Q[i]] /\ \A i \in 1 .. l : Q[i] \in N
    BY <1>9, <2>1, <2>2
  <2> QED BY <2>3
<1>13. inDegree' = [n \in N |-> Cardinality(Into(E, n))]
  BY <1>1, <1>2, <1>5
<1>14. Kahn(N, E, inDegree', Q, <<>>, NoTurn)
  <2>1. NoTurn.next = 0
    BY DEF NoTurn
  <2>2. PICK D, t : D = inDegree' /\ t = NoTurn
    OBVIOUS
  <2>3. Kahn(N, E, D, Q, <<>>, t)
    BY <1>3, <1>9, <1>11, <1>12, <1>13, <2>1, <2>2, KahnStart
  <2> QED BY <2>2, <2>3
<1>15. Ground'
  BY <1>1 DEF Ground, GraphInv
<1>16. VisitInv'
  <2>1. \A S : <<>> \in Seq(S)
    BY EmptySeq
  <2> QED BY <1>1, <1>2, <1>4, <2>1 DEF VisitInv
<1>17. SortInv'
  <2>1. \A S : <<>> \in Seq(S)
    BY EmptySeq
  <2> QED BY <1>1, <1>2, <1>3, <1>8, <1>12, <1>14, <2>1 DEF SortInv
<1> QED BY <1>15, <1>16, <1>17 DEF GraphInv

LEMMA ShiftShifts == ASSUME GraphInv, Shift PROVE GraphInv'
<1>1. /\ phase = "sorting" /\ turn = NoTurn /\ queue # <<>>
      /\ queue' = Tail(queue) /\ order' = Append(order, Head(queue))
      /\ turn' = [node |-> Head(queue), next |-> 1]
      /\ phase' = phase /\ nodes' = nodes /\ edges' = edges /\ inDegree' = inDegree
  BY DEF Shift, construction
<1>2. PICK N, E, D, Q, O, t : N = Members(nodes) /\ E = edges /\ D = inDegree /\ Q = queue /\ O = order /\ t = turn
  OBVIOUS
<1>3. E \in Seq(Arc(N)) /\ Q \in Seq(N) /\ O \in Seq(N) /\ Kahn(N, E, D, Q, O, t) /\ t.next = 0
  BY <1>1, <1>2 DEF GraphInv, Ground, SortInv, NoTurn
<1>4. PICK q \in Nat \ {0} : q = Len(Q) /\ DOMAIN Q = 1 .. q
  BY <1>1, <1>2, <1>3
<1>5. PICK h \in N : h = Head(Q) /\ h = Q[1]
  BY <1>3, <1>4
<1>6. PICK R : R = Tail(Q)
  OBVIOUS
<1>7. R \in Seq(N) /\ Len(R) = q - 1 /\ DOMAIN R = 1 .. q - 1 /\ \A i \in 1 .. q - 1 : R[i] = Q[i + 1]
  BY <1>3, <1>4, <1>6
<1>8. \A i, j \in 1 .. q : Q[i] = Q[j] => i = j
  BY <1>3, <1>4 DEF Kahn, Once
<1>9. Members(Q) = Members(R) \cup {h}
  <2>1. ASSUME NEW x \in Members(Q) PROVE x \in Members(R) \cup {h}
    <3>1. PICK i \in 1 .. q : x = Q[i]
      BY <1>4, <2>1 DEF Members
    <3>2. CASE i = 1
      BY <1>5, <3>1, <3>2
    <3>3. CASE i # 1
      <4>1. PICK j \in 1 .. q - 1 : i = j + 1
        <5>1. i - 1 \in 1 .. q - 1 /\ i = (i - 1) + 1
          BY <3>3
        <5> QED BY <5>1
      <4>2. x = R[j]
        BY <1>7, <3>1, <4>1
      <4> QED BY <1>7, <4>2 DEF Members
    <3> QED BY <3>2, <3>3
  <2>2. ASSUME NEW x \in Members(R) PROVE x \in Members(Q)
    <3>1. PICK i \in 1 .. q - 1 : x = R[i]
      BY <1>7, <2>2 DEF Members
    <3>2. x = Q[i + 1] /\ i + 1 \in 1 .. q
      BY <1>7, <3>1
    <3> QED BY <1>4, <3>2 DEF Members
  <2>3. h \in Members(Q)
    BY <1>4, <1>5 DEF Members
  <2> QED BY <2>1, <2>2, <2>3
<1>10. h \notin Members(R) /\ Once(R)
  <2>1. \A i \in 1 .. q - 1 : i + 1 \in 1 .. q /\ i + 1 # 1
    OBVIOUS
  <2>2. 1 \in 1 .. q
    OBVIOUS
  <2>3. \A i \in 1 .. q - 1 : R[i] # h
    BY <1>5, <1>7, <1>8, <2>1, <2>2, SMTT(20)
  <2>4. \A i, j \in 1 .. q - 1 : R[i] = R[j] => i = j
    <3>1. ASSUME NEW i \in 1 .. q - 1, NEW j \in 1 .. q - 1, R[i] = R[j] PROVE i = j
      <4>1. i + 1 = j + 1
        BY <1>7, <1>8, <2>1, <3>1
      <4> QED BY <4>1
    <3> QED BY <3>1
  <2> QED BY <1>7, <2>3, <2>4 DEF Members, Once
<1>11. PICK P, u : P = Append(O, h) /\ u = [node |-> h, next |-> 1]
  OBVIOUS
<1>12. P \in Seq(N) /\ u.node = h /\ u.next = 1
  BY <1>3, <1>11
<1>13. Kahn(N, E, D, R, P, u)
  BY <1>3, <1>7, <1>9, <1>10, <1>11, <1>12, KahnShift
<1>14. u \in [node : N, next : Nat \ {0}]
  BY <1>11
<1>15. SortInv'
  BY <1>1, <1>2, <1>5, <1>6, <1>7, <1>11, <1>12, <1>13, <1>14 DEF SortInv
<1> QED BY <1>1, <1>15, SortSteps DEF Shift

(* The node on turn, when there is one.                                    *)
LEMMA TurnOf ==
  ASSUME GraphInv, phase = "sorting", turn # NoTurn
  PROVE  turn \in [node : Members(nodes), next : Nat \ {0}] /\ turn.next # 0
BY DEF GraphInv, SortInv

LEMMA RelaxRelaxes == ASSUME GraphInv, Relax PROVE GraphInv'
<1>1. /\ phase = "sorting" /\ turn # NoTurn /\ turn.next <= Len(edges)
      /\ turn' = [turn EXCEPT !.next = @ + 1]
      /\ phase' = phase /\ nodes' = nodes /\ edges' = edges /\ order' = order
  BY DEF Relax, construction
<1>2. PICK N, E, D, Q, O, t : N = Members(nodes) /\ E = edges /\ D = inDegree /\ Q = queue /\ O = order /\ t = turn
  OBVIOUS
<1>3. E \in Seq(Arc(N)) /\ Q \in Seq(N) /\ O \in Seq(N) /\ Kahn(N, E, D, Q, O, t) /\ t.next <= Len(E)
  BY <1>1, <1>2 DEF GraphInv, Ground, SortInv
<1>4. PICK a \in N, b \in Nat \ {0} : t = [node |-> a, next |-> b] /\ t.node = a /\ t.next = b
  BY <1>1, <1>2, TurnOf
<1>5. PICK u : u = [node |-> a, next |-> b + 1]
  OBVIOUS
<1>6. u \in [node : N, next : Nat \ {0}] /\ u.node = a /\ u.next = b + 1
  BY <1>5
<1>7. turn' = u
  BY <1>1, <1>2, <1>4, <1>5
<1>8. PICK e : e = E[b]
  OBVIOUS
<1>9. b \in 1 .. Len(E) /\ e.to \in N
  <2>1. b \in 1 .. Len(E)
    BY <1>3, <1>4
  <2>2. E[b] \in Arc(N)
    BY <1>3, <2>1
  <2> QED BY <1>8, <2>1, <2>2 DEF Arc
<1>10. CASE e.from # a
  <2>1. inDegree' = D /\ queue' = Q
    BY <1>2, <1>4, <1>8, <1>10 DEF Relax
  <2>2. Kahn(N, E, D, Q, O, u)
    BY <1>3, <1>4, <1>6, <1>8, <1>10, KahnPass
  <2>3. SortInv'
    BY <1>1, <1>2, <1>3, <1>6, <1>7, <2>1, <2>2 DEF SortInv
  <2> QED BY <1>1, <2>3, SortSteps DEF Relax
<1>11. CASE e.from = a
  <2>1. PICK f \in N : f = e.to
    BY <1>9
  <2>2. PICK C, R : Released(D, Q, f, C, R)
    BY DEF Released
  <2>3. inDegree' = C /\ queue' = R
    BY <1>2, <1>4, <1>8, <1>11, <2>1, <2>2 DEF Relax, Release, Released
  <2>4. R \in Seq(N)
    <3>1. Append(Q, f) \in Seq(N)
      BY <1>3
    <3> QED BY <1>3, <2>2, <3>1 DEF Released
  <2>5. Kahn(N, E, C, R, O, u)
    <3>1. t.next # 0 /\ E[t.next].from = t.node /\ u.node = t.node /\ u.next = t.next + 1 /\ f = E[t.next].to
      BY <1>4, <1>6, <1>8, <1>11, <2>1
    <3> QED BY <1>3, <2>2, <2>4, <3>1, KahnRelease
  <2>6. SortInv'
    BY <1>1, <1>2, <1>3, <1>6, <1>7, <2>3, <2>4, <2>5 DEF SortInv
  <2> QED BY <1>1, <2>6, SortSteps DEF Relax
<1> QED BY <1>10, <1>11

LEMMA EndTurnEnds == ASSUME GraphInv, EndTurn PROVE GraphInv'
<1>1. /\ phase = "sorting" /\ turn # NoTurn /\ turn.next > Len(edges) /\ turn' = NoTurn
      /\ phase' = phase /\ nodes' = nodes /\ edges' = edges /\ order' = order /\ queue' = queue /\ inDegree' = inDegree
  BY DEF EndTurn, construction
<1>2. PICK N, E, D, Q, O, t : N = Members(nodes) /\ E = edges /\ D = inDegree /\ Q = queue /\ O = order /\ t = turn
  OBVIOUS
<1>3. E \in Seq(Arc(N)) /\ Q \in Seq(N) /\ O \in Seq(N) /\ Kahn(N, E, D, Q, O, t) /\ t.next > Len(E) /\ t.next # 0
  BY <1>1, <1>2, TurnOf DEF GraphInv, Ground, SortInv
<1>4. PICK u : u = NoTurn /\ u.next = 0
  <2>1. NoTurn.next = 0
    BY DEF NoTurn
  <2> QED BY <2>1
<1>5. Kahn(N, E, D, Q, O, u)
  BY <1>3, <1>4, KahnPass
<1>6. SortInv'
  BY <1>1, <1>2, <1>3, <1>4, <1>5 DEF SortInv
<1> QED BY <1>1, <1>6, SortSteps DEF EndTurn

(* What the sort has put out when its queue is empty.                      *)
LEMMA SortedOrder ==
  ASSUME GraphInv, Sorted
  PROVE  Members(order) = Members(nodes) /\ Once(order) /\ FollowsEdges(edges, order)
<1>1. phase = "sorting" /\ turn = NoTurn /\ queue = <<>>
  BY DEF Sorted
<1>2. PICK N, E, D, O, t : N = Members(nodes) /\ E = edges /\ D = inDegree /\ O = order /\ t = turn
  OBVIOUS
<1>3. E \in Seq(Arc(N)) /\ O \in Seq(N) /\ Kahn(N, E, D, <<>>, O, t) /\ t.next = 0 /\ ~Loops(N, E)
  BY <1>1, <1>2 DEF GraphInv, Ground, VisitInv, SortInv, NoTurn
<1>4. Members(O) = N
  BY <1>3, KahnEnd
<1>5. Once(O) /\ FollowsEdges(E, O)
  BY <1>3 DEF Kahn
<1> QED BY <1>2, <1>4, <1>5

LEMMA BuiltBuilds == ASSUME GraphInv, Built PROVE GraphInv'
<1>1. /\ phase = "sorting" /\ phase' = "built" /\ inDegree' = [n \in {} |-> 0] /\ Sorted
      /\ nodes' = nodes /\ edges' = edges /\ order' = order /\ queue' = queue /\ turn' = turn
  BY DEF Built, Sorted, construction
<1>2. Members(order) = Members(nodes) /\ Once(order)
  BY <1>1, SortedOrder
<1>3. queue \in Seq(Members(nodes)) /\ order \in Seq(Members(nodes))
  BY DEF GraphInv, SortInv
<1>4. SortInv'
  BY <1>1, <1>2, <1>3 DEF SortInv
<1> QED BY <1>1, <1>4, SortSteps DEF Built

LEMMA GraphStays == ASSUME GraphInv, UNCHANGED graphVars PROVE GraphInv'
<1>1. /\ phase' = phase /\ nodes' = nodes /\ kind' = kind /\ edges' = edges /\ visited' = visited /\ stack' = stack
      /\ inDegree' = inDegree /\ queue' = queue /\ order' = order /\ turn' = turn
  BY DEF graphVars, construction, visit, sorting
<1>2. Ground' /\ VisitInv'
  BY <1>1 DEF GraphInv, Ground, VisitInv
<1>3. SortInv'
  BY <1>1 DEF GraphInv, SortInv
<1> QED BY <1>2, <1>3 DEF GraphInv

LEMMA GraphSteps == ASSUME GraphInv, GraphNext PROVE GraphInv'
<1>1. CASE \E n \in Nodes, k \in Kinds : AddNode(n, k)
  BY <1>1, AddNodeGrows
<1>2. CASE \E e \in Edge : AddEdge(e)
  BY <1>2, AddEdgeGrows
<1>3. CASE Build
  BY <1>3, BuildStarts
<1>4. CASE \E n \in Nodes : Visit(n)
  BY <1>4, VisitVisits
<1>5. CASE Explore \/ Refuse \/ Return
  BY <1>5, ExploreExplores, RefuseRefuses, ReturnReturns
<1>6. CASE StartSort \/ Shift \/ Relax
  BY <1>6, StartSortStarts, ShiftShifts, RelaxRelaxes
<1>7. CASE EndTurn \/ Built
  BY <1>7, EndTurnEnds, BuiltBuilds
<1> QED BY <1>1, <1>2, <1>3, <1>4, <1>5, <1>6, <1>7 DEF GraphNext

-----------------------------------------------------------------------------
(* What the invariant says of the graph                                    *)

LEMMA GraphTyped == ASSUME GraphInv PROVE GraphTypeOK
<1>1. PICK N, E, s, D : N = Members(nodes) /\ E = edges /\ s = nodes /\ D = inDegree
  OBVIOUS
<1>2. s \in Seq(Nodes) /\ Once(s) /\ E \in Seq(Arc(N))
  BY <1>1 DEF GraphInv, Ground
<1>3. Cardinality(Members(s)) = Len(s)
  BY <1>2, OnceCardinality
<1>4. kind \in [Members(nodes) -> Kinds]
  BY DEF GraphInv, Ground
<1>5. edges \in Seq([from : Members(nodes), to : Members(nodes)])
  BY DEF GraphInv, Ground, Arc
<1>6. visited \subseteq Members(nodes) /\ Frames(stack) \subseteq Members(nodes)
      /\ phase \in {"adding", "visiting", "sorting", "built", "thrown"}
  <2>1. visited \subseteq Members(nodes) /\ stack \in Seq(Frame(Members(nodes)))
        /\ phase \in {"adding", "visiting", "sorting", "built", "thrown"}
    BY DEF GraphInv, VisitInv
  <2> QED BY <2>1, FramesOf
<1>7. \A n \in DOMAIN inDegree : inDegree[n] \in 0 .. Len(edges)
  <2>1. CASE phase = "sorting"
    <3>1. PICK G : D \in [N -> Nat] /\ \A n \in N : D[n] = Cardinality(Left(E, G, n))
      BY <1>1, <2>1 DEF GraphInv, SortInv, Kahn
    <3>2. \A n \in N : D[n] \in 0 .. Len(E)
      BY <1>2, <3>1, LeftFinite
    <3> QED BY <1>1, <3>1, <3>2
  <2>2. CASE phase # "sorting"
    BY <2>2 DEF GraphInv, SortInv
  <2> QED BY <2>1, <2>2
<1>8. Members(queue) \cup Members(order) \subseteq Members(nodes)
  <2>1. queue \in Seq(Members(nodes)) /\ order \in Seq(Members(nodes))
    BY DEF GraphInv, SortInv
  <2>2. \A S : \A q \in Seq(S) : Members(q) \subseteq S
    BY DEF Members
  <2> QED BY <2>1, <2>2
<1> QED BY <1>1, <1>2, <1>3, <1>4, <1>5, <1>6, <1>7, <1>8 DEF GraphTypeOK

LEMMA CyclicLoops == ASSUME GraphInv PROVE Cyclic <=> Loops(Members(nodes), edges)
<1>1. DOMAIN edges = 1 .. Len(edges)
  BY DEF GraphInv, Ground
<1> QED BY <1>1 DEF Cyclic, Loops, Fed

LEMMA GraphRefuses == ASSUME GraphInv PROVE RefusesCyclesOnly
<1>1. (phase \in {"sorting", "built"} => ~Loops(Members(nodes), edges))
      /\ (phase = "thrown" /\ visited # {} => Loops(Members(nodes), edges))
  BY DEF GraphInv, VisitInv
<1> QED BY <1>1, CyclicLoops DEF RefusesCyclesOnly, Sorted

LEMMA GraphOrders == ASSUME GraphInv PROVE OrderFollowsEdges
<1> SUFFICES ASSUME Sorted
             PROVE  /\ Members(order) = Members(nodes) /\ Len(order) = Len(nodes)
                    /\ \A k \in DOMAIN edges : \E i, j \in DOMAIN order :
                         i < j /\ order[i] = edges[k].from /\ order[j] = edges[k].to
  BY DEF OrderFollowsEdges
<1>1. PICK N, E, O, s : N = Members(nodes) /\ E = edges /\ O = order /\ s = nodes
  OBVIOUS
<1>2. Members(O) = N /\ Once(O) /\ FollowsEdges(E, O)
  BY <1>1, SortedOrder
<1>3. s \in Seq(Nodes) /\ Once(s) /\ E \in Seq(Arc(N)) /\ O \in Seq(N) /\ N = Members(s)
  BY <1>1 DEF GraphInv, Ground, SortInv
<1>4. Len(O) = Len(s)
  BY <1>2, <1>3, OnceCardinality
<1>5. ASSUME NEW k \in DOMAIN E
      PROVE  \E i, j \in DOMAIN O : i < j /\ O[i] = E[k].from /\ O[j] = E[k].to
  <2>1. k \in 1 .. Len(E) /\ DOMAIN O = 1 .. Len(O)
    BY <1>3
  <2>2. E[k].to \in N
    <3>1. E[k] \in Arc(N)
      BY <1>3, <2>1
    <3> QED BY <3>1 DEF Arc
  <2>3. PICK j \in 1 .. Len(O) : O[j] = E[k].to
    BY <1>2, <2>1, <2>2 DEF Members
  <2>4. PICK i \in 1 .. j - 1 : O[i] = E[k].from
    BY <1>2, <2>1, <2>3 DEF FollowsEdges
  <2>5. PICK l \in Nat : l = Len(O)
    BY <1>3
  <2>6. i \in 1 .. Len(O) /\ i < j
    BY <2>5
  <2> QED BY <2>1, <2>3, <2>4, <2>6
<1> QED BY <1>1, <1>2, <1>4, <1>5

(* The most severe of each type of a set of risks.                         *)
Own(N) == UNION {kind[n].risks : n \in N}
Worst(all) == {r \in all : \A q \in all : q.type = r.type => Severity[q.severity] <= Severity[r.severity]}
IsRisk(r) == r = [type |-> r.type, severity |-> r.severity] /\ r.severity \in DOMAIN Severity

LEMMA Severities ==
  /\ \A r : IsRisk(r) => Severity[r.severity] \in 1 .. 3
  /\ \A q, r : (IsRisk(q) /\ IsRisk(r) /\ q.type = r.type /\ Severity[q.severity] = Severity[r.severity]) => q = r
<1>1. DOMAIN Severity = {"low", "medium", "high"} /\ Severity["low"] = 1 /\ Severity["medium"] = 2 /\ Severity["high"] = 3
  BY DEF Severity
<1>2. \A x, y \in {"low", "medium", "high"} : Severity[x] \in 1 .. 3 /\ (Severity[x] = Severity[y] => x = y)
  BY <1>1
<1>3. ASSUME NEW q, NEW r, IsRisk(q), IsRisk(r), q.type = r.type, Severity[q.severity] = Severity[r.severity]
      PROVE  q = r
  <2>1. q.severity = r.severity
    BY <1>1, <1>2, <1>3 DEF IsRisk
  <2>2. q = [type |-> q.type, severity |-> q.severity] /\ r = [type |-> r.type, severity |-> r.severity]
    BY <1>3 DEF IsRisk
  <2> QED BY <1>3, <2>1, <2>2
<1> QED BY <1>1, <1>2, <1>3 DEF IsRisk

LEMMA WorstCovers ==
  ASSUME NEW all, \A r \in all : IsRisk(r)
  PROVE  /\ \A r \in all : \E q \in Worst(all) : q.type = r.type /\ Severity[q.severity] >= Severity[r.severity]
         /\ \A q, r \in Worst(all) : q.type = r.type => q = r
<1>1. ASSUME NEW r \in all
      PROVE  \E q \in Worst(all) : q.type = r.type /\ Severity[q.severity] >= Severity[r.severity]
  <2> DEFINE Same == {q \in all : q.type = r.type}
             T == {3 - Severity[q.severity] : q \in Same}
  <2>1. \A q \in Same : IsRisk(q) /\ Severity[q.severity] \in 1 .. 3
    BY Severities
  <2>2. T \subseteq Nat /\ T # {}
    BY <2>1
  <2>3. PICK x \in T : \A y \in T : x <= y
    <3> HIDE DEF T
    <3> QED BY <2>2, LeastNatural
  <2>4. PICK q \in Same : x = 3 - Severity[q.severity]
    OBVIOUS
  <2>5. \A p \in Same : Severity[p.severity] <= Severity[q.severity]
    <3>1. ASSUME NEW p \in Same PROVE Severity[p.severity] <= Severity[q.severity]
      <4>1. 3 - Severity[q.severity] <= 3 - Severity[p.severity]
        BY <2>3, <2>4
      <4>2. PICK a \in 1 .. 3, b \in 1 .. 3 : a = Severity[q.severity] /\ b = Severity[p.severity]
        BY <2>1
      <4> QED BY <4>1, <4>2
    <3> QED BY <3>1
  <2>6. q \in Worst(all)
    BY <2>5 DEF Worst
  <2>7. Severity[r.severity] <= Severity[q.severity]
    BY <2>5
  <2>8. PICK a \in 1 .. 3, b \in 1 .. 3 : a = Severity[q.severity] /\ b = Severity[r.severity]
    BY <2>1
  <2>9. b <= a
    BY <2>7, <2>8
  <2>10. a >= b
    BY <2>9
  <2> QED BY <2>6, <2>8, <2>10
<1>2. ASSUME NEW q \in Worst(all), NEW r \in Worst(all), q.type = r.type PROVE q = r
  <2>1. Severity[q.severity] <= Severity[r.severity] /\ Severity[r.severity] <= Severity[q.severity]
        /\ IsRisk(q) /\ IsRisk(r)
    BY <1>2 DEF Worst
  <2>2. PICK a \in 1 .. 3, b \in 1 .. 3 : a = Severity[q.severity] /\ b = Severity[r.severity]
    BY <2>1, Severities
  <2>3. a = b
    BY <2>1, <2>2
  <2> QED BY <1>2, <2>1, <2>2, <2>3, Severities
<1> QED BY <1>1, <1>2

(* A node inherits nothing that is no node's own.                          *)
LEMMA PropagatedAreWorst ==
  ASSUME Ground, Members(order) = Members(nodes)
  PROVE  PropagateRisk = Worst(Own(Members(nodes))) /\ \A r \in Own(Members(nodes)) : IsRisk(r)
<1>1. PICK N, E : N = Members(nodes) /\ E = edges
  OBVIOUS
<1>2. E \in Seq(Arc(N)) /\ kind \in [N -> Kinds]
  BY <1>1 DEF Ground
<1>3. ASSUME NEW n \in N PROVE kind[n].risks \subseteq Inherited(n) /\ Inherited(n) \subseteq Own(N)
  <2>1. \A k \in DOMAIN E : E[k].from \in N
    <3>1. \A k \in DOMAIN E : E[k] \in Arc(N)
      BY <1>2
    <3> QED BY <3>1 DEF Arc
  <2>2. \A m \in N : kind[m].risks \subseteq Own(N)
    BY DEF Own
  <2>3. \A k \in DOMAIN E : kind[E[k].from].risks \subseteq Own(N)
    BY <2>1, <2>2
  <2> QED BY <1>1, <2>2, <2>3 DEF Inherited
<1>4. UNION {Inherited(n) : n \in N} = Own(N)
  BY <1>3 DEF Own
<1>5. PropagateRisk = Worst(Own(N))
  BY <1>1, <1>4 DEF PropagateRisk, Worst
<1>6. ASSUME NEW r \in Own(N) PROVE IsRisk(r)
  <2>1. PICK n \in N : r \in kind[n].risks
    BY DEF Own
  <2> QED BY <1>2, <2>1, RiskAssumption DEF IsRisk
<1> QED BY <1>1, <1>5, <1>6

LEMMA GraphCovers == ASSUME GraphInv PROVE RisksCovered
<1> SUFFICES ASSUME Sorted
             PROVE  /\ \A r \in Own(Members(nodes)) : \E q \in PropagateRisk :
                         q.type = r.type /\ Severity[q.severity] >= Severity[r.severity]
                    /\ PropagateRisk \subseteq Own(Members(nodes))
                    /\ \A q, r \in PropagateRisk : q.type = r.type => q = r
  BY DEF RisksCovered, Own
<1>1. Ground /\ Members(order) = Members(nodes)
  BY SortedOrder DEF GraphInv
<1>2. PICK all : all = Own(Members(nodes))
  OBVIOUS
<1>3. PropagateRisk = Worst(all) /\ \A r \in all : IsRisk(r)
  BY <1>1, <1>2, PropagatedAreWorst
<1>4. Worst(all) \subseteq all
  BY DEF Worst
<1> QED BY <1>2, <1>3, <1>4, WorstCovers

LEMMA GraphIsSound == ASSUME GraphInv PROVE GraphSound
BY GraphTyped, GraphRefuses, GraphOrders, GraphCovers DEF GraphSound

-----------------------------------------------------------------------------
(* Simulations                                                             *)

Stages == {"idle", "starting", "funding", "nodes", "passed", "stopping", "done", "failed"}
Calls  == [at : Stages, port : Nat, node : Nat \ {0}, allowed : BOOLEAN,
           silent : BOOLEAN, faulty : BOOLEAN, shared : BOOLEAN]
IsBusy(x) == x.at \notin {"idle", "done", "failed"}

Deposits == \E n \in Members(order) : kind[n].protocol = "aave-v3" /\ kind[n].action = "supply"

(* A call alone holds the engine's field, its node runs until it stops it  *)
(* unless it died, and it gives up only for a reason.                      *)
Simulating(x) ==
  /\ x.port < nextPort
  /\ IsBusy(x) => x.port # 0
  /\ IsBusy(x) /\ ~x.shared => anvil = x.port
  /\ x.at \in {"done", "failed"} /\ ~x.shared => x.port \notin alive
  /\ x.at \in {"starting", "funding", "nodes", "passed"} /\ ~x.shared /\ ~x.faulty => x.port \in alive
  /\ x.at \in {"stopping", "failed"} => x.faulty \/ x.shared \/ x.silent \/ (~x.allowed /\ Deposits)
  /\ x.at # "idle" => phase = "built"

SimInv ==
  /\ nextPort \in Nat \ {0} /\ anvil \in Nat /\ alive \subseteq 1 .. nextPort - 1
  /\ call \in [Callers -> Calls]
  /\ \A c \in Callers : Simulating(call[c])
  /\ \A c, d \in Callers : IsBusy(call[c]) /\ IsBusy(call[d]) /\ ~call[c].shared => c = d

LEMMA SimStarts == ASSUME SimInit PROVE SimInv
<1>1. NoCall \in Calls /\ ~IsBusy(NoCall) /\ NoCall.at = "idle" /\ NoCall.port = 0
  BY DEF NoCall, Calls, Stages, IsBusy
<1>2. \A c \in Callers : call[c] = NoCall
  BY DEF SimInit
<1>3. nextPort = 1 /\ anvil = 0 /\ alive = {} /\ call \in [Callers -> Calls]
  BY <1>1 DEF SimInit
<1>4. Simulating(NoCall)
  BY <1>1, <1>3 DEF Simulating
<1> QED BY <1>1, <1>2, <1>3, <1>4 DEF SimInv

(* The engine's other steps leave a call as it is, and a graph that it     *)
(* simulates.                                                              *)
LEMMA SimStays ==
  ASSUME SimInv, UNCHANGED simVars,
         (phase = "built" => phase' = phase /\ order' = order /\ kind' = kind)
  PROVE  SimInv'
<1>1. anvil' = anvil /\ nextPort' = nextPort /\ alive' = alive /\ call' = call
  BY DEF simVars
<1>2. ASSUME NEW c \in Callers PROVE Simulating(call[c])'
  <2>1. PICK x : x = call[c]
    OBVIOUS
  <2>2. x = call'[c] /\ Simulating(x)
    BY <1>1, <2>1 DEF SimInv
  <2>3. CASE phase = "built"
    BY <1>1, <2>1, <2>2, <2>3 DEF Simulating, Deposits
  <2>4. CASE phase # "built"
    <3>1. x.at = "idle"
      BY <2>2, <2>4 DEF Simulating
    <3>2. ~IsBusy(x)
      BY <3>1 DEF IsBusy
    <3> QED BY <1>1, <2>1, <2>2, <3>1, <3>2 DEF Simulating
  <2> QED BY <2>3, <2>4
<1> QED BY <1>1, <1>2 DEF SimInv

(* A step of one call that leaves the nodes alone.                         *)
LEMMA CallMoves ==
  ASSUME SimInv, UNCHANGED <<anvil, nextPort, alive, phase, order, kind>>, NEW c \in Callers, IsBusy(call[c]),
         NEW y \in Calls, call' = [call EXCEPT ![c] = y], Simulating(y),
         IsBusy(y), y.shared = call[c].shared
  PROVE  SimInv'
<1>1. call \in [Callers -> Calls]
  BY DEF SimInv
<1>2. call'[c] = y /\ \A d \in Callers : d # c => call'[d] = call[d]
  BY <1>1
<1>3. call' \in [Callers -> Calls]
  BY <1>1
<1>4. \A d \in Callers : Simulating(call'[d])
  BY <1>2 DEF SimInv
<1>5. \A x : Simulating(x) => Simulating(x)'
  BY DEF Simulating, Deposits
<1>6. \A d \in Callers : Simulating(call[d])'
  <2>1. ASSUME NEW d \in Callers PROVE Simulating(call[d])'
    <3>1. PICK x : x = call'[d]
      OBVIOUS
    <3>2. Simulating(x)'
      BY <1>4, <1>5, <3>1
    <3> QED BY <3>1, <3>2
  <2> QED BY <2>1
<1>7. \A d \in Callers : (IsBusy(call'[d]) <=> IsBusy(call[d])) /\ (call'[d].shared = call[d].shared)
  BY <1>2
<1>8. \A d, e \in Callers : IsBusy(call'[d]) /\ IsBusy(call'[e]) /\ ~call'[d].shared => d = e
  BY <1>7 DEF SimInv
<1> QED BY <1>3, <1>6, <1>8 DEF SimInv

(* The fields of a call one by one.                                        *)
Call7(a, p, n, b, l, f, s) == [at |-> a, port |-> p, node |-> n, allowed |-> b,
                               silent |-> l, faulty |-> f, shared |-> s]

LEMMA CallFields ==
  ASSUME NEW x \in Calls
  PROVE  /\ x = Call7(x.at, x.port, x.node, x.allowed, x.silent, x.faulty, x.shared)
         /\ x.at \in Stages /\ x.port \in Nat /\ x.node \in Nat \ {0}
         /\ x.allowed \in BOOLEAN /\ x.silent \in BOOLEAN /\ x.faulty \in BOOLEAN /\ x.shared \in BOOLEAN
BY DEF Calls, Call7

LEMMA CallBuilt ==
  ASSUME NEW a \in Stages, NEW p \in Nat, NEW n \in Nat \ {0}, NEW b \in BOOLEAN, NEW l \in BOOLEAN,
         NEW f \in BOOLEAN, NEW s \in BOOLEAN
  PROVE  /\ Call7(a, p, n, b, l, f, s) \in Calls
         /\ Call7(a, p, n, b, l, f, s).at = a /\ Call7(a, p, n, b, l, f, s).port = p
         /\ Call7(a, p, n, b, l, f, s).node = n /\ Call7(a, p, n, b, l, f, s).allowed = b
         /\ Call7(a, p, n, b, l, f, s).silent = l
         /\ Call7(a, p, n, b, l, f, s).faulty = f /\ Call7(a, p, n, b, l, f, s).shared = s
BY DEF Calls, Call7

LEMMA CallAt ==
  ASSUME NEW z, NEW p, NEW n, NEW b, NEW l, NEW f, NEW s, NEW a
  PROVE  [Call7(z, p, n, b, l, f, s) EXCEPT !.at = a] = Call7(a, p, n, b, l, f, s)
BY DEF Call7

LEMMA Staged ==
  ASSUME NEW x \in Calls, NEW a \in Stages
  PROVE  \E y \in Calls :
           /\ y = [x EXCEPT !.at = a] /\ y.at = a /\ y.port = x.port /\ y.node = x.node
           /\ y.allowed = x.allowed /\ y.silent = x.silent /\ y.faulty = x.faulty /\ y.shared = x.shared
<1>1. PICK p, n, b, l, f, s : p = x.port /\ n = x.node /\ b = x.allowed /\ l = x.silent /\ f = x.faulty /\ s = x.shared
  OBVIOUS
<1>2. PICK z : z = x.at /\ x = Call7(z, p, n, b, l, f, s)
        /\ p \in Nat /\ n \in Nat \ {0} /\ b \in BOOLEAN /\ l \in BOOLEAN /\ f \in BOOLEAN /\ s \in BOOLEAN
  BY <1>1, CallFields
<1>3. [x EXCEPT !.at = a] = Call7(a, p, n, b, l, f, s)
  <2>1. [Call7(z, p, n, b, l, f, s) EXCEPT !.at = a] = Call7(a, p, n, b, l, f, s)
    BY CallAt
  <2>2. x = Call7(z, p, n, b, l, f, s)
    BY <1>2
  <2> QED BY <2>1, <2>2
<1>4. PICK y \in Calls :
        /\ y = Call7(a, p, n, b, l, f, s)
        /\ y.at = a /\ y.port = p /\ y.node = n /\ y.allowed = b /\ y.silent = l /\ y.faulty = f /\ y.shared = s
  BY <1>2, CallBuilt
<1> QED BY <1>1, <1>3, <1>4

(* At(c, a) as one replacement.                                            *)
LEMMA AtSteps ==
  ASSUME SimInv, UNCHANGED <<anvil, nextPort, alive, phase, order, kind>>, NEW c \in Callers, IsBusy(call[c]),
         NEW a \in Stages \ {"idle", "done", "failed"}, At(c, a),
         a = "stopping" => call[c].faulty \/ call[c].shared \/ call[c].silent \/ (~call[c].allowed /\ Deposits),
         a # "stopping" => call[c].at \in {"starting", "funding", "nodes", "passed"}
  PROVE  SimInv'
<1>1. call \in [Callers -> Calls] /\ Simulating(call[c])
  BY DEF SimInv
<1>2. PICK x \in Calls : x = call[c]
  BY <1>1
<1>3. PICK y \in Calls :
        /\ y = [x EXCEPT !.at = a] /\ y.at = a /\ y.port = x.port /\ y.node = x.node
        /\ y.allowed = x.allowed /\ y.silent = x.silent /\ y.faulty = x.faulty /\ y.shared = x.shared
  BY Staged
<1>4. call' = [call EXCEPT ![c] = y]
  BY <1>1, <1>2, <1>3 DEF At
<1>5. IsBusy(y) /\ IsBusy(x) /\ Simulating(x)
  BY <1>1, <1>2, <1>3 DEF IsBusy
<1>6. Simulating(y)
  <2>1. a \in {"starting", "funding", "nodes", "passed", "stopping"} /\ x.at # "idle"
    BY <1>5 DEF Stages, IsBusy
  <2> QED BY <1>2, <1>3, <1>5, <2>1 DEF Simulating
<1> QED BY <1>2, <1>3, <1>4, <1>5, <1>6, CallMoves

LEMMA GraphKept ==
  ASSUME UNCHANGED <<graphVars, planVars>>
  PROVE  phase' = phase /\ order' = order /\ kind' = kind
BY DEF graphVars, construction, sorting

LEMMA GivesUp ==
  ASSUME SimInv, NEW c \in Callers, call[c].port \notin alive, call[c].at \in {"starting", "funding", "nodes", "passed"}
  PROVE  call[c].faulty \/ call[c].shared
BY DEF SimInv, Simulating

LEMMA ReadySim ==
  ASSUME SimInv, UNCHANGED <<phase, order, kind>>, order \in Seq(Members(nodes)), NEW c \in Callers,
         Ready(c) \/ FundAddress(c) \/ ReadRates(c) \/ NotReady(c) \/ SimulateNode(c)
  PROVE  SimInv'
<1>1. IsBusy(call[c]) /\ UNCHANGED <<anvil, nextPort, alive>> /\ call[c].at \in {"starting", "funding", "nodes", "passed"}
  BY DEF Ready, FundAddress, ReadRates, NotReady, SimulateNode, IsBusy
<1>2. {"starting", "funding", "nodes", "passed", "stopping"} \subseteq Stages \ {"idle", "done", "failed"}
  BY DEF Stages
<1>3. call[c].port \notin alive => call[c].faulty \/ call[c].shared
  BY <1>1, GivesUp
<1>4. CASE Ready(c)
  <2>1. At(c, IF call[c].port \in alive /\ ~call[c].silent THEN "funding" ELSE "stopping")
    BY <1>4 DEF Ready
  <2>2. CASE call[c].port \in alive /\ ~call[c].silent
    <3>1. At(c, "funding")
      BY <2>1, <2>2
    <3> QED BY <1>1, <1>2, <3>1, AtSteps
  <2>3. CASE call[c].port \notin alive \/ call[c].silent
    <3>1. At(c, "stopping")
      BY <2>1, <2>3
    <3> QED BY <1>1, <1>2, <1>3, <2>3, <3>1, AtSteps
  <2> QED BY <2>2, <2>3
<1>5. CASE FundAddress(c)
  <2>1. At(c, IF call[c].port \in alive THEN "nodes" ELSE "stopping")
    BY <1>5 DEF FundAddress
  <2>2. CASE call[c].port \in alive
    <3>1. At(c, "nodes")
      BY <2>1, <2>2
    <3> QED BY <1>1, <1>2, <3>1, AtSteps
  <2>3. CASE call[c].port \notin alive
    <3>1. At(c, "stopping")
      BY <2>1, <2>3
    <3> QED BY <1>1, <1>2, <1>3, <2>3, <3>1, AtSteps
  <2> QED BY <2>2, <2>3
<1>6. CASE ReadRates(c)
  <2>1. At(c, IF call[c].port \in alive THEN "passed" ELSE "stopping")
    BY <1>6 DEF ReadRates
  <2>2. CASE call[c].port \in alive
    <3>1. At(c, "passed")
      BY <2>1, <2>2
    <3> QED BY <1>1, <1>2, <3>1, AtSteps
  <2>3. CASE call[c].port \notin alive
    <3>1. At(c, "stopping")
      BY <2>1, <2>3
    <3> QED BY <1>1, <1>2, <1>3, <2>3, <3>1, AtSteps
  <2> QED BY <2>2, <2>3
<1>7. call \in [Callers -> Calls] /\ Simulating(call[c])
  BY DEF SimInv
<1>8. PICK x \in Calls : x = call[c]
  BY <1>7
<1>9. PICK p, n, b, l, f, s : p = x.port /\ n = x.node /\ b = x.allowed /\ l = x.silent /\ f = x.faulty /\ s = x.shared
  OBVIOUS
<1>10. PICK z : z = x.at /\ x = Call7(z, p, n, b, l, f, s) /\ z \in Stages
        /\ p \in Nat /\ n \in Nat \ {0} /\ b \in BOOLEAN /\ l \in BOOLEAN /\ f \in BOOLEAN /\ s \in BOOLEAN
  BY <1>9, CallFields
<1>11. CASE NotReady(c)
  <2>0. PICK tt \in BOOLEAN, a \in Stages : tt = TRUE /\ a = "stopping"
    BY DEF Stages
  <2>1. PICK y : y = Call7(a, p, n, b, l, tt, s)
    OBVIOUS
  <2>2. y \in Calls /\ y.at = a /\ y.port = p /\ y.allowed = b /\ y.silent = l /\ y.faulty = tt /\ y.shared = s
    <3>1. y \in Calls
      BY <1>10, <2>1 DEF Call7, Calls
    <3>2. y.at = a /\ y.port = p /\ y.allowed = b /\ y.silent = l /\ y.faulty = tt /\ y.shared = s
      BY <2>1 DEF Call7
    <3> QED BY <3>1, <3>2
  <2>3. call' = [call EXCEPT ![c] = y]
    <3>1. call' = [call EXCEPT ![c].at = "stopping", ![c].faulty = TRUE]
      BY <1>11 DEF NotReady
    <3>2. PICK v : v = [x EXCEPT !.at = a]
      OBVIOUS
    <3>3. v = Call7(a, p, n, b, l, f, s)
      BY <1>10, <3>2 DEF Call7
    <3>4. y = [v EXCEPT !.faulty = tt]
      BY <2>1, <3>3 DEF Call7
    <3>5. call' = [call EXCEPT ![c] = [[x EXCEPT !.at = a] EXCEPT !.faulty = tt]]
      BY <1>7, <1>8, <2>0, <3>1, Zenon
    <3> QED BY <3>2, <3>4, <3>5
  <2>4. IsBusy(y) /\ Simulating(y)
    <3>1. phase = "built" /\ (anvil = p \/ s)
      BY <1>1, <1>7, <1>8, <1>9 DEF Simulating
    <3> QED BY <1>1, <1>7, <1>8, <1>9, <2>0, <2>2, <3>1 DEF Simulating, IsBusy
  <2> QED BY <1>1, <1>8, <1>9, <2>2, <2>3, <2>4, CallMoves
<1>12. CASE SimulateNode(c)
  <2>1. CASE call[c].port \in alive /\ Estimates(c)
    <3>1. PICK y : y = Call7("nodes", p, n + 1, b, l, f, s)
      OBVIOUS
    <3>2. y \in Calls /\ y.at = "nodes" /\ y.port = p /\ y.allowed = b /\ y.silent = l /\ y.faulty = f /\ y.shared = s
      <4>1. "nodes" \in Stages /\ n + 1 \in Nat \ {0}
        BY <1>10 DEF Stages
      <4>2. y \in Calls
        BY <1>10, <3>1, <4>1 DEF Call7, Calls
      <4>3. y.at = "nodes" /\ y.port = p /\ y.allowed = b /\ y.silent = l /\ y.faulty = f /\ y.shared = s
        BY <3>1 DEF Call7
      <4> QED BY <4>2, <4>3
    <3>3. call' = [call EXCEPT ![c] = y]
      <4>1. call' = [call EXCEPT ![c].node = @ + 1] /\ x.at = "nodes"
        BY <1>8, <1>12, <2>1 DEF SimulateNode
      <4>2. [x EXCEPT !.node = n + 1] = y
        BY <1>10, <3>1, <4>1 DEF Call7
      <4>3. call' = [call EXCEPT ![c] = [x EXCEPT !.node = n + 1]]
        BY <1>7, <1>8, <1>9, <4>1
      <4> QED BY <4>2, <4>3
    <3>4. IsBusy(y) /\ Simulating(y)
      BY <1>1, <1>7, <1>8, <1>9, <2>1, <3>2 DEF Simulating, IsBusy
    <3> QED BY <1>1, <1>8, <1>9, <3>2, <3>3, <3>4, CallMoves
  <2>2. CASE ~(call[c].port \in alive /\ Estimates(c))
    <3>1. At(c, "stopping")
      BY <1>12, <2>2 DEF SimulateNode, At
    <3>2. call[c].faulty \/ call[c].shared \/ call[c].silent \/ (~call[c].allowed /\ Deposits)
      <4>1. CASE call[c].port \notin alive
        BY <1>3, <4>1
      <4>2. CASE ~Estimates(c)
        <5>1. call[c].node \in DOMAIN order
          <6>1. n \in Nat \ {0} /\ n <= Len(order)
            BY <1>8, <1>9, <1>10, <1>12 DEF SimulateNode
          <6> QED BY <1>8, <1>9, <6>1
        <5>2. order[call[c].node] \in Members(order)
          BY <5>1 DEF Members
        <5> QED BY <4>2, <5>2 DEF Estimates, Deposits
      <4> QED BY <2>2, <4>1, <4>2
    <3> QED BY <1>1, <1>2, <3>1, <3>2, AtSteps
  <2> QED BY <2>1, <2>2
<1> QED BY <1>4, <1>5, <1>6, <1>11, <1>12

(* A call that is started marks the others that are under way.             *)
LEMMA StartSim ==
  ASSUME SimInv, UNCHANGED <<phase, order, kind>>, NEW c \in Callers, StartAnvil(c)
  PROVE  SimInv'
<1>1. /\ nextPort \in Nat \ {0} /\ anvil \in Nat /\ alive \subseteq 1 .. nextPort - 1
      /\ call \in [Callers -> Calls]
      /\ \A d \in Callers : Simulating(call[d])
  BY DEF SimInv
<1>2. /\ phase = "built" /\ anvil' = nextPort /\ nextPort' = nextPort + 1 /\ alive' = alive \cup {nextPort}
  BY DEF StartAnvil
<1>3. PICK p \in Nat \ {0} : p = nextPort /\ alive \subseteq 1 .. p - 1
  BY <1>1
<1>4. PICK b, l, B :
        call' = [d \in Callers |->
          IF d = c THEN [NoCall EXCEPT !.at = "starting", !.port = nextPort,
                                       !.allowed = b, !.silent = l, !.shared = B # {}]
          ELSE IF d \in B THEN [call[d] EXCEPT !.shared = TRUE] ELSE call[d]]
        /\ B = Busy /\ b \in BOOLEAN /\ l \in BOOLEAN
  BY DEF StartAnvil
<1>5. PICK s \in BOOLEAN, ff \in BOOLEAN, tt \in BOOLEAN : (s <=> B # {}) /\ s = (B # {}) /\ ff = FALSE /\ tt = TRUE
  OBVIOUS
<1>6. PICK y : y = Call7("starting", p, 1, b, l, ff, s)
  OBVIOUS
<1>7. y \in Calls /\ y.at = "starting" /\ y.port = p /\ y.allowed = b /\ y.silent = l /\ y.faulty = ff /\ y.shared = s
  <2>0. b \in BOOLEAN /\ l \in BOOLEAN
    BY <1>4
  <2>1. y \in Calls
    BY <2>0, <1>6 DEF Call7, Calls, Stages
  <2>2. y.at = "starting" /\ y.port = p /\ y.allowed = b /\ y.silent = l /\ y.faulty = ff /\ y.shared = s
    BY <1>6 DEF Call7
  <2> QED BY <2>1, <2>2
<1>8. call'[c] = y
  <2>1. call'[c] = [NoCall EXCEPT !.at = "starting", !.port = p, !.allowed = b, !.silent = l, !.shared = s]
    BY <1>3, <1>4, <1>5, Zenon
  <2>2. PICK z : z = NoCall
    OBVIOUS
  <2>3. z = Call7("idle", 0, 1, ff, ff, ff, ff)
    BY <1>5, <2>2 DEF NoCall, Call7
  <2>4. PICK z1, z2, z3, z4 : /\ z1 = [z EXCEPT !.at = "starting"] /\ z2 = [z1 EXCEPT !.port = p]
                             /\ z3 = [z2 EXCEPT !.allowed = b] /\ z4 = [z3 EXCEPT !.silent = l]
    OBVIOUS
  <2>5. z1 = Call7("starting", 0, 1, ff, ff, ff, ff)
    <3>1. [Call7("idle", 0, 1, ff, ff, ff, ff) EXCEPT !.at = "starting"] = Call7("starting", 0, 1, ff, ff, ff, ff)
      BY DEF Call7
    <3> QED BY <2>3, <2>4, <3>1
  <2>6. z2 = Call7("starting", p, 1, ff, ff, ff, ff)
    <3>1. [Call7("starting", 0, 1, ff, ff, ff, ff) EXCEPT !.port = p] = Call7("starting", p, 1, ff, ff, ff, ff)
      BY DEF Call7
    <3> QED BY <2>4, <2>5, <3>1
  <2>7. z3 = Call7("starting", p, 1, b, ff, ff, ff)
    <3>1. [Call7("starting", p, 1, ff, ff, ff, ff) EXCEPT !.allowed = b] = Call7("starting", p, 1, b, ff, ff, ff)
      BY DEF Call7
    <3> QED BY <2>4, <2>6, <3>1
  <2>70. z4 = Call7("starting", p, 1, b, l, ff, ff)
    <3>1. [Call7("starting", p, 1, b, ff, ff, ff) EXCEPT !.silent = l] = Call7("starting", p, 1, b, l, ff, ff)
      BY DEF Call7
    <3> QED BY <2>4, <2>7, <3>1
  <2>8. y = [z4 EXCEPT !.shared = s]
    <3>1. [Call7("starting", p, 1, b, l, ff, ff) EXCEPT !.shared = s] = Call7("starting", p, 1, b, l, ff, s)
      BY DEF Call7
    <3> QED BY <1>6, <2>70, <3>1
  <2>9. call'[c] = [[[[[z EXCEPT !.at = "starting"] EXCEPT !.port = p] EXCEPT !.allowed = b] EXCEPT !.silent = l] EXCEPT !.shared = s]
    BY <2>1, <2>2, Zenon
  <2> QED BY <2>4, <2>8, <2>9
<1>9. ASSUME NEW d \in Callers, d # c
      PROVE  /\ call'[d] \in Calls /\ call'[d].at = call[d].at /\ call'[d].port = call[d].port
             /\ call'[d].allowed = call[d].allowed /\ call'[d].silent = call[d].silent /\ call'[d].faulty = call[d].faulty
             /\ d \in B => call'[d].shared
             /\ d \notin B => call'[d] = call[d]
  <2>1. PICK x \in Calls : x = call[d]
    BY <1>1
  <2>2. PICK a, q, n, e, i, f, g : x = Call7(a, q, n, e, i, f, g) /\ a \in Stages /\ q \in Nat /\ n \in Nat \ {0}
          /\ e \in BOOLEAN /\ i \in BOOLEAN /\ f \in BOOLEAN /\ g \in BOOLEAN
    BY CallFields
  <2>3. CASE d \in B
    <3>1. call'[d] = [x EXCEPT !.shared = tt]
      BY <1>4, <1>5, <1>9, <2>1, <2>3
    <3>2. PICK z : z = Call7(a, q, n, e, i, f, tt)
      OBVIOUS
    <3>3. call'[d] = z
      BY <2>2, <3>1, <3>2 DEF Call7
    <3>4. z \in Calls
      BY <2>2, <3>2 DEF Call7, Calls
    <3>5. z.at = x.at /\ z.port = x.port /\ z.allowed = x.allowed /\ z.silent = x.silent /\ z.faulty = x.faulty /\ z.shared = tt
      BY <2>2, <3>2 DEF Call7
    <3> QED BY <1>5, <2>1, <2>3, <3>3, <3>4, <3>5
  <2>4. CASE d \notin B
    BY <1>4, <1>9, <2>1, <2>4
  <2> QED BY <2>3, <2>4
<1>10. call' \in [Callers -> Calls]
  <2>1. \A d \in Callers : call'[d] \in Calls
    BY <1>7, <1>8, <1>9
  <2>2. call' = [d \in Callers |-> call'[d]]
    BY <1>4, Zenon
  <2> QED BY <2>1, <2>2
<1>11. nextPort' \in Nat \ {0} /\ anvil' \in Nat /\ alive' \subseteq 1 .. nextPort' - 1
  BY <1>2, <1>3
<1>12. ASSUME NEW d \in Callers PROVE Simulating(call[d])'
  <2>1. CASE d = c
    <3>1. Simulating(y)'
      BY <1>2, <1>3, <1>5, <1>7 DEF Simulating, IsBusy
    <3> QED BY <1>8, <2>1, <3>1
  <2>2. CASE d # c
    <3>1. PICK x : x = call[d]
      OBVIOUS
    <3>2. Simulating(x) /\ x.port \in Nat /\ (d \in B <=> IsBusy(x))
      <4>1. x \in Calls
        BY <1>1, <3>1
      <4>2. x.port \in Nat
        BY <4>1, CallFields
      <4> QED BY <1>1, <1>4, <3>1, <4>2 DEF Busy, IsBusy
    <3>3. PICK z : z = call'[d]
      OBVIOUS
    <3>4. /\ z.at = x.at /\ z.port = x.port /\ z.allowed = x.allowed /\ z.silent = x.silent /\ z.faulty = x.faulty
          /\ (IsBusy(x) => z.shared) /\ (~IsBusy(x) => z = x)
      BY <1>9, <2>2, <3>1, <3>2, <3>3
    <3>5. z.port < nextPort' /\ (z.port \in alive' <=> z.port \in alive)
      BY <1>2, <1>3, <3>2, <3>4 DEF Simulating
    <3>6. phase' = phase /\ (Deposits' <=> Deposits)
      BY DEF Deposits
    <3>7. CASE IsBusy(x)
      <4>1. IsBusy(z) /\ z.at \notin {"done", "failed"} /\ z.port # 0 /\ phase = "built"
        BY <3>2, <3>4, <3>7 DEF Simulating, IsBusy
      <4>2. Simulating(z)'
        BY <3>4, <3>5, <3>6, <3>7, <4>1 DEF Simulating
      <4> QED BY <3>3, <4>2
    <3>8. CASE ~IsBusy(x)
      <4>1. z = x /\ x.at \in {"idle", "done", "failed"}
        BY <3>4, <3>8 DEF IsBusy
      <4>2. Simulating(z)'
        BY <1>2, <3>2, <3>5, <3>6, <3>8, <4>1 DEF Simulating
      <4> QED BY <3>3, <4>2
    <3> QED BY <3>7, <3>8
  <2> QED BY <2>1, <2>2
<1>13. ASSUME NEW d \in Callers, NEW e \in Callers, IsBusy(call'[d]), IsBusy(call'[e]), ~call'[d].shared
       PROVE  d = e
  <2>0. \A f \in Callers : f \in B <=> IsBusy(call[f])
    BY <1>4 DEF Busy, IsBusy
  <2>1. \A f \in Callers : f # c => (IsBusy(call'[f]) <=> f \in B)
    BY <1>9, <2>0 DEF IsBusy
  <2>2. CASE d = c
    <3>1. B = {}
      BY <1>5, <1>7, <1>8, <1>13, <2>2
    <3> QED BY <1>13, <2>1, <2>2, <3>1
  <2>3. CASE d # c
    BY <1>9, <1>13, <2>1, <2>3
  <2> QED BY <2>2, <2>3
<1> QED BY <1>10, <1>11, <1>12, <1>13 DEF SimInv

LEMMA DiesSim ==
  ASSUME SimInv, UNCHANGED <<phase, order, kind>>, NEW p \in alive, NodeDies(p)
  PROVE  SimInv'
<1>1. /\ nextPort \in Nat \ {0} /\ anvil \in Nat /\ alive \subseteq 1 .. nextPort - 1
      /\ call \in [Callers -> Calls]
      /\ \A d \in Callers : Simulating(call[d])
      /\ \A c, d \in Callers : IsBusy(call[c]) /\ IsBusy(call[d]) /\ ~call[c].shared => c = d
  BY DEF SimInv
<1>2. alive' = alive \ {p} /\ anvil' = anvil /\ nextPort' = nextPort
      /\ call' = [c \in Callers |-> [call[c] EXCEPT !.faulty = @ \/ call[c].port = p]]
  BY DEF NodeDies
<1>3. ASSUME NEW d \in Callers
      PROVE  /\ call'[d] \in Calls /\ call'[d].at = call[d].at /\ call'[d].port = call[d].port
             /\ call'[d].allowed = call[d].allowed /\ call'[d].silent = call[d].silent /\ call'[d].shared = call[d].shared
             /\ call'[d].faulty <=> (call[d].faulty \/ call[d].port = p)
  <2>1. PICK x \in Calls : x = call[d]
    BY <1>1
  <2>2. PICK a, q, n, e, i, f, g : x = Call7(a, q, n, e, i, f, g) /\ a \in Stages /\ q \in Nat /\ n \in Nat \ {0}
          /\ e \in BOOLEAN /\ i \in BOOLEAN /\ f \in BOOLEAN /\ g \in BOOLEAN
    BY CallFields
  <2>3. x.faulty = f /\ x.port = q
    BY <2>2 DEF Call7
  <2>4. PICK h \in BOOLEAN : h = (f \/ q = p)
    OBVIOUS
  <2>5. call'[d] = [x EXCEPT !.faulty = h]
    BY <1>2, <2>1, <2>3, <2>4
  <2>6. PICK z : z = Call7(a, q, n, e, i, h, g)
    OBVIOUS
  <2>7. call'[d] = z
    BY <2>2, <2>5, <2>6 DEF Call7
  <2>8. z \in Calls
    BY <2>2, <2>6 DEF Call7, Calls
  <2>9. z.at = x.at /\ z.port = x.port /\ z.allowed = x.allowed /\ z.silent = x.silent /\ z.shared = x.shared /\ z.faulty = h
    BY <2>2, <2>6 DEF Call7
  <2> QED BY <2>1, <2>3, <2>4, <2>7, <2>8, <2>9
<1>4. call' \in [Callers -> Calls]
  <2>1. \A d \in Callers : call'[d] \in Calls
    BY <1>3
  <2>2. call' = [d \in Callers |-> call'[d]]
    BY <1>2, Zenon
  <2> QED BY <2>1, <2>2
<1>5. ASSUME NEW d \in Callers PROVE Simulating(call[d])'
  <2>1. PICK x, z : x = call[d] /\ z = call'[d]
    OBVIOUS
  <2>2. Simulating(x)
    BY <1>1, <2>1
  <2>3. /\ z.at = x.at /\ z.port = x.port /\ z.allowed = x.allowed /\ z.silent = x.silent /\ z.shared = x.shared
        /\ z.faulty <=> (x.faulty \/ x.port = p)
    BY <1>3, <2>1
  <2>4. phase' = phase /\ (Deposits' <=> Deposits)
    BY DEF Deposits
  <2>5. IsBusy(z) <=> IsBusy(x)
    BY <2>3 DEF IsBusy
  <2>6. Simulating(z)'
    BY <1>2, <2>2, <2>3, <2>4, <2>5 DEF Simulating
  <2> QED BY <2>1, <2>6
<1>6. \A c, d \in Callers : IsBusy(call'[c]) /\ IsBusy(call'[d]) /\ ~call'[c].shared => c = d
  BY <1>1, <1>3 DEF IsBusy
<1> QED BY <1>1, <1>2, <1>4, <1>5, <1>6 DEF SimInv

(* The end of a call stops the node of the field: of a call alone, its own. *)
LEMMA EndSim ==
  ASSUME SimInv, UNCHANGED <<phase, order, kind>>, NEW c \in Callers, End(c)
  PROVE  SimInv'
<1>1. /\ nextPort \in Nat \ {0} /\ anvil \in Nat /\ alive \subseteq 1 .. nextPort - 1
      /\ call \in [Callers -> Calls]
      /\ \A d \in Callers : Simulating(call[d])
      /\ \A d, e \in Callers : IsBusy(call[d]) /\ IsBusy(call[e]) /\ ~call[d].shared => d = e
  BY DEF SimInv
<1>2. /\ call[c].at \in {"passed", "stopping"} /\ nextPort' = nextPort
      /\ alive' = alive \ {anvil} /\ anvil' = 0
  <2>1. 0 \notin alive
    BY <1>1
  <2> QED BY <2>1 DEF End, StopAnvil
<1>3. PICK x \in Calls : x = call[c]
  BY <1>1
<1>4. PICK a : a = IF x.at = "passed" THEN "done" ELSE "failed"
  OBVIOUS
<1>5. PICK y \in Calls :
        /\ y = [x EXCEPT !.at = a] /\ y.at = a /\ y.port = x.port /\ y.node = x.node
        /\ y.allowed = x.allowed /\ y.silent = x.silent /\ y.faulty = x.faulty /\ y.shared = x.shared
  <2>1. a \in Stages
    BY <1>4 DEF Stages
  <2> QED BY <2>1, Staged
<1>6. call' = [call EXCEPT ![c] = y]
  BY <1>1, <1>3, <1>4, <1>5 DEF End
<1>7. call' \in [Callers -> Calls] /\ call'[c] = y /\ \A d \in Callers : d # c => call'[d] = call[d]
  BY <1>1, <1>6
<1>8. IsBusy(x) /\ ~IsBusy(y) /\ Simulating(x)
  BY <1>1, <1>2, <1>3, <1>4, <1>5 DEF IsBusy
<1>9. phase' = phase /\ (Deposits' <=> Deposits)
  BY DEF Deposits
<1>10. Simulating(y)'
  <2>1. ~y.shared => y.port \notin alive'
    BY <1>2, <1>5, <1>8 DEF Simulating
  <2> QED BY <1>2, <1>3, <1>4, <1>5, <1>8, <1>9, <2>1 DEF Simulating
<1>11. ASSUME NEW d \in Callers, d # c PROVE Simulating(call[d])'
  <2>1. PICK z : z = call[d]
    OBVIOUS
  <2>2. z = call'[d] /\ Simulating(z)
    BY <1>1, <1>7, <1>11, <2>1
  <2>3. IsBusy(z) => z.shared
    BY <1>1, <1>3, <1>8, <1>11, <2>1
  <2>4. z.at \in {"starting", "funding", "nodes", "passed"} => IsBusy(z)
    BY DEF IsBusy
  <2>5. Simulating(z)'
    BY <1>2, <1>9, <2>2, <2>3, <2>4 DEF Simulating
  <2> QED BY <2>2, <2>5
<1>12. \A d, e \in Callers : IsBusy(call'[d]) /\ IsBusy(call'[e]) /\ ~call'[d].shared => d = e
  BY <1>1, <1>7, <1>8
<1>13. ASSUME NEW d \in Callers PROVE Simulating(call[d])'
  <2>1. call'[c] = y
    BY <1>7
  <2>2. Simulating(call[c])'
    BY <1>10, <2>1
  <2> QED BY <1>11, <2>2
<1> QED BY <1>1, <1>2, <1>7, <1>12, <1>13 DEF SimInv

LEMMA SimSteps ==
  ASSUME SimInv, UNCHANGED <<phase, order, kind>>, order \in Seq(Members(nodes)), SimNext
  PROVE  SimInv'
<1>1. CASE \E c \in Callers : StartAnvil(c)
  BY <1>1, StartSim
<1>2. CASE \E c \in Callers : Ready(c) \/ NotReady(c) \/ FundAddress(c) \/ SimulateNode(c) \/ ReadRates(c)
  BY <1>2, ReadySim
<1>3. CASE \E c \in Callers : End(c)
  BY <1>3, EndSim
<1>4. CASE \E p \in alive : NodeDies(p)
  BY <1>4, DiesSim
<1> QED BY <1>1, <1>2, <1>3, <1>4 DEF SimNext

LEMMA SimIsSound == ASSUME SimInv PROVE SimulationsSound
<1>1. \A c \in Callers : Simulating(call[c])
  BY DEF SimInv
<1>2. SoloStopsItsNode
  BY <1>1 DEF SoloStopsItsNode, Simulating
<1>3. FailuresExplained
  BY <1>1 DEF FailuresExplained, Simulating, Deposits
<1> QED BY <1>2, <1>3 DEF SimulationsSound

-----------------------------------------------------------------------------
(* Plans.  P are the pairs of a plan's steps s, st the allowances that     *)
(* stood before it, A those after its first c steps.                       *)

PlanStep(P) ==
  {x \in [tx : {"approve", "action"}, pair : P, spends : P, amount : {Capital},
          action : {"approve", "supply", "borrow", "withdraw"}] :
     x.tx = "approve" <=> x.action = "approve"}

(* An approval is followed by its action; an action without one had its    *)
(* allowance when it was planned, or is of a token without an address.     *)
Backed(s, st) ==
  /\ \A k \in 1 .. Len(s) : s[k].tx = "approve" =>
       k < Len(s) /\ s[k + 1].tx = "action" /\ s[k + 1].pair = s[k].pair
  /\ \A k \in 1 .. Len(s) : s[k].tx = "action" =>
       (k > 1 /\ s[k - 1].tx = "approve") \/ s[k].pair[1] \notin Tokens \/ st[s[k].pair] >= Capital

Acted(s, k, p) == \E j \in 1 .. k : s[j].tx = "action" /\ s[j].spends = p

(* An allowance that sufficed and no longer does was used by an action.    *)
Used(P, s, st, A, c) ==
  /\ \A p \in P : st[p] >= Capital /\ A[p] < Capital => Acted(s, c, p)
  /\ c >= 1 /\ s[c].tx = "approve" => A[s[c].pair] = Capital

(* One that grew was approved for the next step, or for one that spends    *)
(* nothing or another token.                                               *)
Unspent(y, p) == y.pair = p /\ (y.action \in {"borrow", "withdraw"} \/ y.spends # p)
Lent(s, k, p) == \E j \in 1 .. k : Unspent(s[j], p)
Grown(P, s, st, A, c) ==
  \A p \in P : A[p] > st[p] => Lent(s, c, p) \/ (c >= 1 /\ s[c].tx = "approve" /\ s[c].pair = p)

Explained(s, st, k) ==
  \/ s[k].pair[1] \notin Tokens
  \/ s[k].spends # s[k].pair /\ st[s[k].spends] < Capital
  \/ st[s[k].spends] >= Capital /\ Acted(s, k - 1, s[k].spends)

LEMMA StepOf ==
  ASSUME NEW P, NEW x \in PlanStep(P)
  PROVE  /\ x.pair \in P /\ x.spends \in P /\ x.amount = Capital
         /\ x.tx = "approve" \/ (x.tx = "action" /\ x.action \in {"supply", "borrow", "withdraw"})
         /\ x.tx = "approve" => x.action = "approve"
BY DEF PlanStep

(* A step that reverts is explained.                                       *)
LEMMA RevertExplained ==
  ASSUME NEW P, NEW s \in Seq(PlanStep(P)), NEW st \in [P -> Nat], NEW A \in [P -> Nat],
         Backed(s, st), NEW c \in Nat, c < Len(s), Used(P, s, st, A, c), NEW x, x = s[c + 1], Reverts(x, A)
  PROVE  Explained(s, st, c + 1) /\ x.tx = "action"
<1>1. PICK k : k = c + 1 /\ k \in 1 .. Len(s) /\ k - 1 = c
  OBVIOUS
<1>2. x = s[k] /\ x \in PlanStep(P)
  BY <1>1
<1>3. PICK p \in P : p = x.spends /\ x.tx = "action" /\ x.action = "supply" /\ A[p] < Capital
  BY <1>2, StepOf DEF Reverts
<1>30. Capital \in Nat /\ st[p] \in Nat
  BY PlanAssumption DEF PlanAssumption
<1>31. CASE st[p] >= Capital
  <2>1. Acted(s, c, p)
    BY <1>3, <1>31 DEF Used
  <2> QED BY <1>1, <1>2, <1>3, <1>31, <2>1 DEF Explained
<1>32. CASE st[p] < Capital /\ x.pair # p
  BY <1>1, <1>2, <1>3, <1>32 DEF Explained
<1>33. CASE st[p] < Capital /\ x.pair = p
  <2>1. (k > 1 /\ s[k - 1].tx = "approve") \/ x.pair[1] \notin Tokens \/ st[x.pair] >= Capital
    BY <1>1, <1>2, <1>3 DEF Backed
  <2>2. ~(st[x.pair] >= Capital)
    BY <1>30, <1>33
  <2>3. CASE x.pair[1] \notin Tokens
    BY <1>1, <1>2, <1>3, <2>3 DEF Explained
  <2>4. CASE k > 1 /\ s[k - 1].tx = "approve"
    <3>1. c >= 1 /\ c \in 1 .. Len(s) /\ s[c].tx = "approve"
      BY <1>1, <2>4
    <3>2. s[c + 1].pair = s[c].pair
      BY <3>1 DEF Backed
    <3>3. A[s[c].pair] = Capital
      BY <3>1 DEF Used
    <3>4. A[p] = Capital
      BY <1>33, <3>2, <3>3
    <3> QED BY <1>3, <1>30, <3>4
  <2> QED BY <2>1, <2>2, <2>3, <2>4
<1> QED BY <1>30, <1>31, <1>32, <1>33

LEMMA ActedOn ==
  ASSUME NEW P, NEW s \in Seq(PlanStep(P)), NEW c \in Nat, c < Len(s), NEW p
  PROVE  /\ Acted(s, c, p) => Acted(s, c + 1, p)
         /\ Lent(s, c, p) => Lent(s, c + 1, p)
         /\ s[c + 1].tx = "action" /\ s[c + 1].spends = p => Acted(s, c + 1, p)
         /\ Unspent(s[c + 1], p) => Lent(s, c + 1, p)
<1>1. \A j \in 1 .. c : j \in 1 .. c + 1
  OBVIOUS
<1>2. c + 1 \in 1 .. c + 1
  OBVIOUS
<1> QED BY <1>1, <1>2 DEF Acted, Lent

(* A step that reverts changes no allowance.                               *)
LEMMA UsedReverts ==
  ASSUME NEW P, NEW s \in Seq(PlanStep(P)), NEW st \in [P -> Nat], NEW A \in [P -> Nat],
         NEW c \in Nat, c < Len(s), Used(P, s, st, A, c), s[c + 1].tx = "action"
  PROVE  Used(P, s, st, A, c + 1)
<1>1. \A p : Acted(s, c, p) => Acted(s, c + 1, p)
  BY ActedOn
<1> QED BY <1>1 DEF Used

(* A step that does not keeps what is known of the allowances.             *)
LEMMA StepApplies ==
  ASSUME NEW P, NEW s \in Seq(PlanStep(P)), NEW st \in [P -> Nat], NEW A \in [P -> Nat],
         Backed(s, st), NEW c \in Nat, c < Len(s), Used(P, s, st, A, c),
         NEW x, x = s[c + 1], ~Reverts(x, A)
  PROVE  /\ Applied(x, A) \in [P -> Nat]
         /\ Used(P, s, st, Applied(x, A), c + 1)
         /\ Grown(P, s, st, A, c) => Grown(P, s, st, Applied(x, A), c + 1)
<1>1. Capital \in Nat
  BY PlanAssumption DEF PlanAssumption
<1>2. c + 1 \in 1 .. Len(s) /\ x \in PlanStep(P) /\ c + 1 >= 1
  OBVIOUS
<1>3. PICK p \in P, o \in P : p = x.pair /\ o = x.spends /\ x.amount = Capital
  BY <1>2, StepOf
<1>4. PICK B : B = Applied(x, A)
  OBVIOUS
<1>5. (c >= 1 /\ s[c].tx = "approve") => x.tx = "action" /\ s[c].pair = p
  <2>1. c >= 1 => c \in 1 .. Len(s)
    OBVIOUS
  <2> QED BY <1>3, <2>1 DEF Backed
<1>6. PICK a \in Nat : a = A[o]
  OBVIOUS
<1>7. CASE x.tx = "approve"
  <2>1. B = [A EXCEPT ![p] = Capital]
    <3>1. x.action # "supply"
      BY <1>2, <1>7, StepOf
    <3> QED BY <1>3, <1>4, <1>7, <3>1 DEF Applied
  <2>2. B \in [P -> Nat] /\ B[p] = Capital /\ \A q \in P : q # p => B[q] = A[q]
    BY <1>1, <2>1
  <2>3. Used(P, s, st, B, c + 1)
    <3>1. ASSUME NEW q \in P, st[q] >= Capital, B[q] < Capital PROVE Acted(s, c + 1, q)
      <4>1. q # p
        BY <1>1, <2>2, <3>1
      <4>2. Acted(s, c, q)
        BY <2>2, <3>1, <4>1 DEF Used
      <4> QED BY <4>2, ActedOn
    <3> QED BY <1>3, <2>2, <3>1 DEF Used
  <2>4. Grown(P, s, st, A, c) => Grown(P, s, st, B, c + 1)
    <3>1. ASSUME Grown(P, s, st, A, c), NEW q \in P, B[q] > st[q]
          PROVE  Lent(s, c + 1, q) \/ s[c + 1].pair = q
      <4>1. CASE q = p
        BY <1>3, <4>1
      <4>2. CASE q # p
        <5>1. Lent(s, c, q)
          BY <1>5, <1>7, <2>2, <3>1, <4>2 DEF Grown
        <5> QED BY <5>1, ActedOn
      <4> QED BY <4>1, <4>2
    <3> QED BY <1>2, <1>7, <3>1 DEF Grown
  <2> QED BY <1>4, <2>2, <2>3, <2>4
<1>8. CASE x.tx = "action"
  <2>1. Acted(s, c + 1, o)
    BY <1>3, <1>8, ActedOn
  <2>2. B \in [P -> Nat] /\ \A q \in P : q # o => B[q] = A[q]
    <3>1. CASE x.action = "supply"
      <4>1. a >= Capital
        BY <1>1, <1>3, <1>6, <3>1 DEF Reverts
      <4>2. B = [A EXCEPT ![o] = a - Capital]
        BY <1>3, <1>4, <1>6, <1>8, <3>1 DEF Applied
      <4>3. a - Capital \in Nat
        BY <1>1, <4>1
      <4> QED BY <4>2, <4>3
    <3>2. CASE x.action # "supply"
      <4>1. B = A
        BY <1>4, <1>8, <3>2 DEF Applied
      <4> QED BY <4>1
    <3> QED BY <3>1, <3>2
  <2>3. Used(P, s, st, B, c + 1)
    <3>1. ASSUME NEW q \in P, st[q] >= Capital, B[q] < Capital PROVE Acted(s, c + 1, q)
      <4>1. CASE q = o
        BY <2>1, <4>1
      <4>2. CASE q # o
        <5>1. Acted(s, c, q)
          BY <2>2, <3>1, <4>2 DEF Used
        <5> QED BY <5>1, ActedOn
      <4> QED BY <4>1, <4>2
    <3>2. s[c + 1].tx # "approve"
      BY <1>8
    <3> QED BY <3>1, <3>2 DEF Used
  <2>4. Grown(P, s, st, A, c) => Grown(P, s, st, B, c + 1)
    <3>1. ASSUME Grown(P, s, st, A, c), NEW q \in P, B[q] > st[q]
          PROVE  Lent(s, c + 1, q)
      <4>1. CASE q = p /\ (x.action # "supply" \/ o # p)
        <5>1. x.action \in {"borrow", "withdraw"} \/ o # p
          BY <1>2, <1>8, <4>1, StepOf
        <5>2. Unspent(x, p)
          BY <1>3, <5>1 DEF Unspent
        <5> QED BY <4>1, <5>2, ActedOn
      <4>2. CASE q # p /\ (x.action # "supply" \/ q # o)
        <5>1. B[q] = A[q]
          <6>1. CASE q # o
            BY <2>2, <6>1
          <6>2. CASE x.action # "supply"
            BY <1>4, <1>8, <6>2 DEF Applied
          <6> QED BY <4>2, <6>1, <6>2
        <5>2. Lent(s, c, q) \/ (s[c].pair = q /\ c >= 1 /\ s[c].tx = "approve")
          BY <3>1, <5>1 DEF Grown
        <5>3. Lent(s, c, q)
          BY <1>5, <4>2, <5>2
        <5> QED BY <5>3, ActedOn
      <4>3. CASE q = o /\ x.action = "supply"
        <5>1. B[o] = a - Capital /\ a >= Capital
          BY <1>1, <1>3, <1>4, <1>6, <1>8, <4>3 DEF Applied, Reverts
        <5>2. PICK z \in Nat : z = st[o]
          OBVIOUS
        <5>3. a > z
          BY <1>1, <3>1, <4>3, <5>1, <5>2
        <5>4. Lent(s, c, o) \/ (c >= 1 /\ s[c].tx = "approve" /\ s[c].pair = o)
          BY <1>6, <3>1, <5>2, <5>3 DEF Grown
        <5>5. CASE c >= 1 /\ s[c].tx = "approve" /\ s[c].pair = o
          <6>1. a = Capital
            BY <1>6, <5>5 DEF Used
          <6> QED BY <1>1, <3>1, <4>3, <5>1, <5>2, <6>1
        <5>6. CASE Lent(s, c, o)
          BY <4>3, <5>6, ActedOn
        <5> QED BY <5>4, <5>5, <5>6
      <4> QED BY <4>1, <4>2, <4>3
    <3> QED BY <3>1 DEF Grown
  <2> QED BY <1>4, <2>2, <2>3, <2>4
<1> QED BY <1>2, <1>7, <1>8, StepOf

(* A batch, step by step.                                                  *)
Outcome(P) == [step : Nat, allowances : [P -> Nat]]

AfterStep(s, st, o, k) ==
  IF o.step # 0 THEN o
  ELSE IF Reverts(s[k], o.allowances)
       THEN [step |-> k, allowances |-> st]
       ELSE [step |-> 0, allowances |-> Applied(s[k], o.allowances)]

LEMMA AppliedTyped ==
  ASSUME NEW P, NEW x \in PlanStep(P), NEW A \in [P -> Nat], ~Reverts(x, A)
  PROVE  Applied(x, A) \in [P -> Nat]
<1>1. Capital \in Nat
  BY PlanAssumption DEF PlanAssumption
<1>2. PICK p \in P, o \in P, a \in Nat : p = x.pair /\ o = x.spends /\ a = A[o] /\ x.amount = Capital
  BY StepOf
<1>3. CASE x.tx = "approve"
  <2>1. x.action # "supply"
    BY <1>3, StepOf
  <2>2. Applied(x, A) = [A EXCEPT ![p] = Capital]
    BY <1>2, <1>3, <2>1 DEF Applied
  <2> QED BY <1>1, <2>2
<1>4. CASE x.tx # "approve" /\ x.action = "supply"
  <2>1. a >= Capital
    BY <1>1, <1>2, <1>4 DEF Reverts
  <2>2. Applied(x, A) = [A EXCEPT ![o] = a - Capital]
    BY <1>2, <1>4 DEF Applied
  <2>3. a - Capital \in Nat
    BY <1>1, <2>1
  <2> QED BY <2>2, <2>3
<1>5. CASE x.tx # "approve" /\ x.action # "supply"
  <2>1. Applied(x, A) = A
    BY <1>5 DEF Applied
  <2> QED BY <2>1
<1> QED BY <1>3, <1>4, <1>5

LEMMA ExecutedRuns ==
  ASSUME NEW P, NEW s \in Seq(PlanStep(P)), NEW st \in [P -> Nat]
  PROVE  \E h \in [0 .. Len(s) -> Outcome(P)] :
           /\ h[0] = [step |-> 0, allowances |-> st]
           /\ \A k \in 1 .. Len(s) : h[k] = AfterStep(s, st, h[k - 1], k)
           /\ Executed(s, st) = h[Len(s)]
<1> DEFINE D == Outcome(P)
           d == [step |-> 0, allowances |-> st]
           g == [p \in D \X (1 .. Len(s)) |-> AfterStep(s, st, p[1], p[2])]
           Body(f) == [k \in 0 .. Len(s) |-> IF k = 0 THEN d ELSE AfterStep(s, st, f[k - 1], k)]
           F == CHOOSE f : f = Body(f)
<1>1. PICK n \in Nat : n = Len(s) /\ \A k \in 1 .. n : s[k] \in PlanStep(P)
  OBVIOUS
<1>2. ASSUME NEW o \in D, NEW k \in 1 .. n PROVE AfterStep(s, st, o, k) \in D
  <2>1. o.step \in Nat /\ o.allowances \in [P -> Nat]
    BY DEF Outcome
  <2>2. CASE o.step # 0
    BY <2>2 DEF AfterStep
  <2>3. CASE o.step = 0 /\ Reverts(s[k], o.allowances)
    <3>1. AfterStep(s, st, o, k) = [step |-> k, allowances |-> st]
      BY <2>3 DEF AfterStep
    <3> QED BY <3>1 DEF Outcome
  <2>4. CASE o.step = 0 /\ ~Reverts(s[k], o.allowances)
    <3>1. AfterStep(s, st, o, k) = [step |-> 0, allowances |-> Applied(s[k], o.allowances)]
      BY <2>4 DEF AfterStep
    <3>2. Applied(s[k], o.allowances) \in [P -> Nat]
      BY <1>1, <2>1, <2>4, AppliedTyped
    <3> QED BY <3>1, <3>2 DEF Outcome
  <2> QED BY <2>2, <2>3, <2>4
<1>3. d \in D
  BY DEF Outcome
<1>4. Executed(s, st) = F[n]
  BY <1>1 DEF Executed, AfterStep
<1>5. \A o \in D, k \in 1 .. n : g[<<o, k>>] = AfterStep(s, st, o, k)
  BY <1>1
<1> HIDE DEF g, D, d
<1>6. Stays(g, D, n)
  BY <1>2, <1>5 DEF Stays
<1>7. PICK h \in [0 .. n -> D] : RunsFrom(h, d, g, n)
  BY <1>3, <1>6, RecursionExists
<1>8. ASSUME NEW k \in 1 .. n PROVE h[k] = AfterStep(s, st, h[k - 1], k)
  <2>1. h[k - 1] \in D
    BY <1>7
  <2> QED BY <1>5, <1>7, <2>1 DEF RunsFrom
<1>9. h = Body(h)
  BY <1>1, <1>7, <1>8 DEF RunsFrom
<1>10. F = Body(F)
  BY <1>9
<1> HIDE DEF F
<1>11. F[0] = d /\ \A k \in 1 .. n : F[k] = AfterStep(s, st, F[k - 1], k)
  <2>1. \A k \in 0 .. n : F[k] = IF k = 0 THEN d ELSE AfterStep(s, st, F[k - 1], k)
    BY <1>1, <1>10
  <2>2. 0 \in 0 .. n /\ \A k \in 1 .. n : k \in 0 .. n /\ k # 0
    OBVIOUS
  <2> QED BY <2>1, <2>2
<1> DEFINE T == {k \in 0 .. n : F[k] \in D}
<1>12. 0 \in T
  BY <1>3, <1>11
<1>13. ASSUME NEW k \in 0 .. n - 1, k \in T PROVE k + 1 \in T
  <2>1. k + 1 \in 1 .. n /\ (k + 1) - 1 = k
    OBVIOUS
  <2>2. F[k + 1] = AfterStep(s, st, F[k], k + 1)
    BY <1>11, <2>1
  <2>3. AfterStep(s, st, F[k], k + 1) \in D
    BY <1>2, <1>13, <2>1
  <2> QED BY <2>1, <2>2, <2>3
<1> HIDE DEF T
<1>14. 0 .. n \subseteq T
  BY <1>12, <1>13, Upwards
<1>15. F \in [0 .. n -> D]
  <2>1. \A k \in 0 .. n : F[k] \in D
    BY <1>14 DEF T
  <2>2. F = [k \in 0 .. n |-> F[k]]
    BY <1>1, <1>10
  <2> QED BY <2>1, <2>2
<1> QED BY <1>1, <1>4, <1>11, <1>15 DEF D, d

(* A batch is applied as a whole, or undone by a step that is explained.   *)
LEMMA ExecutedSound ==
  ASSUME NEW P, NEW s \in Seq(PlanStep(P)), NEW st \in [P -> Nat], Backed(s, st), NEW e, e = Executed(s, st)
  PROVE  /\ e.allowances \in [P -> Nat] /\ e.step \in 0 .. Len(s)
         /\ e.step = 0 => Grown(P, s, st, e.allowances, Len(s))
         /\ e.step # 0 => Explained(s, st, e.step)
         /\ Used(P, s, st, e.allowances, Len(s))
<1>1. PICK n \in Nat : n = Len(s) /\ \A k \in 1 .. n : s[k] \in PlanStep(P)
  OBVIOUS
<1>2. PICK h \in [0 .. n -> Outcome(P)] :
        /\ h[0] = [step |-> 0, allowances |-> st]
        /\ \A k \in 1 .. n : h[k] = AfterStep(s, st, h[k - 1], k)
        /\ e = h[n]
  BY <1>1, ExecutedRuns
<1> DEFINE Good(o, k) ==
             \/ /\ o.step = 0 /\ Used(P, s, st, o.allowances, k) /\ Grown(P, s, st, o.allowances, k)
             \/ /\ o.step \in 1 .. k /\ Explained(s, st, o.step) /\ o.allowances = st
           T == {k \in 0 .. n : Good(h[k], k)}
<1>3. Used(P, s, st, st, 0) /\ Grown(P, s, st, st, 0)
  <2>1. \A p \in P : st[p] \in Nat /\ Capital \in Nat
    BY PlanAssumption DEF PlanAssumption
  <2> QED BY <2>1 DEF Used, Grown
<1>4. 0 \in T
  <2>1. h[0].step = 0 /\ h[0].allowances = st
    BY <1>2
  <2> QED BY <1>3, <2>1
<1>5. ASSUME NEW k \in 0 .. n - 1, k \in T PROVE k + 1 \in T
  <2>1. k \in Nat /\ k < Len(s) /\ k + 1 \in 1 .. n /\ k + 1 \in 0 .. n /\ (k + 1) - 1 = k /\ k \in 0 .. n
    BY <1>1
  <2>2. PICK o \in Outcome(P) : o = h[k]
    BY <1>2, <2>1
  <2>3. h[k + 1] = AfterStep(s, st, o, k + 1)
    BY <1>2, <2>1, <2>2
  <2>4. Good(o, k) /\ o.allowances \in [P -> Nat] /\ o.step \in Nat
    BY <1>5, <2>2 DEF Outcome
  <2>5. PICK x : x = s[k + 1]
    OBVIOUS
  <2>6. PICK A \in [P -> Nat] : A = o.allowances
    BY <2>4
  <2>7. CASE o.step # 0
    <3>1. h[k + 1] = o
      BY <2>3, <2>7 DEF AfterStep
    <3>2. o.step \in 1 .. k + 1
      BY <2>4, <2>7
    <3>3. Explained(s, st, o.step) /\ o.allowances = st
      BY <2>4, <2>7
    <3> QED BY <2>1, <3>1, <3>2, <3>3
  <2>8. CASE o.step = 0 /\ Reverts(x, A)
    <3>1. h[k + 1] = [step |-> k + 1, allowances |-> st]
      BY <2>3, <2>5, <2>6, <2>8 DEF AfterStep
    <3>2. Used(P, s, st, A, k)
      BY <2>4, <2>6, <2>8
    <3>3. Explained(s, st, k + 1)
      BY <2>1, <2>5, <2>8, <3>2, RevertExplained
    <3>4. h[k + 1].step = k + 1 /\ h[k + 1].allowances = st /\ k + 1 \in 1 .. k + 1
      BY <3>1
    <3> QED BY <2>1, <3>3, <3>4
  <2>9. CASE o.step = 0 /\ ~Reverts(x, A)
    <3>1. PICK B : B = Applied(x, A)
      OBVIOUS
    <3>2. h[k + 1] = [step |-> 0, allowances |-> B]
      BY <2>3, <2>5, <2>6, <2>9, <3>1 DEF AfterStep
    <3>3. Used(P, s, st, A, k) /\ Grown(P, s, st, A, k)
      BY <2>4, <2>6, <2>9
    <3>4. Used(P, s, st, B, k + 1) /\ Grown(P, s, st, B, k + 1)
      BY <2>1, <2>5, <2>9, <3>1, <3>3, StepApplies
    <3>5. h[k + 1].step = 0 /\ h[k + 1].allowances = B
      BY <3>2
    <3> QED BY <2>1, <3>4, <3>5
  <2> QED BY <2>7, <2>8, <2>9
<1> HIDE DEF T
<1>6. 0 .. n \subseteq T
  BY <1>4, <1>5, Upwards
<1>7. Good(e, n)
  BY <1>2, <1>6 DEF T
<1>8. e \in Outcome(P)
  BY <1>2
<1>9. e.allowances \in [P -> Nat] /\ e.step \in Nat
  BY <1>8 DEF Outcome
<1>10. Used(P, s, st, st, n)
  <2>1. \A p \in P : st[p] \in Nat /\ Capital \in Nat
    BY PlanAssumption DEF PlanAssumption
  <2>2. n >= 1 => n \in 1 .. Len(s) /\ ~(n < Len(s))
    BY <1>1
  <2>3. ~(n >= 1 /\ s[n].tx = "approve")
    BY <2>2 DEF Backed
  <2> QED BY <2>1, <2>3 DEF Used
<1> QED BY <1>1, <1>7, <1>9, <1>10

(* The deposits among steps s are those of the nodes Q.                    *)
SupplySteps == {Action(n) : n \in Supplying}
Matches(s, Q) ==
  /\ Len(Only(s, SupplySteps)) = Len(Only(Q, Supplying))
  /\ \A k \in 1 .. Len(Only(Q, Supplying)) : Only(s, SupplySteps)[k].pair = Pair(Only(Q, Supplying)[k])

LEMMA MatchesSkips ==
  ASSUME NEW S, NEW s \in Seq(S), NEW x \in S, x \notin SupplySteps, NEW Q, Matches(s, Q)
  PROVE  Matches(Append(s, x), Q)
<1>1. Only(Append(s, x), SupplySteps) = Only(s, SupplySteps)
  BY OnlyAppend
<1> QED BY <1>1 DEF Matches

LEMMA MatchesPasses ==
  ASSUME NEW s, NEW Q \in Seq(Kinds), NEW n \in Kinds, n \notin Supplying, Matches(s, Q)
  PROVE  Matches(s, Append(Q, n))
<1>1. Only(Append(Q, n), Supplying) = Only(Q, Supplying)
  BY OnlyAppend
<1> QED BY <1>1 DEF Matches

LEMMA AppendOf ==
  ASSUME NEW S, NEW s \in Seq(S), NEW x \in S
  PROVE  /\ Append(s, x) \in Seq(S) /\ Len(Append(s, x)) = Len(s) + 1
         /\ Append(s, x)[Len(s) + 1] = x /\ \A k \in 1 .. Len(s) : Append(s, x)[k] = s[k]
OBVIOUS

LEMMA MatchesAdds ==
  ASSUME NEW S, NEW s \in Seq(S), NEW Q \in Seq(Kinds), NEW n \in Supplying, NEW x \in S,
         x \in SupplySteps, x.pair = Pair(n), Matches(s, Q)
  PROVE  Matches(Append(s, x), Append(Q, n))
<1>1. n \in Kinds
  BY DEF Supplying
<1>3. PICK a \in Seq(S) : a = Only(s, SupplySteps)
  BY OnlyAppend
<1>4. PICK b \in Seq(Kinds) : b = Only(Q, Supplying)
  BY OnlyAppend, <1>1
<1>5. Only(Append(s, x), SupplySteps) = Append(a, x)
  BY <1>3, OnlyAppend, ZenonT(30)
<1>6. Only(Append(Q, n), Supplying) = Append(b, n)
  BY <1>1, <1>4, OnlyAppend, ZenonT(30)
<1>7. Len(a) = Len(b) /\ \A k \in 1 .. Len(b) : a[k].pair = Pair(b[k])
  BY <1>3, <1>4 DEF Matches
<1>8. PICK l \in Nat : l = Len(a) /\ l = Len(b)
  BY <1>7
<1>9. PICK c, d : c = Append(a, x) /\ d = Append(b, n)
  OBVIOUS
<1>10. Len(c) = l + 1 /\ c[l + 1] = x /\ \A k \in 1 .. l : c[k] = a[k]
  <2>1. /\ Len(Append(a, x)) = Len(a) + 1
        /\ Append(a, x)[Len(a) + 1] = x /\ \A k \in 1 .. Len(a) : Append(a, x)[k] = a[k]
    BY AppendOf
  <2> QED BY <1>8, <1>9, <2>1
<1>11. Len(d) = l + 1 /\ d[l + 1] = n /\ \A k \in 1 .. l : d[k] = b[k]
  <2>1. n \in Kinds
    BY <1>1
  <2> QED BY <1>8, <1>9, <2>1
<1>12. ASSUME NEW k \in 1 .. l + 1 PROVE c[k].pair = Pair(d[k])
  <2>1. CASE k \in 1 .. l
    <3>1. c[k] = a[k] /\ d[k] = b[k] /\ k \in 1 .. Len(b)
      BY <1>8, <1>10, <1>11, <2>1
    <3> QED BY <1>7, <3>1
  <2>2. CASE k = l + 1
    <3>1. c[k] = x /\ d[k] = n
      BY <1>10, <1>11, <2>2
    <3> QED BY <3>1
  <2> QED BY <2>1, <2>2
<1>13. Only(Append(s, x), SupplySteps) = c /\ Only(Append(Q, n), Supplying) = d
  BY <1>5, <1>6, <1>9
<1> QED BY <1>10, <1>11, <1>12, <1>13 DEF Matches

LEMMA MatchesEmpty == Matches(<<>>, <<>>)
<1>1. \A K : Only(<<>>, K) = <<>>
  BY OnlyEmpty
<1>2. Len(<<>>) = 0
  BY EmptySeq
<1> QED BY <1>1, <1>2 DEF Matches

(* Steps are added to a plan that is backed.                               *)
LEMMA BackedAction ==
  ASSUME NEW P, NEW s \in Seq(PlanStep(P)), NEW st, Backed(s, st), NEW x \in PlanStep(P), x.tx = "action",
         x.pair[1] \notin Tokens \/ st[x.pair] >= Capital
  PROVE  Backed(Append(s, x), st)
<1>1. PICK n \in Nat : n = Len(s)
  OBVIOUS
<1>2. PICK t : t = Append(s, x)
  OBVIOUS
<1>3. Len(t) = n + 1 /\ t[n + 1] = x /\ \A k \in 1 .. n : t[k] = s[k]
  BY <1>1, <1>2
<1>4. ASSUME NEW k \in 1 .. n + 1, t[k].tx = "approve"
      PROVE  k < n + 1 /\ t[k + 1].tx = "action" /\ t[k + 1].pair = t[k].pair
  <2>1. k \in 1 .. n
    BY <1>3, <1>4
  <2>2. t[k] = s[k] /\ s[k].tx = "approve"
    BY <1>3, <1>4, <2>1
  <2>3. k < n /\ s[k + 1].tx = "action" /\ s[k + 1].pair = s[k].pair
    BY <1>1, <2>1, <2>2 DEF Backed
  <2>4. t[k + 1] = s[k + 1]
    BY <1>3, <2>1, <2>3
  <2> QED BY <2>2, <2>3, <2>4
<1>5. ASSUME NEW k \in 1 .. n + 1, t[k].tx = "action"
      PROVE  (k > 1 /\ t[k - 1].tx = "approve") \/ t[k].pair[1] \notin Tokens \/ st[t[k].pair] >= Capital
  <2>1. CASE k = n + 1
    BY <1>3, <2>1
  <2>2. CASE k \in 1 .. n
    <3>1. t[k] = s[k]
      BY <1>3, <2>2
    <3>2. (k > 1 /\ s[k - 1].tx = "approve") \/ s[k].pair[1] \notin Tokens \/ st[s[k].pair] >= Capital
      BY <1>1, <1>5, <2>2, <3>1 DEF Backed
    <3>3. k > 1 => t[k - 1] = s[k - 1]
      BY <1>3, <2>2
    <3> QED BY <3>1, <3>2, <3>3
  <2> QED BY <2>1, <2>2
<1> QED BY <1>2, <1>3, <1>4, <1>5 DEF Backed

LEMMA BackedPair ==
  ASSUME NEW P, NEW s \in Seq(PlanStep(P)), NEW st, Backed(s, st), NEW x \in PlanStep(P), NEW y \in PlanStep(P),
         x.tx = "approve", y.tx = "action", y.pair = x.pair
  PROVE  Backed(Append(Append(s, x), y), st)
<1>1. PICK n \in Nat : n = Len(s)
  OBVIOUS
<1>2. PICK t : t = Append(Append(s, x), y)
  OBVIOUS
<1>3. Len(t) = n + 2 /\ t[n + 1] = x /\ t[n + 2] = y /\ \A k \in 1 .. n : t[k] = s[k]
  BY <1>1, <1>2
<1>4. \A k \in 1 .. n + 2 : k \in 1 .. n \/ k = n + 1 \/ k = n + 2
  OBVIOUS
<1>5. ASSUME NEW k \in 1 .. n + 2, t[k].tx = "approve"
      PROVE  k < n + 2 /\ t[k + 1].tx = "action" /\ t[k + 1].pair = t[k].pair
  <2>1. CASE k \in 1 .. n
    <3>1. t[k] = s[k] /\ s[k].tx = "approve"
      BY <1>3, <1>5, <2>1
    <3>2. k < n /\ s[k + 1].tx = "action" /\ s[k + 1].pair = s[k].pair
      BY <1>1, <2>1, <3>1 DEF Backed
    <3>3. t[k + 1] = s[k + 1]
      BY <1>3, <2>1, <3>2
    <3> QED BY <3>1, <3>2, <3>3
  <2>2. CASE k = n + 1
    <3>1. k + 1 = n + 2
      BY <2>2
    <3> QED BY <1>3, <2>2, <3>1
  <2>3. CASE k = n + 2
    BY <1>3, <1>5, <2>3
  <2> QED BY <1>4, <2>1, <2>2, <2>3
<1>6. ASSUME NEW k \in 1 .. n + 2, t[k].tx = "action"
      PROVE  (k > 1 /\ t[k - 1].tx = "approve") \/ t[k].pair[1] \notin Tokens \/ st[t[k].pair] >= Capital
  <2>1. CASE k = n + 2
    <3>1. k > 1 /\ k - 1 = n + 1
      BY <2>1
    <3> QED BY <1>3, <3>1
  <2>2. CASE k = n + 1
    BY <1>3, <1>6, <2>2
  <2>3. CASE k \in 1 .. n
    <3>1. t[k] = s[k]
      BY <1>3, <2>3
    <3>2. (k > 1 /\ s[k - 1].tx = "approve") \/ s[k].pair[1] \notin Tokens \/ st[s[k].pair] >= Capital
      BY <1>1, <1>6, <2>3, <3>1 DEF Backed
    <3>3. k > 1 => t[k - 1] = s[k - 1]
      BY <1>3, <2>3
    <3> QED BY <3>1, <3>2, <3>3
  <2> QED BY <1>4, <2>1, <2>2, <2>3
<1> QED BY <1>2, <1>3, <1>5, <1>6 DEF Backed

(* What holds of a plan x, the transactions sn of it that were sent, the   *)
(* allowances st before and A now, over the pairs P and the nodes Q.       *)
PlanRec(P) == [at : {"none", "building", "running", "thrown"}, node : Nat \ {0}, steps : Seq(PlanStep(P)), batch : BOOLEAN]

PlanKept(x, Q) ==
  x.at = "building" => x.node <= Len(Q) + 1 /\ Matches(x.steps, SubSeq(Q, 1, x.node - 1))

Sending(x, sn, st, A, P, Q) ==
  x.at = "running" =>
    /\ Matches(x.steps, Q)
    /\ Used(P, x.steps, st, A, sn.count)
    /\ sn.reverted = {} => Grown(P, x.steps, st, A, sn.count)

Counted(x, sn, st, A) ==
  /\ sn.count \in 0 .. Len(x.steps)
  /\ sn.count = 0 => A = st /\ sn.reverted = {}
  /\ x.at # "running" => sn.count = 0
  /\ x.batch => sn.count \in {0, Len(x.steps)}
  /\ \A k \in sn.reverted : Explained(x.steps, st, k)

PlanOK(x, sn, st, A, P, Q) ==
  /\ x \in PlanRec(P) /\ sn = [count |-> sn.count, reverted |-> sn.reverted]
  /\ Counted(x, sn, st, A)
  /\ x.at # "none" => st \in [P -> Nat] /\ A \in [P -> Nat] /\ Backed(x.steps, st)
  /\ PlanKept(x, Q)
  /\ Sending(x, sn, st, A, P, Q)

PlanInv ==
  /\ PlanOK(plan, sent, standing, ledger, Pairs, Plan(order))
  /\ plan.at = "none" => plan = NoPlan
  /\ plan.at # "none" => phase = "built"

LEMMA PlanFields ==
  ASSUME NEW P, NEW x \in PlanRec(P)
  PROVE  /\ x = [at |-> x.at, node |-> x.node, steps |-> x.steps, batch |-> x.batch]
         /\ x.at \in {"none", "building", "running", "thrown"} /\ x.node \in Nat \ {0}
         /\ x.steps \in Seq(PlanStep(P)) /\ x.batch \in BOOLEAN
BY DEF PlanRec

LEMMA NoPlanOK ==
  ASSUME NEW P, NEW Q, NEW sn, sn = [count |-> 0, reverted |-> {}], NEW st
  PROVE  PlanOK(NoPlan, sn, st, st, P, Q)
<1>1. NoPlan \in PlanRec(P) /\ NoPlan.at = "none" /\ NoPlan.steps = <<>> /\ ~NoPlan.batch
  <2>1. <<>> \in Seq(PlanStep(P))
    BY EmptySeq
  <2> QED BY <2>1 DEF NoPlan, PlanRec
<1>2. sn.count = 0 /\ sn.reverted = {} /\ sn.count \in 0 .. Len(<<>>)
  BY EmptySeq
<1>3. sn = [count |-> sn.count, reverted |-> sn.reverted]
  BY <1>2
<1>4. Counted(NoPlan, sn, st, st)
  BY <1>1, <1>2 DEF Counted
<1> QED BY <1>1, <1>3, <1>4 DEF PlanOK, PlanKept, Sending

LEMMA PlanStarts == ASSUME PlanInit PROVE PlanInv
<1>1. plan = NoPlan /\ standing = ledger /\ sent = [count |-> 0, reverted |-> {}]
  BY DEF PlanInit
<1>2. PICK P, Q, sn, st : P = Pairs /\ Q = Plan(order) /\ sn = sent /\ st = standing
  OBVIOUS
<1>3. PlanOK(NoPlan, sn, st, st, P, Q)
  BY <1>1, <1>2, NoPlanOK
<1>4. NoPlan.at = "none"
  BY DEF NoPlan
<1> QED BY <1>1, <1>2, <1>3, <1>4 DEF PlanInv

LEMMA PlanStays ==
  ASSUME PlanInv, UNCHANGED planVars,
         phase = "built" => phase' = phase /\ order' = order /\ kind' = kind
  PROVE  PlanInv'
<1>1. plan' = plan /\ ledger' = ledger /\ standing' = standing /\ sent' = sent
  BY DEF planVars
<1>2. CASE phase = "built"
  <2>1. phase' = phase /\ order' = order /\ kind' = kind
    BY <1>2
  <2>2. Pairs' = Pairs /\ Plan(order)' = Plan(order)
    BY <2>1 DEF Pairs, Plan
  <2> QED BY <1>1, <2>1, <2>2 DEF PlanInv
<1>3. CASE phase # "built"
  <2>1. plan = NoPlan /\ PlanOK(plan, sent, standing, ledger, Pairs, Plan(order)) /\ NoPlan.at = "none"
    BY <1>3 DEF PlanInv, NoPlan
  <2>2. PICK P, Q, sn, st, A, p, q : P = Pairs' /\ Q = Plan(order)' /\ sn = sent /\ st = standing /\ A = ledger
           /\ p = Pairs /\ q = Plan(order)
    OBVIOUS
  <2>3. PlanOK(NoPlan, sn, st, A, p, q)
    BY <2>1, <2>2
  <2>4. sn.count = 0 /\ sn = [count |-> sn.count, reverted |-> sn.reverted]
    BY <2>1, <2>3 DEF PlanOK, Counted
  <2>5. A = st /\ sn.reverted = {}
    BY <2>3, <2>4 DEF PlanOK, Counted
  <2>6. PlanOK(NoPlan, sn, st, st, P, Q)
    BY <2>4, <2>5, NoPlanOK
  <2> QED BY <1>1, <2>1, <2>2, <2>5, <2>6 DEF PlanInv
<1> QED BY <1>2, <1>3

LEMMA StartPlanPlans == ASSUME PlanInv, StartPlan, GraphInv PROVE PlanInv'
<1>1. phase = "built" /\ phase' = phase /\ order' = order /\ kind' = kind /\ plan = NoPlan /\ sent' = sent
      /\ ledger' \in [Pairs -> Standing] /\ standing' = ledger'
  BY DEF StartPlan, graphVars, construction, sorting
<1>2. PICK batch \in BOOLEAN : plan' = [NoPlan EXCEPT !.at = "building", !.batch = batch]
  BY DEF StartPlan
<1>3. PICK x : x = [at |-> "building", node |-> 1, steps |-> <<>>, batch |-> batch]
  OBVIOUS
<1>4. plan' = x
  <2>1. PICK z, z1, ff : ff = FALSE /\ z = NoPlan /\ z1 = [z EXCEPT !.at = "building"]
    OBVIOUS
  <2>2. z1 = [at |-> "building", node |-> 1, steps |-> <<>>, batch |-> ff]
    BY <2>1 DEF NoPlan
  <2>3. x = [z1 EXCEPT !.batch = batch]
    BY <1>3, <2>2
  <2>4. plan' = [[z EXCEPT !.at = "building"] EXCEPT !.batch = batch]
    BY <1>2, <2>1, Zenon
  <2> QED BY <2>1, <2>3, <2>4
<1>5. PICK P, Q, sn, st : P = Pairs /\ Q = Plan(order) /\ sn = sent /\ st = ledger'
  OBVIOUS
<1>6. x.at = "building" /\ x.node = 1 /\ x.steps = <<>> /\ x \in PlanRec(P)
  <2>1. <<>> \in Seq(PlanStep(P))
    BY EmptySeq
  <2>2. x.at = "building" /\ x.node = 1 /\ x.steps = <<>>
    BY <1>3
  <2> QED BY <1>3, <2>1, <2>2 DEF PlanRec
<1>7. sn.count = 0 /\ sn.reverted = {} /\ sn = [count |-> sn.count, reverted |-> sn.reverted]
  <2>1. PlanOK(NoPlan, sn, standing, ledger, P, Q)
    BY <1>1, <1>5 DEF PlanInv
  <2>2. PICK ss, A : ss = standing /\ A = ledger
    OBVIOUS
  <2>3. Counted(NoPlan, sn, ss, A) /\ sn = [count |-> sn.count, reverted |-> sn.reverted] /\ NoPlan.at = "none"
    BY <2>1, <2>2 DEF PlanOK, NoPlan
  <2>4. sn.count = 0
    BY <2>3 DEF Counted
  <2> QED BY <2>3, <2>4 DEF Counted
<1>8. Counted(x, sn, st, st)
  BY <1>6, <1>7, EmptySeq DEF Counted
<1>9. st \in [P -> Nat]
  BY <1>1, <1>5, PlanAssumption DEF PlanAssumption
<1>10. Backed(x.steps, st)
  BY <1>6, EmptySeq DEF Backed
<1>11. PlanKept(x, Q)
  <2>1. order \in Seq(Members(nodes)) /\ kind \in [Members(nodes) -> Kinds]
    BY DEF GraphInv, SortInv, Ground
  <2>2. SubSeq(Q, 1, 0) = <<>>
    OBVIOUS
  <2>3. Len(Q) \in Nat
    BY <1>5, <2>1 DEF Plan
  <2>4. 1 - 1 = 0 /\ 1 <= Len(Q) + 1
    BY <2>3
  <2>5. x.node <= Len(Q) + 1 /\ Matches(x.steps, SubSeq(Q, 1, x.node - 1))
    BY <1>6, <2>2, <2>4, MatchesEmpty
  <2> QED BY <2>5 DEF PlanKept
<1>12. PlanOK(x, sn, st, st, P, Q)
  BY <1>6, <1>7, <1>8, <1>9, <1>10, <1>11 DEF PlanOK, Sending
<1>13. Pairs' = Pairs /\ Plan(order)' = Plan(order)
  BY <1>1 DEF Pairs, Plan
<1> QED BY <1>1, <1>4, <1>5, <1>6, <1>12, <1>13 DEF PlanInv

(* What can be encoded is a deposit, a borrow or a withdrawal, and of the  *)
(* registered protocols every deposit can.                                 *)
LEMMA Encoded ==
  ASSUME NEW n
  PROVE  /\ TargetOf(n) # "none" => n.action \in {"supply", "borrow", "withdraw"}
         /\ n.protocol \in Registered /\ n.action = "supply" => TargetOf(n) # "none"
<1>1. CASE n.protocol = "aave-v3"
  <2>1. CASE n.action \in {"supply", "borrow", "withdraw"}
    <3>1. TargetOf(n) = "pool"
      BY <1>1, <2>1 DEF TargetOf
    <3> QED BY <2>1, <3>1
  <2>2. CASE n.action \notin {"supply", "borrow", "withdraw"}
    <3>1. TargetOf(n) = "none"
      BY <1>1, <2>2 DEF TargetOf
    <3> QED BY <2>2, <3>1
  <2> QED BY <2>1, <2>2
<1>2. CASE n.protocol = "morpho-blue"
  <2>1. CASE n.action \in {"supply", "withdraw"}
    <3>1. TargetOf(n) = IF n.in = "USDC" THEN "steakhouse" ELSE "moonwell"
      BY <1>2, <2>1 DEF TargetOf
    <3> QED BY <2>1, <3>1
  <2>2. CASE n.action \notin {"supply", "withdraw"}
    <3>1. TargetOf(n) = "none"
      BY <1>2, <2>2 DEF TargetOf
    <3> QED BY <2>2, <3>1
  <2> QED BY <2>1, <2>2
<1>3. CASE n.protocol # "aave-v3" /\ n.protocol # "morpho-blue"
  <2>1. TargetOf(n) = "none"
    BY <1>3 DEF TargetOf
  <2> QED BY <1>3, <2>1 DEF Registered
<1> QED BY <1>1, <1>2, <1>3

(* The two steps of a node whose call can be encoded.                      *)
LEMMA NodeSteps ==
  ASSUME NEW P, NEW n \in Kinds, TargetOf(n) # "none", Pair(n) \in P, Spends(n) \in P
  PROVE  /\ Approve(n) \in PlanStep(P) /\ Approve(n).tx = "approve" /\ Approve(n) \notin SupplySteps
         /\ Action(n) \in PlanStep(P) /\ Action(n).tx = "action"
         /\ Approve(n).pair = Pair(n) /\ Action(n).pair = Pair(n)
         /\ Action(n) \in SupplySteps <=> n \in Supplying
<1>1. PICK a, p, o : a = n.action /\ p = Pair(n) /\ o = Spends(n)
  OBVIOUS
<1>2. a \in {"supply", "borrow", "withdraw"} /\ p \in P /\ o \in P
  BY <1>1, Encoded
<1>3. PICK x : x = Approve(n)
  OBVIOUS
<1>4. PICK y : y = Action(n)
  OBVIOUS
<1>5. x = [tx |-> "approve", pair |-> p, spends |-> p, amount |-> Capital, action |-> "approve"]
  BY <1>1, <1>3 DEF Approve
<1>6. y = [tx |-> "action", pair |-> p, spends |-> o, amount |-> Capital, action |-> a]
  BY <1>1, <1>4 DEF Action
<1>7. x \in PlanStep(P) /\ x.tx = "approve" /\ x.pair = p
  BY <1>2, <1>5 DEF PlanStep
<1>8. y \in PlanStep(P) /\ y.tx = "action" /\ y.pair = p /\ y.action = a
  BY <1>2, <1>6 DEF PlanStep
<1>9. \A m : Action(m).tx = "action" /\ Action(m).action = m.action
  BY DEF Action
<1>10. x \notin SupplySteps
  <2>1. \A z \in SupplySteps : z.tx = "action"
    BY <1>9 DEF SupplySteps
  <2> QED BY <1>7, <2>1
<1>11. y \in SupplySteps => n \in Supplying
  <2>1. \A z \in SupplySteps : z.action = "supply"
    BY <1>9 DEF SupplySteps, Supplying
  <2> QED BY <1>1, <1>8, <2>1 DEF Supplying
<1>12. n \in Supplying => y \in SupplySteps
  BY <1>4 DEF SupplySteps
<1> QED BY <1>1, <1>3, <1>4, <1>7, <1>8, <1>10, <1>11, <1>12

(* The next node's steps t: the plan stays backed and matches.             *)
Extends(P, st, s, Q, n, t) ==
  \/ t = s /\ n \notin Supplying
  \/ t = Append(s, Action(n)) /\ TargetOf(n) # "none" /\ {Pair(n), Spends(n)} \subseteq P
       /\ (Pair(n)[1] \notin Tokens \/ st[Pair(n)] >= Capital)
  \/ t = Append(Append(s, Approve(n)), Action(n)) /\ TargetOf(n) # "none" /\ {Pair(n), Spends(n)} \subseteq P

LEMMA ExtendedOK ==
  ASSUME NEW P, NEW st, NEW s \in Seq(PlanStep(P)), Backed(s, st), NEW Q \in Seq(Kinds), NEW n \in Kinds,
         Matches(s, Q), NEW t, Extends(P, st, s, Q, n, t)
  PROVE  t \in Seq(PlanStep(P)) /\ Backed(t, st) /\ Matches(t, Append(Q, n))
<1>1. CASE t = s /\ n \notin Supplying
  BY <1>1, MatchesPasses
<1>2. CASE t = Append(s, Action(n)) /\ TargetOf(n) # "none" /\ {Pair(n), Spends(n)} \subseteq P
             /\ (Pair(n)[1] \notin Tokens \/ st[Pair(n)] >= Capital)
  <2>1. PICK y \in PlanStep(P) : y = Action(n) /\ y.tx = "action" /\ y.pair = Pair(n)
                                 /\ (y \in SupplySteps <=> n \in Supplying)
    BY <1>2, NodeSteps
  <2>2. Backed(Append(s, y), st)
    BY <1>2, <2>1, BackedAction
  <2>3. Matches(Append(s, y), Append(Q, n))
    <3>1. CASE n \in Supplying
      BY <2>1, <3>1, MatchesAdds
    <3>2. CASE n \notin Supplying
      <4>1. Matches(Append(s, y), Q)
        BY <2>1, <3>2, MatchesSkips
      <4> QED BY <3>2, <4>1, MatchesPasses
    <3> QED BY <3>1, <3>2
  <2>4. Append(s, y) \in Seq(PlanStep(P))
    BY AppendOf
  <2> QED BY <1>2, <2>1, <2>2, <2>3, <2>4
<1>3. CASE t = Append(Append(s, Approve(n)), Action(n)) /\ TargetOf(n) # "none" /\ {Pair(n), Spends(n)} \subseteq P
  <2>1. PICK x \in PlanStep(P), y \in PlanStep(P) :
           /\ x = Approve(n) /\ x.tx = "approve" /\ x \notin SupplySteps /\ x.pair = Pair(n)
           /\ y = Action(n) /\ y.tx = "action" /\ y.pair = Pair(n)
           /\ (y \in SupplySteps <=> n \in Supplying)
    BY <1>3, NodeSteps
  <2>2. Backed(Append(Append(s, x), y), st)
    BY <2>1, BackedPair
  <2>3. PICK u \in Seq(PlanStep(P)) : u = Append(s, x)
    BY AppendOf
  <2>4. Matches(u, Q)
    BY <2>1, <2>3, MatchesSkips
  <2>5. Matches(Append(u, y), Append(Q, n))
    <3>1. CASE n \in Supplying
      BY <2>1, <2>4, <3>1, MatchesAdds
    <3>2. CASE n \notin Supplying
      <4>1. Matches(Append(u, y), Q)
        BY <2>1, <2>4, <3>2, MatchesSkips
      <4> QED BY <3>2, <4>1, MatchesPasses
    <3> QED BY <3>1, <3>2
  <2>6. Append(u, y) \in Seq(PlanStep(P))
    BY AppendOf
  <2>7. t = Append(u, y)
    BY <1>3, <2>1, <2>3
  <2> QED BY <2>2, <2>1, <2>3, <2>5, <2>6, <2>7
<1> QED BY <1>1, <1>2, <1>3 DEF Extends

LEMMA Taken ==
  ASSUME NEW S, NEW Q \in Seq(S), NEW k \in 1 .. Len(Q)
  PROVE  SubSeq(Q, 1, k) = Append(SubSeq(Q, 1, k - 1), Q[k]) /\ SubSeq(Q, 1, k - 1) \in Seq(S) /\ Q[k] \in S
<1>1. PICK n \in Nat : n = Len(Q) /\ \A i \in 1 .. n : Q[i] \in S
  OBVIOUS
<1>2. PICK a : a = SubSeq(Q, 1, k - 1)
  OBVIOUS
<1>3. a \in Seq(S) /\ Len(a) = k - 1 /\ \A i \in 1 .. k - 1 : a[i] = Q[i]
  BY <1>1, <1>2
<1>4. PICK b : b = SubSeq(Q, 1, k)
  OBVIOUS
<1>5. b \in Seq(S) /\ Len(b) = k /\ \A i \in 1 .. k : b[i] = Q[i]
  BY <1>1, <1>4
<1>6. PICK c : c = Append(a, Q[k])
  OBVIOUS
<1>7. c \in Seq(S) /\ Len(c) = k /\ \A i \in 1 .. k : c[i] = Q[i]
  <2>1. Q[k] \in S
    BY <1>1
  <2>2. c \in Seq(S) /\ Len(c) = Len(a) + 1 /\ c[Len(a) + 1] = Q[k] /\ \A i \in 1 .. Len(a) : c[i] = a[i]
    BY <1>3, <1>6, <2>1
  <2>3. Len(c) = k /\ c[k] = Q[k] /\ \A i \in 1 .. k - 1 : c[i] = Q[i]
    BY <1>3, <2>2
  <2> QED BY <2>2, <2>3
<1>8. b = c
  BY <1>5, <1>7
<1>9. Q[k] \in S
  BY <1>1
<1> QED BY <1>2, <1>3, <1>4, <1>6, <1>8, <1>9

(* A node's steps keep what holds of a plan.                               *)
LEMMA NodeKeeps ==
  ASSUME NEW P, NEW sn, NEW st, NEW A, NEW Q \in Seq(Kinds), NEW x, PlanOK(x, sn, st, A, P, Q),
         x.at = "building", x.node <= Len(Q), NEW t, Extends(P, st, x.steps, SubSeq(Q, 1, x.node - 1), Q[x.node], t),
         NEW y, y = [at |-> "building", node |-> x.node + 1, steps |-> t, batch |-> x.batch]
  PROVE  PlanOK(y, sn, st, A, P, Q)
<1>1. PICK k : k = x.node
  OBVIOUS
<1>2. x \in PlanRec(P)
  BY DEF PlanOK
<1>3. k \in Nat \ {0} /\ x.steps \in Seq(PlanStep(P)) /\ x.batch \in BOOLEAN
  BY <1>1, <1>2, PlanFields
<1>4. k \in 1 .. Len(Q)
  BY <1>1, <1>3
<1>5. PICK q \in Seq(Kinds), n \in Kinds : q = SubSeq(Q, 1, k - 1) /\ n = Q[k] /\ SubSeq(Q, 1, k) = Append(q, n)
  <2>1. /\ SubSeq(Q, 1, k) = Append(SubSeq(Q, 1, k - 1), Q[k])
        /\ SubSeq(Q, 1, k - 1) \in Seq(Kinds) /\ Q[k] \in Kinds
    BY <1>4, Taken
  <2> QED BY <2>1, Zenon
<1>6. Backed(x.steps, st) /\ Matches(x.steps, q) /\ st \in [P -> Nat] /\ A \in [P -> Nat]
  BY <1>1, <1>5 DEF PlanOK, PlanKept
<1>7. Extends(P, st, x.steps, q, n, t)
  BY <1>1, <1>5
<1>8. t \in Seq(PlanStep(P)) /\ Backed(t, st) /\ Matches(t, Append(q, n))
  BY <1>3, <1>6, <1>7, ExtendedOK
<1>9. y.at = "building" /\ y.node = k + 1 /\ y.steps = t /\ y.batch = x.batch
  BY <1>1
<1>10. y \in PlanRec(P)
  BY <1>1, <1>3, <1>8 DEF PlanRec
<1>11. PICK c, r : c = sn.count /\ r = sn.reverted
  OBVIOUS
<1>12. c = 0 /\ A = st /\ r = {}
  <2>1. c = 0
    BY <1>11 DEF PlanOK, Counted
  <2> QED BY <1>11, <2>1 DEF PlanOK, Counted
<1>13. Counted(y, sn, st, A)
  <2>1. c \in 0 .. Len(t)
    BY <1>8, <1>12
  <2> QED BY <1>9, <1>11, <1>12, <2>1 DEF Counted
<1>14. PlanKept(y, Q)
  <2>1. k + 1 <= Len(Q) + 1 /\ (k + 1) - 1 = k
    BY <1>4
  <2>2. Matches(t, SubSeq(Q, 1, k))
    BY <1>5, <1>8
  <2> QED BY <1>9, <2>1, <2>2 DEF PlanKept
<1>15. sn = [count |-> sn.count, reverted |-> sn.reverted]
  BY DEF PlanOK
<1> QED BY <1>6, <1>8, <1>9, <1>10, <1>13, <1>14, <1>15 DEF PlanOK, Sending

(* Of a plan that throws nothing is asked any more, and one that is ready  *)
(* is to be run.                                                           *)
LEMMA MovedOn ==
  ASSUME NEW P, NEW sn, NEW st, NEW A, NEW Q \in Seq(Kinds), NEW x, PlanOK(x, sn, st, A, P, Q),
         x.at = "building", NEW at \in {"running", "thrown"}, at = "running" => x.node > Len(Q),
         NEW y, y = [at |-> at, node |-> x.node, steps |-> x.steps, batch |-> x.batch]
  PROVE  PlanOK(y, sn, st, A, P, Q)
<1>1. x \in PlanRec(P) /\ Backed(x.steps, st) /\ st \in [P -> Nat] /\ A \in [P -> Nat]
      /\ sn = [count |-> sn.count, reverted |-> sn.reverted]
  BY DEF PlanOK
<1>2. x.node \in Nat \ {0} /\ x.steps \in Seq(PlanStep(P)) /\ x.batch \in BOOLEAN
  BY <1>1, PlanFields
<1>3. y.at = at /\ y.node = x.node /\ y.steps = x.steps /\ y.batch = x.batch
  OBVIOUS
<1>4. y \in PlanRec(P)
  BY <1>2 DEF PlanRec
<1>5. sn.count = 0
  BY DEF PlanOK, Counted
<1>6. A = st /\ sn.reverted = {} /\ 0 \in 0 .. Len(x.steps)
  BY <1>5 DEF PlanOK, Counted
<1>7. Counted(y, sn, st, A)
  BY <1>3, <1>5, <1>6 DEF Counted
<1>8. PlanKept(y, Q)
  BY <1>3 DEF PlanKept
<1>9. Sending(y, sn, st, A, P, Q)
  <2>1. SUFFICES ASSUME at = "running" PROVE Matches(x.steps, Q) /\ Used(P, x.steps, st, A, 0) /\ Grown(P, x.steps, st, A, 0)
    BY <1>3, <1>5 DEF Sending
  <2>2. PICK m \in Nat, l \in Nat : m = x.node /\ l = Len(Q) /\ m > l /\ m <= l + 1
    BY <1>2, <2>1, SMTT(20) DEF PlanOK, PlanKept
  <2>3. m - 1 = l
    BY <2>2
  <2>4. SubSeq(Q, 1, l) = Q
    BY <2>2
  <2>5. Matches(x.steps, Q)
    BY <2>2, <2>3, <2>4 DEF PlanOK, PlanKept
  <2>6. \A p \in P : st[p] \in Nat /\ Capital \in Nat
    BY <1>1, PlanAssumption DEF PlanAssumption
  <2>7. Used(P, x.steps, st, A, 0) /\ Grown(P, x.steps, st, A, 0)
    BY <1>6, <2>6 DEF Used, Grown
  <2> QED BY <2>5, <2>7
<1>10. y.at # "none"
  BY <1>3
<1> QED BY <1>1, <1>3, <1>4, <1>7, <1>8, <1>9 DEF PlanOK

LEMMA PlanMoves ==
  ASSUME PlanInv, GraphInv, plan.at # "none", UNCHANGED <<graphVars, standing>>,
         PlanOK(plan', sent', standing, ledger', Pairs, Plan(order)), plan'.at # "none"
  PROVE  PlanInv'
<1>1. phase' = phase /\ order' = order /\ kind' = kind /\ standing' = standing
  BY DEF graphVars, construction, sorting
<1>2. Pairs' = Pairs /\ Plan(order)' = Plan(order)
  BY <1>1 DEF Pairs, Plan
<1>3. phase = "built"
  BY DEF PlanInv
<1> QED BY <1>1, <1>2, <1>3 DEF PlanInv

LEMMA OrderPlanned ==
  ASSUME GraphInv
  PROVE  /\ order \in Seq(Members(nodes)) /\ Plan(order) \in Seq(Kinds) /\ Len(Plan(order)) = Len(order)
         /\ \A k \in 1 .. Len(order) : Plan(order)[k] = kind[order[k]] /\ kind[order[k]] \in Kinds
         /\ \A k \in 1 .. Len(order) : TargetOf(kind[order[k]]) # "none" => {Pair(kind[order[k]]), Spends(kind[order[k]])} \subseteq Pairs
<1>1. PICK N, o, f : N = Members(nodes) /\ o = order /\ f = kind
  OBVIOUS
<1>2. o \in Seq(N) /\ f \in [N -> Kinds]
  BY <1>1 DEF GraphInv, SortInv, Ground
<1>3. PICK l \in Nat : l = Len(o) /\ DOMAIN o = 1 .. l /\ \A k \in 1 .. l : o[k] \in N
  BY <1>2
<1>4. Plan(order) = [k \in 1 .. l |-> f[o[k]]]
  BY <1>1, <1>3 DEF Plan
<1>5. \A k \in 1 .. l : f[o[k]] \in Kinds
  BY <1>2, <1>3
<1>6. PICK Q : Q = Plan(order)
  OBVIOUS
<1>7. Q = [k \in 1 .. l |-> f[o[k]]]
  BY <1>4, <1>6
<1>8. Q \in Seq(Kinds) /\ Len(Q) = l /\ \A k \in 1 .. l : Q[k] = f[o[k]]
  BY <1>5, <1>7
<1>9. \A k \in 1 .. l : TargetOf(f[o[k]]) # "none" => {Pair(f[o[k]]), Spends(f[o[k]])} \subseteq Pairs
  <2>1. \A k \in 1 .. l : o[k] \in Members(o)
    BY <1>3 DEF Members
  <2> QED BY <1>1, <2>1 DEF Pairs
<1> QED BY <1>1, <1>2, <1>3, <1>5, <1>6, <1>8, <1>9

LEMMA AddsUp ==
  ASSUME NEW P, NEW x \in PlanRec(P), NEW u
  PROVE  [x EXCEPT !.node = @ + 1, !.steps = @ \o u]
           = [at |-> x.at, node |-> x.node + 1, steps |-> x.steps \o u, batch |-> x.batch]
<1>1. PICK a, k, s, b : a = x.at /\ k = x.node /\ s = x.steps /\ b = x.batch
  OBVIOUS
<1>2. x = [at |-> a, node |-> k, steps |-> s, batch |-> b]
  BY <1>1, PlanFields
<1>3. PICK z : z = [x EXCEPT !.node = k + 1]
  OBVIOUS
<1>4. z = [at |-> a, node |-> k + 1, steps |-> s, batch |-> b]
  BY <1>2, <1>3
<1>5. PICK v : v = s \o u
  OBVIOUS
<1>6. [z EXCEPT !.steps = v] = [at |-> a, node |-> k + 1, steps |-> v, batch |-> b]
  BY <1>4
<1>7. [x EXCEPT !.node = @ + 1, !.steps = @ \o u] = [[x EXCEPT !.node = k + 1] EXCEPT !.steps = v]
  <2>1. [x EXCEPT !.node = x.node + 1, !.steps = x.steps \o u] = [[x EXCEPT !.node = k + 1] EXCEPT !.steps = v]
    BY <1>1, <1>5, Zenon
  <2> QED BY <2>1, Zenon
<1> QED BY <1>1, <1>3, <1>5, <1>6, <1>7, Zenon

LEMMA MovesTo ==
  ASSUME NEW P, NEW x \in PlanRec(P), NEW at
  PROVE  [x EXCEPT !.at = at] = [at |-> at, node |-> x.node, steps |-> x.steps, batch |-> x.batch]
<1>1. PICK a, k, s, b : a = x.at /\ k = x.node /\ s = x.steps /\ b = x.batch
  OBVIOUS
<1>2. x = [at |-> a, node |-> k, steps |-> s, batch |-> b]
  BY <1>1, PlanFields
<1>3. [x EXCEPT !.at = at] = [at |-> at, node |-> k, steps |-> s, batch |-> b]
  BY <1>2
<1> QED BY <1>1, <1>3

LEMMA Joined ==
  ASSUME NEW S, NEW s \in Seq(S), NEW x \in S, NEW y \in S
  PROVE  s \o <<>> = s /\ s \o <<x>> = Append(s, x) /\ s \o <<x, y>> = Append(Append(s, x), y)
OBVIOUS

LEMMA NodePlans == ASSUME PlanInv, PlanNode, GraphInv PROVE PlanInv'
<1>1. /\ plan.at = "building" /\ plan.node <= Len(order)
      /\ UNCHANGED <<graphVars, ledger, standing, sent>>
  BY DEF PlanNode
<1>2. PICK n : n = kind[order[plan.node]]
  OBVIOUS
<1>3. PICK P, Q, x, st, A, sn : P = Pairs /\ Q = Plan(order) /\ x = plan /\ st = standing /\ A = ledger /\ sn = sent
  OBVIOUS
<1>4. PlanOK(x, sn, st, A, P, Q) /\ x.at = "building"
  BY <1>1, <1>3 DEF PlanInv
<1>5. x \in PlanRec(P) /\ x.node \in Nat \ {0} /\ x.steps \in Seq(PlanStep(P))
  BY <1>4, PlanFields DEF PlanOK
<1>6. /\ Q \in Seq(Kinds) /\ x.node <= Len(Q) /\ n \in Kinds /\ Q[x.node] = n
      /\ TargetOf(n) # "none" => {Pair(n), Spends(n)} \subseteq P
  <2>1. x.node \in 1 .. Len(order)
    <3>1. Len(order) \in Nat
      BY OrderPlanned
    <3> QED BY <1>1, <1>3, <1>5, <3>1
  <2>2. Q \in Seq(Kinds) /\ Len(Q) = Len(order)
    BY <1>3, OrderPlanned
  <2>3. Plan(order)[x.node] = kind[order[x.node]] /\ kind[order[x.node]] \in Kinds
        /\ (TargetOf(kind[order[x.node]]) # "none" =>
              {Pair(kind[order[x.node]]), Spends(kind[order[x.node]])} \subseteq Pairs)
    BY <2>1, OrderPlanned
  <2> QED BY <1>1, <1>2, <1>3, <2>2, <2>3
<1>7. A = st
  <2>1. sn.count = 0
    BY <1>4 DEF PlanOK, Counted
  <2> QED BY <1>4, <2>1 DEF PlanOK, Counted
<1>8. CASE n.protocol \notin Registered /\ plan' = [plan EXCEPT !.at = "thrown"]
  <2>1. plan' = [at |-> "thrown", node |-> x.node, steps |-> x.steps, batch |-> x.batch]
    <3>1. [x EXCEPT !.at = "thrown"] = [at |-> "thrown", node |-> x.node, steps |-> x.steps, batch |-> x.batch]
      BY <1>5, MovesTo
    <3> QED BY <1>3, <1>8, <3>1
  <2>2. PICK at, y : at = "thrown" /\ y = [at |-> at, node |-> x.node, steps |-> x.steps, batch |-> x.batch]
    OBVIOUS
  <2>3. at \in {"running", "thrown"} /\ (at = "running" => x.node > Len(Q)) /\ y.at # "none"
    BY <2>2
  <2>4. PlanOK(y, sn, st, A, P, Q)
    BY <1>4, <1>6, <2>2, <2>3, MovedOn
  <2>5. plan' = y
    BY <2>1, <2>2
  <2> QED BY <1>1, <1>3, <2>3, <2>4, <2>5, PlanMoves
<1>9. ASSUME NEW u, plan' = [plan EXCEPT !.node = @ + 1, !.steps = @ \o u],
             Extends(P, st, x.steps, SubSeq(Q, 1, x.node - 1), n, x.steps \o u)
      PROVE  PlanInv'
  <2>1. PICK t : t = x.steps \o u
    OBVIOUS
  <2>2. PICK y : y = [at |-> "building", node |-> x.node + 1, steps |-> t, batch |-> x.batch]
    OBVIOUS
  <2>3. plan' = y
    <3>1. [x EXCEPT !.node = @ + 1, !.steps = @ \o u]
            = [at |-> x.at, node |-> x.node + 1, steps |-> x.steps \o u, batch |-> x.batch]
      BY <1>5, AddsUp
    <3>2. plan' = [x EXCEPT !.node = @ + 1, !.steps = @ \o u]
      BY <1>3, <1>9, Zenon
    <3> QED BY <1>4, <2>1, <2>2, <3>1, <3>2
  <2>4. Extends(P, st, x.steps, SubSeq(Q, 1, x.node - 1), Q[x.node], t)
    BY <1>6, <1>9, <2>1
  <2>5. PlanOK(y, sn, st, A, P, Q)
    BY <1>4, <1>6, <2>2, <2>4, NodeKeeps
  <2>6. y.at # "none"
    BY <2>2
  <2> QED BY <1>1, <1>3, <2>3, <2>5, <2>6, PlanMoves
<1>10. ASSUME TargetOf(n) # "none"
       PROVE  /\ x.steps \o <<Approve(n), Action(n)>> = Append(Append(x.steps, Approve(n)), Action(n))
              /\ x.steps \o <<Action(n)>> = Append(x.steps, Action(n))
  <2>1. Approve(n) \in PlanStep(P) /\ Action(n) \in PlanStep(P)
    BY <1>6, <1>10, NodeSteps
  <2> QED BY <1>5, <2>1, Joined
<1>11. CASE n.protocol \in Registered /\ TargetOf(n) = "none"
              /\ plan' = [plan EXCEPT !.node = @ + 1, !.steps = @ \o <<>>]
  <2>1. n \notin Supplying
    BY <1>11, Encoded DEF Supplying
  <2>2. x.steps \o <<>> = x.steps
    BY <1>5
  <2>3. Extends(P, st, x.steps, SubSeq(Q, 1, x.node - 1), n, x.steps \o <<>>)
    BY <2>1, <2>2 DEF Extends
  <2> QED BY <1>9, <1>11, <2>3
<1>12. CASE TargetOf(n) # "none" /\ plan' = [plan EXCEPT !.node = @ + 1, !.steps = @ \o <<Approve(n), Action(n)>>]
  <2>1. Extends(P, st, x.steps, SubSeq(Q, 1, x.node - 1), n, x.steps \o <<Approve(n), Action(n)>>)
    BY <1>6, <1>10, <1>12 DEF Extends
  <2> QED BY <1>9, <1>12, <2>1
<1>13. CASE TargetOf(n) # "none" /\ ~NeedsApproval(n, ledger[Pair(n)])
              /\ plan' = [plan EXCEPT !.node = @ + 1, !.steps = @ \o <<Action(n)>>]
  <2>1. Pair(n)[1] \notin Tokens \/ st[Pair(n)] >= Capital
    <3>1. Pair(n)[1] = n.in
      BY DEF Pair
    <3>2. PICK a \in Nat : a = st[Pair(n)]
      BY <1>4, <1>6, <1>13 DEF PlanOK
    <3>3. n.in \notin Tokens \/ ~(a < Capital)
      BY <1>3, <1>7, <1>13, <3>2 DEF NeedsApproval
    <3> QED BY <3>1, <3>2, <3>3, PlanAssumption DEF PlanAssumption
  <2>2. Extends(P, st, x.steps, SubSeq(Q, 1, x.node - 1), n, x.steps \o <<Action(n)>>)
    BY <1>6, <1>10, <1>13, <2>1 DEF Extends
  <2> QED BY <1>9, <1>13, <2>2
<1>14. \/ n.protocol \notin Registered /\ plan' = [plan EXCEPT !.at = "thrown"]
       \/ n.protocol \in Registered /\ TargetOf(n) = "none" /\ plan' = [plan EXCEPT !.node = @ + 1, !.steps = @ \o <<>>]
       \/ TargetOf(n) # "none" /\ NeedsApproval(n, ledger[Pair(n)])
          /\ plan' = [plan EXCEPT !.node = @ + 1, !.steps = @ \o <<Approve(n), Action(n)>>]
       \/ TargetOf(n) # "none" /\ ~NeedsApproval(n, ledger[Pair(n)])
          /\ plan' = [plan EXCEPT !.node = @ + 1, !.steps = @ \o <<Action(n)>>]
       \/ TargetOf(n) # "none" /\ plan' = [plan EXCEPT !.node = @ + 1, !.steps = @ \o <<Approve(n), Action(n)>>]
  BY <1>2, Zenon DEF PlanNode
<1> QED BY <1>8, <1>11, <1>12, <1>13, <1>14

LEMMA ReadyPlans == ASSUME PlanInv, PlanReady, GraphInv PROVE PlanInv'
<1>1. /\ plan.at = "building" /\ plan.node > Len(order) /\ plan' = [plan EXCEPT !.at = "running"]
      /\ UNCHANGED <<graphVars, ledger, standing, sent>>
  BY DEF PlanReady
<1>2. PICK P, Q, x, st, A, sn : P = Pairs /\ Q = Plan(order) /\ x = plan /\ st = standing /\ A = ledger /\ sn = sent
  OBVIOUS
<1>3. PlanOK(x, sn, st, A, P, Q) /\ x.at = "building" /\ x \in PlanRec(P)
  BY <1>1, <1>2 DEF PlanInv, PlanOK
<1>4. Q \in Seq(Kinds) /\ x.node > Len(Q)
  BY <1>1, <1>2, OrderPlanned
<1>5. PICK at, y : at = "running" /\ y = [at |-> at, node |-> x.node, steps |-> x.steps, batch |-> x.batch]
  OBVIOUS
<1>6. at \in {"running", "thrown"} /\ (at = "running" => x.node > Len(Q)) /\ y.at # "none"
  BY <1>4, <1>5
<1>7. PlanOK(y, sn, st, A, P, Q)
  BY <1>3, <1>4, <1>5, <1>6, MovedOn
<1>8. plan' = y
  <2>1. [x EXCEPT !.at = at] = [at |-> at, node |-> x.node, steps |-> x.steps, batch |-> x.batch]
    BY <1>3, MovesTo
  <2> QED BY <1>1, <1>2, <1>5, <2>1
<1> QED BY <1>1, <1>2, <1>6, <1>7, <1>8, PlanMoves

(* A plan's run, under names that no step changes.                         *)
Running(P, Q, x, st, A, s, c, r) ==
  /\ P = Pairs /\ Q = Plan(order) /\ x = plan /\ st = standing /\ A = ledger
  /\ s = plan.steps /\ c = sent.count /\ r = sent.reverted
  /\ x \in PlanRec(P) /\ x.at = "running" /\ x.steps = s /\ s \in Seq(PlanStep(P))
  /\ c \in Nat /\ c < Len(s) /\ st \in [P -> Nat] /\ A \in [P -> Nat] /\ sent = [count |-> c, reverted |-> r]
  /\ Backed(s, st) /\ Matches(s, Q) /\ Used(P, s, st, A, c) /\ (r = {} => Grown(P, s, st, A, c))
  /\ (c = 0 => A = st /\ r = {}) /\ (x.batch => c \in {0, Len(s)})
  /\ (\A k \in r : Explained(s, st, k))

LEMMA Sent ==
  ASSUME PlanInv, plan.at = "running", sent.count < Len(plan.steps), GraphInv
  PROVE  \E P, Q, x, st, A, s, c, r : Running(P, Q, x, st, A, s, c, r)
<1>1. PICK P, Q, x, st, A, sn : P = Pairs /\ Q = Plan(order) /\ x = plan /\ st = standing /\ A = ledger /\ sn = sent
  OBVIOUS
<1>2. PlanOK(x, sn, st, A, P, Q) /\ x.at = "running" /\ x \in PlanRec(P)
  BY <1>1 DEF PlanInv, PlanOK
<1>3. PICK s, c, r : s = x.steps /\ c = sn.count /\ r = sn.reverted
  OBVIOUS
<1>4. s \in Seq(PlanStep(P))
  BY <1>2, <1>3, PlanFields
<1>5. c \in 0 .. Len(s) /\ (c = 0 => A = st /\ r = {}) /\ (x.batch => c \in {0, Len(s)})
      /\ (\A k \in r : Explained(s, st, k))
  BY <1>2, <1>3 DEF PlanOK, Counted
<1>6. st \in [P -> Nat] /\ A \in [P -> Nat] /\ Backed(s, st) /\ sn = [count |-> c, reverted |-> r]
  BY <1>2, <1>3 DEF PlanOK
<1>7. Matches(s, Q) /\ Used(P, s, st, A, c) /\ (r = {} => Grown(P, s, st, A, c))
  BY <1>2, <1>3 DEF PlanOK, Sending
<1>8. c \in Nat /\ c < Len(s)
  BY <1>1, <1>3, <1>4, <1>5
<1>9. Running(P, Q, x, st, A, s, c, r)
  BY <1>1, <1>2, <1>3, <1>4, <1>5, <1>6, <1>7, <1>8 DEF Running
<1> QED BY <1>9, Zenon

(* After c steps of a running plan x, r of them reverted.                  *)
LEMMA SentOK ==
  ASSUME NEW P, NEW Q, NEW x \in PlanRec(P), x.at = "running", NEW s \in Seq(PlanStep(P)), x.steps = s,
         NEW st \in [P -> Nat], NEW A \in [P -> Nat], Backed(s, st), Matches(s, Q),
         NEW c \in 1 .. Len(s), Used(P, s, st, A, c), NEW r, r = {} => Grown(P, s, st, A, c),
         x.batch => c = Len(s), \A k \in r : Explained(s, st, k)
  PROVE  PlanOK(x, [count |-> c, reverted |-> r], st, A, P, Q)
<1>1. PICK sn : sn = [count |-> c, reverted |-> r]
  OBVIOUS
<1>2. sn.count = c /\ sn.reverted = r /\ sn = [count |-> sn.count, reverted |-> sn.reverted]
  BY <1>1
<1>3. c # 0 /\ c \in 0 .. Len(s)
  OBVIOUS
<1>4. Counted(x, sn, st, A)
  BY <1>2, <1>3 DEF Counted
<1>5. PlanKept(x, Q) /\ Sending(x, sn, st, A, P, Q)
  BY <1>2 DEF PlanKept, Sending
<1> QED BY <1>1, <1>2, <1>4, <1>5 DEF PlanOK

LEMMA SendPlans == ASSUME PlanInv, Send, GraphInv PROVE PlanInv'
<1>1. /\ plan.at = "running" /\ ~plan.batch /\ sent.count < Len(plan.steps)
      /\ UNCHANGED <<graphVars, plan, standing>>
  BY DEF Send
<1>2. PICK P, Q, x, st, A, s, c, r : Running(P, Q, x, st, A, s, c, r)
  BY <1>1, Sent
<1>20. /\ P = Pairs /\ Q = Plan(order) /\ x = plan /\ st = standing /\ A = ledger
       /\ s = plan.steps /\ c = sent.count /\ r = sent.reverted
       /\ x \in PlanRec(P) /\ x.at = "running" /\ x.steps = s /\ s \in Seq(PlanStep(P))
       /\ c \in Nat /\ c < Len(s) /\ st \in [P -> Nat] /\ A \in [P -> Nat] /\ sent = [count |-> c, reverted |-> r]
       /\ Backed(s, st) /\ Matches(s, Q) /\ Used(P, s, st, A, c) /\ (r = {} => Grown(P, s, st, A, c))
       /\ (c = 0 => A = st /\ r = {}) /\ (x.batch => c \in {0, Len(s)})
       /\ (\A k \in r : Explained(s, st, k))
  BY <1>2 DEF Running
<1>3. PICK k, y : k = c + 1 /\ y = s[k]
  OBVIOUS
<1>4. k \in 1 .. Len(s) /\ ~x.batch
  BY <1>1, <1>20, <1>3
<1>5. CASE Reverts(y, A)
  <2>1. sent' = [count |-> k, reverted |-> r \cup {k}] /\ ledger' = A
    BY <1>20, <1>3, <1>5, Zenon DEF Send
  <2>2. Explained(s, st, k) /\ y.tx = "action"
    <3>1. y = s[c + 1]
      BY <1>3
    <3>2. /\ s \in Seq(PlanStep(P)) /\ st \in [P -> Nat] /\ A \in [P -> Nat]
          /\ Backed(s, st) /\ c \in Nat /\ c < Len(s) /\ Used(P, s, st, A, c)
      BY <1>20
    <3>3. Explained(s, st, c + 1) /\ y.tx = "action"
      BY <1>5, <3>1, <3>2, RevertExplained
    <3> QED BY <1>3, <3>3
  <2>3. Used(P, s, st, A, k)
    BY <1>20, <1>3, <2>2, UsedReverts
  <2>4. PICK q : q = r \cup {k}
    OBVIOUS
  <2>5. q # {} /\ \A j \in q : Explained(s, st, j)
    BY <1>20, <2>2, <2>4
  <2>6. PlanOK(x, [count |-> k, reverted |-> q], st, A, P, Q)
    BY <1>20, <1>4, <2>3, <2>5, SentOK
  <2> QED BY <1>1, <1>20, <2>1, <2>4, <2>6, PlanMoves
<1>6. CASE ~Reverts(y, A)
  <2>1. sent' = [count |-> k, reverted |-> r] /\ ledger' = Applied(y, A)
    <3>1. sent' = [sent EXCEPT !.count = k] /\ ledger' = Applied(y, A)
      BY <1>20, <1>3, <1>6, Zenon DEF Send
    <3> QED BY <1>20, <3>1
  <2>2. PICK B : B = Applied(y, A)
    OBVIOUS
  <2>3. B \in [P -> Nat] /\ Used(P, s, st, B, k) /\ (Grown(P, s, st, A, c) => Grown(P, s, st, B, k))
    BY <1>20, <1>3, <1>6, <2>2, StepApplies
  <2>4. PlanOK(x, [count |-> k, reverted |-> r], st, B, P, Q)
    BY <1>20, <1>4, <2>3, SentOK
  <2> QED BY <1>1, <1>20, <2>1, <2>2, <2>4, PlanMoves
<1> QED BY <1>5, <1>6

LEMMA BatchPlans == ASSUME PlanInv, ExecuteBatch, GraphInv PROVE PlanInv'
<1>1. /\ plan.at = "running" /\ plan.batch /\ sent.count < Len(plan.steps)
      /\ UNCHANGED <<graphVars, plan, standing>>
  BY DEF ExecuteBatch
<1>2. PICK P, Q, x, st, A, s, c, r : Running(P, Q, x, st, A, s, c, r)
  BY <1>1, Sent
<1>20. /\ P = Pairs /\ Q = Plan(order) /\ x = plan /\ st = standing /\ A = ledger
       /\ s = plan.steps /\ c = sent.count /\ r = sent.reverted
       /\ x \in PlanRec(P) /\ x.at = "running" /\ x.steps = s /\ s \in Seq(PlanStep(P))
       /\ c \in Nat /\ c < Len(s) /\ st \in [P -> Nat] /\ A \in [P -> Nat] /\ sent = [count |-> c, reverted |-> r]
       /\ Backed(s, st) /\ Matches(s, Q) /\ Used(P, s, st, A, c) /\ (r = {} => Grown(P, s, st, A, c))
       /\ (c = 0 => A = st /\ r = {}) /\ (x.batch => c \in {0, Len(s)})
       /\ (\A k \in r : Explained(s, st, k))
  BY <1>2 DEF Running
<1>3. A = st
  <2>1. x.batch
    BY <1>1, <1>20
  <2>2. c = 0 \/ c = Len(s)
    BY <1>20, <2>1
  <2>3. c = 0
    BY <1>20, <2>2
  <2> QED BY <1>20, <2>3
<1>4. PICK e, B, l : e = Executed(s, st) /\ B = e.allowances /\ l = Len(s)
  OBVIOUS
<1>5. l \in Nat /\ l \in 1 .. l
  BY <1>20, <1>4
<1>6. PICK q : q = {e.step} \ {0}
  OBVIOUS
<1>7. ledger' = B /\ sent' = [count |-> l, reverted |-> q]
  BY <1>20, <1>3, <1>4, <1>6, Zenon DEF ExecuteBatch
<1>8. /\ B \in [P -> Nat] /\ Used(P, s, st, B, l)
      /\ e.step = 0 => Grown(P, s, st, B, l)
      /\ e.step # 0 => Explained(s, st, e.step)
  BY <1>20, <1>4, ExecutedSound
<1>9. (q = {} => Grown(P, s, st, B, l)) /\ \A k \in q : Explained(s, st, k)
  BY <1>6, <1>8
<1>10. PlanOK(x, [count |-> l, reverted |-> q], st, B, P, Q)
  BY <1>20, <1>4, <1>5, <1>8, <1>9, SentOK
<1> QED BY <1>1, <1>20, <1>7, <1>10, PlanMoves

LEMMA PlanSteps == ASSUME PlanInv, PlanNext, GraphInv PROVE PlanInv' /\ UNCHANGED graphVars
<1>1. CASE StartPlan
  BY <1>1, StartPlanPlans DEF StartPlan
<1>2. CASE PlanNode
  BY <1>2, NodePlans DEF PlanNode
<1>3. CASE PlanReady
  BY <1>3, ReadyPlans DEF PlanReady
<1>4. CASE Send
  BY <1>4, SendPlans DEF Send
<1>5. CASE ExecuteBatch
  BY <1>5, BatchPlans DEF ExecuteBatch
<1> QED BY <1>1, <1>2, <1>3, <1>4, <1>5 DEF PlanNext

LEMMA PlanIsSound == ASSUME PlanInv, GraphInv PROVE PlanSound
<1>1. PICK P, Q, x, st, A, sn : P = Pairs /\ Q = Plan(order) /\ x = plan /\ st = standing /\ A = ledger /\ sn = sent
  OBVIOUS
<1>2. PlanOK(x, sn, st, A, P, Q) /\ (x.at = "none" => x = NoPlan)
  BY <1>1 DEF PlanInv
<1>3. PICK s, c, r : s = x.steps /\ c = sn.count /\ r = sn.reverted
  OBVIOUS
<1>4. s \in Seq(PlanStep(P)) /\ c \in 0 .. Len(s) /\ (\A k \in r : Explained(s, st, k)) /\ (c = 0 => A = st /\ r = {})
  BY <1>2, <1>3, PlanFields DEF PlanOK, Counted
<1>5. x.at = "running" => /\ st \in [P -> Nat] /\ A \in [P -> Nat] /\ Backed(s, st) /\ Matches(s, Q)
                          /\ (r = {} => Grown(P, s, st, A, c))
  BY <1>2, <1>3 DEF PlanOK, Sending
<1>6. \A k \in r : Explained(s, st, k)
  BY <1>4
<1>7. PlannedStepsRun
  BY <1>1, <1>3, <1>6, Zenon DEF PlannedStepsRun, Explained, Acted
<1>8. ApprovalsSpent
  <2>1. SUFFICES ASSUME x.at = "running", c = Len(s), r = {}, NEW p \in DOMAIN A, A[p] > st[p]
                 PROVE  \E k \in DOMAIN s : Unspent(s[k], p)
    BY <1>1, <1>3 DEF ApprovalsSpent, Ran, Unspent
  <2>2. p \in P /\ Grown(P, s, st, A, c) /\ Backed(s, st)
    BY <1>5, <2>1
  <2>3. Lent(s, c, p) \/ (c >= 1 /\ s[c].tx = "approve")
    BY <2>1, <2>2 DEF Grown
  <2>4. ~(c >= 1 /\ s[c].tx = "approve")
    BY <1>4, <2>1, <2>2 DEF Backed
  <2>5. PICK j \in 1 .. c : Unspent(s[j], p)
    BY <2>3, <2>4 DEF Lent
  <2>6. j \in DOMAIN s
    BY <1>4, <2>1
  <2> QED BY <2>5, <2>6
<1>9. SuppliesPlanned
  <2>1. SUFFICES ASSUME x.at = "running"
                 PROVE  /\ Len(Only(s, SupplySteps)) = Len(Only(Q, Supplying))
                        /\ \A k \in DOMAIN Only(Q, Supplying) :
                             Only(s, SupplySteps)[k].pair = Pair(Only(Q, Supplying)[k])
    BY <1>1, <1>3 DEF SuppliesPlanned, SupplySteps
  <2>2. Matches(s, Q)
    BY <1>5, <2>1
  <2>3. DOMAIN Only(Q, Supplying) = 1 .. Len(Only(Q, Supplying))
    <3>1. Q \in Seq(Kinds)
      BY <1>1, OrderPlanned
    <3>2. PICK n : n \in Seq(Kinds) /\ n = Only(Q, Supplying)
      <4>1. Only(Q, Supplying) \in Seq(Kinds)
        BY <3>1, OnlyMembers
      <4> QED BY <4>1
    <3> QED BY <3>2
  <2> QED BY <2>2, <2>3 DEF Matches
<1> QED BY <1>7, <1>8, <1>9 DEF PlanSound

-----------------------------------------------------------------------------
(* Assessments: the fees, the stress test, the blockers and the scores     *)

(* Divisions leave what the model says.                                    *)
LEMMA DivExact == ASSUME NEW q \in Int, NEW H \in Nat \ {0} PROVE (H * q) \div H = q
OBVIOUS

LEMMA Share == ASSUME NEW X \in Nat, NEW H \in Nat \ {0}, NEW p \in 0 .. H PROVE (X * p) \div H \in 0 .. X
OBVIOUS

LEMMA OfTwo ==
  ASSUME NEW a \in Int, NEW b \in Int
  PROVE  /\ Max({a, b}) = IF a >= b THEN a ELSE b
         /\ Min({a, b}) = IF a <= b THEN a ELSE b
<1>1. Max({a, b}) \in {a, b} /\ \A y \in {a, b} : Max({a, b}) >= y
  <2>1. \E x \in {a, b} : \A y \in {a, b} : x >= y
    OBVIOUS
  <2> QED BY <2>1 DEF Max
<1>2. Min({a, b}) \in {a, b} /\ \A y \in {a, b} : Min({a, b}) <= y
  <2>1. \E x \in {a, b} : \A y \in {a, b} : x <= y
    OBVIOUS
  <2> QED BY <2>1 DEF Min
<1> QED BY <1>1, <1>2

(* The greatest of a set of naturals that is bounded.                      *)
LEMMA Highest ==
  ASSUME NEW B \in Nat, NEW S, S \subseteq 0 .. B, S # {}
  PROVE  Max(S) \in S /\ \A y \in S : y <= Max(S)
<1> DEFINE T == {B - x : x \in S}
<1>1. T \subseteq Nat /\ T # {}
  <2>1. \A x \in S : x \in Int /\ B - x \in Nat
    OBVIOUS
  <2> QED BY <2>1
<1>2. PICK t \in T : \A y \in T : t <= y
  <2> HIDE DEF T
  <2> QED BY <1>1, LeastNatural
<1>3. PICK x \in S : t = B - x
  OBVIOUS
<1>4. \A y \in S : x >= y
  <2>1. ASSUME NEW y \in S PROVE x >= y
    <3>1. B - x <= B - y
      BY <1>2, <1>3
    <3> QED BY <3>1
  <2> QED BY <2>1
<1>5. Max(S) \in S /\ \A y \in S : Max(S) >= y
  BY <1>4 DEF Max
<1>6. Max(S) \in Int /\ S \subseteq Int
  <2>1. S \subseteq Int
    OBVIOUS
  <2> QED BY <1>5, <2>1
<1>7. \A y \in S : y <= Max(S)
  BY <1>5, <1>6
<1> QED BY <1>5, <1>7

(* The three answers of a stress test.                                     *)
LEMMA StressAgrees == StressAnswersAgree
<1>1. ASSUME NEW ltv \in (1 .. 100) \cup {Unknown}
      PROVE  /\ Survives(50, ltv) => Survives(30, ltv)
             /\ \A drop \in 1 .. 99 :
                  /\ DrawdownAtLeast(drop, ltv) => Survives(drop, ltv)
                  /\ BufferCovers(drop, ltv) => Survives(drop, ltv)
                  /\ (Survives(drop, ltv) /\ ltv # Unknown) => BufferCovers(drop, ltv)
  <2>1. CASE ltv = Unknown
    <3>1. Ltv(ltv, 0) = 0 /\ Ltv(ltv, 40) = 40
      BY <2>1 DEF Ltv
    <3> QED BY <2>1, <3>1 DEF Survives, DrawdownAtLeast, BufferCovers
  <2>2. CASE ltv \in 1 .. 100
    <3>1. ltv # Unknown
      BY <2>2 DEF Unknown
    <3>2. Ltv(ltv, 0) = ltv /\ Ltv(ltv, 40) = ltv
      BY <3>1 DEF Ltv
    <3> QED BY <2>2, <3>2 DEF Survives, DrawdownAtLeast, BufferCovers
  <2> QED BY <2>1, <2>2
<1> QED BY <1>1 DEF StressAnswersAgree

(* The planner's and the risk engine's blockers.                           *)
LEMMA BlockAlike == ASSUME GraphInv PROVE BlockersAgree
<1> SUFFICES ASSUME Sorted, NEW want \in IntentTerms
             PROVE  ("liquidation" \in PlannerBlockers(want)) <=> ("liquidation" \in Blockers(Plan(order), want))
  BY DEF BlockersAgree
<1>1. Ground /\ Members(order) = Members(nodes)
  BY SortedOrder DEF GraphInv
<1>2. PICK all : all = Own(Members(nodes))
  OBVIOUS
<1>3. PropagateRisk = Worst(all) /\ \A r \in all : IsRisk(r)
  BY <1>1, <1>2, PropagatedAreWorst
<1>4. (\E r \in PropagateRisk : r.type = "liquidation") <=> \E r \in all : r.type = "liquidation"
  <2>1. Worst(all) \subseteq all
    BY DEF Worst
  <2>2. \A r \in all : \E q \in Worst(all) : q.type = r.type
    BY <1>3, WorstCovers
  <2> QED BY <1>3, <2>1, <2>2
<1>5. Members(Plan(order)) = {kind[n] : n \in Members(nodes)}
  <2>1. DOMAIN Plan(order) = DOMAIN order /\ \A k \in DOMAIN order : Plan(order)[k] = kind[order[k]]
    BY DEF Plan
  <2> QED BY <1>1, <2>1 DEF Members
<1>6. (\E n \in Members(Plan(order)) : Says(n, "liquidation")) <=> \E r \in all : r.type = "liquidation"
  BY <1>2, <1>5 DEF Says, Own
<1>7. "liquidation" \in PlannerBlockers(want) <=>
         ~want.allowLiquidation /\ \E r \in PropagateRisk : r.type = "liquidation"
  BY DEF PlannerBlockers
<1>8. "liquidation" \in Blockers(Plan(order), want) <=>
         ~want.allowLiquidation /\ \E n \in Members(Plan(order)) : Says(n, "liquidation")
  BY DEF Blockers
<1> QED BY <1>4, <1>6, <1>7, <1>8

LEMMA FeeConstants == Whole \in Nat \ {0} /\ Year \in Nat \ {0} /\ Hundred \in Nat \ {0}
                      /\ Days \subseteq Nat /\ Yields \subseteq Int
                      /\ Rates \subseteq Nat /\ Shares \subseteq 0 .. Hundred
BY FeeAssumption DEF FeeAssumption

LEMMA Config ==
  ASSUME NEW conf \in FeeConfigs
  PROVE  conf.bps \in Nat /\ conf.rate \in Nat /\ conf.pct \in 0 .. Hundred
<1>1. conf.bps \in Rates /\ conf.rate \in Rates /\ conf.pct \in Shares
  BY DEF FeeConfigs
<1> QED BY <1>1, FeeConstants

LEMMA AlphaKept ==
  ASSUME NEW G \in Int, NEW B \in Nat, NEW X \in Nat, G > B => X = G - B, G <= B => X = 0, NEW F \in 0 .. X
  PROVE  F \in Nat /\ G - F >= Min({G, B}) /\ (F > 0 => G > B)
<1>1. B \in Int
  OBVIOUS
<1>2. Min({G, B}) = IF G <= B THEN G ELSE B
  BY <1>1, OfTwo
<1> QED BY <1>2

(* A share of what exceeds the benchmark B.                                *)
LEMMA OnAlpha ==
  ASSUME NEW G \in Int, NEW B \in Nat, NEW H \in Nat \ {0}, NEW p \in 0 .. H, NEW c \in 0 .. H,
         NEW F, F = (Max({0, G - B}) * p) \div H, NEW C, C = (F * c) \div H
  PROVE  /\ F \in Nat /\ G - F >= Min({G, B})
         /\ F > 0 => G > B
         /\ C \in 0 .. F
<1>1. PICK X \in Nat : X = Max({0, G - B}) /\ (G > B => X = G - B) /\ (G <= B => X = 0)
  <2>1. Max({0, G - B}) = IF 0 >= G - B THEN 0 ELSE G - B
    BY OfTwo
  <2> QED BY <2>1
<1>2. F \in 0 .. X
  <2>1. (X * p) \div H \in 0 .. X
    BY Share
  <2> QED BY <1>1, <2>1
<1>3. C \in 0 .. F
  <2>1. F \in Nat /\ c \in 0 .. H
    BY <1>2
  <2>2. (F * c) \div H \in 0 .. F
    BY <2>1, Share
  <2> QED BY <2>2
<1>4. F \in Nat /\ G - F >= Min({G, B}) /\ (F > 0 => G > B)
  BY <1>1, <1>2, AlphaKept
<1> QED BY <1>3, <1>4

LEMMA BenchmarkKept == NetKeepsBenchmark
<1> SUFFICES ASSUME NEW conf \in FeeConfigs, NEW g \in Yields, NEW days \in Days, NEW cut \in Shares
             PROVE  LET fees  == PeriodFees(conf, g * Dollar, 1, days, cut)
                        bench == conf.rate * days * Hundred * Hundred
                    IN  /\ g * Dollar - fees.performance >= Min({g * Dollar, bench})
                        /\ fees.performance > 0 => BeatsBenchmark(g * Dollar, 1, conf.rate, days)
                        /\ fees.curator \in 0 .. fees.performance
                        /\ fees.platform + fees.curator + fees.net = g * Dollar
  BY DEF NetKeepsBenchmark
<1>1. PICK H \in Nat \ {0}, d \in Nat, r \in Nat, b \in Nat, p \in 0 .. Hundred, G \in Int :
         H = Hundred /\ d = days /\ r = conf.rate /\ b = conf.bps /\ p = conf.pct /\ G = g * Dollar
  <2>1. g * Dollar \in Int /\ days \in Nat /\ Hundred \in Nat \ {0}
    BY FeeConstants DEF Dollar
  <2> QED BY <2>1, Config
<1>2. PICK B \in Nat : B = r * d * H * H
  OBVIOUS
<1>3. 1 * r * d * H * H = B
  BY <1>2
<1>4. PICK F, C, M : F = (Max({0, G - B}) * p) \div H /\ C = (F * cut) \div H /\ M = 1 * b * d * H * H
  OBVIOUS
<1>5. /\ F \in Nat /\ G - F >= Min({G, B}) /\ (F > 0 => G > B) /\ C \in 0 .. F
  <2>1. cut \in 0 .. Hundred
    BY FeeConstants
  <2>2. PICK q \in 0 .. H, c \in 0 .. H : q = p /\ c = cut
    BY <1>1, <2>1
  <2>3. F = (Max({0, G - B}) * q) \div H
    BY <1>4, <2>2
  <2>4. C = (F * c) \div H
    BY <1>4, <2>2
  <2>5. \A f, k : (f = (Max({0, G - B}) * q) \div H /\ k = (f * c) \div H)
                  => f \in Nat /\ G - f >= Min({G, B}) /\ (f > 0 => G > B) /\ k \in 0 .. f
    BY OnAlpha
  <2> QED BY <2>3, <2>4, <2>5
<1>6. M \in Int
  BY <1>4
<1>7. PerformanceFee(g * Dollar, 1, conf.rate, conf.pct, days) = F
  BY <1>1, <1>3, <1>4, Zenon DEF PerformanceFee
<1>8. ManagementFee(1, conf.bps, days) = M
  BY <1>1, <1>4 DEF ManagementFee
<1>9. PICK fees : fees = PeriodFees(conf, g * Dollar, 1, days, cut)
  OBVIOUS
<1>10. fees = [performance |-> F, curator |-> C, platform |-> M + F - C, total |-> M + F, net |-> G - M - F]
  BY <1>1, <1>4, <1>7, <1>8, <1>9, Zenon DEF PeriodFees
<1>11. fees.performance = F /\ fees.curator = C /\ fees.platform = M + F - C /\ fees.net = G - M - F
  BY <1>10
<1>12. BeatsBenchmark(g * Dollar, 1, conf.rate, days) <=> G > B
  BY <1>1, <1>3, Zenon DEF BeatsBenchmark
<1>13. (M + F - C) + C + (G - M - F) = G
  BY <1>5, <1>6
<1> QED BY <1>1, <1>2, <1>5, <1>9, <1>11, <1>12, <1>13

(* What exceeds the benchmark in a period of d days, and its share.        *)
Above(z) == IF z > 0 THEN z ELSE 0

LEMMA ExactShare ==
  ASSUME NEW z \in Int, NEW H \in Nat \ {0}, NEW p \in Nat
  PROVE  (Max({0, H * z}) * p) \div H = Above(z) * p
<1>1. Max({0, H * z}) = H * Above(z)
  <2>1. H * z \in Int /\ (H * z > 0 <=> z > 0)
    OBVIOUS
  <2>2. Max({0, H * z}) = IF 0 >= H * z THEN 0 ELSE H * z
    BY <2>1, OfTwo
  <2> QED BY <2>1, <2>2 DEF Above
<1>2. PICK t \in Nat : t = Above(z)
  BY DEF Above
<1>3. (H * t) * p = H * (t * p) /\ t * p \in Int
  OBVIOUS
<1>4. (H * (t * p)) \div H = t * p
  BY <1>3, DivExact
<1> QED BY <1>1, <1>2, <1>3, <1>4

LEMMA PeriodTotal ==
  ASSUME NEW conf \in FeeConfigs, NEW g \in Int, NEW d \in Nat,
         NEW W, NEW Y, NEW H, W = Whole, Y = Year, H = Hundred,
         NEW b, NEW r, NEW p, b = conf.bps, r = conf.rate, p = conf.pct
  PROVE  PeriodFees(conf, g * Dollar, 1, d, 0).total = b * d * H * H + Above(g * W * Y * H - r * d * H) * p
<1>1. H \in Nat \ {0} /\ W \in Nat /\ Y \in Nat /\ r \in Nat /\ b \in Nat /\ p \in Nat
  BY FeeConstants, Config
<1>2. PICK z \in Int : z = g * W * Y * H - r * d * H
  BY <1>1
<1>3. g * (W * Y * H * H) - 1 * r * d * H * H = H * z
  BY <1>1, <1>2
<1>4. PerformanceFee(g * Dollar, 1, conf.rate, conf.pct, d) = Above(z) * p
  <2>1. PerformanceFee(g * Dollar, 1, conf.rate, conf.pct, d) = (Max({0, H * z}) * p) \div H
    <3>1. g * Dollar - 1 * r * d * H * H = H * z
      BY <1>3 DEF Dollar
    <3> QED BY <3>1, Zenon DEF PerformanceFee
  <2> QED BY <1>1, <2>1, ExactShare
<1>5. ManagementFee(1, conf.bps, d) = b * d * H * H
  BY <1>1 DEF ManagementFee
<1>6. PICK m, f : m = b * d * H * H /\ f = Above(z) * p
  OBVIOUS
<1>7. PICK x : x = PeriodFees(conf, g * Dollar, 1, d, 0)
  OBVIOUS
<1>8. PICK c, e, n : x = [performance |-> f, curator |-> c, platform |-> e, total |-> m + f, net |-> n]
  BY <1>4, <1>5, <1>6, <1>7, Zenon DEF PeriodFees
<1>9. x.total = m + f
  BY <1>8
<1> QED BY <1>2, <1>6, <1>7, <1>9

LEMMA SplitCosts == SplitPeriodsCostNoLess
<1> SUFFICES ASSUME NEW conf \in FeeConfigs, NEW g \in Yields, NEW h \in Yields, NEW d \in Days, NEW e \in Days
             PROVE  PeriodFees(conf, (g + h) * Dollar, 1, d + e, 0).total
                      <= PeriodFees(conf, g * Dollar, 1, d, 0).total + PeriodFees(conf, h * Dollar, 1, e, 0).total
  BY DEF SplitPeriodsCostNoLess
<1>1. PICK W, Y, H, b, r, p : W = Whole /\ Y = Year /\ H = Hundred /\ b = conf.bps /\ r = conf.rate /\ p = conf.pct
  OBVIOUS
<1>2. H \in Nat \ {0} /\ W \in Nat /\ Y \in Nat /\ r \in Nat /\ b \in Nat /\ p \in Nat
  BY <1>1, FeeConstants, Config
<1>3. g \in Int /\ h \in Int /\ d \in Nat /\ e \in Nat /\ g + h \in Int /\ d + e \in Nat
  BY FeeConstants
<1>4. PICK x \in Int, y \in Int : x = g * W * Y * H - r * d * H /\ y = h * W * Y * H - r * e * H
  BY <1>2, <1>3
<1>5. (g + h) * W * Y * H - r * (d + e) * H = x + y
  BY <1>2, <1>3, <1>4
<1>6. PICK m \in Int, n \in Int : m = b * d * H * H /\ n = b * e * H * H
  BY <1>2, <1>3
<1>7. b * (d + e) * H * H = m + n
  BY <1>2, <1>3, <1>6
<1>8. PeriodFees(conf, (g + h) * Dollar, 1, d + e, 0).total = m + n + Above(x + y) * p
  BY <1>1, <1>3, <1>5, <1>7, PeriodTotal
<1>9. /\ PeriodFees(conf, g * Dollar, 1, d, 0).total = m + Above(x) * p
      /\ PeriodFees(conf, h * Dollar, 1, e, 0).total = n + Above(y) * p
  BY <1>1, <1>3, <1>4, <1>6, PeriodTotal
<1>10. PICK a \in Nat, s \in Nat, t \in Nat : a = Above(x + y) /\ s = Above(x) /\ t = Above(y) /\ a <= s + t
  BY DEF Above
<1>11. a * p <= (s + t) * p /\ (s + t) * p = s * p + t * p
  BY <1>2, <1>10
<1>12. PICK i \in Int, j \in Int, k \in Int : i = a * p /\ j = s * p /\ k = t * p /\ i <= j + k
  BY <1>2, <1>11
<1> QED BY <1>6, <1>8, <1>9, <1>10, <1>12

LEMMA ProjectionBilled == ProjectionIsBilled
<1> SUFFICES ASSUME NEW conf \in FeeConfigs, NEW alpha \in Rates
             PROVE  LET projected == ProjectAnnualRevenue(conf, 1, alpha)
                        billed    == PeriodFees(conf, projected.yield, 1, Year, 0)
                    IN  billed.total = projected.management + projected.performance
  BY DEF ProjectionIsBilled
<1>1. PICK Y, H, b, r, p : Y = Year /\ H = Hundred /\ b = conf.bps /\ r = conf.rate /\ p = conf.pct
  OBVIOUS
<1>2. H \in Nat \ {0} /\ Y \in Nat /\ r \in Nat /\ b \in Nat /\ p \in Nat /\ alpha \in Nat
  BY <1>1, FeeConstants, Config
<1>3. PICK year \in Nat : year = 1 * Y * H * H
  BY <1>2
<1>4. PICK m, f, y : m = b * year /\ f = (alpha * year * p) \div H /\ y = (r + alpha) * year
  OBVIOUS
<1>5. PICK projected : projected = ProjectAnnualRevenue(conf, 1, alpha)
  OBVIOUS
<1>6. projected = [management |-> m, performance |-> f, yield |-> y]
  BY <1>1, <1>3, <1>4, <1>5, Zenon DEF ProjectAnnualRevenue
<1>7. projected.management = m /\ projected.performance = f /\ projected.yield = y
  BY <1>6
<1>8. PICK X \in Nat : X = alpha * year
  BY <1>2, <1>3
<1>9. y - 1 * r * Y * H * H = X
  BY <1>2, <1>3, <1>4, <1>8
<1>10. Max({0, X}) = X
  BY OfTwo
<1>11. PerformanceFee(y, 1, conf.rate, conf.pct, Year) = f
  BY <1>1, <1>4, <1>8, <1>9, <1>10, Zenon DEF PerformanceFee
<1>12. ManagementFee(1, conf.bps, Year) = m
  BY <1>1, <1>2, <1>3, <1>4 DEF ManagementFee
<1>13. PICK x : x = PeriodFees(conf, y, 1, Year, 0)
  OBVIOUS
<1>14. PICK c, e, n : x = [performance |-> f, curator |-> c, platform |-> e, total |-> m + f, net |-> n]
  BY <1>11, <1>12, <1>13, Zenon DEF PeriodFees
<1>15. x.total = m + f
  BY <1>14
<1> QED BY <1>5, <1>7, <1>13, <1>15

(* The greatest of a larger set is no smaller.                             *)
LEMMA HighestGrows ==
  ASSUME NEW B \in Nat, NEW S, NEW T, S \subseteq T, T \subseteq 0 .. B, S # {}
  PROVE  Max(S) \in 0 .. B /\ Max(T) \in 0 .. B /\ Max(S) <= Max(T)
<1>1. Max(S) \in S
  BY Highest
<1>2. Max(T) \in T /\ \A y \in T : y <= Max(T)
  BY Highest
<1> QED BY <1>1, <1>2

LEMMA MarketOfBound == ASSUME NEW n PROVE MarketOf(n) \in 0 .. 60
<1>1. PICK a, b, c, d : /\ a = IF n.in \in {"WETH", "cbETH", "wstETH"} THEN 40 ELSE 0
                        /\ b = IF n.in \in {"USDC", "DAI"} THEN 10 ELSE 0
                        /\ c = IF n.action = "add_liquidity" THEN (IF n.stable THEN 30 ELSE 60) ELSE 0
                        /\ d = IF n.out = "AERO" THEN 50 ELSE 0
  OBVIOUS
<1>2. a \in 0 .. 60 /\ b \in 0 .. 60 /\ d \in 0 .. 60
  BY <1>1
<1>3. c \in 0 .. 60
  <2>1. c \in {30, 60, 0}
    BY <1>1, Zenon
  <2> QED BY <2>1
<1>4. PICK S : S = {a, b, c, d}
  OBVIOUS
<1>5. S \subseteq 0 .. 60 /\ S # {}
  BY <1>2, <1>3, <1>4
<1>6. Max(S) \in 0 .. 60
  BY <1>5, HighestGrows
<1> QED BY <1>1, <1>4, <1>6, Zenon DEF MarketOf

(* Each score of the nodes s, n is on its scale and no less than that of s.*)
LEMMA MarketGrows ==
  ASSUME NEW s \in Seq(Kinds), NEW n \in Kinds
  PROVE  /\ MarketRisk(s) \in 0 .. 60 /\ MarketRisk(Append(s, n)) \in 0 .. 60
         /\ MarketRisk(s) <= MarketRisk(Append(s, n))
<1>1. PICK S, T : S = {0} \cup {MarketOf(m) : m \in Members(s)}
                  /\ T = {0} \cup {MarketOf(m) : m \in Members(Append(s, n))}
  OBVIOUS
<1>2. Members(s) \subseteq Members(Append(s, n))
  BY MembersAppend
<1>3. S \subseteq T /\ S # {}
  BY <1>1, <1>2
<1>4. T \subseteq 0 .. 60
  <2>1. ASSUME NEW x \in T PROVE x \in 0 .. 60
    <3>1. x = 0 \/ \E m : x = MarketOf(m)
      BY <1>1
    <3>2. 0 \in 0 .. 60
      OBVIOUS
    <3> QED BY <3>1, <3>2, MarketOfBound
  <2> QED BY <2>1
<1>5. Max(S) \in 0 .. 60 /\ Max(T) \in 0 .. 60 /\ Max(S) <= Max(T)
  BY <1>3, <1>4, HighestGrows
<1> QED BY <1>1, <1>5 DEF MarketRisk

LEMMA OfProtocolBound == ASSUME NEW n PROVE OfProtocol(n) \in 0 .. 100
<1>1. \A p \in DOMAIN ProtocolScore : ProtocolScore[p] \in 0 .. 100
  BY DEF ProtocolScore
<1> QED BY <1>1 DEF OfProtocol

LEMMA ProtocolsFinite ==
  ASSUME NEW s \in Seq(Kinds)
  PROVE  IsFiniteSet({m.protocol : m \in Members(s)})
<1>1. PICK l \in Nat : l = Len(s) /\ DOMAIN s = 1 .. l
  OBVIOUS
<1>2. IsFiniteSet(1 .. l)
  BY FS_Interval
<1>3. PICK T : T = {m.protocol : m \in Members(s)}
  OBVIOUS
<1>4. T = {s[k].protocol : k \in 1 .. l}
  BY <1>1, <1>3 DEF Members
<1>5. PICK f : f = [k \in 1 .. l |-> s[k].protocol]
  OBVIOUS
<1>6. f \in Surjection(1 .. l, T)
  <2>1. f \in [1 .. l -> T]
    BY <1>4, <1>5
  <2>2. \A t \in T : \E k \in 1 .. l : f[k] = t
    BY <1>4, <1>5
  <2> QED BY <2>1, <2>2 DEF Surjection
<1>7. IsFiniteSet(T)
  BY <1>2, <1>6, FS_Surjection
<1> QED BY <1>3, <1>7

LEMMA Capped ==
  ASSUME NEW a \in Int, NEW b \in Int, a <= b
  PROVE  /\ Min({100, a}) <= Min({100, b}) /\ Min({100, b}) \in Int /\ Min({100, a}) \in Int
         /\ Min({100, a}) <= 100 /\ Min({100, b}) <= 100
         /\ a >= 0 => Min({100, a}) >= 0
<1>1. Min({100, a}) = IF 100 <= a THEN 100 ELSE a
  BY OfTwo
<1>2. Min({100, b}) = IF 100 <= b THEN 100 ELSE b
  BY OfTwo
<1> QED BY <1>1, <1>2

LEMMA ProtocolGrows ==
  ASSUME NEW s \in Seq(Kinds), NEW n \in Kinds
  PROVE  /\ ProtocolRisk(s) \in Int /\ ProtocolRisk(Append(s, n)) \in Int
         /\ ProtocolRisk(s) <= ProtocolRisk(Append(s, n)) /\ ProtocolRisk(Append(s, n)) <= 100
<1>1. PICK t : t = Append(s, n) /\ t \in Seq(Kinds) /\ Members(t) = Members(s) \cup {n}
  <2>1. Append(s, n) \in Seq(Kinds) /\ Members(Append(s, n)) = Members(s) \cup {n}
    BY AppendOf, MembersAppend
  <2> QED BY <2>1
<1>2. PICK S, T : S = {0} \cup {OfProtocol(m) : m \in Members(s)} /\ T = {0} \cup {OfProtocol(m) : m \in Members(t)}
  OBVIOUS
<1>3. S \subseteq T /\ S # {} /\ T \subseteq 0 .. 100
  <2>1. ASSUME NEW x \in T PROVE x \in 0 .. 100
    <3>1. x = 0 \/ \E m : x = OfProtocol(m)
      BY <1>2
    <3>2. 0 \in 0 .. 100
      OBVIOUS
    <3> QED BY <3>1, <3>2, OfProtocolBound
  <2>2. S \subseteq T /\ S # {}
    BY <1>1, <1>2
  <2> QED BY <2>1, <2>2
<1>4. Max(S) \in 0 .. 100 /\ Max(T) \in 0 .. 100 /\ Max(S) <= Max(T)
  BY <1>3, HighestGrows
<1>5. PICK U, V : U = {m.protocol : m \in Members(s)} /\ V = {m.protocol : m \in Members(t)}
  OBVIOUS
<1>6. IsFiniteSet(V) /\ U \subseteq V
  BY <1>1, <1>5, ProtocolsFinite
<1>7. IsFiniteSet(U) /\ Cardinality(U) <= Cardinality(V) /\ Cardinality(U) \in Nat /\ Cardinality(V) \in Nat
  BY <1>6, FS_Subset, FS_CardinalityType
<1>10. PICK x \in 0 .. 100, y \in 0 .. 100 : x = Max(S) /\ y = Max(T) /\ x <= y
  BY <1>4, Zenon
<1>11. PICK v \in Nat, w \in Nat : v = Cardinality(U) /\ w = Cardinality(V) /\ v <= w
  BY <1>7, Zenon
<1>8. PICK a \in Int, b \in Int : a = x + 5 * (v - 1) /\ b = y + 5 * (w - 1) /\ a <= b
  BY <1>10, <1>11
<1>12. /\ ProtocolRisk(s) = Min({100, Max(S) + 5 * (Cardinality(U) - 1)})
       /\ ProtocolRisk(t) = Min({100, Max(T) + 5 * (Cardinality(V) - 1)})
  BY <1>2, <1>5, Zenon DEF ProtocolRisk
<1>9. ProtocolRisk(s) = Min({100, a}) /\ ProtocolRisk(t) = Min({100, b})
  BY <1>8, <1>10, <1>11, <1>12, Zenon
<1>13. /\ Min({100, a}) <= Min({100, b}) /\ Min({100, b}) \in Int /\ Min({100, a}) \in Int
       /\ Min({100, b}) <= 100
  BY <1>8, Capped
<1> QED BY <1>1, <1>9, <1>13, Zenon

LEMMA LtvRiskBound == ASSUME NEW l \in Nat PROVE LtvRisk(l) \in 0 .. 90
<1>1. (l * 12) \div 10 \in Nat
  OBVIOUS
<1>2. PICK q \in Nat : q = (l * 12) \div 10
  BY <1>1
<1>3. Min({q, 90}) = IF q <= 90 THEN q ELSE 90
  BY OfTwo
<1>4. LtvRisk(l) = IF l = 0 THEN 40 ELSE Min({q, 90})
  BY <1>2 DEF LtvRisk
<1> QED BY <1>3, <1>4

(* The first borrow of s is that of s, n.                                  *)
LEMMA LiquidationGrows ==
  ASSUME NEW s \in Seq(Kinds), NEW n \in Kinds
  PROVE  /\ LiquidationRisk(s) \in 0 .. 90 /\ LiquidationRisk(Append(s, n)) \in 0 .. 90
         /\ LiquidationRisk(s) <= LiquidationRisk(Append(s, n))
<1>0. Only(Append(s, n), Borrowings) = IF n \in Borrowings THEN Append(Only(s, Borrowings), n) ELSE Only(s, Borrowings)
  BY OnlyAppend
<1>1. ASSUME NEW u \in Seq(Kinds)
      PROVE  /\ Only(u, Borrowings) \in Seq(Kinds)
             /\ HasOne(u, Borrows) <=> Len(Only(u, Borrowings)) > 0
             /\ LiquidationRisk(u) \in 0 .. 90
  <2>1. PICK b \in Seq(Kinds) : b = Only(u, Borrowings) /\ Members(b) = Members(u) \cap Borrowings
    <3>1. Only(u, Borrowings) \in Seq(Kinds) /\ Members(Only(u, Borrowings)) = Members(u) \cap Borrowings
      BY OnlyMembers
    <3> QED BY <3>1
  <2>2. HasOne(u, Borrows) <=> Members(b) # {}
    <3>1. \A k \in DOMAIN u : u[k] \in Kinds
      OBVIOUS
    <3> QED BY <2>1, <3>1 DEF HasOne, Members, Borrowings
  <2>3. Members(b) # {} <=> Len(b) > 0
    <3>1. PICK l \in Nat : l = Len(b) /\ DOMAIN b = 1 .. l
      OBVIOUS
    <3>2. l > 0 => 1 \in 1 .. l
      OBVIOUS
    <3>3. l = 0 => 1 .. l = {}
      OBVIOUS
    <3> QED BY <3>1, <3>2, <3>3 DEF Members
  <2>4. LiquidationRisk(u) \in 0 .. 90
    <3>1. CASE HasOne(u, Borrows)
      <4>1. b[1] \in Kinds
        BY <2>2, <2>3, <3>1
      <4>2. b[1].ltv \in Nat
        BY <4>1, ScoreAssumption DEF ScoreAssumption
      <4>3. LiquidationRisk(u) = LtvRisk(b[1].ltv)
        BY <2>1, <3>1 DEF LiquidationRisk
      <4> QED BY <4>2, <4>3, LtvRiskBound
    <3>2. CASE ~HasOne(u, Borrows)
      BY <3>2 DEF LiquidationRisk
    <3> QED BY <3>1, <3>2
  <2> QED BY <2>1, <2>2, <2>3, <2>4
<1>2. PICK t \in Seq(Kinds) : t = Append(s, n)
  BY AppendOf
<1>3. PICK b \in Seq(Kinds), c \in Seq(Kinds) : b = Only(s, Borrowings) /\ c = Only(t, Borrowings)
  BY <1>1
<1>4. c = b \/ c = Append(b, n)
  BY <1>0, <1>2, <1>3
<1>5. CASE HasOne(s, Borrows)
  <2>1. Len(b) > 0
    BY <1>1, <1>3, <1>5
  <2>2. Len(c) > 0 /\ c[1] = b[1]
    <3>1. 1 \in 1 .. Len(b)
      BY <2>1
    <3>2. Len(Append(b, n)) = Len(b) + 1 /\ Append(b, n)[1] = b[1]
      BY <3>1, AppendOf
    <3> QED BY <1>4, <2>1, <3>2
  <2>3. HasOne(t, Borrows)
    BY <1>1, <1>3, <2>2
  <2>4. LiquidationRisk(s) = LiquidationRisk(t)
    BY <1>3, <1>5, <2>2, <2>3 DEF LiquidationRisk
  <2>5. LiquidationRisk(s) \in 0 .. 90
    BY <1>1
  <2>6. PICK x \in 0 .. 90 : x = LiquidationRisk(s) /\ x = LiquidationRisk(t)
    BY <2>4, <2>5
  <2> QED BY <1>2, <2>6
<1>6. CASE ~HasOne(s, Borrows)
  <2>1. LiquidationRisk(s) = 0
    BY <1>6 DEF LiquidationRisk
  <2>2. LiquidationRisk(t) \in 0 .. 90
    BY <1>1
  <2>3. PICK x \in 0 .. 90 : x = LiquidationRisk(t)
    BY <2>2
  <2>4. LiquidationRisk(Append(s, n)) = x
    BY <1>2, <2>3, Zenon
  <2>5. 0 \in 0 .. 90 /\ 0 <= x
    OBVIOUS
  <2> QED BY <2>1, <2>4, <2>5, Zenon
<1> QED BY <1>5, <1>6

LEMMA OracleGrows ==
  ASSUME NEW s \in Seq(Kinds), NEW n \in Kinds
  PROVE  /\ OracleRisk(s) \in 0 .. 30 /\ OracleRisk(Append(s, n)) \in 0 .. 30
         /\ OracleRisk(s) <= OracleRisk(Append(s, n))
<1>1. PICK t \in Seq(Kinds) : t = Append(s, n) /\ \A k \in 1 .. Len(s) : t[k] = s[k]
  <2>1. Append(s, n) \in Seq(Kinds) /\ \A k \in 1 .. Len(s) : Append(s, n)[k] = s[k]
    BY AppendOf
  <2> QED BY <2>1
<1>2. HasOne(s, Borrows) => HasOne(t, Borrows)
  <2>1. DOMAIN s = 1 .. Len(s) /\ DOMAIN s \subseteq DOMAIN t
    BY <1>1
  <2> QED BY <1>1, <2>1 DEF HasOne
<1> QED BY <1>1, <1>2 DEF OracleRisk

(* LiquidityScore(s, large) is the last value of its recursion.            *)
ScoreStep(x, n, large) == Max({x, LiquidityOf(n)}) + (IF large THEN 10 ELSE 0)
Scored(s, large, h) == h[0] = 0 /\ \A k \in 1 .. Len(s) : h[k] = ScoreStep(h[k - 1], s[k], large)

LEMMA ScoreStepGrows ==
  ASSUME NEW x \in Nat, NEW n, NEW large
  PROVE  ScoreStep(x, n, large) \in Nat /\ x <= ScoreStep(x, n, large)
<1>1. LiquidityOf(n) \in {0, 20, 30}
  <2>1. CASE n.action = "borrow"
    BY <2>1 DEF LiquidityOf
  <2>2. CASE n.action = "add_liquidity"
    BY <2>2 DEF LiquidityOf
  <2>3. CASE n.action # "borrow" /\ n.action # "add_liquidity"
    BY <2>3 DEF LiquidityOf
  <2> QED BY <2>1, <2>2, <2>3
<1>2. PICK l \in Nat : l = LiquidityOf(n)
  BY <1>1
<1>3. Max({x, l}) = IF x >= l THEN x ELSE l
  BY OfTwo
<1>4. PICK a \in Nat : a = IF large THEN 10 ELSE 0
  OBVIOUS
<1>5. ScoreStep(x, n, large) = Max({x, l}) + a
  BY <1>2, <1>4 DEF ScoreStep
<1> QED BY <1>3, <1>5

LEMMA ScoreIsScored ==
  ASSUME NEW s \in Seq(Kinds), NEW large
  PROVE  \E h \in [0 .. Len(s) -> Nat] : Scored(s, large, h) /\ LiquidityScore(s, large) = h[Len(s)]
<1> DEFINE g == [p \in Nat \X (1 .. Len(s)) |-> ScoreStep(p[1], s[p[2]], large)]
           Body(f) == [k \in 0 .. Len(s) |-> IF k = 0 THEN 0 ELSE ScoreStep(f[k - 1], s[k], large)]
           F == CHOOSE f : f = Body(f)
<1>1. PICK n \in Nat : n = Len(s)
  OBVIOUS
<1>2. ASSUME NEW x \in Nat, NEW k \in 1 .. n PROVE ScoreStep(x, s[k], large) \in Nat
  BY ScoreStepGrows
<1>3. LiquidityScore(s, large) = F[n]
  BY <1>1 DEF LiquidityScore, ScoreStep
<1>4. \A x \in Nat, k \in 1 .. n : g[<<x, k>>] = ScoreStep(x, s[k], large)
  BY <1>1
<1> HIDE DEF g
<1>5. Stays(g, Nat, n)
  BY <1>2, <1>4 DEF Stays
<1>6. PICK h \in [0 .. n -> Nat] : RunsFrom(h, 0, g, n)
  BY <1>5, RecursionExists
<1>7. ASSUME NEW k \in 1 .. n PROVE h[k] = ScoreStep(h[k - 1], s[k], large)
  <2>1. h[k - 1] \in Nat
    BY <1>6
  <2> QED BY <1>4, <1>6, <2>1 DEF RunsFrom
<1>8. h = Body(h)
  BY <1>1, <1>6, <1>7 DEF RunsFrom
<1>9. F = Body(F)
  BY <1>8
<1> HIDE DEF F
<1>10. F[0] = 0 /\ \A k \in 1 .. n : F[k] = ScoreStep(F[k - 1], s[k], large)
  BY <1>1, <1>9
<1> DEFINE T == {k \in 0 .. n : F[k] \in Nat}
<1>11. 0 \in T
  BY <1>10
<1>12. ASSUME NEW k \in 0 .. n - 1, k \in T PROVE k + 1 \in T
  <2>1. k + 1 \in 1 .. n /\ (k + 1) - 1 = k
    OBVIOUS
  <2>2. F[k + 1] = ScoreStep(F[k], s[k + 1], large)
    BY <1>10, <2>1
  <2>3. ScoreStep(F[k], s[k + 1], large) \in Nat
    BY <1>2, <1>12, <2>1
  <2> QED BY <2>1, <2>2, <2>3
<1> HIDE DEF T
<1>13. 0 .. n \subseteq T
  BY <1>11, <1>12, Upwards
<1>14. F \in [0 .. n -> Nat]
  <2>1. \A k \in 0 .. n : F[k] \in Nat
    BY <1>13 DEF T
  <2>2. F = [k \in 0 .. n |-> F[k]]
    BY <1>1, <1>9
  <2> QED BY <2>1, <2>2
<1>15. Scored(s, large, F)
  BY <1>1, <1>10 DEF Scored
<1> QED BY <1>1, <1>3, <1>14, <1>15

LEMMA ScoreGrows ==
  ASSUME NEW s \in Seq(Kinds), NEW x \in Kinds, NEW large
  PROVE  /\ LiquidityScore(s, large) \in Nat /\ LiquidityScore(Append(s, x), large) \in Nat
         /\ LiquidityScore(s, large) <= LiquidityScore(Append(s, x), large)
<1>1. PICK n \in Nat : n = Len(s)
  OBVIOUS
<1>2. PICK t \in Seq(Kinds) : t = Append(s, x) /\ Len(t) = n + 1 /\ t[n + 1] = x /\ \A k \in 1 .. n : t[k] = s[k]
  <2>1. /\ Append(s, x) \in Seq(Kinds) /\ Len(Append(s, x)) = Len(s) + 1
        /\ Append(s, x)[Len(s) + 1] = x /\ \A k \in 1 .. Len(s) : Append(s, x)[k] = s[k]
    BY AppendOf
  <2> QED BY <1>1, <2>1
<1>3. PICK h \in [0 .. n -> Nat] : Scored(s, large, h) /\ LiquidityScore(s, large) = h[n]
  BY <1>1, ScoreIsScored
<1>4. PICK f \in [0 .. n + 1 -> Nat] : Scored(t, large, f) /\ LiquidityScore(t, large) = f[n + 1]
  <2>1. \E f \in [0 .. Len(t) -> Nat] : Scored(t, large, f) /\ LiquidityScore(t, large) = f[Len(t)]
    BY ScoreIsScored
  <2> QED BY <2>1, <1>2
<1> DEFINE T == {k \in 0 .. n : f[k] = h[k]}
<1>5. 0 \in T
  BY <1>3, <1>4 DEF Scored
<1>6. ASSUME NEW k \in 0 .. n - 1, k \in T PROVE k + 1 \in T
  <2>1. k + 1 \in 1 .. n /\ (k + 1) - 1 = k /\ k + 1 \in 1 .. n + 1
    OBVIOUS
  <2>2. h[k + 1] = ScoreStep(h[k], s[k + 1], large)
    BY <1>1, <1>3, <2>1 DEF Scored
  <2>3. f[k + 1] = ScoreStep(f[k], t[k + 1], large)
    BY <1>2, <1>4, <2>1 DEF Scored
  <2>4. f[k] = h[k] /\ t[k + 1] = s[k + 1]
    BY <1>2, <1>6, <2>1
  <2> QED BY <2>1, <2>2, <2>3, <2>4
<1> HIDE DEF T
<1>7. 0 .. n \subseteq T
  BY <1>5, <1>6, Upwards
<1>8. f[n] = h[n] /\ f[n] \in Nat
  BY <1>7 DEF T
<1>9. f[n + 1] = ScoreStep(f[n], x, large)
  <2>1. n + 1 \in 1 .. Len(t) /\ (n + 1) - 1 = n
    BY <1>2
  <2>2. f[n + 1] = ScoreStep(f[n], t[n + 1], large)
    BY <1>4, <2>1 DEF Scored
  <2> QED BY <1>2, <2>2
<1>10. f[n] <= f[n + 1] /\ f[n + 1] \in Nat
  BY <1>8, <1>9, ScoreStepGrows
<1> QED BY <1>2, <1>3, <1>4, <1>8, <1>10, Zenon

LEMMA CappedNat ==
  ASSUME NEW a \in Nat, NEW b \in Nat, a <= b
  PROVE  /\ Min({100, a}) \in 0 .. 100 /\ Min({100, b}) \in 0 .. 100
         /\ Min({100, a}) <= Min({100, b})
<1>1. a \in Int /\ b \in Int
  OBVIOUS
<1>2. Min({100, a}) = IF 100 <= a THEN 100 ELSE a
  BY <1>1, OfTwo
<1>3. Min({100, b}) = IF 100 <= b THEN 100 ELSE b
  BY <1>1, OfTwo
<1> QED BY <1>2, <1>3

LEMMA LiquidityGrows ==
  ASSUME NEW s \in Seq(Kinds), NEW n \in Kinds, NEW large
  PROVE  /\ LiquidityRisk(s, large) \in 0 .. 100 /\ LiquidityRisk(Append(s, n), large) \in 0 .. 100
         /\ LiquidityRisk(s, large) <= LiquidityRisk(Append(s, n), large)
<1>1. PICK a \in Nat, b \in Nat : a = LiquidityScore(s, large) /\ b = LiquidityScore(Append(s, n), large) /\ a <= b
  BY ScoreGrows, Zenon
<1>4. Min({100, a}) \in 0 .. 100 /\ Min({100, b}) \in 0 .. 100 /\ Min({100, a}) <= Min({100, b})
  BY <1>1, CappedNat
<1> QED BY <1>1, <1>4, Zenon DEF LiquidityRisk

Weighted(m, l, p, q, o) == 20 * m + 30 * l + 20 * p + 15 * q + 15 * o

LEMMA OverallGrows ==
  ASSUME NEW s \in Seq(Kinds), NEW n \in Kinds, NEW large
  PROVE  Overall(s, large) <= Overall(Append(s, n), large) /\ Overall(Append(s, n), large) <= 10000
<1>1. PICK t : t = Append(s, n)
  OBVIOUS
<1>2. PICK a \in 0 .. 60, b \in 0 .. 60 : a = MarketRisk(s) /\ b = MarketRisk(t) /\ a <= b
  BY <1>1, MarketGrows, Zenon
<1>3. PICK c \in 0 .. 90, d \in 0 .. 90 : c = LiquidationRisk(s) /\ d = LiquidationRisk(t) /\ c <= d
  BY <1>1, LiquidationGrows, Zenon
<1>4. PICK e \in Int, f \in Int : e = ProtocolRisk(s) /\ f = ProtocolRisk(t) /\ e <= f /\ f <= 100
  BY <1>1, ProtocolGrows, Zenon
<1>5. PICK g \in 0 .. 100, h \in 0 .. 100 : g = LiquidityRisk(s, large) /\ h = LiquidityRisk(t, large) /\ g <= h
  BY <1>1, LiquidityGrows, Zenon
<1>6. PICK i \in 0 .. 30, j \in 0 .. 30 : i = OracleRisk(s) /\ j = OracleRisk(t) /\ i <= j
  BY <1>1, OracleGrows, Zenon
<1>7. Overall(s, large) = Weighted(a, c, e, g, i)
  BY <1>2, <1>3, <1>4, <1>5, <1>6, Zenon DEF Overall, Weighted
<1>8. Overall(t, large) = Weighted(b, d, f, h, j)
  BY <1>2, <1>3, <1>4, <1>5, <1>6, Zenon DEF Overall, Weighted
<1>9. Weighted(a, c, e, g, i) <= Weighted(b, d, f, h, j) /\ Weighted(b, d, f, h, j) <= 10000
  <2>1. a <= b /\ c <= d /\ e <= f /\ f <= 100 /\ g <= h /\ i <= j
    BY <1>2, <1>3, <1>4, <1>5, <1>6
  <2> QED BY <2>1 DEF Weighted
<1> QED BY <1>1, <1>7, <1>8, <1>9

LEMMA WarningsStay ==
  ASSUME NEW s \in Seq(Kinds), NEW n \in Kinds, NEW want \in IntentTerms, NEW w \in Warnings(s, want)
  PROVE  w \in Warnings(Append(s, n), want) \/ (w = "impermanent_loss" /\ n.stable)
<1>1. PICK t : t = Append(s, n) /\ Members(t) = Members(s) \cup {n} /\ Len(t) = Len(s) + 1
  <2>1. Members(Append(s, n)) = Members(s) \cup {n} /\ Len(Append(s, n)) = Len(s) + 1
    BY MembersAppend, AppendOf
  <2> QED BY <2>1
<1>2. \/ w = "liquidation" /\ LiquidationRisk(s) > 40
      \/ w = "governance" /\ ~want.allowGovernance /\ \E m \in Members(s) : m.out = "AERO"
      \/ w = "gas" /\ NodeGas * Len(s) * 100 > want.capital
      \/ w = "impermanent_loss" /\ (\E m \in Members(s) : Says(m, "impermanent_loss")) /\ \A m \in Members(s) : ~m.stable
      \/ w = "protocols" /\ ProtocolRisk(s) > 50
  BY Zenon DEF Warnings
<1>3. CASE w = "liquidation" /\ LiquidationRisk(s) > 40
  <2>1. PICK c \in 0 .. 90, d \in 0 .. 90 : c = LiquidationRisk(s) /\ d = LiquidationRisk(t) /\ c <= d
    BY <1>1, LiquidationGrows, Zenon
  <2>2. LiquidationRisk(t) > 40
    BY <1>3, <2>1
  <2> QED BY <1>1, <1>3, <2>2, Zenon DEF Warnings
<1>4. CASE w = "governance" /\ ~want.allowGovernance /\ \E m \in Members(s) : m.out = "AERO"
  BY <1>1, <1>4, Zenon DEF Warnings
<1>5. CASE w = "gas" /\ NodeGas * Len(s) * 100 > want.capital
  <2>1. PICK g \in Nat, l \in Nat, c \in Nat : g = NodeGas /\ l = Len(s) /\ c = want.capital
    BY ScoreAssumption DEF ScoreAssumption
  <2>2. g * l * 100 > c
    BY <1>5, <2>1
  <2>3. g * (l + 1) = g * l + g
    OBVIOUS
  <2>4. g * (l + 1) * 100 > c
    BY <2>2, <2>3
  <2>5. NodeGas * Len(t) * 100 > want.capital
    BY <1>1, <2>1, <2>4
  <2> QED BY <1>1, <1>5, <2>5, Zenon DEF Warnings
<1>6. CASE w = "impermanent_loss" /\ (\E m \in Members(s) : Says(m, "impermanent_loss")) /\ \A m \in Members(s) : ~m.stable
  <2>1. CASE n.stable
    BY <1>6, <2>1
  <2>2. CASE ~n.stable
    <3>1. (\E m \in Members(t) : Says(m, "impermanent_loss")) /\ \A m \in Members(t) : ~m.stable
      BY <1>1, <1>6, <2>2, ZenonT(30)
    <3> QED BY <1>1, <1>6, <3>1, ZenonT(30) DEF Warnings
  <2> QED BY <2>1, <2>2
<1>7. CASE w = "protocols" /\ ProtocolRisk(s) > 50
  <2>1. PICK e \in Int, f \in Int : e = ProtocolRisk(s) /\ f = ProtocolRisk(t) /\ e <= f
    BY <1>1, ProtocolGrows, Zenon
  <2>2. ProtocolRisk(t) > 50
    <3>1. e > 50
      BY <1>7, <2>1, Zenon
    <3>2. f > 50
      BY <2>1, <3>1
    <3> QED BY <2>1, <3>2, Zenon
  <2> QED BY <1>1, <1>7, <2>2, ZenonT(30) DEF Warnings
<1> QED BY <1>2, <1>3, <1>4, <1>5, <1>6, <1>7

LEMMA RisksGrow == ASSUME GraphInv PROVE RiskGrows
<1> SUFFICES ASSUME NEW i \in 1 .. Len(order), NEW large \in BOOLEAN
             PROVE  LET before == SubSeq(Plan(order), 1, i - 1)
                        after  == SubSeq(Plan(order), 1, i)
                    IN  /\ Overall(after, large) <= 10000
                        /\ i > 1 => Overall(before, large) <= Overall(after, large)
                        /\ \A want \in IntentTerms : \A w \in Warnings(before, want) :
                             w \in Warnings(after, want) \/ (w = "impermanent_loss" /\ kind[order[i]].stable)
  BY DEF RiskGrows
<1>1. PICK Q \in Seq(Kinds) : Q = Plan(order) /\ Len(Q) = Len(order) /\ Q[i] = kind[order[i]]
  <2>1. Plan(order) \in Seq(Kinds) /\ Len(Plan(order)) = Len(order) /\ Plan(order)[i] = kind[order[i]]
    BY OrderPlanned
  <2> QED BY <2>1
<1>2. i \in 1 .. Len(Q)
  BY <1>1
<1>3. PICK s \in Seq(Kinds), n \in Kinds : s = SubSeq(Q, 1, i - 1) /\ n = Q[i] /\ SubSeq(Q, 1, i) = Append(s, n)
  <2>1. /\ SubSeq(Q, 1, i) = Append(SubSeq(Q, 1, i - 1), Q[i])
        /\ SubSeq(Q, 1, i - 1) \in Seq(Kinds) /\ Q[i] \in Kinds
    BY <1>2, Taken
  <2> QED BY <2>1, Zenon
<1>4. Overall(s, large) <= Overall(Append(s, n), large) /\ Overall(Append(s, n), large) <= 10000
  BY OverallGrows
<1>5. \A want \in IntentTerms : \A w \in Warnings(s, want) :
         w \in Warnings(Append(s, n), want) \/ (w = "impermanent_loss" /\ n.stable)
  BY WarningsStay
<1>6. SubSeq(Plan(order), 1, i - 1) = s /\ SubSeq(Plan(order), 1, i) = Append(s, n) /\ kind[order[i]] = n
  BY <1>1, <1>3
<1> DEFINE before == SubSeq(Plan(order), 1, i - 1)
           after  == SubSeq(Plan(order), 1, i)
<1>9. PICK x, y : x = before /\ y = after
  OBVIOUS
<1>10. x = s /\ y = Append(s, n) /\ kind[order[i]] = n
  BY <1>6, <1>9
<1>7. Overall(y, large) <= 10000 /\ Overall(x, large) <= Overall(y, large)
  BY <1>4, <1>10
<1>8. \A want \in IntentTerms : \A w \in Warnings(x, want) :
         w \in Warnings(y, want) \/ (w = "impermanent_loss" /\ kind[order[i]].stable)
  BY <1>5, <1>10
<1> QED BY <1>7, <1>8, <1>9

LEMMA AssessmentIsSound == ASSUME GraphInv PROVE AssessmentSound
BY RisksGrow, BlockAlike, BenchmarkKept, SplitCosts, ProjectionBilled, StressAgrees DEF AssessmentSound

-----------------------------------------------------------------------------
(* The engine                                                              *)

(* No step of the graph is left when it is built. *)
LEMMA GraphEnds == ASSUME GraphNext PROVE phase # "built"
BY DEF GraphNext, AddNode, AddEdge, Build, Visit, Explore, Refuse, Return, StartSort, Shift, Relax, EndTurn, Built, Sorted

EngineInv == GraphInv /\ PlanInv /\ SimInv

LEMMA EngineStarts == ASSUME EngineInit PROVE EngineInv
BY GraphStarts, PlanStarts, SimStarts DEF EngineInit, EngineInv

LEMMA EngineSteps == ASSUME EngineInv, [EngineNext]_engineVars PROVE EngineInv'
<1>1. GraphInv /\ PlanInv /\ SimInv
  BY DEF EngineInv
<1>2. UNCHANGED graphVars => phase' = phase /\ order' = order /\ kind' = kind
  BY DEF graphVars, construction, sorting
<1>3. CASE GraphNext /\ UNCHANGED <<planVars, simVars>>
  <2>1. phase # "built"
    BY <1>3, GraphEnds
  <2>2. GraphInv'
    BY <1>1, <1>3, GraphSteps
  <2>3. PlanInv'
    BY <1>1, <1>3, <2>1, PlanStays
  <2>4. SimInv'
    BY <1>1, <1>3, <2>1, SimStays
  <2> QED BY <2>2, <2>3, <2>4 DEF EngineInv
<1>4. CASE PlanNext /\ UNCHANGED simVars
  <2>1. PlanInv' /\ UNCHANGED graphVars
    BY <1>1, <1>4, PlanSteps
  <2>2. GraphInv'
    BY <1>1, <2>1, GraphStays
  <2>3. SimInv'
    BY <1>1, <1>2, <1>4, <2>1, SimStays
  <2> QED BY <2>1, <2>2, <2>3 DEF EngineInv
<1>5. CASE SimNext /\ UNCHANGED <<graphVars, planVars>>
  <2>1. GraphInv'
    BY <1>1, <1>5, GraphStays
  <2>2. PlanInv'
    BY <1>1, <1>2, <1>5, PlanStays
  <2>3. order \in Seq(Members(nodes))
    BY <1>1 DEF GraphInv, SortInv
  <2>4. SimInv'
    BY <1>1, <1>2, <1>5, <2>3, SimSteps
  <2> QED BY <2>1, <2>2, <2>4 DEF EngineInv
<1>6. CASE UNCHANGED engineVars
  <2>1. UNCHANGED graphVars /\ UNCHANGED planVars /\ UNCHANGED simVars
    BY <1>6 DEF engineVars
  <2> QED BY <1>1, <1>2, <2>1, GraphStays, PlanStays, SimStays DEF EngineInv
<1> QED BY <1>3, <1>4, <1>5, <1>6 DEF EngineNext

LEMMA EngineInvariant == EngineSpec => []EngineInv
BY EngineStarts, EngineSteps, PTL DEF EngineSpec

(* What build answers for a graph is right: a cycle is refused and nothing *)
(* else, the order runs along every edge, and the risks are the worst.     *)
THEOREM GraphsAreSound == EngineSpec => []GraphSound
<1>1. EngineInv => GraphSound
  BY GraphIsSound DEF EngineInv
<1> QED BY <1>1, EngineInvariant, PTL

(* The figures shown with a strategy agree with each other: its risks,     *)
(* blockers, fees and stress test.                                         *)
THEOREM AssessmentsAreSound == EngineSpec => []AssessmentSound
<1>1. EngineInv => AssessmentSound
  BY AssessmentIsSound DEF EngineInv
<1> QED BY <1>1, EngineInvariant, PTL

(* The plan of a strategy deposits what its graph says, and its steps lack *)
(* an allowance only where the plan could not know.                        *)
THEOREM ExecutionPlansAreSound == EngineSpec => []PlanSound
<1>1. EngineInv => PlanSound
  BY PlanIsSound DEF EngineInv
<1> QED BY <1>1, EngineInvariant, PTL

(* Simulations that do not overlap stop their node, and a failure has a    *)
(* reason.                                                                 *)
THEOREM SimulationsAreSound == EngineSpec => []SimulationsSound
<1>1. EngineInv => SimulationsSound
  BY SimIsSound DEF EngineInv
<1> QED BY <1>1, EngineInvariant, PTL

-----------------------------------------------------------------------------
(* Intents                                                                 *)

N == Cardinality(Providers)

(* One policy that the run for i could have read allows all of ts.         *)
Approved(i, ts) == \E P \in inForce[i] : \A t \in ts : P # {} => protocol[t] \in P

(* The providers a run has asked, from the one that is active on.          *)
AskedFrom(active, attempt) == {(active + k) % N : k \in 0 .. attempt - 1}

(* Where a run is says which of its fields are in use, what of them is in  *)
(* the database, and whom it asked.                                        *)
RunOK(i) ==
  /\ run[i].at = "org" => policy \in inForce[i]
  /\ run[i].at \in {"generate", "asked"} => run[i].policy \in inForce[i]
  /\ run[i].at = "asked" =>
       /\ Providers # {} /\ run[i].attempt < N
       /\ \/ run[i].disturbed
          \/ /\ run[i].tried = AskedFrom(activeIndex, run[i].attempt)
             /\ run[i].asked = (activeIndex + run[i].attempt) % N
  /\ run[i].at = "store" =>
       /\ Approved(i, run[i].picks)
       /\ run[i].attempt > 0 => run[i].tried = Providers \/ run[i].disturbed
  /\ run[i].at = "finish" => run[i].picks \subseteq candidates[i]
  /\ run[i].at \notin {"none", "finish", "failing"} => candidates[i] = {}
  /\ run[i].at \notin {"asked", "store"} => run[i].attempt = 0 /\ run[i].tried = {}

(* Nothing is planned or shown for a request that was not answered yet.    *)
RequestOK(i) ==
  request[i] # "answered" =>
    /\ intent[i] = "none" /\ run[i].at = "none" /\ candidates[i] = {}
    /\ i \in Watched => screen[i].at = "closed"

(* The screen stops in time, and shows candidates that are there.          *)
ScreenOK(i) ==
  /\ screen[i].at = "fetching" => screen[i].polls < MaxPolls
  /\ screen[i].at = "shown" => candidates[i] # {}

IntentOK(i) ==
  /\ intent[i] \in {"ready", "selected"} => candidates[i] # {}
  /\ candidates[i] # {} => Approved(i, candidates[i])

IInv ==
  /\ TypeOK
  /\ \A i \in Intents : RunOK(i) /\ RequestOK(i) /\ IntentOK(i)
  /\ \A i \in Watched : ScreenOK(i)
  /\ WalletWithOrg

-----------------------------------------------------------------------------
(* The client asks each provider once: N steps around the ring from any of *)
(* them reach all of them.                                                 *)
LEMMA ProvidersCounted == N \in Nat /\ Providers = 0 .. N - 1
BY ConstantsAssumption, FS_CardinalityType DEF N

LEMMA RingComplete ==
  ASSUME NEW active \in Providers
  PROVE  AskedFrom(active, N) = Providers
<1>1. N \in Nat \ {0} /\ active \in 0 .. N - 1 /\ Providers = 0 .. N - 1
  BY ProvidersCounted
<1>2. ASSUME NEW k \in 0 .. N - 1 PROVE (active + k) % N \in 0 .. N - 1
  BY <1>1
<1>3. ASSUME NEW p \in 0 .. N - 1 PROVE \E k \in 0 .. N - 1 : p = (active + k) % N
  <2>1. CASE p >= active
    <3>1. p - active \in 0 .. N - 1 /\ active + (p - active) = p
      BY <1>1, <2>1
    <3>2. p % N = p
      BY <1>1
    <3> QED
      BY <3>1, <3>2
  <2>2. CASE p < active
    <3>1. p + N - active \in 0 .. N - 1 /\ active + (p + N - active) = p + N
      BY <1>1, <2>2
    <3>2. (p + N) % N = p
      BY <1>1
    <3> QED
      BY <3>1, <3>2
  <2> QED
    BY <1>1, <2>1, <2>2
<1> QED
  BY <1>1, <1>2, <1>3 DEF AskedFrom

(* One more question adds the next provider.                               *)
LEMMA RingGrows ==
  ASSUME NEW active \in Int, NEW attempt \in Nat
  PROVE  AskedFrom(active, attempt + 1) = AskedFrom(active, attempt) \cup {(active + attempt) % N}
<1>1. 0 .. (attempt + 1) - 1 = (0 .. attempt - 1) \cup {attempt}
  OBVIOUS
<1> QED
  BY <1>1 DEF AskedFrom

LEMMA NothingAsked == ASSUME NEW active PROVE AskedFrom(active, 0) = {}
BY DEF AskedFrom

-----------------------------------------------------------------------------
(* At first nothing is planned, and no organisation is half made.          *)
LEMMA InvInit == Init => IInv
<1> SUFFICES ASSUME Init PROVE IInv
  OBVIOUS
<1> USE DEF Init, NoRun
<1>1. run \in [Intents -> Runs]
  BY ProvidersCounted DEF Runs, N
<1>2. TypeOK
  BY <1>1, ConstantsAssumption DEF TypeOK
<1>3. ASSUME NEW i \in Intents PROVE RunOK(i) /\ RequestOK(i) /\ IntentOK(i)
  BY ConstantsAssumption DEF RunOK, RequestOK, IntentOK
<1>4. \A i \in Watched : ScreenOK(i)
  BY DEF ScreenOK
<1>5. WalletWithOrg
  BY DEF WalletWithOrg
<1> QED
  BY <1>2, <1>3, <1>4, <1>5 DEF IInv

(* Policies in force, candidates and faults are never forgotten.           *)
Grows ==
  /\ \A i \in Intents : inForce[i] \subseteq inForce'[i] /\ candidates[i] \subseteq candidates'[i]
  /\ faults > 0 => faults' > 0

LEMMA RunKept ==
  ASSUME Grows, NEW i \in Intents, RunOK(i), run'[i] = run[i], candidates'[i] = candidates[i],
         UNCHANGED <<activeIndex, policy>>
  PROVE  RunOK(i)'
<1>1. \A ts : Approved(i, ts) => Approved(i, ts)'
  BY DEF Approved, Grows
<1> QED
  BY <1>1 DEF RunOK, Grows

LEMMA IntentKept ==
  ASSUME Grows, NEW i \in Intents, IntentOK(i), candidates'[i] = candidates[i],
         intent'[i] \in {"ready", "selected"} => intent[i] \in {"ready", "selected"}
  PROVE  IntentOK(i)'
<1>1. \A ts : Approved(i, ts) => Approved(i, ts)'
  BY DEF Approved, Grows
<1> QED
  BY <1>1 DEF IntentOK

LEMMA RequestKept ==
  ASSUME NEW i \in Intents, RequestOK(i), request'[i] = request[i], intent'[i] = intent[i],
         run'[i] = run[i], candidates'[i] = candidates[i], i \in Watched => screen'[i] = screen[i]
  PROVE  RequestOK(i)'
BY DEF RequestOK

LEMMA ScreenKept ==
  ASSUME Grows, NEW i \in Watched, ScreenOK(i), screen'[i] = screen[i]
  PROVE  ScreenOK(i)'
BY ConstantsAssumption DEF ScreenOK, Grows

LEMMA FaultsCounted ==
  ASSUME faults \in 0 .. MaxFaults, Fault \/ NoFault
  PROVE  /\ faults' \in 0 .. MaxFaults /\ (faults > 0 => faults' > 0)
         /\ Fault => faults' > 0
BY ConstantsAssumption DEF Fault, NoFault

(* The organisation is left half made only by a failure.                   *)
LEMMA WalletKept ==
  ASSUME WalletWithOrg, TypeOK, UNCHANGED <<org, request>>, faults > 0 => faults' > 0
  PROVE  WalletWithOrg'
BY DEF WalletWithOrg

-----------------------------------------------------------------------------
(* The requests *)

LEMMA RequestKeepsInv ==
  ASSUME IInv, NEW i \in Intents, RequestStep(i)
  PROVE  IInv'
<1>1. UNCHANGED <<policy, candidates, activeIndex, inForce, changes, lost>> /\ (Fault \/ NoFault)
  BY DEF RequestStep, Understand, ParseIntent, CreateOrg, AddTreasuryWallet, CreateIntent, Parsing
<1>2. TypeOK /\ WalletWithOrg /\ \A k \in Intents : RunOK(k) /\ RequestOK(k) /\ IntentOK(k)
  BY DEF IInv
<1>3. /\ faults' \in 0 .. MaxFaults /\ (faults > 0 => faults' > 0) /\ (Fault => faults' > 0)
  BY <1>1, <1>2, FaultsCounted DEF TypeOK
<1>4. Grows
  BY <1>1, <1>3 DEF Grows
<1>5. request[i] # "answered" /\ \A k \in Intents : k # i => request'[k] = request[k]
  BY <1>2 DEF RequestStep, Understand, ParseIntent, CreateOrg, AddTreasuryWallet, CreateIntent,
              RequestTo, TypeOK
<1>6. request' \in [Intents -> {"none", "parsed", "org", "wallet", "intent", "answered", "refused"}]
      /\ org' \in {"none", "bare", "complete"}
  BY <1>2 DEF RequestStep, Understand, ParseIntent, CreateOrg, AddTreasuryWallet, CreateIntent,
              RequestTo, TypeOK
<1>7. WalletWithOrg'
  <2>1. CASE Understand(i) \/ ParseIntent(i) \/ CreateIntent(i)
    <3>1. UNCHANGED org /\ request[i] # "wallet"
      BY <2>1 DEF Understand, ParseIntent, CreateIntent
    <3> QED
      BY <1>2, <1>3, <1>5, <3>1 DEF WalletWithOrg
  <2>2. CASE CreateOrg(i)
    <3>1. CASE org' = "bare" /\ RequestTo(i, "wallet")
      BY <1>2, <3>1 DEF WalletWithOrg, RequestTo, TypeOK
    <3>2. CASE UNCHANGED org
      BY <1>2, <1>3, <1>5, <2>2, <3>2 DEF WalletWithOrg, CreateOrg
    <3> QED
      BY <2>2, <3>1, <3>2 DEF CreateOrg
  <2>3. CASE AddTreasuryWallet(i)
    BY <1>3, <2>3 DEF AddTreasuryWallet, WalletWithOrg
  <2> QED
    BY <2>1, <2>2, <2>3 DEF RequestStep
<1>8. CASE UNCHANGED <<intent, run, screen>>
  <2>1. ASSUME NEW k \in Intents PROVE RunOK(k)' /\ RequestOK(k)' /\ IntentOK(k)'
    <3>1. RunOK(k)' /\ IntentOK(k)'
      BY <1>1, <1>2, <1>4, <1>8, RunKept, IntentKept
    <3>2. RequestOK(k)'
      BY <1>1, <1>2, <1>5, <1>8 DEF RequestOK
    <3> QED
      BY <3>1, <3>2
  <2>2. \A k \in Watched : ScreenOK(k)'
    BY <1>4, <1>8, ScreenKept DEF IInv
  <2>3. TypeOK'
    BY <1>1, <1>2, <1>3, <1>6, <1>8 DEF TypeOK
  <2> QED
    BY <1>7, <2>1, <2>2, <2>3 DEF IInv
<1>9. CASE /\ CreateIntent(i)
           /\ intent' = [intent EXCEPT ![i] = "received"]
           /\ run' = [run EXCEPT ![i].at = "begin"]
           /\ screen' = IF i \in Watched THEN [screen EXCEPT ![i].at = "polling"] ELSE screen
           /\ RequestTo(i, "answered")
  <2>1. run[i] \in Runs /\ run[i].at = "none"
    BY <1>2, <1>5 DEF TypeOK, RequestOK
  <2>2. run'[i] = [run[i] EXCEPT !.at = "begin"] /\ \A k \in Intents : k # i => run'[k] = run[k]
    BY <1>2, <1>9 DEF TypeOK
  <2>3. run'[i] \in Runs /\ run'[i].at = "begin" /\ run'[i].attempt = run[i].attempt
        /\ run'[i].tried = run[i].tried
    BY <2>1, <2>2 DEF Runs
  <2>4. run' \in [Intents -> Runs]
    BY <1>2, <1>9, <2>2, <2>3 DEF TypeOK
  <2>5. screen' \in [Watched -> [at : {"closed", "polling", "fetching", "shown", "timedOut"},
                                 polls : 0 .. MaxPolls]]
    BY <1>2, <1>9 DEF TypeOK
  <2>12. \A k \in Watched : k # i => screen'[k] = screen[k]
    BY <1>2, <1>9 DEF TypeOK
  <2>13. i \in Watched => screen'[i].at = "polling"
    BY <1>2, <1>9 DEF TypeOK
  <2>14. run[i].attempt = 0 /\ run[i].tried = {} /\ candidates'[i] = {}
    BY <1>1, <1>2, <1>5, <2>1 DEF RunOK, RequestOK
  <2>6. RunOK(i)'
    BY <2>3, <2>14 DEF RunOK
  <2>7. RequestOK(i)'
    BY <1>2, <1>9 DEF RequestOK, RequestTo, TypeOK
  <2>8. IntentOK(i)'
    BY <1>1, <1>2, <1>4, <1>9, IntentKept DEF TypeOK
  <2>9. ASSUME NEW k \in Intents, k # i PROVE RunOK(k)' /\ RequestOK(k)' /\ IntentOK(k)'
    <3>1. RunOK(k)'
      BY <1>1, <1>2, <1>4, <2>2, <2>9, RunKept
    <3>2. intent'[k] = intent[k]
      BY <1>2, <1>9, <2>9 DEF TypeOK
    <3>3. IntentOK(k)'
      BY <1>1, <1>2, <1>4, <2>9, <3>2, IntentKept
    <3>4. RequestOK(k)'
      BY <1>1, <1>2, <1>5, <2>2, <2>9, <2>12, <3>2, RequestKept
    <3> QED
      BY <3>1, <3>3, <3>4
  <2>10. ASSUME NEW k \in Watched PROVE ScreenOK(k)'
    <3>1. CASE k = i
      BY <2>13, <3>1 DEF ScreenOK
    <3>2. CASE k # i
      BY <1>4, <2>12, <3>2, ScreenKept DEF IInv
    <3> QED
      BY <3>1, <3>2
  <2>11. TypeOK'
    BY <1>1, <1>2, <1>3, <1>6, <1>9, <2>4, <2>5 DEF TypeOK
  <2> QED
    BY <1>7, <2>6, <2>7, <2>8, <2>9, <2>10, <2>11 DEF IInv
<1> QED
  BY <1>8, <1>9 DEF RequestStep, Understand, ParseIntent, CreateOrg, AddTreasuryWallet, CreateIntent

-----------------------------------------------------------------------------
(* The runs.  A step of the run for i leaves everybody else's part alone.  *)
LEMMA OneRun ==
  ASSUME IInv, NEW i \in Intents, request[i] = "answered", Grows,
         faults' \in 0 .. MaxFaults,
         UNCHANGED <<org, policy, request, screen, changes, activeIndex>>,
         run' \in [Intents -> Runs], \A k \in Intents : k # i => run'[k] = run[k],
         intent' \in [Intents -> {"none", "received", "planning", "ready", "failed", "selected"}],
         \A k \in Intents : k # i => intent'[k] = intent[k],
         candidates' \in [Intents -> SUBSET Templates],
         \A k \in Intents : k # i => candidates'[k] = candidates[k],
         inForce' \in [Intents -> SUBSET Policies], lost' \subseteq Intents,
         RunOK(i)', IntentOK(i)'
  PROVE  IInv'
<1>1. TypeOK /\ WalletWithOrg /\ \A k \in Intents : RunOK(k) /\ RequestOK(k) /\ IntentOK(k)
  BY DEF IInv
<1>2. RequestOK(i)'
  BY DEF RequestOK
<1>3. ASSUME NEW k \in Intents, k # i PROVE RunOK(k)' /\ RequestOK(k)' /\ IntentOK(k)'
  <2>1. RunOK(k)'
    BY <1>1, <1>3, RunKept
  <2>2. IntentOK(k)'
    BY <1>1, <1>3, IntentKept
  <2>3. RequestOK(k)'
    BY <1>1, <1>3, RequestKept
  <2> QED
    BY <2>1, <2>2, <2>3
<1>4. \A k \in Watched : ScreenOK(k)'
  BY ScreenKept DEF IInv
<1>5. WalletWithOrg'
  BY <1>1, WalletKept DEF Grows
<1>6. TypeOK'
  BY <1>1 DEF TypeOK
<1> QED
  BY <1>2, <1>3, <1>4, <1>5, <1>6 DEF IInv

(* A fresh run, where it is, and what it has picked.                       *)
Fresh(at, picks) ==
  [at |-> at, policy |-> {}, attempt |-> 0, asked |-> 0, tried |-> {},
   disturbed |-> FALSE, picks |-> picks, twice |-> FALSE]

LEMMA FreshRun ==
  ASSUME NEW at \in {"none", "begin", "store", "finish", "failing"}, NEW picks \in SUBSET Templates
  PROVE  Fresh(at, picks) \in Runs
BY ProvidersCounted DEF Fresh, Runs, N

(* A run that fails or ends says so in a fresh record, with nothing to     *)
(* keep.                                                                   *)
LEMMA RunFails ==
  ASSUME TypeOK, NEW i \in Intents, After(i, "failing") \/ run' = [run EXCEPT ![i] = NoRun]
  PROVE  /\ run' \in [Intents -> Runs] /\ \A k \in Intents : k # i => run'[k] = run[k]
         /\ RunOK(i)'
<1>1. run \in [Intents -> Runs]
  BY DEF TypeOK
<1>2. PICK x \in {"none", "failing"} : run' = [run EXCEPT ![i] = Fresh(x, {})]
  <2>1. CASE After(i, "failing")
    <3>1. PICK fresh : fresh = [NoRun EXCEPT !.at = "failing"] /\ run' = [run EXCEPT ![i] = fresh]
      BY <2>1 DEF After
    <3>2. fresh = Fresh("failing", {})
      BY <3>1 DEF NoRun, Fresh
    <3> QED
      BY <3>1, <3>2
  <2>2. CASE run' = [run EXCEPT ![i] = NoRun]
    <3>1. NoRun = Fresh("none", {})
      BY DEF NoRun, Fresh
    <3> QED
      BY <2>2, <3>1
  <2> QED
    BY <2>1, <2>2
<1>3. run'[i] = Fresh(x, {}) /\ Fresh(x, {}) \in Runs
  BY <1>1, <1>2, FreshRun
<1>4. run'[i].at = x /\ run'[i].attempt = 0 /\ run'[i].tried = {}
  BY <1>3 DEF Fresh
<1>5. RunOK(i)'
  BY <1>4 DEF RunOK
<1> QED
  BY <1>1, <1>2, <1>3, <1>5

LEMMA BeginKeepsInv ==
  ASSUME IInv, NEW i \in Intents, Begin(i)
  PROVE  IInv'
<1>1. TypeOK /\ RunOK(i) /\ RequestOK(i) /\ IntentOK(i)
  BY DEF IInv
<1>2. UNCHANGED <<org, policy, request, screen, changes, activeIndex, candidates>> /\ (Fault \/ NoFault)
      /\ lost' = lost /\ run[i].at = "begin"
  BY DEF Begin, Planning, Throw
<1>3. faults' \in 0 .. MaxFaults /\ (faults > 0 => faults' > 0)
  BY <1>1, <1>2, FaultsCounted DEF TypeOK
<1>4. request[i] = "answered"
  BY <1>1, <1>2 DEF RequestOK
<1>5. CASE /\ intent' = [intent EXCEPT ![i] = "planning"]
           /\ inForce' = [inForce EXCEPT ![i] = @ \cup {policy}]
           /\ run' = [run EXCEPT ![i].at = "org"]
  <2>1. inForce' \in [Intents -> SUBSET Policies] /\ policy \in inForce'[i]
        /\ \A k \in Intents : inForce[k] \subseteq inForce'[k]
    BY <1>1, <1>5 DEF TypeOK
  <2>2. Grows
    BY <1>2, <1>3, <2>1 DEF Grows
  <2>3. run[i] \in Runs /\ run'[i] = [run[i] EXCEPT !.at = "org"]
        /\ \A k \in Intents : k # i => run'[k] = run[k]
    BY <1>1, <1>5 DEF TypeOK
  <2>4. run'[i] \in Runs /\ run'[i].at = "org" /\ run'[i].attempt = run[i].attempt
        /\ run'[i].tried = run[i].tried
    BY <2>3 DEF Runs
  <2>5. run' \in [Intents -> Runs]
    BY <1>1, <1>5, <2>3, <2>4 DEF TypeOK
  <2>6. RunOK(i)'
    BY <1>1, <1>2, <2>1, <2>4 DEF RunOK
  <2>7. intent' \in [Intents -> {"none", "received", "planning", "ready", "failed", "selected"}]
        /\ intent'[i] = "planning" /\ \A k \in Intents : k # i => intent'[k] = intent[k]
    BY <1>1, <1>5 DEF TypeOK
  <2>8. IntentOK(i)'
    BY <1>1, <1>2, <2>2, <2>7, IntentKept
  <2> QED
    BY <1>1, <1>2, <1>3, <1>4, <2>1, <2>2, <2>3, <2>5, <2>6, <2>7, <2>8, OneRun DEF TypeOK
<1>6. CASE Throw(i) /\ UNCHANGED <<intent, inForce>>
  <2>1. Grows
    BY <1>2, <1>3, <1>6 DEF Grows
  <2>2. /\ run' \in [Intents -> Runs] /\ \A k \in Intents : k # i => run'[k] = run[k]
        /\ RunOK(i)'
    BY <1>1, <1>6, RunFails DEF Throw
  <2>3. IntentOK(i)'
    BY <1>1, <1>2, <1>6, <2>1, IntentKept
  <2> QED
    BY <1>1, <1>2, <1>3, <1>4, <1>6, <2>1, <2>2, <2>3, OneRun DEF TypeOK
<1> QED
  BY <1>5, <1>6 DEF Begin, Goto

LEMMA ReadOrgKeepsInv ==
  ASSUME IInv, NEW i \in Intents, ReadOrg(i)
  PROVE  IInv'
<1>1. TypeOK /\ RunOK(i) /\ RequestOK(i) /\ IntentOK(i)
  BY DEF IInv
<1>2. UNCHANGED <<org, policy, request, screen, changes, intent, candidates, activeIndex, inForce,
                  lost>> /\ (Fault \/ NoFault) /\ run[i].at = "org"
  BY DEF ReadOrg, Planning, Throw
<1>3. faults' \in 0 .. MaxFaults /\ (faults > 0 => faults' > 0)
  BY <1>1, <1>2, FaultsCounted DEF TypeOK
<1>4. request[i] = "answered" /\ Grows
  BY <1>1, <1>2, <1>3 DEF RequestOK, Grows
<1>5. ASSUME run' = [run EXCEPT ![i] = [@ EXCEPT !.at = "generate", !.policy = policy]]
      PROVE  /\ run' \in [Intents -> Runs] /\ \A k \in Intents : k # i => run'[k] = run[k]
             /\ RunOK(i)'
  <2>1. run[i] \in Runs /\ run'[i] = [run[i] EXCEPT !.at = "generate", !.policy = policy]
        /\ \A k \in Intents : k # i => run'[k] = run[k]
    BY <1>1, <1>5 DEF TypeOK
  <2>2. /\ run'[i] \in Runs /\ run'[i].at = "generate" /\ run'[i].policy = policy
        /\ run'[i].attempt = run[i].attempt /\ run'[i].tried = run[i].tried
    BY <1>1, <2>1 DEF Runs, TypeOK
  <2>3. run[i].attempt = 0 /\ run[i].tried = {} /\ policy \in inForce[i] /\ candidates[i] = {}
    BY <1>1, <1>2 DEF RunOK
  <2>4. RunOK(i)'
    BY <1>2, <2>2, <2>3 DEF RunOK
  <2> QED
    BY <1>1, <1>5, <2>1, <2>2, <2>4 DEF TypeOK
<1>6. ASSUME Throw(i)
      PROVE  /\ run' \in [Intents -> Runs] /\ \A k \in Intents : k # i => run'[k] = run[k]
             /\ RunOK(i)'
  BY <1>1, <1>6, RunFails DEF Throw
<1>7. IntentOK(i)'
  BY <1>1, <1>2, <1>4, IntentKept
<1> QED
  BY <1>1, <1>2, <1>3, <1>4, <1>5, <1>6, <1>7, OneRun DEF TypeOK, ReadOrg

(* What the filter lets pass is allowed by the policy that the run read.   *)
LEMMA ValidApproved ==
  ASSUME NEW i \in Intents, NEW picks \in SUBSET Templates, run[i].policy \in inForce[i]
  PROVE  Valid(i, picks) \subseteq Templates /\ Approved(i, Valid(i, picks))
BY DEF Valid, Approved

(* The choice without a model.                                             *)
LEMMA Deterministic ==
  ASSUME TypeOK, NEW i \in Intents, run[i].policy \in inForce[i],
         NEW chosen, chosen = SelectDeterministic(i)
  PROVE  /\ chosen \in Runs /\ chosen.at = "store" /\ Approved(i, chosen.picks)
         /\ chosen.attempt = run[i].attempt /\ chosen.tried = run[i].tried
         /\ chosen.disturbed = run[i].disturbed
<1>1. run[i] \in Runs
  BY DEF TypeOK
<1>2. PICK ts \in SUBSET Templates : ts = Valid(i, Templates) /\ Approved(i, ts)
  BY ValidApproved
<1>3. chosen = [run[i] EXCEPT !.at = "store", !.picks = ts, !.policy = {}, !.asked = 0]
  BY <1>2 DEF SelectDeterministic
<1>4. /\ chosen \in Runs /\ chosen.at = "store" /\ chosen.picks = ts
      /\ chosen.attempt = run[i].attempt /\ chosen.tried = run[i].tried
      /\ chosen.disturbed = run[i].disturbed
  BY <1>1, <1>3 DEF Runs
<1> QED
  BY <1>2, <1>4

(* The first call goes to the provider that is active.                     *)
LEMMA GenerateKeepsInv ==
  ASSUME IInv, NEW i \in Intents, Generate(i)
  PROVE  IInv'
<1>1. TypeOK /\ RunOK(i) /\ RequestOK(i) /\ IntentOK(i)
  BY DEF IInv
<1>2. UNCHANGED <<org, policy, request, screen, changes, intent, candidates, inForce, lost, faults,
                  activeIndex>>
      /\ run[i].at = "generate"
  BY DEF Generate, Planning, NoFault
<1>3. request[i] = "answered" /\ Grows
  BY <1>1, <1>2 DEF RequestOK, Grows
<1>4. /\ run \in [Intents -> Runs] /\ activeIndex \in Providers \cup {0}
      /\ N \in Nat /\ Providers = 0 .. N - 1
  BY <1>1, ProvidersCounted DEF TypeOK
<1>5. run[i].policy \in inForce[i] /\ run[i].attempt = 0 /\ run[i].tried = {} /\ candidates[i] = {}
  BY <1>1, <1>2 DEF RunOK
<1>6. PICK chosen : chosen = SelectDeterministic(i)
  OBVIOUS
<1>7. /\ chosen \in Runs /\ chosen.at = "store" /\ Approved(i, chosen.picks) /\ chosen.attempt = 0
  BY <1>1, <1>5, <1>6, Deterministic
<1>8. CASE Providers = {} /\ run' = [run EXCEPT ![i] = chosen]
  <2>1. run' \in [Intents -> Runs] /\ run'[i] = chosen /\ \A k \in Intents : k # i => run'[k] = run[k]
    BY <1>4, <1>7, <1>8
  <2>2. Approved(i, run[i].picks)'
    BY <1>2, <1>7, <2>1 DEF Approved
  <2>3. RunOK(i)'
    BY <1>2, <1>5, <1>7, <2>1, <2>2 DEF RunOK
  <2>4. IntentOK(i)'
    BY <1>1, <1>2, <1>3, IntentKept
  <2> QED
    BY <1>1, <1>2, <1>3, <2>1, <2>3, <2>4, OneRun DEF TypeOK
<1>9. CASE Providers # {} /\ run' = [run EXCEPT ![i] = [@ EXCEPT !.at = "asked", !.asked = Target(0)]]
  <2>1. PICK asking : /\ asking = [run[i] EXCEPT !.at = "asked", !.asked = Target(0)]
                      /\ run' = [run EXCEPT ![i] = asking]
    BY <1>9
  <2>2. activeIndex \in 0 .. N - 1 /\ N > 0
    BY <1>4, <1>9
  <2>3. Target(0) = activeIndex /\ (activeIndex + 0) % N = activeIndex /\ Target(0) \in Providers
    BY <1>4, <2>2 DEF Target, N
  <2>4. /\ asking \in Runs /\ asking.at = "asked" /\ asking.policy = run[i].policy
        /\ asking.attempt = 0 /\ asking.tried = {} /\ asking.asked = activeIndex
    <3>1. run[i] \in Runs
      BY <1>4
    <3> QED
      BY <1>5, <2>1, <2>3, <3>1 DEF Runs
  <2>5. run' \in [Intents -> Runs] /\ run'[i] = asking /\ \A k \in Intents : k # i => run'[k] = run[k]
    BY <1>4, <2>1, <2>4
  <2>6. RunOK(i)'
    BY <1>2, <1>5, <1>9, <2>2, <2>3, <2>4, <2>5, NothingAsked DEF RunOK
  <2>7. IntentOK(i)'
    BY <1>1, <1>2, <1>3, IntentKept
  <2> QED
    BY <1>1, <1>2, <1>3, <2>5, <2>6, <2>7, OneRun DEF TypeOK
<1> QED
  BY <1>6, <1>8, <1>9 DEF Generate

(* A run that gets no answer asks the next provider, or has asked them     *)
(* all.                                                                    *)
LEMMA NoAnswerKeepsRun ==
  ASSUME IInv, NEW i \in Intents, run[i].at = "asked", NoAnswer(i), UNCHANGED <<inForce, candidates>>
  PROVE  /\ run' \in [Intents -> Runs] /\ \A k \in Intents : k # i => run'[k] = run[k]
         /\ RunOK(i)'
<1>1. /\ TypeOK /\ run \in [Intents -> Runs] /\ RunOK(i) /\ activeIndex \in Providers \cup {0}
      /\ UNCHANGED activeIndex
  BY DEF IInv, TypeOK, NoAnswer
<1>2. run[i] \in Runs /\ run[i].attempt \in Nat /\ run[i].tried \subseteq Providers
      /\ run[i].asked \in Providers \cup {0} /\ N \in Nat /\ Providers = 0 .. N - 1
  BY <1>1, ProvidersCounted DEF Runs, N
<1>3. /\ run[i].policy \in inForce[i] /\ Providers # {} /\ run[i].attempt < N /\ candidates[i] = {}
      /\ \/ run[i].disturbed
         \/ /\ run[i].tried = AskedFrom(activeIndex, run[i].attempt)
            /\ run[i].asked = (activeIndex + run[i].attempt) % N
  BY <1>1 DEF RunOK
<1>4. activeIndex \in 0 .. N - 1 /\ N > 0 /\ run[i].asked \in Providers
  BY <1>1, <1>2, <1>3
<1>5. PICK next \in 1 .. N, tried \in SUBSET Providers, target \in Providers :
        /\ next = run[i].attempt + 1 /\ tried = run[i].tried \cup {run[i].asked}
        /\ target = (activeIndex + next) % N
  <2>1. run[i].attempt + 1 \in 1 .. N /\ run[i].tried \cup {run[i].asked} \in SUBSET Providers
    BY <1>2, <1>3, <1>4
  <2>2. (activeIndex + (run[i].attempt + 1)) % N \in Providers
    BY <1>2, <1>4
  <2> QED
    BY <2>1, <2>2
<1>6. run[i].disturbed \/ tried = AskedFrom(activeIndex, next)
  <2>1. activeIndex \in Int
    BY <1>4
  <2> QED
    BY <1>2, <1>3, <1>5, <2>1, RingGrows
<1>7. PICK failed : failed = [run[i] EXCEPT !.attempt = next, !.tried = tried]
  OBVIOUS
<1>8. PICK again : again = [failed EXCEPT !.asked = target]
  OBVIOUS
<1>9. PICK chosen : chosen = SelectDeterministic(i)
  OBVIOUS
<1>10. PICK stored : stored = [chosen EXCEPT !.attempt = next, !.tried = tried]
  OBVIOUS
<1>11. run' = [run EXCEPT ![i] = IF next < N THEN again ELSE stored]
  <2>1. failed = [run[i] EXCEPT !.attempt = run[i].attempt + 1, !.tried = @ \cup {run[i].asked}]
    BY <1>5, <1>7
  <2>2. failed.attempt = next /\ failed.tried = tried
    BY <1>2, <1>7 DEF Runs
  <2>3. again = [failed EXCEPT !.asked = Target(run[i].attempt + 1)]
    BY <1>5, <1>8 DEF Target, N
  <2>4. stored = [SelectDeterministic(i) EXCEPT !.attempt = failed.attempt, !.tried = failed.tried]
    BY <1>9, <1>10, <2>2
  <2> QED
    BY <1>5, <2>1, <2>3, <2>4 DEF NoAnswer, N
<1>14. next \in 0 .. Cardinality(Providers)
  BY <1>2, <1>5 DEF N
<1>12. CASE next < N
  <2>1. /\ again \in Runs /\ again.at = "asked" /\ again.policy = run[i].policy
        /\ again.attempt = next /\ again.tried = tried /\ again.asked = target
        /\ again.disturbed = run[i].disturbed
    <3>1. /\ failed \in Runs /\ failed.at = run[i].at /\ failed.policy = run[i].policy
          /\ failed.attempt = next /\ failed.tried = tried /\ failed.disturbed = run[i].disturbed
      BY <1>2, <1>7, <1>14 DEF Runs
    <3> QED
      BY <1>8, <3>1 DEF Runs
  <2>2. run'[i] = again /\ run' \in [Intents -> Runs] /\ \A k \in Intents : k # i => run'[k] = run[k]
    BY <1>1, <1>11, <1>12, <2>1
  <2>3. RunOK(i)'
    BY <1>1, <1>3, <1>5, <1>6, <1>12, <2>1, <2>2 DEF RunOK
  <2> QED
    BY <2>2, <2>3
<1>13. CASE ~(next < N)
  <2>1. /\ chosen \in Runs /\ chosen.at = "store" /\ Approved(i, chosen.picks)
        /\ chosen.disturbed = run[i].disturbed
    BY <1>1, <1>3, <1>9, Deterministic
  <2>2. /\ stored \in Runs /\ stored.at = "store" /\ stored.picks = chosen.picks
        /\ stored.tried = tried /\ stored.disturbed = run[i].disturbed
    BY <1>10, <1>14, <2>1 DEF Runs
  <2>3. run'[i] = stored /\ run' \in [Intents -> Runs] /\ \A k \in Intents : k # i => run'[k] = run[k]
    BY <1>1, <1>11, <1>13, <2>2
  <2>4. next = N
    BY <1>2, <1>5, <1>13
  <2>5. run[i].disturbed \/ tried = Providers
    BY <1>4, <1>2, <1>6, <2>4, RingComplete
  <2>6. Approved(i, run[i].picks)'
    BY <2>1, <2>2, <2>3 DEF Approved
  <2>7. RunOK(i)'
    BY <1>3, <2>2, <2>3, <2>5, <2>6 DEF RunOK
  <2> QED
    BY <2>3, <2>7
<1> QED
  BY <1>12, <1>13

(* An answer stores the picks of its run, and may move the active provider *)
(* under the other runs that wait for an answer.                           *)
LEMMA AnswerKeepsInv ==
  ASSUME IInv, NEW i \in Intents, run[i].at = "asked", Answer(i),
         UNCHANGED <<org, policy, request, screen, changes, intent, candidates, inForce, lost, faults>>
  PROVE  IInv'
<1>1. TypeOK /\ WalletWithOrg /\ \A k \in Intents : RunOK(k) /\ RequestOK(k) /\ IntentOK(k)
  BY DEF IInv
<1>2. run \in [Intents -> Runs] /\ activeIndex \in Providers \cup {0}
  BY <1>1 DEF TypeOK
<1>3. run[i].policy \in inForce[i] /\ candidates[i] = {}
  BY <1>1 DEF RunOK
<1>4. Grows
  BY DEF Grows
<1>5. PICK picks \in SUBSET Templates, twice \in BOOLEAN :
        /\ twice => Valid(i, picks) # {}
        /\ activeIndex' = run[i].asked
        /\ run' = [k \in Intents |->
             IF k = i THEN [NoRun EXCEPT !.at = "store", !.picks = Valid(i, picks), !.twice = twice]
             ELSE IF run[k].at = "asked" /\ activeIndex # run[i].asked
                  THEN [run[k] EXCEPT !.disturbed = TRUE]
             ELSE run[k]]
  BY Zenon DEF Answer
<1>6. activeIndex' \in Providers \cup {0}
  BY <1>2, <1>5 DEF Runs
<1>7. PICK ts \in SUBSET Templates : ts = Valid(i, picks) /\ Approved(i, ts)
  BY <1>3, ValidApproved
<1>8. run'[i] \in Runs /\ RunOK(i)'
  <2>1. PICK stored : stored = [NoRun EXCEPT !.at = "store", !.picks = ts, !.twice = twice]
    OBVIOUS
  <2>2. run'[i] = stored
    BY <1>5, <1>7, <2>1
  <2>3. stored = [at |-> "store", policy |-> {}, attempt |-> 0, asked |-> 0, tried |-> {},
                  disturbed |-> FALSE, picks |-> ts, twice |-> twice]
    BY <2>1 DEF NoRun
  <2>4. stored \in Runs
    BY <1>7, <2>3, ProvidersCounted DEF Runs, N
  <2>5. stored.at = "store" /\ stored.attempt = 0 /\ stored.picks = ts
    BY <2>3
  <2>6. Approved(i, run[i].picks)'
    BY <1>7, <2>2, <2>5 DEF Approved
  <2> QED
    BY <1>3, <2>2, <2>4, <2>5, <2>6 DEF RunOK
<1>9. ASSUME NEW k \in Intents, k # i
      PROVE  run'[k] \in Runs /\ RunOK(k)' /\ run'[k].at = run[k].at
  <2>1. CASE run[k].at = "asked" /\ activeIndex # run[i].asked
    <3>1. run[k] \in Runs /\ run'[k] = [run[k] EXCEPT !.disturbed = TRUE]
      BY <1>2, <1>5, <1>9, <2>1
    <3>2. /\ run'[k] \in Runs /\ run'[k].at = run[k].at /\ run'[k].policy = run[k].policy
          /\ run'[k].attempt = run[k].attempt /\ run'[k].disturbed = TRUE
      BY <3>1 DEF Runs
    <3>3. RunOK(k)'
      BY <1>1, <2>1, <3>2 DEF RunOK
    <3> QED
      BY <3>2, <3>3
  <2>2. CASE ~(run[k].at = "asked" /\ activeIndex # run[i].asked)
    <3>1. run'[k] = run[k] /\ run[k] \in Runs
      BY <1>2, <1>5, <1>9, <2>2
    <3>2. CASE run[k].at = "asked"
      <4>1. activeIndex' = activeIndex
        BY <1>5, <2>2, <3>2
      <4>2. RunOK(k)'
        BY <1>1, <1>4, <3>1, <4>1, RunKept
      <4> QED
        BY <3>1, <4>2
    <3>3. CASE run[k].at # "asked"
      <4>1. \A us : Approved(k, us) => Approved(k, us)'
        BY DEF Approved
      <4>2. RunOK(k)'
        BY <1>1, <3>1, <3>3, <4>1 DEF RunOK
      <4> QED
        BY <3>1, <4>2
    <3> QED
      BY <3>2, <3>3
  <2> QED
    BY <2>1, <2>2
<1>10. run' \in [Intents -> Runs]
  BY <1>5, <1>8, <1>9
<1>11. ASSUME NEW k \in Intents PROVE RunOK(k)' /\ RequestOK(k)' /\ IntentOK(k)'
  <2>1. RequestOK(k)'
    <3>1. RequestOK(k) /\ RequestOK(i)
      BY <1>1
    <3> QED
      BY <1>9, <3>1 DEF RequestOK
  <2>2. IntentOK(k)'
    BY <1>1, <1>4, IntentKept
  <2> QED
    BY <1>8, <1>9, <2>1, <2>2
<1>12. \A k \in Watched : ScreenOK(k)'
  BY <1>4, ScreenKept DEF IInv
<1>13. TypeOK' /\ WalletWithOrg'
  BY <1>1, <1>6, <1>10, WalletKept DEF TypeOK
<1> QED
  BY <1>11, <1>12, <1>13 DEF IInv

LEMMA AskKeepsInv ==
  ASSUME IInv, NEW i \in Intents, AskProviders(i)
  PROVE  IInv'
<1>1. TypeOK /\ RunOK(i) /\ RequestOK(i) /\ IntentOK(i)
  BY DEF IInv
<1>2. UNCHANGED <<org, policy, request, screen, changes, intent, candidates, inForce, lost, faults>>
      /\ run[i].at = "asked"
  BY DEF AskProviders, Planning, NoFault
<1>3. request[i] = "answered" /\ Grows
  BY <1>1, <1>2 DEF RequestOK, Grows
<1>4. CASE Answer(i)
  BY <1>2, <1>4, AnswerKeepsInv
<1>5. CASE NoAnswer(i)
  <2>1. /\ run' \in [Intents -> Runs] /\ \A k \in Intents : k # i => run'[k] = run[k]
        /\ RunOK(i)'
    BY <1>2, <1>5, NoAnswerKeepsRun
  <2>2. UNCHANGED activeIndex
    BY <1>5 DEF NoAnswer
  <2>3. IntentOK(i)'
    BY <1>1, <1>2, <1>3, IntentKept
  <2> QED
    BY <1>1, <1>2, <1>3, <2>1, <2>2, <2>3, OneRun DEF TypeOK
<1> QED
  BY <1>4, <1>5 DEF AskProviders

LEMMA StoreKeepsInv ==
  ASSUME IInv, NEW i \in Intents, StoreCandidates(i)
  PROVE  IInv'
<1>1. TypeOK /\ RunOK(i) /\ RequestOK(i) /\ IntentOK(i)
  BY DEF IInv
<1>2. UNCHANGED <<org, policy, request, screen, changes, intent, activeIndex, inForce, lost>>
      /\ (Fault \/ NoFault) /\ run[i].at = "store"
  BY DEF StoreCandidates, Planning, Throw
<1>3. faults' \in 0 .. MaxFaults /\ (faults > 0 => faults' > 0)
  BY <1>1, <1>2, FaultsCounted DEF TypeOK
<1>4. request[i] = "answered"
  BY <1>1, <1>2 DEF RequestOK
<1>5. run \in [Intents -> Runs] /\ run[i].picks \in SUBSET Templates
      /\ candidates \in [Intents -> SUBSET Templates]
  BY <1>1 DEF TypeOK, Runs
<1>6. CASE /\ candidates' = [candidates EXCEPT ![i] = @ \cup run[i].picks]
           /\ run' = [run EXCEPT ![i] = [NoRun EXCEPT !.at = "finish", !.picks = run[i].picks]]
  <2>1. /\ candidates' \in [Intents -> SUBSET Templates]
        /\ candidates'[i] = candidates[i] \cup run[i].picks
        /\ \A k \in Intents : k # i => candidates'[k] = candidates[k]
    BY <1>5, <1>6
  <2>2. Grows
    BY <1>2, <1>3, <2>1 DEF Grows
  <2>3. run'[i] = Fresh("finish", run[i].picks)
    <3>1. PICK fresh : /\ fresh = [NoRun EXCEPT !.at = "finish", !.picks = run[i].picks]
                       /\ run' = [run EXCEPT ![i] = fresh]
      BY <1>6
    <3>2. fresh = Fresh("finish", run[i].picks)
      BY <3>1 DEF NoRun, Fresh
    <3> QED
      BY <1>5, <3>1, <3>2
  <2>4. run'[i] \in Runs
    BY <1>5, <2>3, FreshRun
  <2>5. run'[i].at = "finish" /\ run'[i].attempt = 0 /\ run'[i].tried = {} /\ run'[i].picks = run[i].picks
    BY <2>3 DEF Fresh
  <2>6. run' \in [Intents -> Runs] /\ \A k \in Intents : k # i => run'[k] = run[k]
    BY <1>5, <1>6, <2>4
  <2>7. RunOK(i)'
    BY <2>1, <2>5 DEF RunOK
  <2>8. IntentOK(i)'
    <3>1. \A ts : Approved(i, ts) => Approved(i, ts)'
      BY <1>2 DEF Approved
    <3>2. Approved(i, run[i].picks) /\ candidates'[i] = run[i].picks
      BY <1>1, <1>2, <2>1 DEF RunOK
    <3>3. PICK ts : ts = candidates'[i] /\ Approved(i, ts)'
      BY <3>1, <3>2
    <3>5. Approved(i, candidates[i])'
      BY <3>3 DEF Approved
    <3>4. intent'[i] \in {"ready", "selected"} => candidates'[i] # {}
      BY <1>1, <1>2, <2>1 DEF IntentOK
    <3> QED
      BY <3>4, <3>5 DEF IntentOK
  <2> QED
    BY <1>1, <1>2, <1>3, <1>4, <2>1, <2>2, <2>6, <2>7, <2>8, OneRun DEF TypeOK
<1>7. CASE After(i, "failing") /\ UNCHANGED candidates
  <2>1. Grows
    BY <1>2, <1>3, <1>7 DEF Grows
  <2>2. /\ run' \in [Intents -> Runs] /\ \A k \in Intents : k # i => run'[k] = run[k]
        /\ RunOK(i)'
    BY <1>1, <1>7, RunFails
  <2>3. IntentOK(i)'
    BY <1>1, <1>2, <1>7, <2>1, IntentKept
  <2> QED
    BY <1>1, <1>2, <1>3, <1>4, <1>7, <2>1, <2>2, <2>3, OneRun DEF TypeOK
<1> QED
  BY <1>6, <1>7 DEF StoreCandidates, Throw

LEMMA FinishKeepsInv ==
  ASSUME IInv, NEW i \in Intents, Finish(i)
  PROVE  IInv'
<1>1. TypeOK /\ RunOK(i) /\ RequestOK(i) /\ IntentOK(i)
  BY DEF IInv
<1>2. UNCHANGED <<org, policy, request, screen, changes, candidates, activeIndex, inForce, lost>>
      /\ (Fault \/ NoFault) /\ run[i].at = "finish"
  BY DEF Finish, Planning, Throw
<1>3. faults' \in 0 .. MaxFaults /\ (faults > 0 => faults' > 0)
  BY <1>1, <1>2, FaultsCounted DEF TypeOK
<1>4. request[i] = "answered" /\ Grows
  BY <1>1, <1>2, <1>3 DEF RequestOK, Grows
<1>5. /\ run' \in [Intents -> Runs] /\ \A k \in Intents : k # i => run'[k] = run[k]
      /\ RunOK(i)'
  <2>1. After(i, "failing") \/ run' = [run EXCEPT ![i] = NoRun]
    BY DEF Finish, Throw
  <2> QED
    BY <1>1, <2>1, RunFails
<1>6. CASE intent' = [intent EXCEPT ![i] = IF run[i].picks # {} THEN "ready" ELSE "failed"]
  <2>1. /\ intent' \in [Intents -> {"none", "received", "planning", "ready", "failed", "selected"}]
        /\ intent'[i] \in {"ready", "selected"} => run[i].picks # {}
        /\ \A k \in Intents : k # i => intent'[k] = intent[k]
    BY <1>1, <1>6 DEF TypeOK
  <2>2. IntentOK(i)'
    <3>1. \A ts : Approved(i, ts) => Approved(i, ts)'
      BY <1>2 DEF Approved
    <3>2. run[i].picks \subseteq candidates[i]
      BY <1>1, <1>2 DEF RunOK
    <3> QED
      BY <1>1, <1>2, <2>1, <3>1, <3>2 DEF IntentOK
  <2> QED
    BY <1>1, <1>2, <1>3, <1>4, <1>5, <2>1, <2>2, OneRun DEF TypeOK
<1>7. CASE UNCHANGED intent
  <2>1. IntentOK(i)'
    BY <1>1, <1>2, <1>4, <1>7, IntentKept
  <2> QED
    BY <1>1, <1>2, <1>3, <1>4, <1>5, <1>7, <2>1, OneRun DEF TypeOK
<1> QED
  BY <1>6, <1>7 DEF Finish

LEMMA RunEndsKeepsInv ==
  ASSUME IInv, NEW i \in Intents, MarkFailed(i)
  PROVE  IInv'
<1>1. TypeOK /\ RunOK(i) /\ RequestOK(i) /\ IntentOK(i)
  BY DEF IInv
<1>2. UNCHANGED <<org, policy, request, screen, changes, candidates, activeIndex, inForce>>
      /\ (Fault \/ NoFault) /\ run[i].at # "none" /\ lost' \in {lost, lost \cup {i}}
  BY DEF MarkFailed, Planning
<1>3. faults' \in 0 .. MaxFaults /\ (faults > 0 => faults' > 0)
  BY <1>1, <1>2, FaultsCounted DEF TypeOK
<1>4. request[i] = "answered" /\ Grows
  BY <1>1, <1>2, <1>3 DEF RequestOK, Grows
<1>5. /\ run' \in [Intents -> Runs] /\ \A k \in Intents : k # i => run'[k] = run[k]
      /\ RunOK(i)'
  <2>1. After(i, "failing") \/ run' = [run EXCEPT ![i] = NoRun]
    BY DEF MarkFailed
  <2> QED
    BY <1>1, <2>1, RunFails
<1>6. /\ intent' \in [Intents -> {"none", "received", "planning", "ready", "failed", "selected"}]
      /\ intent'[i] \in {"ready", "selected"} => intent[i] \in {"ready", "selected"}
      /\ \A k \in Intents : k # i => intent'[k] = intent[k]
  <2>1. intent' = [intent EXCEPT ![i] = "failed"] \/ intent' = intent
    BY DEF MarkFailed
  <2> QED
    BY <1>1, <2>1 DEF TypeOK
<1>7. IntentOK(i)'
  BY <1>1, <1>2, <1>4, <1>6, IntentKept
<1> QED
  BY <1>1, <1>2, <1>3, <1>4, <1>5, <1>6, <1>7, OneRun DEF TypeOK

-----------------------------------------------------------------------------
(* The screen *)

LEMMA ScreenKeepsInv ==
  ASSUME IInv, NEW i \in Watched, ScreenStep(i) \/ SelectCandidate(i)
  PROVE  IInv'
<1>1. TypeOK /\ WalletWithOrg /\ (\A k \in Intents : RunOK(k) /\ RequestOK(k) /\ IntentOK(k))
      /\ \A k \in Watched : ScreenOK(k)
  BY DEF IInv
<1>2. UNCHANGED <<org, policy, candidates, request, run, activeIndex, inForce, changes, faults, lost>>
  BY DEF ScreenStep, Poll, FetchCandidates, TimeOut, SelectCandidate, Watching
<1>3. i \in Intents /\ MaxPolls \in Nat /\ \A k \in Watched : k \in Intents
  BY ConstantsAssumption
<1>4. screen[i].at # "closed"
  BY DEF ScreenStep, Poll, FetchCandidates, TimeOut, SelectCandidate
<1>5. request[i] = "answered" /\ Grows
  BY <1>1, <1>2, <1>3, <1>4 DEF RequestOK, Grows
<1>6. /\ screen' \in [Watched -> [at : {"closed", "polling", "fetching", "shown", "timedOut"},
                                  polls : 0 .. MaxPolls]]
      /\ \A k \in Watched : k # i => screen'[k] = screen[k]
      /\ ScreenOK(i)'
  <2>1. screen \in [Watched -> [at : {"closed", "polling", "fetching", "shown", "timedOut"},
                                polls : 0 .. MaxPolls]]
        /\ screen[i].polls \in 0 .. MaxPolls
    BY <1>1 DEF TypeOK
  <2>2. CASE Poll(i)
    <3>1. CASE Screen(i, "fetching")
      BY <1>3, <2>1, <2>2, <3>1 DEF Screen, Poll, ScreenOK
    <3>2. CASE screen' = [screen EXCEPT ![i].polls = @ + 1]
      BY <1>3, <2>1, <2>2, <3>2 DEF Poll, ScreenOK
    <3> QED
      BY <2>2, <3>1, <3>2 DEF Poll
  <2>3. CASE FetchCandidates(i)
    <3>1. CASE Screen(i, "shown") /\ candidates[i] # {}
      BY <1>2, <1>3, <2>1, <3>1 DEF Screen, ScreenOK
    <3>2. CASE screen' = [screen EXCEPT ![i] = [at |-> "polling", polls |-> @.polls + 1]]
      <4>1. screen[i].polls + 1 \in 0 .. MaxPolls
        BY <1>1, <1>3, <2>1, <2>3 DEF FetchCandidates, ScreenOK
      <4>2. screen'[i] = [at |-> "polling", polls |-> screen[i].polls + 1]
        BY <2>1, <3>2
      <4> QED
        BY <2>1, <3>2, <4>1, <4>2 DEF ScreenOK
    <3> QED
      BY <2>3, <3>1, <3>2 DEF FetchCandidates
  <2>4. CASE TimeOut(i)
    BY <1>3, <2>1, <2>4 DEF TimeOut, Screen, ScreenOK
  <2>5. CASE SelectCandidate(i)
    BY <1>1, <1>2, <2>1, <2>5 DEF SelectCandidate, ScreenOK
  <2> QED
    BY <2>2, <2>3, <2>4, <2>5 DEF ScreenStep
<1>7. /\ intent' \in [Intents -> {"none", "received", "planning", "ready", "failed", "selected"}]
      /\ \A k \in Intents : k # i => intent'[k] = intent[k]
      /\ intent'[i] \in {"ready", "selected"} => candidates[i] # {}
  <2>1. CASE UNCHANGED intent
    BY <1>1, <1>3, <2>1 DEF TypeOK, IntentOK
  <2>2. CASE SelectCandidate(i)
    BY <1>1, <1>3, <2>2 DEF TypeOK, SelectCandidate, ScreenOK
  <2> QED
    BY <2>1, <2>2 DEF ScreenStep, Poll, FetchCandidates, TimeOut
<1>8. ASSUME NEW k \in Intents PROVE RunOK(k)' /\ RequestOK(k)' /\ IntentOK(k)'
  <2>1. RunOK(k)'
    BY <1>1, <1>2, <1>5, RunKept
  <2>2. CASE k = i
    <3>1. RequestOK(i)'
      BY <1>2, <1>5 DEF RequestOK
    <3>2. \A ts : Approved(i, ts) => Approved(i, ts)'
      BY <1>2 DEF Approved
    <3>3. IntentOK(i)'
      BY <1>1, <1>2, <1>3, <1>7, <3>2 DEF IntentOK
    <3> QED
      BY <2>1, <2>2, <3>1, <3>3
  <2>3. CASE k # i
    <3>1. IntentOK(k)'
      BY <1>1, <1>2, <1>5, <1>7, <2>3, IntentKept
    <3>2. RequestOK(k)'
      BY <1>1, <1>2, <1>6, <1>7, <2>3, RequestKept
    <3> QED
      BY <2>1, <3>1, <3>2
  <2> QED
    BY <2>2, <2>3
<1>9. \A k \in Watched : ScreenOK(k)'
  BY <1>1, <1>5, <1>6, ScreenKept
<1>10. TypeOK' /\ WalletWithOrg'
  BY <1>1, <1>2, <1>6, <1>7, WalletKept DEF TypeOK
<1> QED
  BY <1>8, <1>9, <1>10 DEF IInv

-----------------------------------------------------------------------------
(* A new policy, and crashes *)

LEMMA PolicyKeepsInv ==
  ASSUME IInv, ChangePolicy
  PROVE  IInv'
<1>1. TypeOK /\ WalletWithOrg /\ (\A k \in Intents : RunOK(k) /\ RequestOK(k) /\ IntentOK(k))
      /\ \A k \in Watched : ScreenOK(k)
  BY DEF IInv
<1>2. UNCHANGED <<org, intent, candidates, request, run, activeIndex, screen, faults, lost>>
      /\ policy' \in Policies /\ changes' \in 0 .. MaxChanges
  BY <1>1, ConstantsAssumption DEF ChangePolicy, TypeOK
<1>3. /\ inForce' \in [Intents -> SUBSET Policies]
      /\ \A k \in Intents : inForce[k] \subseteq inForce'[k]
                            /\ (run[k].at = "org" => policy' \in inForce'[k])
  <2>1. inForce' = [i \in Intents |->
                      IF run[i].at = "org" THEN inForce[i] \cup {policy'} ELSE inForce[i]]
        /\ inForce \in [Intents -> SUBSET Policies]
    BY <1>1 DEF ChangePolicy, TypeOK
  <2> QED
    BY <1>2, <2>1
<1>4. Grows
  BY <1>2, <1>3 DEF Grows
<1>5. ASSUME NEW k \in Intents PROVE RunOK(k)' /\ RequestOK(k)' /\ IntentOK(k)'
  <2>1. \A ts : Approved(k, ts) => Approved(k, ts)'
    BY <1>3 DEF Approved
  <2>2. RunOK(k)'
    BY <1>1, <1>2, <1>3, <2>1 DEF RunOK
  <2>3. RequestOK(k)' /\ IntentOK(k)'
    BY <1>1, <1>2, <1>4, RequestKept, IntentKept
  <2> QED
    BY <2>2, <2>3
<1>6. \A k \in Watched : ScreenOK(k)'
  BY <1>1, <1>2, <1>4, ScreenKept
<1>7. TypeOK' /\ WalletWithOrg'
  BY <1>1, <1>2, <1>3, WalletKept DEF TypeOK
<1> QED
  BY <1>5, <1>6, <1>7 DEF IInv

LEMMA RestartKeepsInv ==
  ASSUME IInv, BackendRestarts
  PROVE  IInv'
<1>1. TypeOK /\ (\A k \in Intents : RunOK(k) /\ RequestOK(k) /\ IntentOK(k))
      /\ \A k \in Watched : ScreenOK(k)
  BY DEF IInv
<1>2. UNCHANGED <<org, policy, intent, candidates, screen, inForce, changes>> /\ Fault
      /\ activeIndex' = 0 /\ run' = [i \in Intents |-> NoRun]
  BY DEF BackendRestarts
<1>3. faults' \in 0 .. MaxFaults /\ faults' > 0
  BY <1>1, <1>2, FaultsCounted DEF TypeOK
<1>4. Grows
  BY <1>2, <1>3 DEF Grows
<1>5. lost' \subseteq Intents
  BY <1>1 DEF BackendRestarts, TypeOK
<1>6. /\ request' \in [Intents -> {"none", "parsed", "org", "wallet", "intent", "answered", "refused"}]
      /\ \A k \in Intents : request'[k] = "answered" <=> request[k] = "answered"
  BY <1>1 DEF BackendRestarts, TypeOK
<1>7. NoRun \in Runs /\ NoRun.at = "none" /\ NoRun.attempt = 0 /\ NoRun.tried = {}
  <2>1. NoRun = Fresh("none", {})
    BY DEF NoRun, Fresh
  <2>2. Fresh("none", {}) \in Runs
    BY FreshRun
  <2> QED
    BY <2>1, <2>2 DEF Fresh
<1>8. run' \in [Intents -> Runs]
  BY <1>2, <1>7
<1>9. ASSUME NEW k \in Intents PROVE RunOK(k)' /\ RequestOK(k)' /\ IntentOK(k)'
  <2>1. run'[k].at = "none" /\ run'[k].attempt = 0 /\ run'[k].tried = {}
    BY <1>2, <1>7
  <2>2. RunOK(k)'
    BY <2>1 DEF RunOK
  <2>3. RequestOK(k)'
    BY <1>1, <1>2, <1>6, <2>1 DEF RequestOK
  <2>4. IntentOK(k)'
    BY <1>1, <1>2, <1>4, IntentKept
  <2> QED
    BY <2>2, <2>3, <2>4
<1>10. \A k \in Watched : ScreenOK(k)'
  BY <1>1, <1>2, <1>4, ScreenKept
<1>11. WalletWithOrg'
  BY <1>3 DEF WalletWithOrg
<1>12. TypeOK'
  BY <1>1, <1>2, <1>3, <1>5, <1>6, <1>8 DEF TypeOK
<1> QED
  BY <1>9, <1>10, <1>11, <1>12 DEF IInv

-----------------------------------------------------------------------------
LEMMA InvNext == IInv /\ [Next]_vars => IInv'
<1> SUFFICES ASSUME IInv, [Next]_vars PROVE IInv'
  OBVIOUS
<1>1. ASSUME NEW i \in Intents, RequestStep(i) \/ RunPlannerInline(i) PROVE IInv'
  BY <1>1, RequestKeepsInv, BeginKeepsInv, ReadOrgKeepsInv, GenerateKeepsInv, AskKeepsInv,
     StoreKeepsInv, FinishKeepsInv, RunEndsKeepsInv DEF RunPlannerInline
<1>2. ASSUME NEW i \in Watched, ScreenStep(i) \/ SelectCandidate(i) PROVE IInv'
  BY <1>2, ScreenKeepsInv
<1>3. CASE ChangePolicy \/ BackendRestarts
  BY <1>3, PolicyKeepsInv, RestartKeepsInv
<1>4. CASE UNCHANGED vars
  <2>1. Grows /\ TypeOK' /\ WalletWithOrg'
    BY <1>4, WalletKept DEF vars, Grows, IInv, TypeOK
  <2>2. ASSUME NEW k \in Intents PROVE RunOK(k)' /\ RequestOK(k)' /\ IntentOK(k)'
    BY <1>4, <2>1, RunKept, RequestKept, IntentKept DEF vars, IInv
  <2>3. \A k \in Watched : ScreenOK(k)'
    BY <1>4, <2>1, ScreenKept DEF vars, IInv
  <2> QED
    BY <2>1, <2>2, <2>3 DEF IInv
<1> QED
  BY <1>1, <1>2, <1>3, <1>4 DEF Next

LEMMA InvHolds == Spec => []IInv
BY InvInit, InvNext, PTL DEF Spec

(* A reader of the database finds a sound plan: every variable is of its   *)
(* type, an intent that says its strategies are ready has one, and all the *)
(* candidates of an intent are allowed by one policy that was in force     *)
(* before its run had read one, through changes of policy and crashes.     *)
THEOREM PlansAreSound == Spec => []PlansSound
<1>1. IInv => PlansSound
  BY DEF IInv, IntentOK, Approved, PlansSound, ReadyHasCandidates, CandidatesApproved
<1> QED
  BY InvHolds, <1>1, PTL

(* An organisation without its wallet had a failure, and the client falls  *)
(* back to the templates only after it asked every configured provider,    *)
(* unless the answer to another run moved the active one meanwhile.        *)
THEOREM HalfDoneIsExplained == Spec => []HalfDoneExplained
<1>1. IInv => HalfDoneExplained
  BY DEF IInv, RunOK, HalfDoneExplained, GivingUpTriedAll
<1> QED
  BY InvHolds, <1>1, PTL

=============================================================================
