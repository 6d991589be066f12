---------------------------- MODULE ScriptProofs ----------------------------
(***************************************************************************)
(* Facts about the steps that test programs are made of and about the      *)
(* ported programs themselves, for the proofs about TestRun.               *)
(***************************************************************************)
EXTENDS PortedTests, InductionFacts, SequenceTheorems

IsSeq(t) == \E S : t \in Seq(S)

-----------------------------------------------------------------------------
(* Sequences                                                               *)

\* Two sequences are sequences over one set.
LEMMA OneSet ==
  ASSUME NEW t, NEW u, IsSeq(t), IsSeq(u)
  PROVE  \E S : t \in Seq(S) /\ u \in Seq(S)
  <1>1. PICK S : t \in Seq(S)
    BY DEF IsSeq
  <1>2. PICK T : u \in Seq(T)
    BY DEF IsSeq
  <1>3. t \in Seq(S \cup T) /\ u \in Seq(S \cup T)
    BY <1>1, <1>2, SeqMonotonic
  <1> QED BY <1>3

\* Concatenation.
LEMMA Cat ==
  ASSUME NEW t, NEW u, IsSeq(t), IsSeq(u)
  PROVE  /\ IsSeq(t \o u) /\ Len(t \o u) = Len(t) + Len(u)
         /\ Len(t) \in Nat /\ Len(u) \in Nat
         /\ \A k \in 1 .. (Len(t) + Len(u)) :
              (t \o u)[k] = IF k <= Len(t) THEN t[k] ELSE u[k - Len(t)]
         /\ << >> \o u = u /\ t \o << >> = t
  <1>1. PICK S : t \in Seq(S) /\ u \in Seq(S)
    BY OneSet
  <1>2. << >> \o u = u /\ t \o << >> = t
    BY <1>1, ConcatEmptySeq
  <1>3. t \o u \in Seq(S)
    BY <1>1
  <1> QED BY <1>1, <1>2, <1>3, ConcatProperties, LenProperties DEF IsSeq

\* Concatenation is associative.
LEMMA Assoc ==
  ASSUME NEW t, NEW u, NEW v, IsSeq(t), IsSeq(u), IsSeq(v)
  PROVE  (t \o u) \o v = t \o (u \o v)
  <1>1. PICK S : t \in Seq(S) /\ u \in Seq(S)
    BY OneSet
  <1>2. PICK T : v \in Seq(T)
    BY DEF IsSeq
  <1>3. t \in Seq(S \cup T) /\ u \in Seq(S \cup T) /\ v \in Seq(S \cup T)
    BY <1>1, <1>2, SeqMonotonic
  <1> QED BY <1>3, ConcatAssociative

\* A sequence with a first element.
LEMMA Cons ==
  ASSUME NEW s, NEW u, IsSeq(u)
  PROVE  /\ IsSeq(<<s>> \o u) /\ <<s>> \o u # << >>
         /\ Head(<<s>> \o u) = s /\ Tail(<<s>> \o u) = u
  <1>1. PICK S : u \in Seq(S)
    BY DEF IsSeq
  <1>2. u \in Seq(S \cup {s}) /\ <<s>> \in Seq(S \cup {s})
    BY <1>1, SeqMonotonic
  <1> QED BY <1>2 DEF IsSeq

\* A sequence that is not empty has a head and a tail.
LEMMA HeadTail ==
  ASSUME NEW t, IsSeq(t), t # << >>
  PROVE  IsSeq(Tail(t)) /\ t = <<Head(t)>> \o Tail(t)
  <1>1. PICK S : t \in Seq(S)
    BY DEF IsSeq
  <1>2. Tail(t) \in Seq(S) /\ Head(t) \in S
    BY <1>1
  <1>3. t = <<Head(t)>> \o Tail(t)
    BY <1>1, <1>2
  <1> QED BY <1>2, <1>3 DEF IsSeq

\* Tuples, element by element.
LEMMA Tuples ==
  /\ IsSeq(<< >>)
  /\ \A a : IsSeq(<<a>>) /\ <<a>> = <<a>> \o << >>
  /\ \A a, b : IsSeq(<<a, b>>) /\ <<a, b>> = <<a>> \o <<b>>
  /\ \A a, b, c : IsSeq(<<a, b, c>>) /\ <<a, b, c>> = <<a>> \o <<b, c>>
  /\ \A a, b, c, d : IsSeq(<<a, b, c, d>>) /\ <<a, b, c, d>> = <<a>> \o <<b, c, d>>
  /\ \A a, b, c, d, e : IsSeq(<<a, b, c, d, e>>) /\ <<a, b, c, d, e>> = <<a>> \o <<b, c, d, e>>
  /\ \A a, b, c, d, e, f : IsSeq(<<a, b, c, d, e, f>>) /\ <<a, b, c, d, e, f>> = <<a>> \o <<b, c, d, e, f>>
  /\ \A a, b, c, d, e, f, g : IsSeq(<<a, b, c, d, e, f, g>>) /\ <<a, b, c, d, e, f, g>> = <<a>> \o <<b, c, d, e, f, g>>
  /\ \A a, b, c, d, e, f, g, h : IsSeq(<<a, b, c, d, e, f, g, h>>) /\ <<a, b, c, d, e, f, g, h>> = <<a>> \o <<b, c, d, e, f, g, h>>
  <1>0. IsSeq(<< >>)
    <2>1. << >> \in Seq({})
      OBVIOUS
    <2> QED BY <2>1 DEF IsSeq
  <1>1. ASSUME NEW a PROVE IsSeq(<<a>>) /\ <<a>> = <<a>> \o << >>
    <2>1. <<a>> \in Seq({a})
      OBVIOUS
    <2> QED BY <2>1, ConcatEmptySeq DEF IsSeq
  <1>2. ASSUME NEW a, NEW b PROVE IsSeq(<<a, b>>) /\ <<a, b>> = <<a>> \o <<b>>
    <2>1. <<a>> \in Seq({a, b}) /\ <<b>> \in Seq({a, b}) /\ <<a, b>> \in Seq({a, b})
      OBVIOUS
    <2>2. <<a>> \o <<b>> \in Seq({a, b}) /\ Len(<<a>> \o <<b>>) = 2
      BY <2>1, ConcatProperties
    <2>3. (<<a>> \o <<b>>)[1] = a /\ (<<a>> \o <<b>>)[2] = b
      BY <2>1, ConcatProperties
    <2> DEFINE x == <<a>> \o <<b>>
    <2>4. Len(<<a, b>>) = Len(x) /\ \A m \in 1 .. Len(x) : <<a, b>>[m] = x[m]
      BY <2>2, <2>3
    <2> HIDE DEF x
    <2> QED BY <2>1, <2>2, <2>4, SeqEqual DEF x, IsSeq
  <1>3. ASSUME NEW a, NEW b, NEW c PROVE IsSeq(<<a, b, c>>) /\ <<a, b, c>> = <<a>> \o <<b, c>>
    <2>1. <<a, b, c>> \in Seq({a, b, c})
      OBVIOUS
    <2>2. <<a, b, c>> = <<a>> \o <<b, c>>
      OBVIOUS
    <2> QED BY <2>1, <2>2 DEF IsSeq
  <1>4. ASSUME NEW a, NEW b, NEW c, NEW d PROVE IsSeq(<<a, b, c, d>>) /\ <<a, b, c, d>> = <<a>> \o <<b, c, d>>
    <2>1. <<a, b, c, d>> \in Seq({a, b, c, d})
      OBVIOUS
    <2>2. <<a, b, c, d>> = <<a>> \o <<b, c, d>>
      OBVIOUS
    <2> QED BY <2>1, <2>2 DEF IsSeq
  <1>5. ASSUME NEW a, NEW b, NEW c, NEW d, NEW e PROVE IsSeq(<<a, b, c, d, e>>) /\ <<a, b, c, d, e>> = <<a>> \o <<b, c, d, e>>
    <2>1. <<a, b, c, d, e>> \in Seq({a, b, c, d, e})
      OBVIOUS
    <2>2. <<a, b, c, d, e>> = <<a>> \o <<b, c, d, e>>
      OBVIOUS
    <2> QED BY <2>1, <2>2 DEF IsSeq
  <1>6. ASSUME NEW a, NEW b, NEW c, NEW d, NEW e, NEW f PROVE IsSeq(<<a, b, c, d, e, f>>) /\ <<a, b, c, d, e, f>> = <<a>> \o <<b, c, d, e, f>>
    <2>1. <<a, b, c, d, e, f>> \in Seq({a, b, c, d, e, f})
      OBVIOUS
    <2>2. <<a, b, c, d, e, f>> = <<a>> \o <<b, c, d, e, f>>
      OBVIOUS
    <2> QED BY <2>1, <2>2 DEF IsSeq
  <1>7. ASSUME NEW a, NEW b, NEW c, NEW d, NEW e, NEW f, NEW g PROVE IsSeq(<<a, b, c, d, e, f, g>>) /\ <<a, b, c, d, e, f, g>> = <<a>> \o <<b, c, d, e, f, g>>
    <2>1. <<a, b, c, d, e, f, g>> \in Seq({a, b, c, d, e, f, g})
      OBVIOUS
    <2>2. <<a, b, c, d, e, f, g>> = <<a>> \o <<b, c, d, e, f, g>>
      OBVIOUS
    <2> QED BY <2>1, <2>2 DEF IsSeq
  <1>8. ASSUME NEW a, NEW b, NEW c, NEW d, NEW e, NEW f, NEW g, NEW h PROVE IsSeq(<<a, b, c, d, e, f, g, h>>) /\ <<a, b, c, d, e, f, g, h>> = <<a>> \o <<b, c, d, e, f, g, h>>
    <2>1. <<a, b, c, d, e, f, g, h>> \in Seq({a, b, c, d, e, f, g, h})
      OBVIOUS
    <2>2. <<a, b, c, d, e, f, g, h>> = <<a>> \o <<b, c, d, e, f, g, h>>
      OBVIOUS
    <2> QED BY <2>1, <2>2 DEF IsSeq
  <1> QED BY <1>0, <1>1, <1>2, <1>3, <1>4, <1>5, <1>6, <1>7, <1>8

-----------------------------------------------------------------------------
(* Repetitions and chains                                                  *)

\* A number has one remainder.
LEMMA ModUnique ==
  ASSUME NEW n \in Nat, n > 0, NEW d \in Int, NEW e \in Int, NEW r \in 0 .. (n - 1),
         NEW q \in 0 .. (n - 1), n * d + r = n * e + q, d >= e
  PROVE  r = q
  <1>1. CASE d = e
    BY <1>1
  <1>2. CASE d > e
    <2>1. PICK x \in Nat : d = e + 1 + x
      <3>1. d - e - 1 \in Nat /\ d = e + 1 + (d - e - 1)
        BY <1>2
      <3> QED BY <3>1
    <2>2. n * d = n * e + n + n * x
      BY <2>1
    <2>3. n * x \in Nat
      BY <2>1
    <2>4. n * e \in Int /\ n * d \in Int
      OBVIOUS
    <2> QED BY <2>2, <2>3, <2>4
  <1> QED BY <1>1, <1>2

\* The remainder starts again after n.
LEMMA ModPeriod ==
  ASSUME NEW n \in Nat, n > 0, NEW a \in Nat
  PROVE  (a + n) % n = a % n
  <1>1. a % n \in 0 .. (n - 1) /\ (a + n) % n \in 0 .. (n - 1)
    OBVIOUS
  <1>2. PICK d \in Int : a = n * d + (a % n)
    <2>1. a = n * (a \div n) + (a % n) /\ a \div n \in Int
      OBVIOUS
    <2> QED BY <2>1
  <1>3. PICK e \in Int : a + n = n * e + ((a + n) % n)
    <2>1. a + n = n * ((a + n) \div n) + ((a + n) % n) /\ (a + n) \div n \in Int
      OBVIOUS
    <2> QED BY <2>1
  <1>4. n * (d + 1) = n * d + n /\ d + 1 \in Int
    OBVIOUS
  <1>5. n * (d + 1) + (a % n) = n * e + ((a + n) % n)
    BY <1>1, <1>2, <1>3, <1>4
  <1>6. CASE d + 1 >= e
    BY <1>1, <1>4, <1>5, <1>6, ModUnique
  <1>7. CASE e >= d + 1
    BY <1>1, <1>4, <1>5, <1>7, ModUnique
  <1> QED BY <1>4, <1>6, <1>7

\* A repetition is a sequence of the elements repeated.
LEMMA RepElements ==
  ASSUME NEW n \in Nat, NEW q, IsSeq(q)
  PROVE  /\ IsSeq(Rep(n, q)) /\ Len(Rep(n, q)) = n * Len(q) /\ n * Len(q) \in Nat
         /\ \A k \in 1 .. Len(Rep(n, q)) : \E m \in 1 .. Len(q) : Rep(n, q)[k] = q[m]
  <1> DEFINE L == Len(q)
  <1>1. PICK S : q \in Seq(S)
    BY DEF IsSeq
  <1>2. L \in Nat /\ \A m \in 1 .. L : q[m] \in S
    BY <1>1
  <1>3. n * L \in Nat
    BY <1>2
  <1>4. \A k \in 1 .. (n * L) : ((k - 1) % L) + 1 \in 1 .. L
    <2> SUFFICES ASSUME NEW k \in 1 .. (n * L) PROVE ((k - 1) % L) + 1 \in 1 .. L
      OBVIOUS
    <2>1. L > 0
      <3> SUFFICES ASSUME L = 0 PROVE FALSE
        BY <1>2
      <3>1. n * L = 0
        OBVIOUS
      <3> QED BY <3>1
    <2>2. k - 1 \in Nat
      BY <1>3
    <2>3. (k - 1) % L \in 0 .. (L - 1)
      BY <1>2, <2>1, <2>2
    <2> QED BY <1>2, <2>3
  <1> HIDE DEF L
  <1>5. Rep(n, q) = [k \in 1 .. (n * L) |-> q[((k - 1) % L) + 1]]
    BY DEF Rep, L
  <1>6. Rep(n, q) \in Seq(S)
    <2>1. \A k \in 1 .. (n * L) : q[((k - 1) % L) + 1] \in S
      BY <1>2, <1>4
    <2> QED BY <1>3, <1>5, <2>1
  <1>7. Len(Rep(n, q)) = n * L
    BY <1>3, <1>5
  <1>8. \A k \in 1 .. Len(Rep(n, q)) : \E m \in 1 .. L : Rep(n, q)[k] = q[m]
    BY <1>4, <1>5, <1>7
  <1> QED BY <1>3, <1>6, <1>7, <1>8 DEF IsSeq, L

\* A repetition begins with what is repeated.
LEMMA RepUnfold ==
  ASSUME NEW q, IsSeq(q)
  PROVE  /\ Rep(0, q) = << >>
         /\ \A n \in Nat : Rep(n + 1, q) = q \o Rep(n, q)
  <1> DEFINE L == Len(q)
  <1>1. PICK S : q \in Seq(S)
    BY DEF IsSeq
  <1>2. L \in Nat
    BY <1>1
  <1>3. Rep(0, q) = << >>
    <2>1. 0 * L = 0
      BY <1>2
    <2>2. Rep(0, q) = [k \in 1 .. 0 |-> q[((k - 1) % L) + 1]]
      BY <2>1 DEF Rep
    <2> QED BY <2>2
  <1>4. ASSUME NEW n \in Nat PROVE Rep(n + 1, q) = q \o Rep(n, q)
    <2>1. /\ IsSeq(Rep(n, q)) /\ IsSeq(Rep(n + 1, q)) /\ n * L \in Nat
          /\ Len(Rep(n, q)) = n * L /\ Len(Rep(n + 1, q)) = (n + 1) * L
      BY RepElements
    <2>2. (n + 1) * L = L + n * L
      BY <1>2
    <2>3. /\ IsSeq(q \o Rep(n, q)) /\ Len(q \o Rep(n, q)) = L + n * L
          /\ \A k \in 1 .. (L + n * L) :
               (q \o Rep(n, q))[k] = IF k <= L THEN q[k] ELSE Rep(n, q)[k - L]
      BY <2>1, Cat
    <2>4. ASSUME NEW k \in 1 .. (L + n * L)
          PROVE  Rep(n + 1, q)[k] = (q \o Rep(n, q))[k]
      <3>0. k \in Nat /\ k > 0
        BY <1>2, <2>1
      <3>1. Rep(n + 1, q)[k] = q[((k - 1) % L) + 1]
        BY <2>2 DEF Rep
      <3>2. CASE k <= L
        <4>1. k - 1 \in 0 .. (L - 1) /\ L > 0
          BY <1>2, <3>0, <3>2
        <4>2. (k - 1) % L = k - 1
          BY <1>2, <4>1
        <4> QED BY <2>3, <3>0, <3>1, <3>2, <4>2
      <3>3. CASE k > L
        <4>1. L > 0
          <5> SUFFICES ASSUME L = 0 PROVE FALSE
            BY <1>2
          <5>1. n * L = 0
            OBVIOUS
          <5> QED BY <3>0, <5>1
        <4>2. k - L \in 1 .. (n * L) /\ k - L - 1 \in Nat /\ (k - L - 1) + L = k - 1
          BY <1>2, <2>1, <3>0, <3>3
        <4>3. (k - 1) % L = (k - L - 1) % L
          BY <1>2, <4>1, <4>2, ModPeriod
        <4>4. Rep(n, q)[k - L] = q[((k - L - 1) % L) + 1]
          BY <4>2 DEF Rep
        <4> QED BY <2>3, <3>1, <3>3, <4>3, <4>4
      <3>4. k <= L \/ k > L
        BY <1>2, <3>0
      <3> QED BY <3>2, <3>3, <3>4
    <2>5. PICK T : Rep(n + 1, q) \in Seq(T) /\ q \o Rep(n, q) \in Seq(T)
      BY <2>1, <2>3, OneSet
    <2> HIDE DEF L
    <2> QED BY <2>1, <2>2, <2>3, <2>4, <2>5, SeqEqual
  <1> QED BY <1>3, <1>4

\* The chains that occur.
LEMMA ChainUnfold ==
  ASSUME NEW then, NEW else
  PROVE  /\ Chain(1, then, else) = <<Call(then, else)>>
         /\ Chain(2, then, else) = <<Call(<<Call(then, else)>>, else)>>
         /\ Chain(3, then, else) = <<Call(<<Call(<<Call(then, else)>>, else)>>, else)>>
  <1> DEFINE c1 == <<Call(then, else)>>
             c2 == <<Call(c1, else)>>
             c3 == <<Call(c2, else)>>
             F(n, f) == [k \in 0 .. n |-> IF k = 0 THEN then ELSE <<Call(f[k - 1], else)>>]
  <1>1. \A n : Chain(n, then, else) = (CHOOSE f : f = F(n, f))[n]
    BY DEF Chain
  <1>2. \E f : f = F(3, f)
    <2> DEFINE f == [k \in 0 .. 3 |-> IF k = 0 THEN then ELSE IF k = 1 THEN c1
                                      ELSE IF k = 2 THEN c2 ELSE c3]
    <2>1. f = F(3, f)
      OBVIOUS
    <2> QED BY <2>1
  <1>3. \E f : f = F(2, f)
    <2> DEFINE f == [k \in 0 .. 2 |-> IF k = 0 THEN then ELSE IF k = 1 THEN c1 ELSE c2]
    <2>1. f = F(2, f)
      OBVIOUS
    <2> QED BY <2>1
  <1>4. \E f : f = F(1, f)
    <2> DEFINE f == [k \in 0 .. 1 |-> IF k = 0 THEN then ELSE c1]
    <2>1. f = F(1, f)
      OBVIOUS
    <2> QED BY <2>1
  <1>5. ASSUME NEW f, f = F(3, f) PROVE f[3] = c3
    BY <1>5
  <1>6. ASSUME NEW f, f = F(2, f) PROVE f[2] = c2
    BY <1>6
  <1>7. ASSUME NEW f, f = F(1, f) PROVE f[1] = c1
    BY <1>7
  <1> HIDE DEF F
  <1> QED BY <1>1, <1>2, <1>3, <1>4, <1>5, <1>6, <1>7

-----------------------------------------------------------------------------
(* Well-made programs                                                      *)

Ops == {"call", "pick", "if", "assign", "say", "miss", "fork", "wait", "become", "end", "open",
        "close", "subreaper", "spin"}

\* The fields of a step that hold steps.
Parts(op) ==
  CASE op \in {"call", "pick"} -> {"good", "bad"}
    [] op = "if"     -> {"yes", "no"}
    [] op = "fork"   -> {"child", "parent", "failed"}
    [] op = "wait"   -> {"zero", "other", "signal", "none"}
    [] op = "become" -> {"steps"}
    [] OTHER         -> {}

\* What is asked of a step itself when only some operations may occur.
Typed(s, ops) ==
  /\ s.op \in ops
  /\ s.op = "assign" => s.val \in BOOLEAN
  /\ s.op = "end" => s.status \in Statuses

\* A set of steps that holds with a step all that are nested in it.
Nested(W, ops) == \A s \in W : Typed(s, ops) /\ \A x \in Parts(s.op) : s[x] \in Seq(W)

WellMade(s, ops) == \E W : s \in W /\ Nested(W, ops)

\* A program of steps that are well made at every depth.
Program(t, ops) == IsSeq(t) /\ \A k \in 1 .. Len(t) : WellMade(t[k], ops)

\* The union of such sets is one.
LEMMA NestedUnion ==
  ASSUME NEW ops, NEW F, \A W \in F : Nested(W, ops)
  PROVE  Nested(UNION F, ops)
  <1> SUFFICES ASSUME NEW s \in UNION F
               PROVE  Typed(s, ops) /\ \A x \in Parts(s.op) : s[x] \in Seq(UNION F)
    BY DEF Nested
  <1>1. PICK W \in F : s \in W
    OBVIOUS
  <1>2. Seq(W) \subseteq Seq(UNION F)
    BY <1>1, SeqMonotonic
  <1> QED BY <1>1, <1>2 DEF Nested

\* A program has all its steps in one set.
LEMMA ProgramSet ==
  ASSUME NEW ops, NEW t, Program(t, ops)
  PROVE  \E W : Nested(W, ops) /\ t \in Seq(W)
  <1> DEFINE H(k) == CHOOSE W : t[k] \in W /\ Nested(W, ops)
             F == {H(k) : k \in 1 .. Len(t)}
  <1>1. \A k \in 1 .. Len(t) : t[k] \in H(k) /\ Nested(H(k), ops)
    BY DEF Program, WellMade
  <1> HIDE DEF H
  <1>2. \A W \in F : Nested(W, ops)
    BY <1>1
  <1>3. Nested(UNION F, ops)
    BY <1>2, NestedUnion
  <1>4. \A k \in 1 .. Len(t) : t[k] \in UNION F
    BY <1>1
  <1>5. PICK S : t \in Seq(S)
    BY DEF Program, IsSeq
  <1>6. t \in Seq(UNION F)
    BY <1>4, <1>5
  <1> QED BY <1>3, <1>6

\* A step is well made exactly when it is typed and what it holds are programs.
LEMMA MadeIff ==
  ASSUME NEW ops, NEW s
  PROVE  WellMade(s, ops) <=> Typed(s, ops) /\ \A x \in Parts(s.op) : Program(s[x], ops)
  <1>1. ASSUME WellMade(s, ops) PROVE Typed(s, ops) /\ \A x \in Parts(s.op) : Program(s[x], ops)
    <2>1. PICK W : s \in W /\ Nested(W, ops)
      BY <1>1 DEF WellMade
    <2>2. ASSUME NEW x \in Parts(s.op) PROVE Program(s[x], ops)
      <3>1. s[x] \in Seq(W)
        BY <2>1 DEF Nested
      <3>2. \A k \in 1 .. Len(s[x]) : s[x][k] \in W
        BY <3>1
      <3> QED BY <2>1, <3>1, <3>2 DEF Program, WellMade, IsSeq
    <2> QED BY <2>1, <2>2 DEF Nested
  <1>2. ASSUME Typed(s, ops), \A x \in Parts(s.op) : Program(s[x], ops) PROVE WellMade(s, ops)
    <2> DEFINE H(x) == CHOOSE W : Nested(W, ops) /\ s[x] \in Seq(W)
               F == {H(x) : x \in Parts(s.op)}
               V == (UNION F) \cup {s}
    <2>1. \A x \in Parts(s.op) : Nested(H(x), ops) /\ s[x] \in Seq(H(x))
      BY <1>2, ProgramSet
    <2> HIDE DEF H
    <2>2. \A W \in F : Nested(W, ops)
      BY <2>1
    <2>3. Nested(UNION F, ops)
      BY <2>2, NestedUnion
    <2>4. Seq(UNION F) \subseteq Seq(V)
      BY SeqMonotonic
    <2>5. \A x \in Parts(s.op) : s[x] \in Seq(V)
      <3> SUFFICES ASSUME NEW x \in Parts(s.op) PROVE s[x] \in Seq(V)
        OBVIOUS
      <3>1. Seq(H(x)) \subseteq Seq(V)
        BY SeqMonotonic
      <3> QED BY <2>1, <3>1
    <2>6. Nested(V, ops)
      BY <1>2, <2>3, <2>4, <2>5 DEF Nested
    <2> QED BY <2>6 DEF WellMade
  <1> QED BY <1>1, <1>2

\* Programs put together are programs.
LEMMA ProgramCat ==
  ASSUME NEW ops, NEW t, NEW u, Program(t, ops), Program(u, ops)
  PROVE  Program(t \o u, ops)
  <1>1. IsSeq(t) /\ IsSeq(u)
    BY DEF Program
  <1>2. ASSUME NEW k \in 1 .. (Len(t) + Len(u)) PROVE WellMade((t \o u)[k], ops)
    <2>1. (t \o u)[k] = IF k <= Len(t) THEN t[k] ELSE u[k - Len(t)]
      BY <1>1, Cat
    <2>2. k <= Len(t) => k \in 1 .. Len(t)
      BY <1>1, Cat
    <2>3. ~(k <= Len(t)) => k - Len(t) \in 1 .. Len(u)
      BY <1>1, Cat
    <2> QED BY <2>1, <2>2, <2>3 DEF Program
  <1> QED BY <1>1, <1>2, Cat DEF Program

\* So is a repetition.
LEMMA ProgramRep ==
  ASSUME NEW ops, NEW t, Program(t, ops), NEW n \in Nat
  PROVE  Program(Rep(n, t), ops)
  BY RepElements DEF Program

\* A program without its first step, and that step.
LEMMA ProgramTail ==
  ASSUME NEW ops, NEW t, Program(t, ops), t # << >>
  PROVE  WellMade(Head(t), ops) /\ Program(Tail(t), ops)
  <1>1. PICK S : t \in Seq(S)
    BY DEF Program, IsSeq
  <1>2. /\ Tail(t) \in Seq(S) /\ Len(t) > 0 /\ Len(t) \in Nat /\ Head(t) = t[1]
        /\ Len(Tail(t)) = Len(t) - 1
        /\ \A k \in 1 .. (Len(t) - 1) : Tail(t)[k] = t[k + 1]
    BY <1>1
  <1>3. \A k \in 1 .. (Len(t) - 1) : k + 1 \in 1 .. Len(t)
    BY <1>2
  <1>4. 1 \in 1 .. Len(t)
    BY <1>2
  <1> QED BY <1>2, <1>3, <1>4 DEF Program, IsSeq

\* Steps that hold no others, and the ways to put programs into steps.
LEMMA Making ==
  ASSUME NEW ops, Ops \ {"say"} \subseteq ops
  PROVE  /\ \A v \in BOOLEAN : WellMade(Assign(v), ops)
         /\ \A x \in Statuses : WellMade(End(x), ops)
         /\ WellMade(Miss, ops) /\ WellMade(OpenHelper, ops) /\ WellMade(CloseHelper, ops)
         /\ WellMade(SubReaper, ops) /\ WellMade(Spin, ops)
         /\ "say" \in ops => WellMade(Say, ops)
         /\ \A g, b : Program(g, ops) /\ Program(b, ops) =>
              WellMade(Call(g, b), ops) /\ WellMade(Pick(g, b), ops)
         /\ \A c, y, n : Program(y, ops) /\ Program(n, ops) => WellMade(If(c, y, n), ops)
         /\ \A t : Program(t, ops) => WellMade(Become(t), ops)
         /\ \A c, p, f : Program(c, ops) /\ Program(p, ops) /\ Program(f, ops) =>
              WellMade(Fork(c, p, f), ops)
         /\ \A z, o, s, n : Program(z, ops) /\ Program(o, ops) /\ Program(s, ops) /\ Program(n, ops) =>
              WellMade(Wait(z, o, s, n), ops)
  <1>1. \A v \in BOOLEAN : WellMade(Assign(v), ops)
    BY MadeIff DEF Assign, Typed, Parts, Ops
  <1>2. \A x \in Statuses : WellMade(End(x), ops)
    BY MadeIff DEF End, Typed, Parts, Ops
  <1>3. /\ WellMade(Miss, ops) /\ WellMade(OpenHelper, ops) /\ WellMade(CloseHelper, ops)
        /\ WellMade(SubReaper, ops) /\ WellMade(Spin, ops)
    BY MadeIff DEF Miss, OpenHelper, CloseHelper, SubReaper, Spin, Typed, Parts, Ops
  <1>4. "say" \in ops => WellMade(Say, ops)
    BY MadeIff DEF Say, Typed, Parts
  <1>5. ASSUME NEW g, NEW b, Program(g, ops), Program(b, ops)
        PROVE  WellMade(Call(g, b), ops) /\ WellMade(Pick(g, b), ops)
    <2>1. /\ Call(g, b).op = "call" /\ Call(g, b)["good"] = g /\ Call(g, b)["bad"] = b
          /\ Pick(g, b).op = "pick" /\ Pick(g, b)["good"] = g /\ Pick(g, b)["bad"] = b
      BY DEF Call, Pick
    <2>2. Parts("call") = {"good", "bad"} /\ Parts("pick") = {"good", "bad"}
      BY DEF Parts
    <2> QED BY <1>5, <2>1, <2>2, MadeIff DEF Typed, Ops
  <1>6. ASSUME NEW c, NEW y, NEW n, Program(y, ops), Program(n, ops)
        PROVE  WellMade(If(c, y, n), ops)
    <2>1. If(c, y, n).op = "if" /\ If(c, y, n)["yes"] = y /\ If(c, y, n)["no"] = n
      BY DEF If
    <2>2. Parts("if") = {"yes", "no"}
      BY DEF Parts
    <2> QED BY <1>6, <2>1, <2>2, MadeIff DEF Typed, Ops
  <1>7. ASSUME NEW t, Program(t, ops) PROVE WellMade(Become(t), ops)
    <2>1. Become(t).op = "become" /\ Become(t)["steps"] = t
      BY DEF Become
    <2>2. Parts("become") = {"steps"}
      BY DEF Parts
    <2> QED BY <1>7, <2>1, <2>2, MadeIff DEF Typed, Ops
  <1>8. ASSUME NEW c, NEW p, NEW f, Program(c, ops), Program(p, ops), Program(f, ops)
        PROVE  WellMade(Fork(c, p, f), ops)
    <2>1. /\ Fork(c, p, f).op = "fork" /\ Fork(c, p, f)["child"] = c
          /\ Fork(c, p, f)["parent"] = p /\ Fork(c, p, f)["failed"] = f
      BY DEF Fork
    <2>2. Parts("fork") = {"child", "parent", "failed"}
      BY DEF Parts
    <2> QED BY <1>8, <2>1, <2>2, MadeIff DEF Typed, Ops
  <1>9. ASSUME NEW z, NEW o, NEW s, NEW n,
               Program(z, ops), Program(o, ops), Program(s, ops), Program(n, ops)
        PROVE  WellMade(Wait(z, o, s, n), ops)
    <2>1. /\ Wait(z, o, s, n).op = "wait" /\ Wait(z, o, s, n)["zero"] = z
          /\ Wait(z, o, s, n)["other"] = o /\ Wait(z, o, s, n)["signal"] = s
          /\ Wait(z, o, s, n)["none"] = n
      BY DEF Wait
    <2>2. Parts("wait") = {"zero", "other", "signal", "none"}
      BY DEF Parts
    <2> QED BY <1>9, <2>1, <2>2, MadeIff DEF Typed, Ops
  <1> QED BY <1>1, <1>2, <1>3, <1>4, <1>5, <1>6, <1>7, <1>8, <1>9

\* Tuples of well-made steps.
LEMMA ProgramTuples ==
  ASSUME NEW ops
  PROVE  LET W(s) == WellMade(s, ops) IN
         /\ Program(<< >>, ops)
         /\ \A a : W(a) => Program(<<a>>, ops)
         /\ \A a, b : W(a) /\ W(b) => Program(<<a, b>>, ops)
         /\ \A a, b, c : W(a) /\ W(b) /\ W(c) => Program(<<a, b, c>>, ops)
         /\ \A a, b, c, d : W(a) /\ W(b) /\ W(c) /\ W(d) => Program(<<a, b, c, d>>, ops)
         /\ \A a, b, c, d, e : W(a) /\ W(b) /\ W(c) /\ W(d) /\ W(e) => Program(<<a, b, c, d, e>>, ops)
         /\ \A a, b, c, d, e, f : W(a) /\ W(b) /\ W(c) /\ W(d) /\ W(e) /\ W(f) => Program(<<a, b, c, d, e, f>>, ops)
         /\ \A a, b, c, d, e, f, g : W(a) /\ W(b) /\ W(c) /\ W(d) /\ W(e) /\ W(f) /\ W(g) => Program(<<a, b, c, d, e, f, g>>, ops)
         /\ \A a, b, c, d, e, f, g, h : W(a) /\ W(b) /\ W(c) /\ W(d) /\ W(e) /\ W(f) /\ W(g) /\ W(h) => Program(<<a, b, c, d, e, f, g, h>>, ops)
  <1> DEFINE W(s) == WellMade(s, ops)
  <1>0. Program(<< >>, ops)
    <2>1. Len(<< >>) = 0
      OBVIOUS
    <2> QED BY <2>1, Tuples DEF Program
  <1>1. ASSUME NEW a, W(a) PROVE Program(<<a>>, ops)
    <2>1. Len(<<a>>) = 1 /\ <<a>>[1] = a
      OBVIOUS
    <2> QED BY <1>1, <2>1, Tuples DEF Program
  <1>9. ASSUME NEW s, NEW u, W(s), Program(u, ops) PROVE Program(<<s>> \o u, ops)
    BY <1>1, <1>9, ProgramCat
  <1> HIDE DEF W
  <1>2. ASSUME NEW a, NEW b, W(a), W(b)
        PROVE  Program(<<a, b>>, ops)
    <2>1. <<a, b>> = <<a>> \o <<b>>
      BY Tuples
    <2> QED BY <1>2, <1>1, <1>9, <2>1
  <1>3. ASSUME NEW a, NEW b, NEW c, W(a), W(b), W(c)
        PROVE  Program(<<a, b, c>>, ops)
    <2>1. <<a, b, c>> = <<a>> \o <<b, c>>
      BY Tuples, SMTT(30)
    <2> QED BY <1>3, <1>2, <1>9, <2>1
  <1>4. ASSUME NEW a, NEW b, NEW c, NEW d, W(a), W(b), W(c), W(d)
        PROVE  Program(<<a, b, c, d>>, ops)
    <2>1. <<a, b, c, d>> = <<a>> \o <<b, c, d>>
      BY Tuples, SMTT(30)
    <2> QED BY <1>4, <1>3, <1>9, <2>1
  <1>5. ASSUME NEW a, NEW b, NEW c, NEW d, NEW e, W(a), W(b), W(c), W(d), W(e)
        PROVE  Program(<<a, b, c, d, e>>, ops)
    <2>1. <<a, b, c, d, e>> = <<a>> \o <<b, c, d, e>>
      BY Tuples, SMTT(30)
    <2> QED BY <1>5, <1>4, <1>9, <2>1
  <1>6. ASSUME NEW a, NEW b, NEW c, NEW d, NEW e, NEW f, W(a), W(b), W(c), W(d), W(e), W(f)
        PROVE  Program(<<a, b, c, d, e, f>>, ops)
    <2>1. <<a, b, c, d, e, f>> = <<a>> \o <<b, c, d, e, f>>
      BY Tuples, SMTT(30)
    <2> QED BY <1>6, <1>5, <1>9, <2>1
  <1>7. ASSUME NEW a, NEW b, NEW c, NEW d, NEW e, NEW f, NEW g, W(a), W(b), W(c), W(d), W(e), W(f), W(g)
        PROVE  Program(<<a, b, c, d, e, f, g>>, ops)
    <2>1. <<a, b, c, d, e, f, g>> = <<a>> \o <<b, c, d, e, f, g>>
      BY Tuples, SMTT(30)
    <2> QED BY <1>7, <1>6, <1>9, <2>1
  <1>8. ASSUME NEW a, NEW b, NEW c, NEW d, NEW e, NEW f, NEW g, NEW h, W(a), W(b), W(c), W(d), W(e), W(f), W(g), W(h)
        PROVE  Program(<<a, b, c, d, e, f, g, h>>, ops)
    <2>1. <<a, b, c, d, e, f, g, h>> = <<a>> \o <<b, c, d, e, f, g, h>>
      BY Tuples, SMTT(30)
    <2> QED BY <1>8, <1>7, <1>9, <2>1
  <1> QED BY <1>0, <1>1, <1>2, <1>3, <1>4, <1>5, <1>6, <1>7, <1>8 DEF W

\* Chains of programs are programs.
LEMMA ProgramChain ==
  ASSUME NEW t, NEW e, Program(t, Ops), Program(e, Ops)
  PROVE  Program(Chain(1, t, e), Ops) /\ Program(Chain(2, t, e), Ops) /\ Program(Chain(3, t, e), Ops)
  <1>1. Program(<<Call(t, e)>>, Ops)
    BY Making, ProgramTuples
  <1>2. Program(<<Call(<<Call(t, e)>>, e)>>, Ops)
    BY <1>1, Making, ProgramTuples
  <1>3. Program(<<Call(<<Call(<<Call(t, e)>>, e)>>, e)>>, Ops)
    BY <1>2, Making, ProgramTuples
  <1>4. /\ Chain(1, t, e) = <<Call(t, e)>> /\ Chain(2, t, e) = <<Call(<<Call(t, e)>>, e)>>
        /\ Chain(3, t, e) = <<Call(<<Call(<<Call(t, e)>>, e)>>, e)>>
    BY ChainUnfold
  <1> QED BY <1>1, <1>2, <1>3, <1>4

\* The idioms of the ported tests are well made.
LEMMA Idioms ==
  /\ WellMade(Exit, Ops) /\ WellMade(Die, Ops) /\ WellMade(Fail, Ops) /\ WellMade(Say, Ops)
  /\ WellMade(End("other"), Ops)
  /\ WellMade(Need, Ops) /\ WellMade(Check, Ops) /\ WellMade(Note, Ops) /\ WellMade(Touch, Ops)
  /\ WellMade(Undefined, Ops) /\ WellMade(Verdict, Ops) /\ WellMade(Same, Ops)
  /\ Program(OneCall, Ops)
  /\ \A n \in Nat : Program(Needs(n), Ops)
  /\ Program(Case(1), Ops) /\ Program(Case(2), Ops) /\ Program(Case(3), Ops)
  <1> DEFINE W(s) == WellMade(s, Ops)
             P(t) == Program(t, Ops)
  <1>1. W(Exit) /\ W(Die) /\ W(Fail) /\ W(Say) /\ W(End("other"))
    BY Making DEF Exit, Die, Fail, Statuses, Ops
  <1>2. P(<< >>) /\ P(<<Exit>>) /\ P(<<Die>>) /\ P(<<Fail>>) /\ P(<<Say>>)
    BY <1>1, ProgramTuples
  <1>3. W(Need) /\ W(Check) /\ W(Note) /\ W(Touch) /\ W(Undefined) /\ W(Verdict) /\ W(Same)
    BY <1>2, Making DEF Need, Check, Note, Touch, Undefined, Verdict, Same
  <1>4. P(<<Need>>) /\ P(<<Check>>) /\ P(OneCall)
    BY <1>3, ProgramTuples DEF OneCall, Same
  <1>5. \A n \in Nat : P(Needs(n))
    BY <1>4, ProgramRep DEF Needs
  <1>6. P(Case(1)) /\ P(Case(2)) /\ P(Case(3))
    BY <1>2, ProgramChain DEF Case
  <1> QED BY <1>1, <1>3, <1>4, <1>5, <1>6

\* Every ported program is well made.
LEMMA ScriptsMade == \A x \in DOMAIN Script : Program(Script[x], Ops)
  <1> DEFINE P(t) == Program(t, Ops)
  <1> USE Idioms, Making, ProgramTuples, ProgramCat, ProgramRep, ProgramChain, RoundsAssumption
  <1>1. P(brk01)
    BY DEF brk01
  <1>2. P(brk02)
    BY DEF brk02
  <1>3. P(close01)
    BY DEF close01
  <1>4. P(close02)
    BY DEF close02
  <1>5. P(eventfd01)
    BY DEF eventfd01
  <1>6. P(faccessat01)
    BY DEF faccessat01
  <1>7. P(execve01_child)
    BY DEF execve01_child
  <1>8. P(execve_child)
    BY DEF execve_child
  <1>9. P(execve06_child)
    BY DEF execve06_child
  <1>10. P(execve01)
    BY DEF execve01, Exec
  <1>11. P(execve02)
    BY DEF execve02
  <1>12. P(execve03)
    BY DEF execve03
  <1>13. P(execve04)
    BY DEF execve04
  <1>14. P(execve05)
    BY DEF execve05, Exec
  <1>15. P(execve06)
    BY DEF execve06
  <1>16. P(fcntl01)
    BY DEF fcntl01
  <1>17. P(fcntl02)
    BY DEF fcntl02
  <1>18. P(fcntl03)
    BY DEF fcntl03
  <1>19. P(fcntl04)
    BY DEF fcntl04
  <1>20. P(fcntl05)
    BY DEF fcntl05
  <1>21. P(fcntl06)
    BY DEF fcntl06
  <1>22. P(fcntl07)
    BY DEF fcntl07
  <1>23. P(fcntl08)
    BY DEF fcntl08
  <1>24. P(fcntl09)
    BY DEF fcntl09
  <1>25. P(fcntl10)
    BY DEF fcntl10
  <1>26. P(fcntl12)
    BY DEF fcntl12
  <1>27. P(mmap001)
    BY DEF mmap001
  <1>28. P(mmap01)
    BY DEF mmap01
  <1>29. P(mmap02)
    BY DEF mmap02
  <1>30. P(mmap03)
    BY DEF mmap03
  <1>31. P(mmap04)
    BY DEF mmap04
  <1>32. P(mmap05)
    BY DEF mmap05
  <1>33. P(mmap06)
    BY DEF mmap06
  <1>34. P(mmap07)
    BY DEF mmap07
  <1>35. P(mmap08)
    BY DEF mmap08
  <1>36. P(mmap09)
    BY DEF mmap09
  <1>37. P(mmap10)
    BY DEF mmap10, mmapzero
  <1>38. P(mmap11)
    BY DEF mmap11
  <1>39. P(mmap12)
    BY DEF mmap12
  <1>40. P(mmap13)
    BY DEF mmap13
  <1>41. P(mmap14)
    BY DEF mmap14
  <1>42. P(mmap15)
    BY DEF mmap15
  <1>43. P(mmap17)
    BY DEF mmap17
  <1>44. P(mmap18)
    BY DEF mmap18
  <1>45. P(mmap19)
    BY DEF mmap19
  <1>46. P(mprotect01)
    BY DEF mprotect01
  <1>47. P(mprotect02)
    BY DEF mprotect02
  <1>48. P(mprotect03)
    BY DEF mprotect03
  <1>49. P(munmap01)
    BY DEF munmap01
  <1>50. P(munmap02)
    BY DEF munmap02
  <1>51. P(munmap03)
    BY DEF munmap03
  <1>52. P(openat01)
    BY DEF openat01
  <1>53. P(openat02)
    BY DEF openat02
  <1>54. P(openat02_child)
    BY DEF openat02_child
  <1>55. P(openat03)
    BY DEF openat03
  <1>56. P(openat04)
    BY DEF openat04
  <1>57. P(ppoll01)
    BY DEF ppoll01
  <1>58. P(prctl01)
    BY DEF prctl01
  <1>59. P(prctl02)
    BY DEF prctl02
  <1>60. P(prctl03)
    BY DEF prctl03
  <1>61. P(prctl05)
    BY DEF prctl05
  <1>62. P(prctl06)
    BY DEF prctl06
  <1>63. P(prctl06_execve)
    BY DEF prctl06_execve
  <1>64. P(prctl07)
    BY DEF prctl07
  <1>65. P(prctl08)
    BY DEF prctl08
  <1>66. P(prctl10)
    BY DEF prctl10
  <1>67. P(read01)
    BY DEF read01
  <1>68. P(read02)
    BY DEF read02
  <1>69. P(read03)
    BY DEF read03
  <1>70. P(read04)
    BY DEF read04
  <1>71. P(write01)
    BY DEF write01
  <1>72. P(write02)
    BY DEF write02
  <1>73. P(write04)
    BY DEF write04
  <1>74. P(write05)
    BY DEF write05
  <1>75. P(write06)
    BY DEF write06
  <1>76. P(sigprocmask01)
    BY DEF sigprocmask01
  <1>77. P(set_tid_address01)
    BY DEF set_tid_address01
  <1>78. P(sched_setattr01)
    BY DEF sched_setattr01
  <1>79. P(sched_getaffinity01)
    BY DEF sched_getaffinity01
  <1> QED BY <1>1, <1>2, <1>3, <1>4, <1>5, <1>6, <1>7, <1>8, <1>9, <1>10, <1>11, <1>12, <1>13, <1>14, <1>15, <1>16, <1>17, <1>18, <1>19, <1>20, <1>21, <1>22, <1>23, <1>24, <1>25, <1>26, <1>27, <1>28, <1>29, <1>30, <1>31, <1>32, <1>33, <1>34, <1>35, <1>36, <1>37, <1>38, <1>39, <1>40, <1>41, <1>42, <1>43, <1>44, <1>45, <1>46, <1>47, <1>48, <1>49, <1>50, <1>51, <1>52, <1>53, <1>54, <1>55, <1>56, <1>57, <1>58, <1>59, <1>60, <1>61, <1>62, <1>63, <1>64, <1>65, <1>66, <1>67, <1>68, <1>69, <1>70, <1>71, <1>72, <1>73, <1>74, <1>75, <1>76, <1>77, <1>78, <1>79 DEF Script

-----------------------------------------------------------------------------
(* Runs of a process on its own                                            *)

\* What a step that concerns its process alone makes of the steps to do t, the flag o,
\* whether the buffer holds a verdict (b), and whether some call has failed (x).
Moves(t, o, b, x) ==
  LET s == Head(t)
      u == Tail(t)
  IN  CASE s.op = "call" -> {<<s.good \o u, o, b, x>>, <<s.bad \o u, o, b, TRUE>>}
        [] s.op = "miss" -> {<<u, o, b, TRUE>>}
        [] s.op = "pick" -> {<<s.good \o u, o, b, x>>, <<s.bad \o u, o, b, x>>}
        [] s.op = "if"   -> IF s.cond = "ok"
                              THEN {<<(IF o THEN s.yes ELSE s.no) \o u, o, b, x>>}
                              ELSE {<<s.yes \o u, o, b, x>>, <<s.no \o u, o, b, x>>}
        [] s.op = "assign" -> {<<u, s.val, b, x>>}
        [] s.op = "say"    -> {<<u, o, TRUE, x>>}
        [] s.op \in {"open", "close", "subreaper"} -> {<<u, o, b, x>>}
        [] s.op = "become" -> {<<s.steps, TRUE, FALSE, x>>}
        [] OTHER -> {}

\* The branches of a well-made step, followed by the rest of its program, are programs.
LEMMA BranchMade ==
  ASSUME NEW ops, NEW t, t # << >>, Program(t, ops), NEW y \in Parts(Head(t).op)
  PROVE  Program(Head(t)[y] \o Tail(t), ops)
  <1>1. WellMade(Head(t), ops) /\ Program(Tail(t), ops)
    BY ProgramTail
  <1>2. Program(Head(t)[y], ops)
    BY <1>1, MadeIff
  <1> QED BY <1>1, <1>2, ProgramCat

\* What moves make of a program is a program.
LEMMA MovesMade ==
  ASSUME NEW ops, NEW t, t # << >>, Program(t, ops), NEW o \in BOOLEAN, NEW b, NEW x \in BOOLEAN,
         NEW m \in Moves(t, o, b, x)
  PROVE  Program(m[1], ops) /\ m[2] \in BOOLEAN /\ m[4] \in BOOLEAN
  <1> DEFINE s == Head(t)
             u == Tail(t)
  <1>1. WellMade(s, ops) /\ Program(u, ops)
    BY ProgramTail
  <1>2. Typed(s, ops) /\ \A y \in Parts(s.op) : Program(s[y], ops) /\ Program(s[y] \o u, ops)
    BY <1>1, MadeIff, BranchMade
  <1>3. CASE s.op \in {"call", "pick"}
    <2>1. Program(s.good \o u, ops) /\ Program(s.bad \o u, ops)
      BY <1>2, <1>3 DEF Parts
    <2> HIDE DEF s, u
    <2>2. \/ m = <<s.good \o u, o, b, x>> \/ m = <<s.bad \o u, o, b, TRUE>>
          \/ m = <<s.bad \o u, o, b, x>>
      BY <1>3 DEF Moves, s, u
    <2>3. CASE m = <<s.bad \o u, o, b, TRUE>>
      BY <2>1, <2>3
    <2>4. CASE m = <<s.good \o u, o, b, x>> \/ m = <<s.bad \o u, o, b, x>>
      <3>1. (m[1] = s.good \o u \/ m[1] = s.bad \o u) /\ m[2] = o /\ m[4] = x
        BY <2>4
      <3> QED BY <2>1, <3>1
    <2> QED BY <2>2, <2>3, <2>4
  <1>4. CASE s.op = "if"
    <2>1. Program(s.yes \o u, ops) /\ Program(s.no \o u, ops)
      BY <1>2, <1>4 DEF Parts
    <2> HIDE DEF s, u
    <2>2. m = <<s.yes \o u, o, b, x>> \/ m = <<s.no \o u, o, b, x>>
      BY <1>4 DEF Moves, s, u
    <2>3. (m[1] = s.yes \o u \/ m[1] = s.no \o u) /\ m[2] = o /\ m[4] \in BOOLEAN
      BY <2>2
    <2> QED BY <2>1, <2>3
  <1>5. CASE s.op = "become"
    <2>1. Program(s.steps, ops)
      BY <1>2, <1>5 DEF Parts
    <2> HIDE DEF s, u
    <2>2. m = <<s.steps, TRUE, FALSE, x>>
      BY <1>5 DEF Moves, s, u
    <2> QED BY <2>1, <2>2
  <1>6. CASE s.op = "assign"
    <2>1. s.val \in BOOLEAN
      BY <1>2, <1>6 DEF Typed
    <2> HIDE DEF s, u
    <2>2. m = <<u, s.val, b, x>>
      BY <1>6 DEF Moves, s, u
    <2> QED BY <1>1, <2>1, <2>2
  <1>7. CASE s.op \notin {"call", "pick", "if", "become", "assign"}
    <2> HIDE DEF s, u
    <2>1. m = <<u, o, b, TRUE>> \/ m = <<u, o, TRUE, x>> \/ m = <<u, o, b, x>>
      BY <1>7 DEF Moves, s, u
    <2>2. CASE m = <<u, o, b, TRUE>>
      BY <1>1, <2>2
    <2>3. CASE m = <<u, o, TRUE, x>>
      BY <1>1, <2>3
    <2>4. CASE m = <<u, o, b, x>>
      BY <1>1, <2>4
    <2> QED BY <2>1, <2>2, <2>3, <2>4
  <1> QED BY <1>3, <1>4, <1>5, <1>6, <1>7
-----------------------------------------------------------------------------
(* A judgement on runs.  The state of a run is <<t, o, b, l, x>>: the steps *)
(* to do, the flag, whether the buffer and the log hold a verdict, whether *)
(* some call has failed.  Its outcomes are <<status, b, l, x>>.  A child   *)
(* is judged like a subroutine: its parent waits for it at once.           *)

\* What follows a wait for a process that ended with status z.
Reply(s, z) == CASE z = "zero" -> s.zero [] z = "other" -> s.other [] z = "signal" -> s.signal

\* Whether the log holds a verdict after the end of a process with status z.
Wrote(z, b, l) == l \/ (b /\ z # "signal")

\* What can come after a state is in X, and the outcomes are in E.
Follows(t, o, b, l, x, E, X) ==
  LET s == Head(t)
      u == Tail(t)
      v == s.parent \o u
  IN  IF t = << >> THEN <<"zero", b, l, x>> \in E /\ <<"other", b, l, x>> \in E
      ELSE CASE s.op = "end"  -> <<s.status, b, l, x>> \in E
             [] s.op = "wait" -> <<s.none \o u, o, b, l, x, E>> \in X
             [] s.op = "fork" ->
                  /\ <<s.failed \o u, o, b, l, TRUE, E>> \in X
                  /\ v # << >> /\ Head(v).op = "wait"
                  /\ \E F : /\ <<s.child \o u, o, b, l, x, F>> \in X
                            /\ \A z \in Statuses, c, m, y, w \in BOOLEAN :
                                 <<z, c, m, y>> \in F /\ (w <=> Wrote(z, c, m)) =>
                                   <<Reply(Head(v), z) \o Tail(v), o, b, w, y, E>> \in X
             [] OTHER -> \A m \in Moves(t, o, b, x) : <<m[1], m[2], m[3], l, m[4], E>> \in X

Closed(X) ==
  \A t, o, b, l, x, E : <<t, o, b, l, x, E>> \in X => Follows(t, o, b, l, x, E, X)

\* From the state, a run ends with an outcome in E and nobody left, if it ends.
Run(t, o, b, l, x, E) == \E X : <<t, o, b, l, x, E>> \in X /\ Closed(X)

\* More runs may follow when the set of runs is larger.
LEMMA FollowsMore ==
  ASSUME NEW t, NEW o, NEW b, NEW l, NEW x, NEW E, NEW X, NEW Y, X \subseteq Y,
         Follows(t, o, b, l, x, E, X)
  PROVE  Follows(t, o, b, l, x, E, Y)
  <1> DEFINE s == Head(t)
             u == Tail(t)
             v == s.parent \o u
  <1>1. CASE t = << >>
    BY <1>1 DEF Follows
  <1>2. CASE t # << >> /\ s.op = "end"
    BY <1>2 DEF Follows
  <1>3. CASE t # << >> /\ s.op = "wait"
    BY <1>3 DEF Follows
  <1>4. CASE t # << >> /\ s.op = "fork"
    <2> DEFINE Heard(F, Z) == \A z \in Statuses, c, m, y, w \in BOOLEAN :
                                <<z, c, m, y>> \in F /\ (w <=> Wrote(z, c, m)) =>
                                  <<Reply(Head(v), z) \o Tail(v), o, b, w, y, E>> \in Z
    <2>1. /\ <<s.failed \o u, o, b, l, TRUE, E>> \in X
          /\ v # << >> /\ Head(v).op = "wait"
          /\ \E F : <<s.child \o u, o, b, l, x, F>> \in X /\ Heard(F, X)
      BY <1>4 DEF Follows
    <2>2. /\ <<s.failed \o u, o, b, l, TRUE, E>> \in Y
          /\ v # << >> /\ Head(v).op = "wait"
          /\ \E F : <<s.child \o u, o, b, l, x, F>> \in Y /\ Heard(F, Y)
      <3> HIDE DEF s, u, v
      <3>1. PICK F : <<s.child \o u, o, b, l, x, F>> \in X /\ Heard(F, X)
        BY <2>1
      <3>2. <<s.failed \o u, o, b, l, TRUE, E>> \in Y /\ <<s.child \o u, o, b, l, x, F>> \in Y
        BY <2>1, <3>1
      <3>3. Heard(F, Y)
        BY <3>1
      <3> HIDE DEF Heard
      <3> QED BY <2>1, <3>2, <3>3
    <2> QED BY <1>4, <2>2 DEF Follows
  <1>5. CASE t # << >> /\ s.op \notin {"end", "wait", "fork"}
    <2>1. \A m \in Moves(t, o, b, x) : <<m[1], m[2], m[3], l, m[4], E>> \in X
      BY <1>5 DEF Follows
    <2>2. \A m \in Moves(t, o, b, x) : <<m[1], m[2], m[3], l, m[4], E>> \in Y
      BY <2>1
    <2> QED BY <1>5, <2>2 DEF Follows
  <1> QED BY <1>1, <1>2, <1>3, <1>4, <1>5

\* What it takes for a fork.
LEMMA FollowsFork ==
  ASSUME NEW t, NEW o, NEW b, NEW l, NEW x, NEW E, NEW X, NEW F,
         t # << >>, Head(t).op = "fork",
         <<Head(t).failed \o Tail(t), o, b, l, TRUE, E>> \in X,
         <<Head(t).child \o Tail(t), o, b, l, x, F>> \in X,
         Head(t).parent \o Tail(t) # << >>, Head(Head(t).parent \o Tail(t)).op = "wait",
         \A z \in Statuses, c, m, y, w \in BOOLEAN :
           <<z, c, m, y>> \in F /\ (w <=> Wrote(z, c, m)) =>
             <<Reply(Head(Head(t).parent \o Tail(t)), z) \o Tail(Head(t).parent \o Tail(t)), o, b, w, y, E>> \in X
  PROVE  Follows(t, o, b, l, x, E, X)
  <1> DEFINE v == Head(t).parent \o Tail(t)
             Heard(G) == \A z \in Statuses, c, m, y, w \in BOOLEAN :
                           <<z, c, m, y>> \in G /\ (w <=> Wrote(z, c, m)) =>
                             <<Reply(Head(v), z) \o Tail(v), o, b, w, y, E>> \in X
  <1>1. \E G : <<Head(t).child \o Tail(t), o, b, l, x, G>> \in X /\ Heard(G)
    <2>1. Heard(F)
      OBVIOUS
    <2> HIDE DEF Heard
    <2> QED BY <2>1
  <1> QED BY <1>1 DEF Follows

\* The union of closed sets of runs is closed.
LEMMA ClosedUnion ==
  ASSUME NEW F, \A X \in F : Closed(X)
  PROVE  Closed(UNION F)
  <1> SUFFICES ASSUME NEW t, NEW o, NEW b, NEW l, NEW x, NEW E, <<t, o, b, l, x, E>> \in UNION F
               PROVE  Follows(t, o, b, l, x, E, UNION F)
    BY DEF Closed
  <1>1. PICK X \in F : <<t, o, b, l, x, E>> \in X
    OBVIOUS
  <1>2. Follows(t, o, b, l, x, E, X)
    BY <1>1 DEF Closed
  <1>3. X \subseteq UNION F
    BY <1>1
  <1> QED BY <1>2, <1>3, FollowsMore

\* A state whose followers are judged is judged.
LEMMA Judge ==
  ASSUME NEW t, NEW o, NEW b, NEW l, NEW x, NEW E, NEW R,
         \A c \in R : \E X : c \in X /\ Closed(X),
         Follows(t, o, b, l, x, E, R)
  PROVE  Run(t, o, b, l, x, E)
  <1> DEFINE H(c) == CHOOSE X : c \in X /\ Closed(X)
             F == {H(c) : c \in R}
             n == <<t, o, b, l, x, E>>
             Y == (UNION F) \cup {n}
  <1>1. \A c \in R : c \in H(c) /\ Closed(H(c))
    OBVIOUS
  <1> HIDE DEF H
  <1>2. Closed(UNION F)
    <2>1. \A X \in F : Closed(X)
      BY <1>1
    <2> HIDE DEF F
    <2> QED BY <2>1, ClosedUnion
  <1>3. R \subseteq Y /\ UNION F \subseteq Y
    BY <1>1
  <1>4. Follows(t, o, b, l, x, E, Y)
    <2> HIDE DEF Y
    <2> QED BY <1>3, FollowsMore
  <1>5. ASSUME NEW t1, NEW o1, NEW b1, NEW l1, NEW x1, NEW E1, <<t1, o1, b1, l1, x1, E1>> \in Y
        PROVE  Follows(t1, o1, b1, l1, x1, E1, Y)
    <2>1. CASE <<t1, o1, b1, l1, x1, E1>> = n
      <3>1. t1 = t /\ o1 = o /\ b1 = b /\ l1 = l /\ x1 = x /\ E1 = E
        BY <2>1
      <3> HIDE DEF Y
      <3> QED BY <1>4, <3>1
    <2>2. CASE <<t1, o1, b1, l1, x1, E1>> \in UNION F
      <3>1. Follows(t1, o1, b1, l1, x1, E1, UNION F)
        BY <1>2, <2>2 DEF Closed
      <3> HIDE DEF Y, F
      <3> QED BY <1>3, <3>1, FollowsMore
    <2> QED BY <1>5, <2>1, <2>2
  <1>6. n \in Y /\ Closed(Y)
    <2> HIDE DEF F
    <2> QED BY <1>5 DEF Closed
  <1> HIDE DEF Y
  <1> QED BY <1>6 DEF Run

\* The step after which a run can only be in one of the states of a judged set.
LEMMA JudgeLone ==
  ASSUME NEW t, NEW o, NEW b, NEW l, NEW x, NEW E, t # << >>,
         Head(t).op \notin {"end", "wait", "fork"},
         \A m \in Moves(t, o, b, x) : Run(m[1], m[2], m[3], l, m[4], E)
  PROVE  Run(t, o, b, l, x, E)
  <1> DEFINE R == {<<m[1], m[2], m[3], l, m[4], E>> : m \in Moves(t, o, b, x)}
  <1>1. \A c \in R : \E X : c \in X /\ Closed(X)
    BY DEF Run
  <1>2. Follows(t, o, b, l, x, E, R)
    <2>1. \A m \in Moves(t, o, b, x) : <<m[1], m[2], m[3], l, m[4], E>> \in R
      OBVIOUS
    <2> HIDE DEF R
    <2> QED BY <2>1 DEF Follows
  <1> HIDE DEF R
  <1> QED BY <1>1, <1>2, Judge

\* The judgement, step by step.
LEMMA RunSteps ==
  ASSUME NEW o, NEW b, NEW l, NEW x, NEW E
  PROVE  /\ <<"zero", b, l, x>> \in E /\ <<"other", b, l, x>> \in E => Run(<< >>, o, b, l, x, E)
         /\ \A u, z : IsSeq(u) /\ <<z, b, l, x>> \in E => Run(<<End(z)>> \o u, o, b, l, x, E)
         /\ \A u, g, f : IsSeq(u) /\ Run(g \o u, o, b, l, x, E) /\ Run(f \o u, o, b, l, TRUE, E)
                         => Run(<<Call(g, f)>> \o u, o, b, l, x, E)
         /\ \A u, g, f : IsSeq(u) /\ Run(g \o u, o, b, l, x, E) /\ Run(f \o u, o, b, l, x, E)
                         => Run(<<Pick(g, f)>> \o u, o, b, l, x, E)
         /\ \A u, c, g, f : IsSeq(u) /\ Run(g \o u, o, b, l, x, E) /\ Run(f \o u, o, b, l, x, E)
                            => Run(<<If(c, g, f)>> \o u, o, b, l, x, E)
         /\ \A u, g, f : IsSeq(u) /\ (o => Run(g \o u, o, b, l, x, E)) /\ (~o => Run(f \o u, o, b, l, x, E))
                         => Run(<<If("ok", g, f)>> \o u, o, b, l, x, E)
         /\ \A u, a : IsSeq(u) /\ Run(u, a, b, l, x, E) => Run(<<Assign(a)>> \o u, o, b, l, x, E)
         /\ \A u : IsSeq(u) /\ Run(u, o, TRUE, l, x, E) => Run(<<Say>> \o u, o, b, l, x, E)
         /\ \A u : IsSeq(u) /\ Run(u, o, b, l, TRUE, E) => Run(<<Miss>> \o u, o, b, l, x, E)
         /\ \A u, a : IsSeq(u) /\ Run(a, TRUE, FALSE, l, x, E) => Run(<<Become(a)>> \o u, o, b, l, x, E)
  <1> DEFINE N(s) == s.op \notin {"end", "wait", "fork"}
  <1>0. ASSUME NEW s, NEW u, IsSeq(u), N(s),
               \A m \in Moves(<<s>> \o u, o, b, x) : Run(m[1], m[2], m[3], l, m[4], E)
        PROVE  Run(<<s>> \o u, o, b, l, x, E)
    <2> DEFINE t == <<s>> \o u
    <2>1. t # << >> /\ Head(t) = s
      BY <1>0, Cons
    <2> HIDE DEF t
    <2> QED BY <1>0, <2>1, JudgeLone DEF t
  <1>m. ASSUME NEW t, NEW o1, NEW b1, NEW x1, Run(t, o1, b1, l, x1, E), NEW m, m = <<t, o1, b1, x1>>
        PROVE  Run(m[1], m[2], m[3], l, m[4], E)
    <2>1. m[1] = t /\ m[2] = o1 /\ m[3] = b1 /\ m[4] = x1
      BY <1>m
    <2> QED BY <1>m, <2>1
  <1>1. ASSUME <<"zero", b, l, x>> \in E, <<"other", b, l, x>> \in E PROVE Run(<< >>, o, b, l, x, E)
    <2>1. Follows(<< >>, o, b, l, x, E, {})
      BY <1>1 DEF Follows
    <2> QED BY <2>1, Judge
  <1>2. ASSUME NEW u, NEW z, IsSeq(u), <<z, b, l, x>> \in E PROVE Run(<<End(z)>> \o u, o, b, l, x, E)
    <2> DEFINE t == <<End(z)>> \o u
    <2>1. t # << >> /\ Head(t) = End(z) /\ End(z).op = "end" /\ End(z).status = z
      BY <1>2, Cons DEF End
    <2> HIDE DEF t
    <2>2. Follows(t, o, b, l, x, E, {})
      BY <1>2, <2>1 DEF Follows
    <2> QED BY <2>2, Judge DEF t
  <1>3. ASSUME NEW u, NEW g, NEW f, IsSeq(u), Run(g \o u, o, b, l, x, E), Run(f \o u, o, b, l, TRUE, E)
        PROVE  Run(<<Call(g, f)>> \o u, o, b, l, x, E)
    <2> DEFINE s == Call(g, f)
    <2>1. s.op = "call" /\ s.good = g /\ s.bad = f
      BY DEF Call
    <2> HIDE DEF s
    <2>2. Moves(<<s>> \o u, o, b, x) = {<<g \o u, o, b, x>>, <<f \o u, o, b, TRUE>>}
      BY <1>3, <2>1, Cons DEF Moves
    <2>3. \A m \in Moves(<<s>> \o u, o, b, x) : Run(m[1], m[2], m[3], l, m[4], E)
      BY <1>m, <1>3, <2>2
    <2> QED BY <1>0, <1>3, <2>1, <2>3 DEF s
  <1>4. ASSUME NEW u, NEW g, NEW f, IsSeq(u), Run(g \o u, o, b, l, x, E), Run(f \o u, o, b, l, x, E)
        PROVE  Run(<<Pick(g, f)>> \o u, o, b, l, x, E)
    <2> DEFINE s == Pick(g, f)
    <2>1. s.op = "pick" /\ s.good = g /\ s.bad = f
      BY DEF Pick
    <2> HIDE DEF s
    <2>2. Moves(<<s>> \o u, o, b, x) = {<<g \o u, o, b, x>>, <<f \o u, o, b, x>>}
      BY <1>4, <2>1, Cons DEF Moves
    <2>3. \A m \in Moves(<<s>> \o u, o, b, x) : Run(m[1], m[2], m[3], l, m[4], E)
      BY <1>m, <1>4, <2>2
    <2> QED BY <1>0, <1>4, <2>1, <2>3 DEF s
  <1>5. ASSUME NEW u, NEW c, NEW g, NEW f, IsSeq(u), Run(g \o u, o, b, l, x, E), Run(f \o u, o, b, l, x, E)
        PROVE  Run(<<If(c, g, f)>> \o u, o, b, l, x, E)
    <2> DEFINE s == If(c, g, f)
    <2>1. s.op = "if" /\ s.yes = g /\ s.no = f
      BY DEF If
    <2> HIDE DEF s
    <2>2. \A m \in Moves(<<s>> \o u, o, b, x) : m = <<g \o u, o, b, x>> \/ m = <<f \o u, o, b, x>>
      BY <1>5, <2>1, Cons DEF Moves
    <2>3. \A m \in Moves(<<s>> \o u, o, b, x) : Run(m[1], m[2], m[3], l, m[4], E)
      BY <1>m, <1>5, <2>2
    <2> QED BY <1>0, <1>5, <2>1, <2>3 DEF s
  <1>6. ASSUME NEW u, NEW g, NEW f, IsSeq(u), o => Run(g \o u, o, b, l, x, E),
               ~o => Run(f \o u, o, b, l, x, E)
        PROVE  Run(<<If("ok", g, f)>> \o u, o, b, l, x, E)
    <2> DEFINE s == If("ok", g, f)
    <2>1. s.op = "if" /\ s.yes = g /\ s.no = f /\ s.cond = "ok"
      BY DEF If
    <2> HIDE DEF s
    <2>2. \A m \in Moves(<<s>> \o u, o, b, x) :
            (o /\ m = <<g \o u, o, b, x>>) \/ (~o /\ m = <<f \o u, o, b, x>>)
      BY <1>6, <2>1, Cons DEF Moves
    <2>3. ASSUME NEW m \in Moves(<<s>> \o u, o, b, x) PROVE Run(m[1], m[2], m[3], l, m[4], E)
      <3>1. CASE o /\ m = <<g \o u, o, b, x>>
        <4>1. m[1] = g \o u /\ m[2] = o /\ m[3] = b /\ m[4] = x
          BY <3>1
        <4> QED BY <1>6, <3>1, <4>1
      <3>2. CASE ~o /\ m = <<f \o u, o, b, x>>
        <4>1. m[1] = f \o u /\ m[2] = o /\ m[3] = b /\ m[4] = x
          BY <3>2
        <4> QED BY <1>6, <3>2, <4>1
      <3> QED BY <2>2, <3>1, <3>2
    <2> QED BY <1>0, <1>6, <2>1, <2>3 DEF s
  <1>7. ASSUME NEW u, NEW a, IsSeq(u), Run(u, a, b, l, x, E) PROVE Run(<<Assign(a)>> \o u, o, b, l, x, E)
    <2> DEFINE s == Assign(a)
    <2>1. s.op = "assign" /\ s.val = a
      BY DEF Assign
    <2> HIDE DEF s
    <2>2. Moves(<<s>> \o u, o, b, x) = {<<u, a, b, x>>}
      BY <1>7, <2>1, Cons DEF Moves
    <2>3. \A m \in Moves(<<s>> \o u, o, b, x) : Run(m[1], m[2], m[3], l, m[4], E)
      BY <1>m, <1>7, <2>2
    <2> QED BY <1>0, <1>7, <2>1, <2>3 DEF s
  <1>8. ASSUME NEW u, IsSeq(u), Run(u, o, TRUE, l, x, E) PROVE Run(<<Say>> \o u, o, b, l, x, E)
    <2>1. Say.op = "say"
      BY DEF Say
    <2>2. Moves(<<Say>> \o u, o, b, x) = {<<u, o, TRUE, x>>}
      BY <1>8, <2>1, Cons DEF Moves
    <2>3. \A m \in Moves(<<Say>> \o u, o, b, x) : Run(m[1], m[2], m[3], l, m[4], E)
      BY <1>m, <1>8, <2>2
    <2> QED BY <1>0, <1>8, <2>1, <2>3
  <1>9. ASSUME NEW u, IsSeq(u), Run(u, o, b, l, TRUE, E) PROVE Run(<<Miss>> \o u, o, b, l, x, E)
    <2>1. Miss.op = "miss"
      BY DEF Miss
    <2>2. Moves(<<Miss>> \o u, o, b, x) = {<<u, o, b, TRUE>>}
      BY <1>9, <2>1, Cons DEF Moves
    <2>3. \A m \in Moves(<<Miss>> \o u, o, b, x) : Run(m[1], m[2], m[3], l, m[4], E)
      BY <1>m, <1>9, <2>2
    <2> QED BY <1>0, <1>9, <2>1, <2>3
  <1>10. ASSUME NEW u, NEW a, IsSeq(u), Run(a, TRUE, FALSE, l, x, E)
         PROVE  Run(<<Become(a)>> \o u, o, b, l, x, E)
    <2> DEFINE s == Become(a)
    <2>1. s.op = "become" /\ s.steps = a
      BY DEF Become
    <2> HIDE DEF s
    <2>2. Moves(<<s>> \o u, o, b, x) = {<<a, TRUE, FALSE, x>>}
      BY <1>10, <2>1, Cons DEF Moves
    <2>3. \A m \in Moves(<<s>> \o u, o, b, x) : Run(m[1], m[2], m[3], l, m[4], E)
      BY <1>m, <1>10, <2>2
    <2> QED BY <1>0, <1>10, <2>1, <2>3 DEF s
  <1> HIDE DEF N
  <1> QED BY <1>1, <1>2, <1>3, <1>4, <1>5, <1>6, <1>7, <1>8, <1>9, <1>10

\* A fork whose parent waits for the child at once; F has the outcomes of the child.
LEMMA ForkRule ==
  ASSUME NEW o, NEW b, NEW l, NEW x, NEW E, NEW F, NEW u, NEW c, NEW p, NEW f, NEW s, NEW v,
         IsSeq(u), IsSeq(v), s.op = "wait", p \o u = <<s>> \o v,
         Run(f \o u, o, b, l, TRUE, E), Run(c \o u, o, b, l, x, F),
         \A z \in Statuses, d, m, y, w \in BOOLEAN :
           <<z, d, m, y>> \in F /\ (w <=> Wrote(z, d, m)) => Run(Reply(s, z) \o v, o, b, w, y, E)
  PROVE  Run(<<Fork(c, p, f)>> \o u, o, b, l, x, E)
  <1> DEFINE k == Fork(c, p, f)
             t == <<k>> \o u
             Ok(d) == \E X : d \in X /\ Closed(X)
             A == {<<f \o u, o, b, l, TRUE, E>>, <<c \o u, o, b, l, x, F>>}
             C == {<<Reply(s, z) \o v, o, b, w, y, E>> : z \in Statuses, w \in BOOLEAN, y \in BOOLEAN}
             B == {d \in C : Ok(d)}
             R == A \cup B
  <1>1. k.op = "fork" /\ k.child = c /\ k.parent = p /\ k.failed = f
    BY DEF Fork
  <1>2. t # << >> /\ Head(t) = k /\ Tail(t) = u
    BY Cons
  <1>3. <<s>> \o v # << >> /\ Head(<<s>> \o v) = s /\ Tail(<<s>> \o v) = v
    BY Cons
  <1> HIDE DEF k, t
  <1>4. \A d \in R : Ok(d)
    <2>1. Ok(<<f \o u, o, b, l, TRUE, E>>) /\ Ok(<<c \o u, o, b, l, x, F>>)
      BY DEF Run
    <2> HIDE DEF Ok
    <2>2. \A d \in A : Ok(d)
      BY <2>1
    <2> HIDE DEF A, C
    <2> QED BY <2>2
  <1>5. ASSUME NEW z \in Statuses, NEW d \in BOOLEAN, NEW m \in BOOLEAN, NEW y \in BOOLEAN,
               NEW w \in BOOLEAN, <<z, d, m, y>> \in F, w <=> Wrote(z, d, m)
        PROVE  <<Reply(s, z) \o v, o, b, w, y, E>> \in R
    <2>1. Run(Reply(s, z) \o v, o, b, w, y, E)
      BY <1>5
    <2>2. Ok(<<Reply(s, z) \o v, o, b, w, y, E>>)
      BY <2>1 DEF Run
    <2>3. <<Reply(s, z) \o v, o, b, w, y, E>> \in C
      OBVIOUS
    <2> HIDE DEF Ok, A, C
    <2> QED BY <2>2, <2>3
  <1>6. <<f \o u, o, b, l, TRUE, E>> \in R /\ <<c \o u, o, b, l, x, F>> \in R
    OBVIOUS
  <1> HIDE DEF R
  <1>7. Follows(t, o, b, l, x, E, R)
    <2> DEFINE h == Head(t)
               e == Tail(t)
               q == h.parent \o e
    <2>1. h.op = "fork" /\ h.failed \o e = f \o u /\ h.child \o e = c \o u /\ q = <<s>> \o v
      BY <1>1, <1>2
    <2>2. /\ <<h.failed \o e, o, b, l, TRUE, E>> \in R /\ <<h.child \o e, o, b, l, x, F>> \in R
          /\ q # << >> /\ Head(q) = s /\ Tail(q) = v /\ Head(q).op = "wait"
      BY <1>3, <1>6, <2>1
    <2>3. ASSUME NEW z \in Statuses, NEW d \in BOOLEAN, NEW m \in BOOLEAN, NEW y \in BOOLEAN,
                 NEW w \in BOOLEAN, <<z, d, m, y>> \in F, w <=> Wrote(z, d, m)
          PROVE  <<Reply(Head(q), z) \o Tail(q), o, b, w, y, E>> \in R
      <3> HIDE DEF q
      <3>1. <<Reply(s, z) \o v, o, b, w, y, E>> \in R
        BY <1>5, <2>3
      <3> QED BY <2>2, <3>1
    <2>4. \A z \in Statuses, d, m, y, w \in BOOLEAN :
            <<z, d, m, y>> \in F /\ (w <=> Wrote(z, d, m)) =>
              <<Reply(Head(q), z) \o Tail(q), o, b, w, y, E>> \in R
      BY <2>3, ZenonT(60)
    <2>5. h.op = "fork" /\ t # << >>
      BY <1>2, <2>1
    <2> QED BY <2>2, <2>4, <2>5, FollowsFork, Zenon
  <1>8. \A d \in R : \E X : d \in X /\ Closed(X)
    BY <1>4
  <1> QED BY <1>7, <1>8, Judge DEF t, k

\* The wait s for a child with an outcome in F, followed by the steps v, ends with one in E.
Back(s, v, o, b, F, E) ==
  \A z \in Statuses, d, m, y, w \in BOOLEAN :
    <<z, d, m, y>> \in F /\ (w <=> Wrote(z, d, m)) => Run(Reply(s, z) \o v, o, b, w, y, E)

\* The same rule, with a name for what follows the wait.
LEMMA RunFork ==
  ASSUME NEW o, NEW b, NEW l, NEW x, NEW E, NEW F, NEW u, NEW c, NEW p, NEW f, NEW s, NEW v,
         IsSeq(u), IsSeq(v), s.op = "wait", p \o u = <<s>> \o v,
         Run(f \o u, o, b, l, TRUE, E), Run(c \o u, o, b, l, x, F), Back(s, v, o, b, F, E)
  PROVE  Run(<<Fork(c, p, f)>> \o u, o, b, l, x, E)
  <1>1. \A z \in Statuses, d, m, y, w \in BOOLEAN :
          <<z, d, m, y>> \in F /\ (w <=> Wrote(z, d, m)) => Run(Reply(s, z) \o v, o, b, w, y, E)
    BY DEF Back
  <1> QED BY <1>1, ForkRule

\* A wait by a process that has no child.
LEMMA RunWait ==
  ASSUME NEW o, NEW b, NEW l, NEW x, NEW E, NEW u, NEW s, IsSeq(u), s.op = "wait",
         Run(s.none \o u, o, b, l, x, E)
  PROVE  Run(<<s>> \o u, o, b, l, x, E)
  <1> DEFINE t == <<s>> \o u
             R == {<<s.none \o u, o, b, l, x, E>>}
  <1>1. t # << >> /\ Head(t) = s /\ Tail(t) = u
    BY Cons
  <1>2. \A d \in R : \E X : d \in X /\ Closed(X)
    BY DEF Run
  <1> HIDE DEF t
  <1>3. Follows(t, o, b, l, x, E, R)
    BY <1>1 DEF Follows
  <1> HIDE DEF R
  <1> QED BY <1>2, <1>3, Judge DEF t

\* What follows a judged state is judged.
LEMMA RunFollows ==
  ASSUME NEW t, NEW o, NEW b, NEW l, NEW x, NEW E, Run(t, o, b, l, x, E)
  PROVE  /\ t = << >> => <<"zero", b, l, x>> \in E /\ <<"other", b, l, x>> \in E
         /\ t # << >> /\ Head(t).op = "end" => <<Head(t).status, b, l, x>> \in E
         /\ t # << >> /\ Head(t).op = "wait" => Run(Head(t).none \o Tail(t), o, b, l, x, E)
         /\ t # << >> /\ Head(t).op \notin {"end", "wait", "fork"} =>
              \A m \in Moves(t, o, b, x) : Run(m[1], m[2], m[3], l, m[4], E)
  <1>1. PICK X : <<t, o, b, l, x, E>> \in X /\ Closed(X)
    BY DEF Run
  <1>2. Follows(t, o, b, l, x, E, X)
    BY <1>1 DEF Closed
  <1>3. t = << >> => <<"zero", b, l, x>> \in E /\ <<"other", b, l, x>> \in E
    BY <1>2 DEF Follows
  <1>4. t # << >> /\ Head(t).op = "end" => <<Head(t).status, b, l, x>> \in E
    BY <1>2 DEF Follows
  <1>5. ASSUME t # << >>, Head(t).op = "wait" PROVE Run(Head(t).none \o Tail(t), o, b, l, x, E)
    <2>1. <<Head(t).none \o Tail(t), o, b, l, x, E>> \in X
      BY <1>2, <1>5 DEF Follows
    <2> QED BY <1>1, <2>1 DEF Run
  <1>6. ASSUME t # << >>, Head(t).op \notin {"end", "wait", "fork"}, NEW m \in Moves(t, o, b, x)
        PROVE  Run(m[1], m[2], m[3], l, m[4], E)
    <2>1. <<m[1], m[2], m[3], l, m[4], E>> \in X
      BY <1>2, <1>6 DEF Follows
    <2> QED BY <1>1, <2>1 DEF Run
  <1> QED BY <1>3, <1>4, <1>5, <1>6

\* The same for a fork: it fails, or the caller waits and the child is judged.
LEMMA RunForks ==
  ASSUME NEW t, NEW o, NEW b, NEW l, NEW x, NEW E, Run(t, o, b, l, x, E),
         t # << >>, Head(t).op = "fork"
  PROVE  LET v == Head(t).parent \o Tail(t)
         IN  /\ Run(Head(t).failed \o Tail(t), o, b, l, TRUE, E)
             /\ v # << >> /\ Head(v).op = "wait"
             /\ \E F : Run(Head(t).child \o Tail(t), o, b, l, x, F) /\ Back(Head(v), Tail(v), o, b, F, E)
  <1> DEFINE v == Head(t).parent \o Tail(t)
  <1>1. PICK X : <<t, o, b, l, x, E>> \in X /\ Closed(X)
    BY DEF Run
  <1>2. Follows(t, o, b, l, x, E, X)
    BY <1>1 DEF Closed
  <1>3. /\ <<Head(t).failed \o Tail(t), o, b, l, TRUE, E>> \in X
        /\ v # << >> /\ Head(v).op = "wait"
        /\ \E F : /\ <<Head(t).child \o Tail(t), o, b, l, x, F>> \in X
                  /\ \A z \in Statuses, c, m, y, w \in BOOLEAN :
                       <<z, c, m, y>> \in F /\ (w <=> Wrote(z, c, m)) =>
                         <<Reply(Head(v), z) \o Tail(v), o, b, w, y, E>> \in X
    BY <1>2 DEF Follows
  <1> HIDE DEF v
  <1>4. PICK F : /\ <<Head(t).child \o Tail(t), o, b, l, x, F>> \in X
                 /\ \A z \in Statuses, c, m, y, w \in BOOLEAN :
                      <<z, c, m, y>> \in F /\ (w <=> Wrote(z, c, m)) =>
                        <<Reply(Head(v), z) \o Tail(v), o, b, w, y, E>> \in X
    BY <1>3
  <1>5. Run(Head(t).failed \o Tail(t), o, b, l, TRUE, E)
    BY <1>1, <1>3 DEF Run
  <1>6. Run(Head(t).child \o Tail(t), o, b, l, x, F)
    BY <1>1, <1>4 DEF Run
  <1>7. ASSUME NEW z \in Statuses, NEW c \in BOOLEAN, NEW m \in BOOLEAN, NEW y \in BOOLEAN,
               NEW w \in BOOLEAN, <<z, c, m, y>> \in F, w <=> Wrote(z, c, m)
        PROVE  Run(Reply(Head(v), z) \o Tail(v), o, b, w, y, E)
    <2>1. <<Reply(Head(v), z) \o Tail(v), o, b, w, y, E>> \in X
      BY <1>4, <1>7
    <2> QED BY <1>1, <2>1 DEF Run
  <1>8. Back(Head(v), Tail(v), o, b, F, E)
    BY <1>7 DEF Back
  <1> QED BY <1>3, <1>5, <1>6, <1>8 DEF v

-----------------------------------------------------------------------------
(* Judging from a set of flags <<o, b, l, x>>                              *)

Judged(t, S, E) == \A o, b, l, x \in BOOLEAN : <<o, b, l, x>> \in S => Run(t, o, b, l, x, E)

\* q leads from flags in S to flags in T, or ends with an outcome in E.
Does(q, S, T, E) ==
  IsSeq(q) /\ \A v : IsSeq(v) /\ Judged(v, T, E) => Judged(q \o v, S, E)

Keeps(q, S, E) == Does(q, S, S, E)

\* The flags in S after a failure.
Failed(S) == {g \in BOOLEAN \X BOOLEAN \X BOOLEAN \X BOOLEAN :
                g[4] /\ \E x \in BOOLEAN : <<g[1], g[2], g[3], x>> \in S}

\* The states of S in which, in addition, a call has failed.
LEMMA FailedFacts ==
  ASSUME NEW S, NEW o \in BOOLEAN, NEW b \in BOOLEAN, NEW l \in BOOLEAN, NEW x \in BOOLEAN
  PROVE  <<o, b, l, x>> \in Failed(S) <=> x /\ (<<o, b, l, TRUE>> \in S \/ <<o, b, l, FALSE>> \in S)
  <1> DEFINE g == <<o, b, l, x>>
  <1>1. g \in BOOLEAN \X BOOLEAN \X BOOLEAN \X BOOLEAN /\ g[1] = o /\ g[2] = b /\ g[3] = l /\ g[4] = x
    OBVIOUS
  <1> HIDE DEF g
  <1>2. g \in Failed(S) <=> x /\ \E y \in BOOLEAN : <<o, b, l, y>> \in S
    BY <1>1 DEF Failed
  <1>3. (\E y \in BOOLEAN : <<o, b, l, y>> \in S) <=> (<<o, b, l, TRUE>> \in S \/ <<o, b, l, FALSE>> \in S)
    OBVIOUS
  <1> QED BY <1>2, <1>3 DEF g

\* The rules for programs put together.
LEMMA DoesCat ==
  ASSUME NEW q, NEW r, NEW S, NEW T, NEW U, NEW E, Does(q, S, T, E), Does(r, T, U, E)
  PROVE  Does(q \o r, S, U, E)
  <1>1. IsSeq(q \o r)
    BY Cat DEF Does
  <1>2. ASSUME NEW v, IsSeq(v), Judged(v, U, E) PROVE Judged((q \o r) \o v, S, E)
    <2>1. IsSeq(q) /\ IsSeq(r) /\ Judged(r \o v, T, E)
      BY <1>2 DEF Does
    <2>2. IsSeq(r \o v) /\ (q \o r) \o v = q \o (r \o v)
      BY <1>2, <2>1, Cat, Assoc
    <2>3. Judged(q \o (r \o v), S, E)
      BY <2>1, <2>2 DEF Does
    <2> QED BY <2>2, <2>3
  <1> QED BY <1>1, <1>2 DEF Does

\* A program that leads from S to T, before one that is judged from T.
LEMMA JudgedCat ==
  ASSUME NEW q, NEW u, NEW S, NEW T, NEW E, Does(q, S, T, E), IsSeq(u), Judged(u, T, E)
  PROVE  Judged(q \o u, S, E) /\ IsSeq(q \o u)
  BY Cat DEF Does

\* Fewer states before, or more after.
LEMMA DoesMore ==
  ASSUME NEW q, NEW S, NEW T, NEW S1, NEW T1, NEW E, Does(q, S, T, E),
         \A o, b, l, x \in BOOLEAN : <<o, b, l, x>> \in S1 => <<o, b, l, x>> \in S,
         \A o, b, l, x \in BOOLEAN : <<o, b, l, x>> \in T => <<o, b, l, x>> \in T1
  PROVE  Does(q, S1, T1, E)
  BY DEF Does, Judged

\* What keeps S keeps it for any number of rounds.
LEMMA DoesRep ==
  ASSUME NEW q, NEW S, NEW E, Keeps(q, S, E), NEW n \in Nat
  PROVE  Keeps(Rep(n, q), S, E)
  <1>0. IsSeq(q)
    BY DEF Keeps, Does
  <1> DEFINE B == {k \in Nat : ~Keeps(Rep(k, q), S, E)}
  <1> SUFFICES ASSUME B # {} PROVE FALSE
    OBVIOUS
  <1>1. PICK k \in B : \A m \in B : k <= m
    BY SmallestOf
  <1>2. Keeps(Rep(0, q), S, E)
    <2>1. Rep(0, q) = << >> /\ IsSeq(<< >>) /\ \A v : IsSeq(v) => << >> \o v = v
      BY <1>0, RepUnfold, Tuples, Cat
    <2> QED BY <2>1 DEF Keeps, Does
  <1>3. k # 0
    BY <1>1, <1>2
  <1>4. k - 1 \in Nat /\ k - 1 \notin B
    BY <1>1, <1>3
  <1>5. Keeps(Rep(k - 1, q), S, E) /\ Rep((k - 1) + 1, q) = q \o Rep(k - 1, q)
    BY <1>0, <1>4, RepUnfold
  <1>6. Keeps(q \o Rep(k - 1, q), S, E)
    BY <1>5, DoesCat DEF Keeps
  <1>7. (k - 1) + 1 = k
    BY <1>1
  <1> QED BY <1>1, <1>5, <1>6, <1>7

\* Tuples of steps that keep S.
LEMMA KeepsTuples ==
  ASSUME NEW S, NEW E
  PROVE  /\ Keeps(<< >>, S, E)
         /\ \A a, b : Keeps(<<a>>, S, E) /\ Keeps(<<b>>, S, E) => Keeps(<<a, b>>, S, E)
         /\ \A a, b, c : Keeps(<<a>>, S, E) /\ Keeps(<<b, c>>, S, E) => Keeps(<<a, b, c>>, S, E)
         /\ \A a, b, c, d : Keeps(<<a>>, S, E) /\ Keeps(<<b, c, d>>, S, E) => Keeps(<<a, b, c, d>>, S, E)
         /\ \A a, b, c, d, e : Keeps(<<a>>, S, E) /\ Keeps(<<b, c, d, e>>, S, E)
                               => Keeps(<<a, b, c, d, e>>, S, E)
  <1>1. Keeps(<< >>, S, E)
    BY Tuples, Cat DEF Keeps, Does
  <1>2. \A q, r : Keeps(q, S, E) /\ Keeps(r, S, E) => Keeps(q \o r, S, E)
    BY DoesCat DEF Keeps
  <1>3. ASSUME NEW a, NEW b, Keeps(<<a>>, S, E), Keeps(<<b>>, S, E) PROVE Keeps(<<a, b>>, S, E)
    <2>1. <<a, b>> = <<a>> \o <<b>>
      BY Tuples
    <2> QED BY <1>2, <1>3, <2>1
  <1>4. ASSUME NEW a, NEW b, NEW c, Keeps(<<a>>, S, E), Keeps(<<b, c>>, S, E) PROVE Keeps(<<a, b, c>>, S, E)
    <2>1. <<a, b, c>> = <<a>> \o <<b, c>>
      BY Tuples, SMTT(30)
    <2> QED BY <1>2, <1>4, <2>1
  <1>5. ASSUME NEW a, NEW b, NEW c, NEW d, Keeps(<<a>>, S, E), Keeps(<<b, c, d>>, S, E)
        PROVE  Keeps(<<a, b, c, d>>, S, E)
    <2>1. <<a, b, c, d>> = <<a>> \o <<b, c, d>>
      BY Tuples, SMTT(30)
    <2> QED BY <1>2, <1>5, <2>1
  <1>6. ASSUME NEW a, NEW b, NEW c, NEW d, NEW e, Keeps(<<a>>, S, E), Keeps(<<b, c, d, e>>, S, E)
        PROVE  Keeps(<<a, b, c, d, e>>, S, E)
    <2>1. <<a, b, c, d, e>> = <<a>> \o <<b, c, d, e>>
      BY Tuples, SMTT(30)
    <2> QED BY <1>2, <1>6, <2>1
  <1> QED BY <1>1, <1>3, <1>4, <1>5, <1>6

\* The rules for steps.
LEMMA DoesSteps ==
  ASSUME NEW S, NEW T, NEW E
  PROVE  /\ \A g, f : Does(g, S, T, E) /\ Does(f, Failed(S), T, E) => Does(<<Call(g, f)>>, S, T, E)
         /\ \A g, f : Does(g, S, T, E) /\ Does(f, S, T, E) => Does(<<Pick(g, f)>>, S, T, E)
         /\ \A z : (\A o, b, l, x \in BOOLEAN : <<o, b, l, x>> \in S => <<z, b, l, x>> \in E)
                   => Does(<<End(z)>>, S, T, E)
         /\ \A a \in BOOLEAN :
              (\A o, b, l, x \in BOOLEAN : <<o, b, l, x>> \in S => <<a, b, l, x>> \in T)
                => Does(<<Assign(a)>>, S, T, E)
         /\ (\A o, b, l, x \in BOOLEAN : <<o, b, l, x>> \in S => <<o, TRUE, l, x>> \in T)
              => Does(<<Say>>, S, T, E)
         /\ (\A o, b, l, x \in BOOLEAN : <<o, b, l, x>> \in S => <<o, b, l, TRUE>> \in T)
              => Does(<<Miss>>, S, T, E)
         /\ (\A o, b, l, x \in BOOLEAN : <<o, b, l, x>> \in S => <<o, b, l, x>> \in T)
              => Does(<< >>, S, T, E)
  <1>0. IsSeq(<< >>) /\ (\A s : IsSeq(<<s>>)) /\ \A v : IsSeq(v) => << >> \o v = v
    BY Tuples, Cat
  <1>1. ASSUME NEW g, NEW f, Does(g, S, T, E), Does(f, Failed(S), T, E)
        PROVE  Does(<<Call(g, f)>>, S, T, E)
    <2> SUFFICES ASSUME NEW v, IsSeq(v), Judged(v, T, E),
                        NEW o \in BOOLEAN, NEW b \in BOOLEAN, NEW l \in BOOLEAN, NEW x \in BOOLEAN,
                        <<o, b, l, x>> \in S
                 PROVE  Run(<<Call(g, f)>> \o v, o, b, l, x, E)
      BY <1>0 DEF Does, Judged
    <2>1. Run(g \o v, o, b, l, x, E)
      BY <1>1 DEF Does, Judged
    <2>2. <<o, b, l, TRUE>> \in Failed(S)
      <3>1. <<o, b, l, TRUE>> \in S \/ <<o, b, l, FALSE>> \in S
        <4>1. CASE x
          <5>1. x = TRUE
            BY <4>1
          <5> QED BY <5>1
        <4>2. CASE ~x
          <5>1. x = FALSE
            BY <4>2
          <5> QED BY <5>1
        <4> QED BY <4>1, <4>2
      <3> QED BY <3>1, FailedFacts
    <2>3. Judged(f \o v, Failed(S), E)
      BY <1>1 DEF Does
    <2>4. Run(f \o v, o, b, l, TRUE, E)
      BY <2>2, <2>3 DEF Judged
    <2> QED BY <2>1, <2>4, RunSteps
  <1>2. ASSUME NEW g, NEW f, Does(g, S, T, E), Does(f, S, T, E)
        PROVE  Does(<<Pick(g, f)>>, S, T, E)
    <2> SUFFICES ASSUME NEW v, IsSeq(v), Judged(v, T, E),
                        NEW o \in BOOLEAN, NEW b \in BOOLEAN, NEW l \in BOOLEAN, NEW x \in BOOLEAN,
                        <<o, b, l, x>> \in S
                 PROVE  Run(<<Pick(g, f)>> \o v, o, b, l, x, E)
      BY <1>0 DEF Does, Judged
    <2>1. Run(g \o v, o, b, l, x, E) /\ Run(f \o v, o, b, l, x, E)
      BY <1>2, SMTT(30) DEF Does, Judged
    <2> QED BY <2>1, RunSteps
  <1>3. ASSUME NEW z, \A o, b, l, x \in BOOLEAN : <<o, b, l, x>> \in S => <<z, b, l, x>> \in E
        PROVE  Does(<<End(z)>>, S, T, E)
    BY <1>0, <1>3, RunSteps, ZenonT(60) DEF Does, Judged
  <1>4. ASSUME NEW a \in BOOLEAN,
               \A o, b, l, x \in BOOLEAN : <<o, b, l, x>> \in S => <<a, b, l, x>> \in T
        PROVE  Does(<<Assign(a)>>, S, T, E)
    <2> SUFFICES ASSUME NEW v, IsSeq(v), Judged(v, T, E),
                        NEW o \in BOOLEAN, NEW b \in BOOLEAN, NEW l \in BOOLEAN, NEW x \in BOOLEAN,
                        <<o, b, l, x>> \in S
                 PROVE  Run(<<Assign(a)>> \o v, o, b, l, x, E)
      BY <1>0 DEF Does, Judged
    <2>1. Run(v, a, b, l, x, E)
      BY <1>4 DEF Judged
    <2> QED BY <2>1, RunSteps
  <1>5. ASSUME \A o, b, l, x \in BOOLEAN : <<o, b, l, x>> \in S => <<o, TRUE, l, x>> \in T
        PROVE  Does(<<Say>>, S, T, E)
    BY <1>0, <1>5, RunSteps, ZenonT(60) DEF Does, Judged
  <1>6. ASSUME \A o, b, l, x \in BOOLEAN : <<o, b, l, x>> \in S => <<o, b, l, TRUE>> \in T
        PROVE  Does(<<Miss>>, S, T, E)
    BY <1>0, <1>6, RunSteps, ZenonT(60) DEF Does, Judged
  <1>7. ASSUME \A o, b, l, x \in BOOLEAN : <<o, b, l, x>> \in S => <<o, b, l, x>> \in T
        PROVE  Does(<< >>, S, T, E)
    BY <1>0, <1>7 DEF Does, Judged
  <1> QED BY <1>1, <1>2, <1>3, <1>4, <1>5, <1>6, <1>7

\* Two of them by themselves.
LEMMA DoesNothing ==
  ASSUME NEW S, NEW T, NEW E,
         \A o, b, l, x \in BOOLEAN : <<o, b, l, x>> \in S => <<o, b, l, x>> \in T
  PROVE  Does(<< >>, S, T, E)
  BY DoesSteps

\* A call leads to T if both its branches do, one of them after a failure.
LEMMA DoesCall ==
  ASSUME NEW S, NEW T, NEW E, NEW g, NEW f, Does(g, S, T, E), Does(f, Failed(S), T, E)
  PROVE  Does(<<Call(g, f)>>, S, T, E)
  BY DoesSteps

\* A loop without an end leads nowhere.
LEMMA DoesSpin ==
  ASSUME NEW S, NEW T, NEW E
  PROVE  Does(<<Spin>>, S, T, E)
  <1> SUFFICES ASSUME NEW v, IsSeq(v), NEW o, NEW b, NEW l, NEW x
               PROVE  Run(<<Spin>> \o v, o, b, l, x, E)
    BY Tuples DEF Does, Judged
  <1> DEFINE t == <<Spin>> \o v
  <1>1. t # << >> /\ Head(t).op = "spin"
    BY Cons DEF Spin
  <1> HIDE DEF t
  <1>2. Moves(t, o, b, x) = {}
    BY <1>1 DEF Moves
  <1> QED BY <1>1, <1>2, JudgeLone DEF t

-----------------------------------------------------------------------------
(* Idioms, judged                                                          *)

\* What a failure does to flags in S: it may end the run, be noted, or clear the flag.
Exits(S, E)   == \A o, b, l, x \in BOOLEAN : <<o, b, l, x>> \in S => <<"zero", b, l, TRUE>> \in E
Dies(S, E)    == \A o, b, l, x \in BOOLEAN : <<o, b, l, x>> \in S => <<"signal", b, l, TRUE>> \in E
Crashes(S, E) == \A o, b, l, x \in BOOLEAN : <<o, b, l, x>> \in S => <<"signal", b, l, x>> \in E
Bears(S)      == \A o, b, l, x \in BOOLEAN : <<o, b, l, x>> \in S => <<o, b, l, TRUE>> \in S
Clears(S)     == \A o, b, l, x \in BOOLEAN : <<o, b, l, x>> \in S => <<FALSE, b, l, TRUE>> \in S

\* A flag in Failed(S) comes from one in S.
LEMMA FailedFrom ==
  ASSUME NEW S, NEW o \in BOOLEAN, NEW b \in BOOLEAN, NEW l \in BOOLEAN, NEW x \in BOOLEAN,
         <<o, b, l, x>> \in Failed(S)
  PROVE  x = TRUE /\ \E y \in BOOLEAN : <<o, b, l, y>> \in S
  BY FailedFacts

\* The idioms of the ported tests keep S, each where S allows what the idiom does when a
\* call fails: to exit, to die, to be noted, to clear the flag.
LEMMA Habits ==
  ASSUME NEW S, NEW E
  PROVE  /\ Exits(S, E) => Keeps(<<Need>>, S, E) /\ \A n \in Nat : Keeps(Needs(n), S, E)
         /\ Dies(S, E) => Keeps(<<Touch>>, S, E)
         /\ Crashes(S, E) => Keeps(<<Undefined>>, S, E)
         /\ Bears(S) => Keeps(<<Note>>, S, E) /\ Keeps(Chain(2, << >>, << >>), S, E)
         /\ Clears(S) => /\ Keeps(<<Check>>, S, E) /\ Keeps(Case(1), S, E)
                         /\ Keeps(Case(2), S, E) /\ Keeps(Case(3), S, E)
         /\ Clears(S) /\ Bears(S) => Keeps(<<Call(<<Note>>, <<Fail>>)>>, S, E)
  <1>1. Keeps(<< >>, S, E)
    BY KeepsTuples
  <1>2. ASSUME Exits(S, E) PROVE Does(<<Exit>>, Failed(S), S, E)
    <2>1. ASSUME NEW o \in BOOLEAN, NEW b \in BOOLEAN, NEW l \in BOOLEAN, NEW x \in BOOLEAN,
                 <<o, b, l, x>> \in Failed(S)
          PROVE  <<"zero", b, l, x>> \in E
      <3>1. x = TRUE /\ \E y \in BOOLEAN : <<o, b, l, y>> \in S
        BY <2>1, FailedFrom
      <3>2. <<"zero", b, l, TRUE>> \in E
        BY <1>2, <3>1 DEF Exits
      <3> QED BY <3>1, <3>2
    <2> QED BY <2>1, DoesSteps DEF Exit
  <1>3. ASSUME Dies(S, E) PROVE Does(<<Die>>, Failed(S), S, E)
    <2>1. ASSUME NEW o \in BOOLEAN, NEW b \in BOOLEAN, NEW l \in BOOLEAN, NEW x \in BOOLEAN,
                 <<o, b, l, x>> \in Failed(S)
          PROVE  <<"signal", b, l, x>> \in E
      <3>1. x = TRUE /\ \E y \in BOOLEAN : <<o, b, l, y>> \in S
        BY <2>1, FailedFrom
      <3>2. <<"signal", b, l, TRUE>> \in E
        BY <1>3, <3>1 DEF Dies
      <3> QED BY <3>1, <3>2
    <2> QED BY <2>1, DoesSteps DEF Die
  <1>4. ASSUME Bears(S) PROVE Does(<< >>, Failed(S), S, E)
    <2>1. ASSUME NEW o \in BOOLEAN, NEW b \in BOOLEAN, NEW l \in BOOLEAN, NEW x \in BOOLEAN,
                 <<o, b, l, x>> \in Failed(S)
          PROVE  <<o, b, l, x>> \in S
      <3>1. x = TRUE /\ \E y \in BOOLEAN : <<o, b, l, y>> \in S
        BY <2>1, FailedFrom
      <3>2. <<o, b, l, TRUE>> \in S
        BY <1>4, <3>1 DEF Bears
      <3> QED BY <3>1, <3>2
    <2> QED BY <2>1, DoesSteps
  <1>5. ASSUME Clears(S) PROVE Does(<<Fail>>, Failed(S), S, E)
    <2>1. ASSUME NEW o \in BOOLEAN, NEW b \in BOOLEAN, NEW l \in BOOLEAN, NEW x \in BOOLEAN,
                 <<o, b, l, x>> \in Failed(S)
          PROVE  <<FALSE, b, l, x>> \in S
      <3>1. x = TRUE /\ \E y \in BOOLEAN : <<o, b, l, y>> \in S
        BY <2>1, FailedFrom
      <3>2. <<FALSE, b, l, TRUE>> \in S
        BY <1>5, <3>1 DEF Clears
      <3> QED BY <3>1, <3>2
    <2> QED BY <2>1, DoesSteps DEF Fail
  <1>6. \A g, f : Keeps(g, S, E) /\ Does(f, Failed(S), S, E) => Keeps(<<Call(g, f)>>, S, E)
    BY DoesSteps DEF Keeps
  <1>7. ASSUME Exits(S, E) PROVE Keeps(<<Need>>, S, E) /\ \A n \in Nat : Keeps(Needs(n), S, E)
    <2>1. Keeps(<<Need>>, S, E)
      BY <1>1, <1>2, <1>6, <1>7 DEF Need
    <2> QED BY <2>1, DoesRep DEF Needs
  <1>8. Dies(S, E) => Keeps(<<Touch>>, S, E)
    BY <1>1, <1>3, <1>6 DEF Touch
  <1>9. ASSUME Crashes(S, E) PROVE Keeps(<<Undefined>>, S, E)
    <2>1. Does(<<Die>>, S, S, E)
      BY <1>9, DoesSteps DEF Die, Crashes
    <2> QED BY <1>1, <2>1, DoesSteps DEF Undefined, Keeps
  <1>10. ASSUME Bears(S) PROVE Keeps(<<Note>>, S, E) /\ Keeps(Chain(2, << >>, << >>), S, E)
    <2>1. Keeps(<<Note>>, S, E)
      BY <1>1, <1>4, <1>6, <1>10 DEF Note
    <2>2. Keeps(<<Call(<<Note>>, << >>)>>, S, E)
      BY <1>4, <1>6, <1>10, <2>1
    <2> QED BY <2>1, <2>2, ChainUnfold DEF Note
  <1>11. ASSUME Clears(S)
         PROVE  /\ Keeps(<<Check>>, S, E) /\ Keeps(Case(1), S, E)
                /\ Keeps(Case(2), S, E) /\ Keeps(Case(3), S, E)
    <2>1. Keeps(<<Check>>, S, E)
      BY <1>1, <1>5, <1>6, <1>11 DEF Check
    <2>2. Keeps(<<Call(<<Check>>, <<Fail>>)>>, S, E)
      BY <1>5, <1>6, <1>11, <2>1
    <2>3. Keeps(<<Call(<<Call(<<Check>>, <<Fail>>)>>, <<Fail>>)>>, S, E)
      BY <1>5, <1>6, <1>11, <2>2
    <2> QED BY <2>1, <2>2, <2>3, ChainUnfold DEF Check, Case
  <1>12. ASSUME Clears(S), Bears(S) PROVE Keeps(<<Call(<<Note>>, <<Fail>>)>>, S, E)
    BY <1>5, <1>6, <1>10, <1>12
  <1> QED BY <1>7, <1>8, <1>9, <1>10, <1>11, <1>12

\* The outcomes: the log has a verdict only if no call failed, unless lie; and if no call
\* failed, unless miss.
Outcomes == Statuses \X BOOLEAN \X BOOLEAN \X BOOLEAN

Verdicts(lie, miss) ==
  {e \in Outcomes : /\ lie \/ (Wrote(e[1], e[2], e[3]) => ~e[4])
                    /\ miss \/ (~e[4] => Wrote(e[1], e[2], e[3]))}

Exact  == Verdicts(FALSE, FALSE)
NoLie  == Verdicts(FALSE, TRUE)
NoMiss == Verdicts(TRUE, FALSE)

\* Which ends are without a false success, without a missing one, without both.
LEMMA VerdictFacts ==
  ASSUME NEW z \in Statuses, NEW b \in BOOLEAN, NEW l \in BOOLEAN, NEW x \in BOOLEAN
  PROVE  /\ \A lie, miss \in BOOLEAN : <<z, b, l, x>> \in Verdicts(lie, miss) <=>
              /\ lie \/ (Wrote(z, b, l) => ~x)
              /\ miss \/ (~x => Wrote(z, b, l))
         /\ <<z, b, l, x>> \in Exact  <=> (Wrote(z, b, l) <=> ~x)
         /\ <<z, b, l, x>> \in NoLie  <=> (Wrote(z, b, l) => ~x)
         /\ <<z, b, l, x>> \in NoMiss <=> (~x => Wrote(z, b, l))
         /\ <<z, b, l, x>> \in Verdicts(TRUE, TRUE)
  <1> DEFINE e == <<z, b, l, x>>
  <1>1. e \in Outcomes /\ e[1] = z /\ e[2] = b /\ e[3] = l /\ e[4] = x
    BY DEF Outcomes
  <1> HIDE DEF e
  <1>2. \A lie, miss : e \in Verdicts(lie, miss) <=>
          (lie \/ (Wrote(z, b, l) => ~x)) /\ (miss \/ (~x => Wrote(z, b, l)))
    BY <1>1 DEF Verdicts
  <1>3. /\ e \in Exact  <=> (Wrote(z, b, l) <=> ~x)
        /\ e \in NoLie  <=> (Wrote(z, b, l) => ~x)
        /\ e \in NoMiss <=> (~x => Wrote(z, b, l))
        /\ e \in Verdicts(TRUE, TRUE)
    BY <1>2 DEF Exact, NoLie, NoMiss
  <1> QED BY <1>2, <1>3 DEF e

\* Sets of flags.  Start: nothing has happened.  Flagged: the flag is clear exactly if a call
\* failed.  Wary: it is set only if none did.  Fine: it is set if none did.  Told: the
\* verdict is in the buffer if none did.
Flags   == BOOLEAN \X BOOLEAN \X BOOLEAN \X BOOLEAN
Start   == {g \in Flags : g[1] /\ ~g[2] /\ ~g[3] /\ ~g[4]}
Flagged == {g \in Flags : (g[1] <=> ~g[4]) /\ ~g[2] /\ ~g[3]}
Wary    == {g \in Flags : (g[1] => ~g[4]) /\ ~g[2] /\ ~g[3]}
Silent  == {g \in Flags : ~g[2] /\ ~g[3]}
Off     == {g \in Flags : ~g[1] /\ ~g[2] /\ ~g[3]}
Fine    == {g \in Flags : g[1] \/ g[4]}
Told    == {g \in Flags : g[2] \/ g[4]}

\* The sets of states in which the programs are before their verdict.
LEMMA FlagFacts ==
  ASSUME NEW o \in BOOLEAN, NEW b \in BOOLEAN, NEW l \in BOOLEAN, NEW x \in BOOLEAN
  PROVE  /\ <<o, b, l, x>> \in Start   <=> o /\ ~b /\ ~l /\ ~x
         /\ <<o, b, l, x>> \in Flagged <=> (o <=> ~x) /\ ~b /\ ~l
         /\ <<o, b, l, x>> \in Wary    <=> (o => ~x) /\ ~b /\ ~l
         /\ <<o, b, l, x>> \in Silent  <=> ~b /\ ~l
         /\ <<o, b, l, x>> \in Off     <=> ~o /\ ~b /\ ~l
         /\ <<o, b, l, x>> \in Fine    <=> o \/ x
         /\ <<o, b, l, x>> \in Told    <=> b \/ x
  <1> DEFINE g == <<o, b, l, x>>
  <1>1. g \in Flags /\ g[1] = o /\ g[2] = b /\ g[3] = l /\ g[4] = x
    BY DEF Flags
  <1> HIDE DEF g
  <1> QED BY <1>1 DEF g, Start, Flagged, Wary, Silent, Off, Fine, Told

\* What failures do to these flags.
LEMMA Conditions ==
  /\ Exits(Start, Exact) /\ Dies(Start, Exact)
  /\ Exits(Flagged, Exact) /\ Dies(Flagged, Exact) /\ Clears(Flagged)
  /\ Exits(Start, NoLie) /\ Dies(Start, NoLie) /\ Crashes(Start, NoLie)
  /\ Exits(Wary, NoLie) /\ Dies(Wary, NoLie) /\ Crashes(Wary, NoLie) /\ Clears(Wary)
  /\ Exits(Silent, NoLie) /\ Dies(Silent, NoLie) /\ Crashes(Silent, NoLie) /\ Bears(Silent)
  /\ Dies(Off, NoLie) /\ Bears(Off) /\ Clears(Off)
  /\ Exits(Fine, NoMiss) /\ Dies(Fine, NoMiss) /\ Bears(Fine) /\ Clears(Fine)
  /\ Bears(Told)
  <1>1. {"zero", "signal"} \subseteq Statuses /\ TRUE \in BOOLEAN /\ FALSE \in BOOLEAN
    BY DEF Statuses
  <1>2. Exits(Start, Exact) /\ Exits(Flagged, Exact) /\ Exits(Start, NoLie) /\ Exits(Wary, NoLie)
    BY <1>1, FlagFacts, VerdictFacts, ZenonT(60) DEF Exits, Wrote
  <1>3. Exits(Silent, NoLie) /\ Exits(Fine, NoMiss)
    BY <1>1, FlagFacts, VerdictFacts DEF Exits, Wrote
  <1>4. Dies(Start, Exact) /\ Dies(Flagged, Exact) /\ Dies(Start, NoLie) /\ Dies(Wary, NoLie)
    BY <1>1, FlagFacts, VerdictFacts, ZenonT(60) DEF Dies, Wrote
  <1>5. Dies(Silent, NoLie) /\ Dies(Fine, NoMiss) /\ Dies(Off, NoLie)
    BY <1>1, FlagFacts, VerdictFacts, ZenonT(60) DEF Dies, Wrote
  <1>6. Crashes(Start, NoLie) /\ Crashes(Wary, NoLie) /\ Crashes(Silent, NoLie)
    BY <1>1, FlagFacts, VerdictFacts, ZenonT(60) DEF Crashes, Wrote
  <1>7. Clears(Flagged) /\ Clears(Wary) /\ Clears(Off) /\ Clears(Fine)
    BY <1>1, FlagFacts DEF Clears
  <1>8. Bears(Silent) /\ Bears(Off) /\ Bears(Fine) /\ Bears(Told)
    BY <1>1, FlagFacts DEF Bears
  <1> QED BY <1>2, <1>3, <1>4, <1>5, <1>6, <1>7, <1>8

\* Flags at the end of a run: the buffer has the verdict exactly if no call failed (Done),
\* and only if none did (Honest).
Done   == {g \in Flags : (g[2] <=> ~g[4]) /\ ~g[3]}
Honest == {g \in Flags : (g[2] => ~g[4]) /\ ~g[3]}

\* The sets of states in which they are after it.
LEMMA EndFlags ==
  ASSUME NEW o \in BOOLEAN, NEW b \in BOOLEAN, NEW l \in BOOLEAN, NEW x \in BOOLEAN
  PROVE  /\ <<o, b, l, x>> \in Done   <=> (b <=> ~x) /\ ~l
         /\ <<o, b, l, x>> \in Honest <=> (b => ~x) /\ ~l
  <1> DEFINE g == <<o, b, l, x>>
  <1>1. g \in Flags /\ g[1] = o /\ g[2] = b /\ g[3] = l /\ g[4] = x
    BY DEF Flags
  <1> HIDE DEF g
  <1> QED BY <1>1 DEF g, Done, Honest

\* main returns.
LEMMA Returning ==
  /\ Judged(<< >>, Done, Exact) /\ Judged(<< >>, Honest, NoLie) /\ Judged(<< >>, Told, NoMiss)
  /\ Judged(<< >>, Silent, NoLie)
  <1>1. {"zero", "other"} \subseteq Statuses
    BY DEF Statuses
  <1>2. ASSUME NEW S, NEW E,
               \A o, b, l, x \in BOOLEAN : <<o, b, l, x>> \in S =>
                 <<"zero", b, l, x>> \in E /\ <<"other", b, l, x>> \in E
        PROVE  Judged(<< >>, S, E)
    BY <1>2, RunSteps DEF Judged
  <1>3. Judged(<< >>, Done, Exact)
    BY <1>1, <1>2, EndFlags, VerdictFacts DEF Wrote
  <1>4. Judged(<< >>, Honest, NoLie)
    BY <1>1, <1>2, EndFlags, VerdictFacts DEF Wrote
  <1>5. Judged(<< >>, Told, NoMiss)
    BY <1>1, <1>2, FlagFacts, VerdictFacts DEF Wrote
  <1>6. Judged(<< >>, Silent, NoLie)
    BY <1>1, <1>2, FlagFacts, VerdictFacts DEF Wrote
  <1> QED BY <1>3, <1>4, <1>5, <1>6

\* A program that leads to states in which it may return.
LEMMA JudgedEnd ==
  ASSUME NEW q, NEW S, NEW T, NEW E, Does(q, S, T, E), Judged(<< >>, T, E)
  PROVE  Judged(q, S, E)
  <1>1. IsSeq(q) /\ IsSeq(<< >>) /\ q \o << >> = q
    BY Tuples, Cat DEF Does
  <1>2. Judged(q \o << >>, S, E)
    BY <1>1 DEF Does
  <1> QED BY <1>1, <1>2

\* The verdict: success is in the buffer exactly if the flag is still set.
LEMMA DoesVerdict ==
  ASSUME NEW S, NEW T, NEW E,
         \A o, b, l, x \in BOOLEAN : <<o, b, l, x>> \in S =>
           (o => <<o, TRUE, l, x>> \in T) /\ (~o => <<o, b, l, x>> \in T)
  PROVE  Does(<<Verdict>>, S, T, E)
  <1>0. IsSeq(<< >>) /\ (\A s : IsSeq(<<s>>)) /\ \A v : IsSeq(v) => << >> \o v = v
    BY Tuples, Cat
  <1> SUFFICES ASSUME NEW v, IsSeq(v), Judged(v, T, E),
                      NEW o \in BOOLEAN, NEW b \in BOOLEAN, NEW l \in BOOLEAN, NEW x \in BOOLEAN,
                      <<o, b, l, x>> \in S
               PROVE  Run(<<Verdict>> \o v, o, b, l, x, E)
    BY <1>0 DEF Does, Judged
  <1>1. ASSUME o PROVE Run(<<Say>> \o v, o, b, l, x, E)
    <2>1. Run(v, o, TRUE, l, x, E)
      BY <1>1 DEF Judged
    <2> QED BY <2>1, RunSteps
  <1>2. ASSUME ~o PROVE Run(<< >> \o v, o, b, l, x, E)
    BY <1>0, <1>2 DEF Judged
  <1> QED BY <1>1, <1>2, RunSteps DEF Verdict

\* Failures before the end.
LEMMA FailedEnds ==
  /\ Does(<< >>, Failed(Start), Done, Exact) /\ Does(<< >>, Failed(Start), Honest, NoLie)
  /\ Does(<< >>, Failed(Fine), Told, NoMiss) /\ Does(<< >>, Failed(Told), Told, NoMiss)
  <1>1. \A o, b, l, x \in BOOLEAN : <<o, b, l, x>> \in Failed(Start) =>
           <<o, b, l, x>> \in Done /\ <<o, b, l, x>> \in Honest
    BY FailedFacts, FlagFacts, EndFlags, ZenonT(60)
  <1>2. \A o, b, l, x \in BOOLEAN : <<o, b, l, x>> \in Failed(Fine) \/ <<o, b, l, x>> \in Failed(Told) =>
           <<o, b, l, x>> \in Told
    BY FailedFacts, FlagFacts, ZenonT(60)
  <1> QED BY <1>1, <1>2, DoesNothing

\* The ways to end with a verdict.
LEMMA Endings ==
  /\ Judged(<<Say>>, Start, Exact) /\ Judged(OneCall, Start, Exact)
  /\ Judged(<<Call(<<Say, Exit>>, << >>)>>, Start, Exact)
  /\ Judged(Chain(2, <<Say>>, << >>), Start, Exact)
  /\ Judged(<<Verdict>>, Flagged, Exact)
  /\ Judged(<<Say>>, Start, NoLie)
  /\ Judged(<<Verdict>>, Wary, NoLie) /\ Judged(<<Verdict>>, Off, NoLie)
  /\ Judged(<<Say>>, Fine, NoMiss) /\ Judged(<<Verdict>>, Fine, NoMiss)
  <1>1. Does(<<Say>>, Start, Done, Exact) /\ Does(<<Say>>, Start, Honest, NoLie)
    BY FlagFacts, EndFlags, DoesSteps
  <1>2. Does(<<Say>>, Fine, Told, NoMiss)
    BY FlagFacts, DoesSteps
  <1>3. Does(OneCall, Start, Done, Exact)
    BY <1>1, FailedEnds, DoesSteps DEF OneCall
  <1>4. Does(Chain(2, <<Say>>, << >>), Start, Done, Exact)
    <2>1. Does(<<Call(<<Call(<<Say>>, << >>)>>, << >>)>>, Start, Done, Exact)
      BY <1>3, FailedEnds, DoesCall DEF OneCall
    <2> QED BY <2>1, ChainUnfold
  <1>5. Does(<<Call(<<Say, Exit>>, << >>)>>, Start, Done, Exact)
    <2>1. Does(<<Exit>>, Done, Done, Exact)
      <3>1. "zero" \in Statuses
        BY DEF Statuses
      <3>2. \A o, b, l, x \in BOOLEAN : <<o, b, l, x>> \in Done => <<"zero", b, l, x>> \in Exact
        BY <3>1, EndFlags, VerdictFacts DEF Wrote
      <3> QED BY <3>2, DoesSteps DEF Exit
    <2>2. Does(<<Say>> \o <<Exit>>, Start, Done, Exact)
      BY <1>1, <2>1, DoesCat
    <2>3. <<Say, Exit>> = <<Say>> \o <<Exit>>
      BY Tuples
    <2>4. Does(<<Say, Exit>>, Start, Done, Exact)
      BY <2>2, <2>3
    <2> QED BY <2>4, FailedEnds, DoesSteps
  <1>6. Does(<<Verdict>>, Flagged, Done, Exact)
    BY FlagFacts, EndFlags, DoesVerdict
  <1>7. Does(<<Verdict>>, Wary, Honest, NoLie) /\ Does(<<Verdict>>, Off, Honest, NoLie)
    BY FlagFacts, EndFlags, DoesVerdict
  <1>8. Does(<<Verdict>>, Fine, Told, NoMiss)
    BY FlagFacts, DoesVerdict
  <1> QED BY <1>1, <1>2, <1>3, <1>4, <1>5, <1>6, <1>7, <1>8, JudgedEnd, Returning

-----------------------------------------------------------------------------
(* The programs without processes, judged                                  *)

\* The programs in which a failure ends the run without a verdict.
LEMMA StrictRuns ==
  /\ Judged(brk01, Start, Exact) /\ Judged(brk02, Start, Exact) /\ Judged(close02, Start, Exact)
  /\ Judged(fcntl01, Start, Exact) /\ Judged(fcntl03, Start, Exact)
  /\ Judged(fcntl04, Start, Exact) /\ Judged(fcntl05, Start, Exact)
  /\ Judged(fcntl08, Start, Exact) /\ Judged(mmap001, Start, Exact) /\ Judged(mmap05, Start, Exact)
  /\ Judged(mmap06, Start, Exact) /\ Judged(mmap07, Start, Exact) /\ Judged(mmap08, Start, Exact)
  /\ Judged(mmap13, Start, Exact) /\ Judged(mmap15, Start, Exact) /\ Judged(mmap17, Start, Exact)
  /\ Judged(munmap01, Start, Exact) /\ Judged(munmap02, Start, Exact) /\ Judged(openat04, Start, Exact)
  /\ Judged(prctl01, Start, Exact) /\ Judged(read01, Start, Exact) /\ Judged(read03, Start, Exact)
  /\ Judged(read04, Start, Exact) /\ Judged(write02, Start, Exact) /\ Judged(write04, Start, Exact)
  /\ Judged(sigprocmask01, Start, Exact) /\ Judged(set_tid_address01, Start, Exact)
  <1> DEFINE J(t) == Judged(t, Start, Exact)
             K(q) == Keeps(q, Start, Exact)
  <1>1. K(<<Need>>) /\ K(<<Touch>>) /\ \A n \in Nat : K(Needs(n))
    BY Habits, Conditions
  <1>2. \A q, r : K(q) /\ K(r) => K(q \o r)
    BY DoesCat DEF Keeps
  <1>3. \A q, u : K(q) /\ IsSeq(u) /\ J(u) => J(q \o u)
    BY JudgedCat DEF Keeps
  <1>4. IsSeq(<<Say>>) /\ J(<<Say>>) /\ IsSeq(OneCall) /\ J(OneCall)
    BY Endings, Tuples DEF OneCall
  <1>5. Judged(close02, Start, Exact)
    BY <1>4 DEF close02
  <1>6. J(fcntl03) /\ J(fcntl05) /\ J(fcntl08) /\ J(mmap17)
        /\ J(read01) /\ J(write02) /\ J(write04) /\ J(set_tid_address01)
    BY <1>4 DEF fcntl03, fcntl05, fcntl08, mmap17, read01, write02, write04, set_tid_address01
  <1>7. J(brk02) /\ J(fcntl01) /\ J(fcntl04) /\ J(mmap05) /\ J(mmap13) /\ J(openat04) /\ J(prctl01) /\ J(read04)
    BY <1>1, <1>3, <1>4 DEF brk02, fcntl01, fcntl04, mmap05, mmap13, openat04, prctl01, read04
  <1>8. J(mmap06) /\ J(mmap07) /\ J(mmap08) /\ J(read03)
    BY <1>1, <1>3, <1>4 DEF mmap06, mmap07, mmap08, read03
  <1>9. J(brk01)
    <2>1. K(<<Need, Touch, Need, Need>>)
      BY <1>1, KeepsTuples
    <2>2. K(Rep(11, <<Need, Touch, Need, Need>>))
      BY <2>1, DoesRep
    <2> QED BY <1>1, <1>2, <1>3, <1>4, <2>2 DEF brk01
  <1>10. J(mmap001)
    BY <1>1, <1>2, <1>3, <1>4 DEF mmap001
  <1>11. J(mmap15)
    BY Endings DEF mmap15
  <1>12. J(munmap01) /\ J(munmap02)
    BY <1>1, <1>3, Endings, Tuples DEF munmap01, munmap02
  <1>13. J(sigprocmask01)
    <2>1. Does(<<Say>>, Start, Done, Exact)
      BY FlagFacts, EndFlags, DoesSteps
    <2>2. Does(OneCall, Start, Done, Exact)
      BY <2>1, FailedEnds, DoesCall DEF OneCall
    <2>3. Does(Needs(4) \o OneCall, Start, Done, Exact)
      BY <1>1, <2>2, DoesCat DEF Keeps
    <2>4. Does(<<Call(Needs(4) \o OneCall, << >>)>>, Start, Done, Exact)
      BY <2>3, FailedEnds, DoesCall
    <2>5. J(<<Call(Needs(4) \o OneCall, << >>)>>)
      BY <2>4, JudgedEnd, Returning
    <2> QED BY <1>1, <1>3, <2>5, Tuples DEF sigprocmask01
  <1> QED BY <1>5, <1>6, <1>7, <1>8, <1>9, <1>10, <1>11, <1>12, <1>13

\* The programs in which a failure clears the flag on which the verdict hangs.
LEMMA FlaggedRuns ==
  /\ Judged(execve03, Flagged, Exact) /\ Judged(fcntl02, Flagged, Exact)
  /\ Judged(fcntl09, Flagged, Exact) /\ Judged(fcntl10, Flagged, Exact)
  /\ Judged(mmap09, Flagged, Exact) /\ Judged(mprotect01, Flagged, Exact)
  /\ Judged(prctl05, Flagged, Exact) /\ Judged(write01, Flagged, Exact)
  <1> DEFINE J(t) == Judged(t, Flagged, Exact)
             K(q) == Keeps(q, Flagged, Exact)
  <1>1. /\ K(<<Need>>) /\ K(<<Touch>>) /\ K(<<Check>>) /\ K(Case(2)) /\ K(Case(3))
        /\ \A n \in Nat : K(Needs(n))
    BY Habits, Conditions
  <1>2. \A q, r : K(q) /\ K(r) => K(q \o r)
    BY DoesCat DEF Keeps
  <1>3. \A q, u : K(q) /\ IsSeq(u) /\ J(u) => J(q \o u)
    BY JudgedCat DEF Keeps
  <1>4. IsSeq(<<Verdict>>) /\ J(<<Verdict>>)
    BY Endings, Tuples
  <1>5. \A q : K(q) => \A n \in Nat : K(Rep(n, q))
    BY DoesRep
  <1>6. K(<<Check, Check>>) /\ K(<<Need, Check>>)
    BY <1>1, KeepsTuples
  <1>7. J(fcntl02) /\ J(prctl05)
    BY <1>1, <1>3, <1>4, <1>5 DEF fcntl02, prctl05
  <1>8. J(fcntl09) /\ J(fcntl10)
    BY <1>1, <1>2, <1>3, <1>4, <1>5, <1>6 DEF fcntl09, fcntl10
  <1>9. J(mmap09)
    BY <1>1, <1>2, <1>3, <1>4, <1>5 DEF mmap09
  <1>10. J(mprotect01)
    BY <1>1, <1>2, <1>3, <1>4 DEF mprotect01
  <1>11. J(write01)
    BY <1>3, <1>4, <1>5, <1>6, RoundsAssumption DEF write01
  <1>12. J(execve03)
    <2>1. Does(<<Fail>>, Failed(Flagged), Flagged, Exact)
      <3>1. \A o, b, l, x \in BOOLEAN : <<o, b, l, x>> \in Failed(Flagged) => <<FALSE, b, l, x>> \in Flagged
        BY FailedFacts, FlagFacts
      <3> QED BY <3>1, DoesSteps DEF Fail
    <2>2. Does(<<Become(<< >>)>>, Failed(Flagged), Flagged, Exact)
      <3> SUFFICES ASSUME NEW v, IsSeq(v),
                          NEW o \in BOOLEAN, NEW b \in BOOLEAN, NEW l \in BOOLEAN, NEW x \in BOOLEAN,
                          <<o, b, l, x>> \in Failed(Flagged)
                   PROVE  Run(<<Become(<< >>)>> \o v, o, b, l, x, Exact)
        BY Tuples DEF Does, Judged
      <3>1. <<TRUE, FALSE, l, x>> \in Done
        BY FailedFacts, FlagFacts, EndFlags
      <3>2. Run(<< >>, TRUE, FALSE, l, x, Exact)
        BY <3>1, Returning DEF Judged
      <3> QED BY <3>2, RunSteps
    <2>3. Does(<<Pick(<<Become(<< >>)>>, <<Fail>>)>>, Failed(Flagged), Flagged, Exact)
      BY <2>1, <2>2, DoesSteps
    <2>4. K(<<Call(<< >>, <<Pick(<<Become(<< >>)>>, <<Fail>>)>>)>>)
      BY <2>3, DoesCall, KeepsTuples DEF Keeps
    <2> QED BY <1>1, <1>2, <1>3, <1>4, <1>5, <2>4 DEF execve03
  <1> QED BY <1>7, <1>8, <1>9, <1>10, <1>11, <1>12

\* A judged tuple, from its first step on.
LEMMA JudgedTuples ==
  ASSUME NEW S, NEW E
  PROVE  /\ \A a, b : Keeps(<<a>>, S, E) /\ Judged(<<b>>, S, E) => Judged(<<a, b>>, S, E)
         /\ \A a, b, c : Keeps(<<a>>, S, E) /\ Judged(<<b, c>>, S, E) => Judged(<<a, b, c>>, S, E)
         /\ \A a, b, c, d : Keeps(<<a>>, S, E) /\ Judged(<<b, c, d>>, S, E) => Judged(<<a, b, c, d>>, S, E)
         /\ \A a, b, c, d, e : Keeps(<<a>>, S, E) /\ Judged(<<b, c, d, e>>, S, E)
                               => Judged(<<a, b, c, d, e>>, S, E)
         /\ \A a, b, c, d, e, f : Keeps(<<a>>, S, E) /\ Judged(<<b, c, d, e, f>>, S, E)
                                  => Judged(<<a, b, c, d, e, f>>, S, E)
         /\ \A a, b, c, d, e, f, g : Keeps(<<a>>, S, E) /\ Judged(<<b, c, d, e, f, g>>, S, E)
                                     => Judged(<<a, b, c, d, e, f, g>>, S, E)
  <1>1. \A a, u : Keeps(<<a>>, S, E) /\ IsSeq(u) /\ Judged(u, S, E) => Judged(<<a>> \o u, S, E)
    BY JudgedCat DEF Keeps
  <1>2. ASSUME NEW a, NEW b, Keeps(<<a>>, S, E), Judged(<<b>>, S, E) PROVE Judged(<<a, b>>, S, E)
    <2>1. <<a, b>> = <<a>> \o <<b>> /\ IsSeq(<<b>>)
      BY Tuples
    <2> QED BY <1>1, <1>2, <2>1
  <1>3. ASSUME NEW a, NEW b, NEW c, Keeps(<<a>>, S, E), Judged(<<b, c>>, S, E)
        PROVE  Judged(<<a, b, c>>, S, E)
    <2>1. <<a, b, c>> = <<a>> \o <<b, c>> /\ IsSeq(<<b, c>>)
      BY Tuples, SMTT(30)
    <2> QED BY <1>1, <1>3, <2>1
  <1>4. ASSUME NEW a, NEW b, NEW c, NEW d, Keeps(<<a>>, S, E), Judged(<<b, c, d>>, S, E)
        PROVE  Judged(<<a, b, c, d>>, S, E)
    <2>1. <<a, b, c, d>> = <<a>> \o <<b, c, d>> /\ IsSeq(<<b, c, d>>)
      BY Tuples, SMTT(30)
    <2> QED BY <1>1, <1>4, <2>1
  <1>5. ASSUME NEW a, NEW b, NEW c, NEW d, NEW e, Keeps(<<a>>, S, E), Judged(<<b, c, d, e>>, S, E)
        PROVE  Judged(<<a, b, c, d, e>>, S, E)
    <2>1. <<a, b, c, d, e>> = <<a>> \o <<b, c, d, e>> /\ IsSeq(<<b, c, d, e>>)
      BY Tuples, SMTT(30)
    <2> QED BY <1>1, <1>5, <2>1
  <1>6. ASSUME NEW a, NEW b, NEW c, NEW d, NEW e, NEW f, Keeps(<<a>>, S, E), Judged(<<b, c, d, e, f>>, S, E)
        PROVE  Judged(<<a, b, c, d, e, f>>, S, E)
    <2>1. <<a, b, c, d, e, f>> = <<a>> \o <<b, c, d, e, f>> /\ IsSeq(<<b, c, d, e, f>>)
      BY Tuples, SMTT(30)
    <2> QED BY <1>1, <1>6, <2>1
  <1>7. ASSUME NEW a, NEW b, NEW c, NEW d, NEW e, NEW f, NEW g, Keeps(<<a>>, S, E),
               Judged(<<b, c, d, e, f, g>>, S, E)
        PROVE  Judged(<<a, b, c, d, e, f, g>>, S, E)
    <2>1. <<a, b, c, d, e, f, g>> = <<a>> \o <<b, c, d, e, f, g>> /\ IsSeq(<<b, c, d, e, f, g>>)
      BY Tuples, SMTT(30)
    <2> QED BY <1>1, <1>7, <2>1
  <1> QED BY <1>2, <1>3, <1>4, <1>5, <1>6, <1>7

\* The programs without a verdict.
LEMMA SilentRuns ==
  /\ Judged(eventfd01, Silent, NoLie) /\ Judged(execve01_child, Silent, NoLie)
  /\ Judged(execve_child, Silent, NoLie) /\ Judged(execve06_child, Silent, NoLie)
  /\ Judged(faccessat01, Silent, NoLie) /\ Judged(fcntl06, Silent, NoLie)
  /\ Judged(mmap01, Silent, NoLie) /\ Judged(openat02_child, Silent, NoLie)
  /\ Judged(prctl06, Silent, NoLie) /\ Judged(prctl07, Silent, NoLie)
  /\ Judged(read02, Silent, NoLie) /\ Judged(sched_setattr01, Silent, NoLie)
  <1> DEFINE J(t) == Judged(t, Silent, NoLie)
             K(q) == Keeps(q, Silent, NoLie)
  <1>1. /\ K(<<Need>>) /\ K(<<Touch>>) /\ K(<<Note>>) /\ K(<<Undefined>>)
        /\ K(Chain(2, << >>, << >>)) /\ \A n \in Nat : K(Needs(n))
    BY Habits, Conditions
  <1>2. \A q, r : K(q) /\ K(r) => K(q \o r)
    BY DoesCat DEF Keeps
  <1>3. \A q : K(q) => J(q)
    BY JudgedEnd, Returning DEF Keeps
  <1>4. \A q : K(q) => \A n \in Nat : K(Rep(n, q))
    BY DoesRep
  <1>5. K(<< >>) /\ K(<<Undefined, Need>>) /\ K(<<Undefined, Undefined>>)
    BY <1>1, KeepsTuples
  <1>6. K(<<Touch, Need, Touch, Need, Note>>)
    <2>1. K(<<Need, Note>>)
      BY <1>1, KeepsTuples
    <2>2. K(<<Touch, Need, Note>>)
      BY <1>1, <2>1, KeepsTuples
    <2>3. K(<<Need, Touch, Need, Note>>)
      BY <1>1, <2>2, KeepsTuples
    <2> QED BY <1>1, <2>3, KeepsTuples
  <1>7. K(<<End("other")>>)
    <2>1. "other" \in Statuses
      BY DEF Statuses
    <2>2. \A o, b, l, x \in BOOLEAN : <<o, b, l, x>> \in Silent => <<"other", b, l, x>> \in NoLie
      BY <2>1, FlagFacts, VerdictFacts DEF Wrote
    <2> QED BY <2>2, DoesSteps DEF Keeps
  <1>8. K(eventfd01) /\ K(execve01_child) /\ K(execve_child) /\ K(execve06_child)
    BY <1>5 DEF eventfd01, execve01_child, execve_child, execve06_child
  <1>9. K(faccessat01) /\ K(read02)
    BY <1>1, <1>2, <1>4, <1>5 DEF faccessat01, read02
  <1>10. K(fcntl06) /\ K(mmap01)
    BY <1>1, <1>2, <1>6 DEF fcntl06, mmap01
  <1>11. K(openat02_child) /\ K(prctl06) /\ K(prctl07)
    BY <1>1, <1>5, <1>7 DEF openat02_child, prctl06, prctl07
  <1>12. K(sched_setattr01)
    BY <1>1, <1>4 DEF sched_setattr01
  <1> QED BY <1>3, <1>8, <1>9, <1>10, <1>11, <1>12

\* The programs that may keep silent.
LEMMA WaryRuns ==
  /\ Judged(mmap11, Start, NoLie) /\ Judged(openat01, Wary, NoLie) /\ Judged(openat02, Wary, NoLie)
  /\ Judged(prctl06_execve, Silent, NoLie)
  <1> DEFINE J(t) == Judged(t, Wary, NoLie)
             K(q) == Keeps(q, Wary, NoLie)
  <1>1. Judged(mmap11, Start, NoLie)
    <2>1. /\ Keeps(<<Undefined>>, Start, NoLie) /\ Keeps(<<Need>>, Start, NoLie)
          /\ Keeps(Needs(4), Start, NoLie)
      BY Habits, Conditions
    <2>2. Judged(<<Undefined, Need, Say>>, Start, NoLie)
      BY <2>1, JudgedTuples, Endings
    <2> QED BY <2>1, <2>2, JudgedCat, Tuples DEF mmap11, Keeps
  <1>2. K(<<Undefined>>) /\ K(<<Check>>) /\ K(Case(1)) /\ K(Case(2))
    BY Habits, Conditions
  <1>3. \A q, r : K(q) /\ K(r) => K(q \o r)
    BY DoesCat DEF Keeps
  <1>4. \A q, u : K(q) /\ IsSeq(u) /\ J(u) => J(q \o u)
    BY JudgedCat DEF Keeps
  <1>5. K(<<Fail>>) /\ K(<< >>) /\ Does(<<Fail>>, Failed(Wary), Wary, NoLie)
    <2>1. /\ \A o, b, l, x \in BOOLEAN : <<o, b, l, x>> \in Failed(Wary) => <<FALSE, b, l, x>> \in Wary
          /\ \A o, b, l, x \in BOOLEAN : <<o, b, l, x>> \in Wary => <<FALSE, b, l, x>> \in Wary
      BY FailedFacts, FlagFacts
    <2> QED BY <2>1, DoesSteps, KeepsTuples DEF Fail, Keeps
  <1>6. K(<<Pick(<< >>, <<Fail>>)>>)
    BY <1>5, DoesSteps DEF Keeps
  <1>7. J(openat01)
    BY <1>2, <1>6, JudgedTuples, Endings DEF openat01
  <1>8. K(<<Miss, End("other")>>)
    <2>1. \A o, b, l, x \in BOOLEAN : <<o, b, l, x>> \in Wary => <<o, b, l, TRUE>> \in Silent
      BY FlagFacts
    <2>2. Does(<<Miss>>, Wary, Silent, NoLie)
      BY <2>1, DoesSteps
    <2>3. "other" \in Statuses
      BY DEF Statuses
    <2>4. \A o, b, l, x \in BOOLEAN : <<o, b, l, x>> \in Silent => <<"other", b, l, x>> \in NoLie
      BY <2>3, FlagFacts, VerdictFacts DEF Wrote
    <2>5. Does(<<End("other")>>, Silent, Wary, NoLie)
      BY <2>4, DoesSteps
    <2>6. <<Miss, End("other")>> = <<Miss>> \o <<End("other")>>
      BY Tuples
    <2>7. Does(<<Miss>> \o <<End("other")>>, Wary, Wary, NoLie)
      BY <2>2, <2>5, DoesCat
    <2> QED BY <2>6, <2>7 DEF Keeps
  <1>9. K(<<Pick(<<Miss, End("other")>>, <<Pick(<< >>, <<Fail>>)>>)>>)
    BY <1>6, <1>8, DoesSteps DEF Keeps
  <1>10. K(<<Call(<<Pick(<<Miss, End("other")>>, <<Pick(<< >>, <<Fail>>)>>)>>, <<Fail>>)>>)
    BY <1>5, <1>9, DoesCall DEF Keeps
  <1>11. J(openat02)
    <2>1. K(<<Undefined, Undefined>>)
      BY <1>2, KeepsTuples
    <2> QED BY <1>2, <1>3, <1>4, <1>10, <2>1, Endings, Tuples DEF openat02
  <1>12. Judged(prctl06_execve, Silent, NoLie)
    <2> DEFINE r == <<Touch, Note, Check, Note, Check, Note, Verdict>>
    <2>1. Keeps(<<Touch>>, Off, NoLie) /\ Keeps(<<Note>>, Off, NoLie) /\ Keeps(<<Check>>, Off, NoLie)
      BY Habits, Conditions
    <2>2. Judged(r, Off, NoLie)
      BY <2>1, JudgedTuples, Endings
    <2>3. Does(<<Fail>>, Silent, Off, NoLie)
      <3>1. \A o, b, l, x \in BOOLEAN : <<o, b, l, x>> \in Silent => <<FALSE, b, l, x>> \in Off
        BY FlagFacts
      <3> QED BY <3>1, DoesSteps DEF Fail
    <2>4. prctl06_execve = <<Fail>> \o r /\ IsSeq(r)
      BY Tuples, SMTT(30) DEF prctl06_execve
    <2> QED BY <2>2, <2>3, <2>4, JudgedCat
  <1> QED BY <1>1, <1>7, <1>11, <1>12

\* After a failure nothing is asked of a run any more, if its program may lie.
Lost == {g \in Flags : g[4]}

\* The states after a failure.
LEMMA LostFacts ==
  ASSUME NEW o \in BOOLEAN, NEW b \in BOOLEAN, NEW l \in BOOLEAN, NEW x \in BOOLEAN
  PROVE  <<o, b, l, x>> \in Lost <=> x
  <1> DEFINE g == <<o, b, l, x>>
  <1>1. g \in Flags /\ g[4] = x
    BY DEF Flags
  <1> HIDE DEF g
  <1> QED BY <1>1 DEF g, Lost

\* After a failure, whatever is done owes no success.
LEMMA LostKeeps ==
  /\ Keeps(<<Touch>>, Lost, NoMiss) /\ Keeps(<<Undefined>>, Lost, NoMiss)
  /\ Keeps(<<Note>>, Lost, NoMiss) /\ Keeps(<<Need>>, Lost, NoMiss)
  /\ Keeps(<<Say>>, Lost, NoMiss) /\ Keeps(<<Fail>>, Lost, NoMiss)
  /\ Keeps(<<Exit>>, Lost, NoMiss) /\ Keeps(<<Die>>, Lost, NoMiss)
  /\ Keeps(<<Same>>, Lost, NoMiss)
  /\ \A q, T : Keeps(q, Lost, NoMiss) /\ (T = Fine \/ T = Told) =>
       Does(q, Failed(Fine), T, NoMiss) /\ Does(q, Failed(Told), T, NoMiss)
  <1>1. {"zero", "signal"} \subseteq Statuses /\ TRUE \in BOOLEAN /\ FALSE \in BOOLEAN
    BY DEF Statuses
  <1>2. /\ Exits(Lost, NoMiss) /\ Dies(Lost, NoMiss) /\ Crashes(Lost, NoMiss) /\ Bears(Lost)
    BY <1>1, LostFacts, VerdictFacts DEF Exits, Dies, Crashes, Bears
  <1>3. /\ Keeps(<<Touch>>, Lost, NoMiss) /\ Keeps(<<Undefined>>, Lost, NoMiss)
        /\ Keeps(<<Note>>, Lost, NoMiss) /\ Keeps(<<Need>>, Lost, NoMiss)
    BY <1>2, Habits
  <1>4. Keeps(<<Say>>, Lost, NoMiss) /\ Keeps(<<Fail>>, Lost, NoMiss)
    BY <1>1, LostFacts, DoesSteps DEF Keeps, Fail
  <1>5. Keeps(<<Exit>>, Lost, NoMiss) /\ Keeps(<<Die>>, Lost, NoMiss)
    BY <1>1, LostFacts, VerdictFacts, DoesSteps DEF Keeps, Exit, Die
  <1>6. Does(<< >>, Failed(Lost), Lost, NoMiss)
    BY FailedFacts, LostFacts, DoesNothing
  <1>7. Keeps(<<Same>>, Lost, NoMiss)
    BY <1>4, <1>6, DoesCall DEF Keeps, Same
  <1>8. ASSUME NEW q, NEW T, Keeps(q, Lost, NoMiss), T = Fine \/ T = Told
        PROVE  Does(q, Failed(Fine), T, NoMiss) /\ Does(q, Failed(Told), T, NoMiss)
    <2>1. \A o, b, l, x \in BOOLEAN : <<o, b, l, x>> \in Lost => <<o, b, l, x>> \in T
      BY <1>8, LostFacts, FlagFacts
    <2>2. \A o, b, l, x \in BOOLEAN : <<o, b, l, x>> \in Failed(Fine) => <<o, b, l, x>> \in Lost
      BY FailedFacts, LostFacts
    <2>3. \A o, b, l, x \in BOOLEAN : <<o, b, l, x>> \in Failed(Told) => <<o, b, l, x>> \in Lost
      BY FailedFacts, LostFacts
    <2> QED BY <1>8, <2>1, <2>2, <2>3, DoesMore DEF Keeps
  <1> QED BY <1>3, <1>4, <1>5, <1>7, <1>8

\* The programs that give their verdict whatever else has failed.
LEMMA LenientRuns ==
  /\ Judged(close01, Fine, NoMiss) /\ Judged(mmap02, Fine, NoMiss) /\ Judged(mmap03, Fine, NoMiss)
  /\ Judged(mmap04, Fine, NoMiss) /\ Judged(mmap12, Fine, NoMiss) /\ Judged(mmap14, Fine, NoMiss)
  /\ Judged(mmap19, Fine, NoMiss) /\ Judged(munmap03, Fine, NoMiss)
  /\ Judged(openat03, Fine, NoMiss) /\ Judged(ppoll01, Fine, NoMiss) /\ Judged(prctl02, Fine, NoMiss)
  /\ Judged(sched_getaffinity01, Fine, NoMiss) /\ Judged(write05, Fine, NoMiss)
  <1> DEFINE J(t) == Judged(t, Fine, NoMiss)
             K(q) == Keeps(q, Fine, NoMiss)
             D(q) == Does(q, Fine, Told, NoMiss)
             T(q) == Keeps(q, Told, NoMiss)
             L(q) == Keeps(q, Lost, NoMiss)
  <1>1. /\ K(<<Need>>) /\ K(<<Touch>>) /\ K(<<Note>>) /\ K(<<Check>>)
        /\ K(Case(1)) /\ K(Case(2)) /\ K(Case(3)) /\ K(<<Call(<<Note>>, <<Fail>>)>>)
        /\ \A n \in Nat : K(Needs(n))
    BY Habits, Conditions
  <1>2. \A q, r : K(q) /\ K(r) => K(q \o r)
    BY DoesCat DEF Keeps
  <1>3. \A q : K(q) => \A n \in Nat : K(Rep(n, q))
    BY DoesRep
  <1>4. \A q, u : K(q) /\ IsSeq(u) /\ J(u) => J(q \o u)
    BY JudgedCat DEF Keeps
  <1>5. \A q : D(q) => J(q)
    BY JudgedEnd, Returning
  <1>6. \A q, r : K(q) /\ D(r) => D(q \o r)
    BY DoesCat DEF Keeps
  <1>7. \A q, r : D(q) /\ T(r) => D(q \o r)
    BY DoesCat DEF Keeps
  <1>8. \A g, f : D(g) /\ L(f) => D(<<Call(g, f)>>)
    BY LostKeeps, DoesCall
  <1>9. \A g, f : K(g) /\ L(f) => K(<<Call(g, f)>>)
    BY LostKeeps, DoesCall DEF Keeps
  <1>10. \A g, f : T(g) /\ L(f) => T(<<Call(g, f)>>)
    BY LostKeeps, DoesCall DEF Keeps
  <1>11. \A q, r : L(q) /\ L(r) => L(q \o r)
    BY DoesCat DEF Keeps
  <1>12. L(<< >>) /\ T(<< >>) /\ D(<<Say>>) /\ T(<<Say>>)
    BY FlagFacts, DoesSteps, KeepsTuples DEF Keeps
  <1>13. D(<<Same>>) /\ D(OneCall) /\ T(OneCall)
    BY <1>8, <1>10, <1>12 DEF Same, OneCall
  <1>14. IsSeq(<<Say>>) /\ J(<<Say>>) /\ IsSeq(<<Verdict>>) /\ J(<<Verdict>>) /\ \A s : IsSeq(<<s>>)
    BY Endings, Tuples
  <1>15. J(close01)
    <2>1. IsSeq(OneCall)
      BY Tuples DEF OneCall
    <2>2. T(Rep(2, OneCall))
      BY <1>13, DoesRep
    <2>3. Rep(2 + 1, OneCall) = OneCall \o Rep(2, OneCall)
      BY <2>1, RepUnfold
    <2>4. 2 + 1 = 3
      OBVIOUS
    <2>5. D(OneCall \o Rep(2, OneCall))
      BY <1>7, <1>13, <2>2
    <2> QED BY <1>5, <2>3, <2>4, <2>5 DEF close01
  <1>16. J(mmap02)
    <2>1. <<Touch, Same>> = <<Touch>> \o <<Same>> /\ D(<<Touch>> \o <<Same>>)
      BY <1>1, <1>6, <1>13, Tuples
    <2>2. L(<<Touch, Same, Undefined>>)
      BY LostKeeps, KeepsTuples
    <2>3. D(<<Call(<<Touch, Same>>, <<Touch, Same, Undefined>>)>>)
      BY <1>8, <2>1, <2>2
    <2> QED BY <1>1, <1>4, <1>5, <1>14, <2>3 DEF mmap02
  <1>17. J(mmap03)
    <2>0. <<Need, Say>> = <<Need>> \o <<Say>>
      BY Tuples
    <2>1. <<Touch, Need, Say>> = <<Touch>> \o <<Need, Say>>
      BY Tuples, SMTT(30)
    <2>2. D(<<Touch, Need, Say>>)
      BY <1>1, <1>6, <1>12, <2>0, <2>1
    <2>3. L(<<Touch, Need, Say, Undefined>>)
      BY LostKeeps, KeepsTuples
    <2>4. D(<<Call(<<Touch, Need, Say>>, <<Touch, Need, Say, Undefined>>)>>)
      BY <1>8, <2>2, <2>3
    <2> QED BY <1>1, <1>4, <1>5, <1>14, <2>4 DEF mmap03
  <1>18. J(mmap04)
    <2> DEFINE c == Call(<< >>, <<Undefined>>)
    <2>1. T(<<c>>)
      BY <1>10, <1>12, LostKeeps
    <2>0. <<Same, c>> = <<Same>> \o <<c>>
      BY Tuples
    <2>2. <<Touch, Same, c>> = <<Touch>> \o <<Same, c>>
      BY Tuples, SMTT(30)
    <2>3. D(<<Touch, Same, c>>)
      BY <1>1, <1>6, <1>7, <1>13, <2>0, <2>1, <2>2
    <2>4. L(<<Touch, Same, Note, Undefined>>) /\ L(<<Note, Die>>)
      BY LostKeeps, KeepsTuples
    <2>5. D(<<Call(<<Touch, Same, c>>, <<Touch, Same, Note, Undefined>>)>>)
      BY <1>8, <2>3, <2>4
    <2>6. D(<<Call(<<Call(<<Touch, Same, c>>, <<Touch, Same, Note, Undefined>>)>>, <<Note, Die>>)>>)
      BY <1>8, <2>4, <2>5
    <2> QED BY <1>1, <1>4, <1>5, <1>14, <2>6 DEF mmap04
  <1>19. J(mmap12)
    <2>1. K(<<Need>> \o Rep(Many, <<Note>>))
      BY <1>1, <1>2, <1>3, RoundsAssumption
    <2>2. L(<<Pick(<< >>, <<Exit>>)>>)
      BY <1>12, LostKeeps, DoesSteps DEF Keeps
    <2>3. K(<<Call(<<Need>> \o Rep(Many, <<Note>>), <<Pick(<< >>, <<Exit>>)>>)>>)
      BY <1>9, <2>1, <2>2
    <2> QED BY <1>1, <1>14, <2>3, JudgedTuples DEF mmap12
  <1>20. J(mmap14)
    BY <1>1, <1>5, <1>13, JudgedTuples DEF mmap14, Same
  <1>21. J(mmap19)
    BY <1>1, <1>14, JudgedTuples DEF mmap19
  <1>22. D(<<Say, Exit>>) /\ T(<<Say, Exit>>)
    <2>1. T(<<Exit>>)
      <3>1. "zero" \in Statuses
        BY DEF Statuses
      <3>2. \A o, b, l, x \in BOOLEAN : <<o, b, l, x>> \in Told => <<"zero", b, l, x>> \in NoMiss
        BY <3>1, FlagFacts, VerdictFacts DEF Wrote
      <3> QED BY <3>2, DoesSteps DEF Keeps, Exit
    <2>2. <<Say, Exit>> = <<Say>> \o <<Exit>>
      BY Tuples
    <2> QED BY <1>7, <1>12, <2>1, <2>2, KeepsTuples
  <1>24. J(munmap03)
    <2> DEFINE q == Chain(2, <<Say, Exit>>, << >>)
    <2>1. q = <<Call(<<Call(<<Say, Exit>>, << >>)>>, << >>)>>
      BY ChainUnfold
    <2>2. IsSeq(q)
      BY <2>1, Tuples
    <2>3. D(q) /\ T(q)
      BY <1>8, <1>10, <1>12, <1>22, <2>1
    <2> HIDE DEF q
    <2>4. T(Rep(2, q))
      BY <2>3, DoesRep
    <2>5. Rep(2 + 1, q) = q \o Rep(2, q)
      BY <2>2, RepUnfold
    <2>6. 2 + 1 = 3
      OBVIOUS
    <2>7. J(Rep(3, q))
      BY <1>5, <1>7, <2>3, <2>4, <2>5, <2>6
    <2> QED BY <2>7 DEF munmap03, q
  <1>25. J(openat03)
    <2>1. K(<<Note, Note, Need, Need>>) /\ K(<<Note, Note, Need>>)
      BY <1>1, KeepsTuples
    <2>2. K(Rep(Many, <<Note>>)) /\ K(Rep(Many, <<Need>>)) /\ K(Rep(Many, <<Note, Note, Need>>))
      BY <1>1, <1>3, <2>1, RoundsAssumption
    <2> QED BY <1>2, <1>4, <1>14, <2>1, <2>2 DEF openat03
  <1>26. J(ppoll01)
    <2>1. K(Rep(3, <<Note>>)) /\ K(Rep(5, Case(1))) /\ K(Rep(2, Case(1)))
      BY <1>1, <1>3
    <2> QED BY <1>1, <1>2, <1>4, <1>14, <2>1 DEF ppoll01
  <1>27. J(prctl02)
    BY <1>1, <1>2, <1>3, <1>4, <1>14 DEF prctl02
  <1>28. J(sched_getaffinity01)
    <2>1. K(<<Touch, Need, Note>>) /\ K(<< >>)
      BY <1>1, KeepsTuples
    <2>2. K(<<Pick(<<Touch>>, << >>)>>)
      BY <1>1, <2>1, DoesSteps DEF Keeps
    <2>3. K(Rep(4, <<Pick(<<Touch>>, << >>)>>))
      BY <1>3, <2>2
    <2> QED BY <1>1, <1>2, <1>4, <1>14, <2>1, <2>3 DEF sched_getaffinity01
  <1>29. J(write05)
    <2> DEFINE q == Chain(2, <<Say>>, << >>)
    <2>1. q = <<Call(<<Call(<<Say>>, << >>)>>, << >>)>>
      BY ChainUnfold
    <2>2. IsSeq(q)
      BY <2>1, Tuples
    <2>3. D(q) /\ T(q)
      BY <1>8, <1>10, <1>12, <1>13, <2>1 DEF OneCall
    <2>4. T(Chain(3, <<Say>>, << >>))
      <3>1. Chain(3, <<Say>>, << >>) = <<Call(<<Call(<<Call(<<Say>>, << >>)>>, << >>)>>, << >>)>>
        BY ChainUnfold
      <3> QED BY <1>10, <1>12, <2>1, <2>3, <3>1
    <2> HIDE DEF q
    <2>5. T(Rep(1, q))
      BY <2>3, DoesRep
    <2>6. Rep(1 + 1, q) = q \o Rep(1, q)
      BY <2>2, RepUnfold
    <2>7. 1 + 1 = 2
      OBVIOUS
    <2>8. D(Rep(2, q))
      BY <1>7, <2>3, <2>5, <2>6, <2>7
    <2> QED BY <1>5, <1>7, <2>4, <2>8 DEF write05, q
  <1> QED BY <1>15, <1>16, <1>17, <1>18, <1>19, <1>20, <1>21, <1>24, <1>25, <1>26, <1>27, <1>28, <1>29

\* write06 may do anything: it may crash, and one check alone makes its verdict.
LEMMA FreeRuns == Judged(write06, Flags, Verdicts(TRUE, TRUE))
  <1> DEFINE A == Verdicts(TRUE, TRUE)
             K(q) == Keeps(q, Flags, A)
  <1>1. {"zero", "other", "signal"} \subseteq Statuses /\ TRUE \in BOOLEAN /\ FALSE \in BOOLEAN
    BY DEF Statuses
  <1>2. \A o, b, l, x \in BOOLEAN : <<o, b, l, x>> \in Flags
    BY DEF Flags
  <1>3. Dies(Flags, A) /\ Crashes(Flags, A) /\ Bears(Flags)
    BY <1>1, <1>2, VerdictFacts DEF Dies, Crashes, Bears
  <1>4. K(<<Undefined>>) /\ K(<<Note>>)
    BY <1>3, Habits
  <1>5. K(<<Fail>>) /\ K(<<Assign(TRUE)>>) /\ K(<<Say>>) /\ Does(<< >>, Failed(Flags), Flags, A)
    BY <1>1, <1>2, DoesSteps DEF Keeps, Fail
  <1>6. K(<<Call(<<Assign(TRUE)>>, << >>)>>)
    BY <1>5, DoesCall DEF Keeps
  <1>7. K(<<Verdict>>)
    BY <1>1, <1>2, DoesVerdict DEF Keeps
  <1>8. Judged(<< >>, Flags, A)
    BY <1>1, VerdictFacts, RunSteps DEF Judged
  <1>9. Judged(<<Verdict>>, Flags, A)
    BY <1>7, <1>8, JudgedEnd DEF Keeps
  <1> HIDE DEF A
  <1>10. Judged(write06, Flags, A)
    BY <1>4, <1>5, <1>6, <1>9, JudgedTuples DEF write06
  <1> QED BY <1>10 DEF A

-----------------------------------------------------------------------------
(* The programs that wait for each child at once, judged                   *)

\* A parent goes on with flags in Z after an exit with 0, in O after another and in G after
\* a death.
Led(z, o, b, w, y, Z, O, G) ==
  /\ z = "zero" => <<o, b, w, y>> \in Z
  /\ z = "other" => <<o, b, w, y>> \in O
  /\ z = "signal" => <<o, b, w, y>> \in G

\* A process with the steps t to do ends so that its parent, which had the same flags, goes
\* on like this.
Replies(t, o, b, l, x, Z, O, G) ==
  \E F : /\ Run(t, o, b, l, x, F)
         /\ \A z \in Statuses, d, m, y, w \in BOOLEAN :
              <<z, d, m, y>> \in F /\ (w <=> Wrote(z, d, m)) => Led(z, o, b, w, y, Z, O, G)

AllReply(t, S, Z, O, G) ==
  \A o, b, l, x \in BOOLEAN : <<o, b, l, x>> \in S => Replies(t, o, b, l, x, Z, O, G)

\* The parts of a wait.
LEMMA WaitParts ==
  ASSUME NEW g, NEW h, NEW i, NEW n
  PROVE  /\ Wait(g, h, i, n).op = "wait" /\ Wait(g, h, i, n).none = n
         /\ Reply(Wait(g, h, i, n), "zero") = g /\ Reply(Wait(g, h, i, n), "other") = h
         /\ Reply(Wait(g, h, i, n), "signal") = i
  BY DEF Wait, Reply

\* A failure leads from S to Failed(S).
LEMMA FailedTo ==
  ASSUME NEW S, NEW o \in BOOLEAN, NEW b \in BOOLEAN, NEW l \in BOOLEAN, NEW x \in BOOLEAN,
         <<o, b, l, x>> \in S
  PROVE  <<o, b, l, TRUE>> \in Failed(S)
  <1>1. CASE x
    <2>1. x = TRUE
      BY <1>1
    <2> QED BY <2>1, FailedFacts
  <1>2. CASE ~x
    <2>1. x = FALSE
      BY <1>2
    <2> QED BY <2>1, FailedFacts
  <1> QED BY <1>1, <1>2

\* A fork followed by the wait for its child, with the steps u and v after them.
LEMMA JudgedFork ==
  ASSUME NEW S, NEW E, NEW Z, NEW O, NEW G, NEW c, NEW p, NEW f, NEW g, NEW h, NEW i, NEW n,
         NEW u, NEW v, IsSeq(u), IsSeq(v), p \o u = <<Wait(g, h, i, n)>> \o v,
         AllReply(c \o u, S, Z, O, G), Judged(f \o u, Failed(S), E),
         Judged(g \o v, Z, E), Judged(h \o v, O, E), Judged(i \o v, G, E)
  PROVE  Judged(<<Fork(c, p, f)>> \o u, S, E)
  <1> DEFINE s == Wait(g, h, i, n)
  <1>0. s.op = "wait" /\ Reply(s, "zero") = g /\ Reply(s, "other") = h /\ Reply(s, "signal") = i
    BY WaitParts
  <1>e. p \o u = <<s>> \o v
    OBVIOUS
  <1> HIDE DEF s
  <1> SUFFICES ASSUME NEW o \in BOOLEAN, NEW b \in BOOLEAN, NEW l \in BOOLEAN, NEW x \in BOOLEAN,
                      <<o, b, l, x>> \in S
               PROVE  Run(<<Fork(c, p, f)>> \o u, o, b, l, x, E)
    BY DEF Judged
  <1>1. Replies(c \o u, o, b, l, x, Z, O, G)
    BY DEF AllReply
  <1>2. PICK F : /\ Run(c \o u, o, b, l, x, F)
                 /\ \A z \in Statuses, d, m, y, w \in BOOLEAN :
                      <<z, d, m, y>> \in F /\ (w <=> Wrote(z, d, m)) => Led(z, o, b, w, y, Z, O, G)
    BY <1>1 DEF Replies
  <1>3. ASSUME NEW z \in Statuses, NEW d \in BOOLEAN, NEW m \in BOOLEAN, NEW y \in BOOLEAN,
               NEW w \in BOOLEAN, <<z, d, m, y>> \in F, w <=> Wrote(z, d, m)
        PROVE  Run(Reply(s, z) \o v, o, b, w, y, E)
    <2>1. /\ z = "zero" => <<o, b, w, y>> \in Z
          /\ z = "other" => <<o, b, w, y>> \in O
          /\ z = "signal" => <<o, b, w, y>> \in G
      BY <1>2, <1>3 DEF Led
    <2>2. z = "zero" \/ z = "other" \/ z = "signal"
      BY DEF Statuses
    <2>3. CASE z = "zero"
      <3>1. Run(g \o v, o, b, w, y, E)
        BY <2>1, <2>3 DEF Judged
      <3> QED BY <1>0, <2>3, <3>1
    <2>4. CASE z = "other"
      <3>1. Run(h \o v, o, b, w, y, E)
        BY <2>1, <2>4 DEF Judged
      <3> QED BY <1>0, <2>4, <3>1
    <2>5. CASE z = "signal"
      <3>1. Run(i \o v, o, b, w, y, E)
        BY <2>1, <2>5 DEF Judged
      <3> QED BY <1>0, <2>5, <3>1
    <2> QED BY <2>2, <2>3, <2>4, <2>5
  <1>4. Back(s, v, o, b, F, E)
    BY <1>3 DEF Back
  <1>5. Run(f \o u, o, b, l, TRUE, E)
    BY FailedTo DEF Judged
  <1> QED BY <1>0, <1>e, <1>2, <1>4, <1>5, RunFork

\* The same with the wait in the parent's part.
LEMMA JudgedForkWait ==
  ASSUME NEW S, NEW E, NEW Z, NEW O, NEW G, NEW c, NEW f, NEW g, NEW h, NEW i, NEW n, NEW v, IsSeq(v),
         AllReply(c \o v, S, Z, O, G), Judged(f \o v, Failed(S), E),
         Judged(g \o v, Z, E), Judged(h \o v, O, E), Judged(i \o v, G, E)
  PROVE  Judged(<<Fork(c, <<Wait(g, h, i, n)>>, f)>> \o v, S, E)
  <1> DEFINE p == <<Wait(g, h, i, n)>>
  <1>1. p \o v = <<Wait(g, h, i, n)>> \o v
    OBVIOUS
  <1> HIDE DEF p
  <1>2. Judged(<<Fork(c, p, f)>> \o v, S, E)
    BY <1>1, JudgedFork
  <1> QED BY <1>2 DEF p

\* The same for a child that ends by itself, whatever follows.
LEMMA DoesFork ==
  ASSUME NEW S, NEW T, NEW E, NEW Z, NEW O, NEW G, NEW c, NEW f, NEW g, NEW h, NEW i, NEW n,
         \A v : IsSeq(v) => AllReply(c \o v, S, Z, O, G),
         Does(g, Z, T, E), Does(h, O, T, E), Does(i, G, T, E)
  PROVE  /\ Does(f, Failed(S), T, E) => Does(<<Fork(c, <<Wait(g, h, i, n)>>, f)>>, S, T, E)
         /\ f = << >> /\ Does(n, Failed(S), T, E) => Does(<<Fork(c, << >>, f), Wait(g, h, i, n)>>, S, T, E)
  <1> DEFINE s == Wait(g, h, i, n)
  <1>0. s.op = "wait" /\ s.none = n
    BY WaitParts
  <1>s. IsSeq(<< >>) /\ (\A a : IsSeq(<<a>>)) /\ (\A a, d : IsSeq(<<a, d>>)) /\ \A v : IsSeq(v) => << >> \o v = v
    BY Tuples, Cat
  <1>1. ASSUME NEW v, IsSeq(v), Judged(v, T, E)
        PROVE  Judged(g \o v, Z, E) /\ Judged(h \o v, O, E) /\ Judged(i \o v, G, E)
    BY <1>1 DEF Does
  <1>2. ASSUME NEW p, NEW u, NEW v, IsSeq(u), IsSeq(v), p \o u = <<s>> \o v, Judged(v, T, E),
               Judged(f \o u, Failed(S), E)
        PROVE  Judged(<<Fork(c, p, f)>> \o u, S, E)
    <2>1. AllReply(c \o u, S, Z, O, G)
      BY <1>2
    <2>2. Judged(g \o v, Z, E) /\ Judged(h \o v, O, E) /\ Judged(i \o v, G, E)
      BY <1>1, <1>2
    <2> QED BY <1>2, <2>1, <2>2, JudgedFork
  <1> HIDE DEF s
  <1>3. ASSUME Does(f, Failed(S), T, E)
        PROVE  Does(<<Fork(c, <<s>>, f)>>, S, T, E)
    <2> SUFFICES ASSUME NEW v, IsSeq(v), Judged(v, T, E)
                 PROVE  Judged(<<Fork(c, <<s>>, f)>> \o v, S, E)
      BY <1>s DEF Does
    <2>1. Judged(f \o v, Failed(S), E)
      BY <1>3 DEF Does
    <2> QED BY <1>2, <2>1
  <1>4. ASSUME f = << >>, Does(n, Failed(S), T, E)
        PROVE  Does(<<Fork(c, << >>, f), s>>, S, T, E)
    <2> SUFFICES ASSUME NEW v, IsSeq(v), Judged(v, T, E)
                 PROVE  Judged(<<Fork(c, << >>, f), s>> \o v, S, E)
      BY <1>s DEF Does
    <2>1. <<Fork(c, << >>, f), s>> = <<Fork(c, << >>, f)>> \o <<s>>
      BY Tuples
    <2>2. IsSeq(<<Fork(c, << >>, f)>>) /\ IsSeq(<<s>>)
      BY <1>s
    <2>3. (<<Fork(c, << >>, f)>> \o <<s>>) \o v = <<Fork(c, << >>, f)>> \o (<<s>> \o v)
      BY <2>2, Assoc
    <2>4. IsSeq(<<s>> \o v)
      BY <2>2, Cat
    <2>5. << >> \o (<<s>> \o v) = <<s>> \o v
      BY <1>s, <2>4
    <2>6. Judged(n \o v, Failed(S), E)
      BY <1>4 DEF Does
    <2>7. Judged(<<s>> \o v, Failed(S), E)
      BY <1>0, <2>6, RunWait DEF Judged
    <2>8. Judged(f \o (<<s>> \o v), Failed(S), E)
      BY <1>4, <2>5, <2>7
    <2>9. Judged(<<Fork(c, << >>, f)>> \o (<<s>> \o v), S, E)
      BY <1>2, <2>4, <2>5, <2>8
    <2> QED BY <2>1, <2>3, <2>9
  <1> QED BY <1>3, <1>4 DEF s

\* The outcomes of a child that ends with z1, or with z2 or z3 after a failure.
KidEnds(z1, z2, z3, b, l, x) == {<<z1, b, l, x>>, <<z2, b, l, TRUE>>, <<z3, b, l, TRUE>>}

\* The three ends of a child.
LEMMA EndsFacts ==
  ASSUME NEW z1, NEW z2, NEW z3, NEW b, NEW l, NEW x
  PROVE  /\ <<z1, b, l, x>> \in KidEnds(z1, z2, z3, b, l, x)
         /\ <<z2, b, l, TRUE>> \in KidEnds(z1, z2, z3, b, l, x)
         /\ <<z3, b, l, TRUE>> \in KidEnds(z1, z2, z3, b, l, x)
  BY DEF KidEnds

\* A child has no other.
LEMMA EndsOnly ==
  ASSUME NEW z1, NEW z2, NEW z3, NEW b, NEW l, NEW x, NEW z, NEW d, NEW m, NEW y,
         <<z, d, m, y>> \in KidEnds(z1, z2, z3, b, l, x)
  PROVE  d = b /\ m = l /\ ((z = z1 /\ y = x) \/ (z = z2 /\ y) \/ (z = z3 /\ y))
  <1>1. \/ <<z, d, m, y>> = <<z1, b, l, x>> \/ <<z, d, m, y>> = <<z2, b, l, TRUE>>
        \/ <<z, d, m, y>> = <<z3, b, l, TRUE>>
    BY DEF KidEnds
  <1>2. ASSUME NEW z0, NEW y0, <<z, d, m, y>> = <<z0, b, l, y0>>
        PROVE  z = z0 /\ d = b /\ m = l /\ y = y0
    BY <1>2
  <1>3. ASSUME NEW z0, <<z, d, m, y>> = <<z0, b, l, TRUE>>
        PROVE  z = z0 /\ d = b /\ m = l /\ y
    BY <1>2, <1>3
  <1> QED BY <1>1, <1>2, <1>3

\* Where the parent goes on after them.
LEMMA EndsReply ==
  ASSUME NEW t, NEW o \in BOOLEAN, NEW b \in BOOLEAN, NEW l \in BOOLEAN, NEW x \in BOOLEAN,
         NEW Z, NEW O, NEW G, NEW z1, NEW z2, NEW z3,
         Run(t, o, b, l, x, KidEnds(z1, z2, z3, b, l, x)),
         \A z \in Statuses, y, w \in BOOLEAN :
           /\ (z = z1 /\ y = x) \/ (z = z2 /\ y) \/ (z = z3 /\ y)
           /\ w <=> Wrote(z, b, l)
           => Led(z, o, b, w, y, Z, O, G)
  PROVE  Replies(t, o, b, l, x, Z, O, G)
  <1> DEFINE F == KidEnds(z1, z2, z3, b, l, x)
  <1>1. ASSUME NEW z \in Statuses, NEW d \in BOOLEAN, NEW m \in BOOLEAN, NEW y \in BOOLEAN,
               NEW w \in BOOLEAN, <<z, d, m, y>> \in F, w <=> Wrote(z, d, m)
        PROVE  Led(z, o, b, w, y, Z, O, G)
    <2>1. d = b /\ m = l /\ ((z = z1 /\ y = x) \/ (z = z2 /\ y) \/ (z = z3 /\ y))
      BY <1>1, EndsOnly
    <2>2. w <=> Wrote(z, b, l)
      BY <1>1, <2>1
    <2> QED BY <2>1, <2>2
  <1> HIDE DEF F
  <1>2. Run(t, o, b, l, x, F)
    BY DEF F
  <1> QED BY <1>1, <1>2 DEF Replies

\* The children of the ported tests: one call that decides how they end.
LEMMA Kids ==
  ASSUME NEW o, NEW b, NEW l, NEW x, NEW z1, NEW z2, NEW v, IsSeq(v)
  PROVE  Run(<<Note, Call(<<End(z1)>>, <<End(z2)>>)>> \o v, o, b, l, x, KidEnds(z1, z1, z2, b, l, x))
  <1> DEFINE c == Call(<<End(z1)>>, <<End(z2)>>)
             F == KidEnds(z1, z1, z2, b, l, x)
  <1>f. <<z1, b, l, x>> \in F /\ <<z1, b, l, TRUE>> \in F /\ <<z2, b, l, TRUE>> \in F
    BY EndsFacts
  <1> HIDE DEF F
  <1>0. IsSeq(<<Note>>) /\ IsSeq(<<c>>) /\ IsSeq(<<c>> \o v) /\ << >> \o (<<c>> \o v) = <<c>> \o v
    BY Tuples, Cat
  <1>1. Run(<<c>> \o v, o, b, l, x, F) /\ Run(<<c>> \o v, o, b, l, TRUE, F)
    BY <1>f, RunSteps
  <1>2. <<Note, c>> = <<Note>> \o <<c>>
    BY Tuples
  <1>3. (<<Note>> \o <<c>>) \o v = <<Note>> \o (<<c>> \o v)
    BY <1>0, Assoc
  <1>4. Run(<<Note>> \o (<<c>> \o v), o, b, l, x, F)
    BY <1>0, <1>1, RunSteps DEF Note
  <1> QED BY <1>2, <1>3, <1>4 DEF F

\* fcntl07, mprotect03 and mprotect02.
LEMMA ExactForks ==
  Judged(fcntl07, Flagged, Exact) /\ Judged(mprotect03, Start, Exact) /\ Judged(mprotect02, Silent, NoLie)
  <1>0. {"zero", "other", "signal"} \subseteq Statuses /\ TRUE \in BOOLEAN /\ FALSE \in BOOLEAN
    BY DEF Statuses
  <1>s. IsSeq(<< >>) /\ (\A s : IsSeq(<<s>>)) /\ (\A s, d : IsSeq(<<s, d>>)) /\ \A v : IsSeq(v) => << >> \o v = v
    BY Tuples, Cat
  <1>n. ASSUME NEW q, NEW T, NEW E, IsSeq(q) PROVE Does(q, {}, T, E)
    BY <1>n DEF Does, Judged
  <1>f. Does(<<Fail>>, Failed(Flagged), Flagged, Exact) /\ Does(<<Fail>>, Failed(Start), Flagged, Exact)
    <2>1. \A o, b, l, x \in BOOLEAN : <<o, b, l, x>> \in Failed(Flagged) => <<FALSE, b, l, x>> \in Flagged
      BY FailedFacts, FlagFacts
    <2>2. \A o, b, l, x \in BOOLEAN : <<o, b, l, x>> \in Failed(Start) => <<FALSE, b, l, x>> \in Flagged
      BY FailedFacts, FlagFacts
    <2> QED BY <2>1, <2>2, DoesSteps DEF Fail
  <1>v. IsSeq(<<Verdict>>) /\ Judged(<<Verdict>>, Flagged, Exact) /\ Judged(<<Verdict>>, Off, NoLie)
    BY Endings, <1>s
  <1>1. Judged(fcntl07, Flagged, Exact)
    <2> DEFINE c == <<Miss, End("other")>>
               k == Fork(c, <<Wait(<< >>, <<Fail>>, <<Fail>>, << >>)>>, <<Fail>>)
    <2>1. ASSUME NEW v, IsSeq(v), NEW o \in BOOLEAN, NEW b \in BOOLEAN, NEW l \in BOOLEAN, NEW x \in BOOLEAN,
                 <<o, b, l, x>> \in Flagged
          PROVE  Replies(c \o v, o, b, l, x, {}, Failed(Flagged), {})
      <3> DEFINE F == {<<"other", b, l, TRUE>>}
      <3>1. c = <<Miss>> \o <<End("other")>> /\ IsSeq(<<Miss>>) /\ IsSeq(<<End("other")>>)
        BY Tuples
      <3>2. (<<Miss>> \o <<End("other")>>) \o v = <<Miss>> \o (<<End("other")>> \o v) /\ IsSeq(<<End("other")>> \o v)
        BY <2>1, <3>1, Assoc, Cat
      <3>3. Run(<<End("other")>> \o v, o, b, l, TRUE, F)
        BY <2>1, RunSteps
      <3>4. Run(<<Miss>> \o (<<End("other")>> \o v), o, b, l, x, F)
        BY <3>2, <3>3, RunSteps
      <3>5. Run(c \o v, o, b, l, x, F)
        BY <3>1, <3>2, <3>4
      <3>6. ~b /\ ~l
        BY <2>1, FlagFacts
      <3>7. ASSUME NEW z \in Statuses, NEW d \in BOOLEAN, NEW m \in BOOLEAN, NEW y \in BOOLEAN,
                   NEW w \in BOOLEAN, <<z, d, m, y>> \in F, w <=> Wrote(z, d, m)
            PROVE  Led(z, o, b, w, y, {}, Failed(Flagged), {})
        <4>1. z = "other" /\ d = b /\ m = l /\ y
          BY <3>7
        <4>2. ~w
          BY <3>6, <3>7, <4>1 DEF Wrote
        <4>3. <<o, b, w, TRUE>> \in Flagged \/ <<o, b, w, FALSE>> \in Flagged
          BY <1>0, <3>6, <4>2, FlagFacts
        <4>4. <<o, b, w, y>> \in Failed(Flagged)
          BY <4>1, <4>3, FailedFacts
        <4> QED BY <4>1, <4>4 DEF Led
      <3> HIDE DEF F
      <3> QED BY <3>5, <3>7 DEF Replies
    <2>2. \A v : IsSeq(v) => AllReply(c \o v, Flagged, {}, Failed(Flagged), {})
      BY <2>1 DEF AllReply
    <2>3. Does(<<k>>, Flagged, Flagged, Exact)
      BY <1>f, <1>n, <1>s, <2>2, DoesFork
    <2> HIDE DEF k
    <2>4. Keeps(<<Call(<<k>>, <<Fail>>)>>, Flagged, Exact)
      BY <1>f, <2>3, DoesCall DEF Keeps
    <2>5. Keeps(Rep(4, <<Call(<<k>>, <<Fail>>)>>), Flagged, Exact)
      BY <2>4, DoesRep
    <2>6. Judged(Rep(4, <<Call(<<k>>, <<Fail>>)>>) \o <<Verdict>>, Flagged, Exact)
      BY <1>v, <2>5, JudgedCat DEF Keeps
    <2> QED BY <2>6 DEF k, fcntl07
  <1>2. ASSUME NEW v, IsSeq(v), NEW o, NEW b, NEW l, NEW x, NEW z1, NEW z2
        PROVE  Run(<<Call(<<End(z1)>>, <<End(z2)>>)>> \o v, o, b, l, x, KidEnds(z1, z2, z2, b, l, x))
    <2> DEFINE F == KidEnds(z1, z2, z2, b, l, x)
    <2>1. <<z1, b, l, x>> \in F /\ <<z2, b, l, TRUE>> \in F
      BY EndsFacts
    <2> HIDE DEF F
    <2>2. Run(<<End(z1)>> \o v, o, b, l, x, F)
      BY <1>2, <2>1, RunSteps
    <2>3. Run(<<End(z2)>> \o v, o, b, l, TRUE, F)
      BY <1>2, <2>1, RunSteps
    <2>4. Run(<<Call(<<End(z1)>>, <<End(z2)>>)>> \o v, o, b, l, x, F)
      BY <1>2, <2>2, <2>3, RunSteps
    <2> QED BY <2>4 DEF F
  <1>3. \A v : IsSeq(v) => AllReply(<<Call(<<Die>>, <<End("other")>>)>> \o v, Start, {}, Failed(Start), Start)
    <2> SUFFICES ASSUME NEW v, IsSeq(v), NEW o \in BOOLEAN, NEW b \in BOOLEAN, NEW l \in BOOLEAN,
                        NEW x \in BOOLEAN, <<o, b, l, x>> \in Start
                 PROVE  Replies(<<Call(<<Die>>, <<End("other")>>)>> \o v, o, b, l, x, {}, Failed(Start), Start)
      BY DEF AllReply
    <2>1. Run(<<Call(<<Die>>, <<End("other")>>)>> \o v, o, b, l, x, KidEnds("signal", "other", "other", b, l, x))
      BY <1>2 DEF Die
    <2>2. ASSUME NEW z \in Statuses, NEW y \in BOOLEAN, NEW w \in BOOLEAN,
                 (z = "signal" /\ y = x) \/ (z = "other" /\ y) \/ (z = "other" /\ y), w <=> Wrote(z, b, l)
          PROVE  Led(z, o, b, w, y, {}, Failed(Start), Start)
      <3>1. o /\ ~b /\ ~l /\ ~x
        BY FlagFacts
      <3>2. ~w
        BY <2>2, <3>1 DEF Wrote
      <3>3. <<o, b, w, FALSE>> \in Start
        BY <1>0, <3>1, <3>2, FlagFacts
      <3>4. y => <<o, b, w, y>> \in Failed(Start)
        BY <3>3, FailedFacts
      <3>5. ~y => <<o, b, w, y>> \in Start
        BY <3>1, <3>2, FlagFacts
      <3> QED BY <2>2, <3>1, <3>4, <3>5 DEF Led
    <2> QED BY <2>1, <2>2, EndsReply
  <1>4. Judged(mprotect03, Start, Exact)
    <2> DEFINE k == Fork(<<Call(<<Die>>, <<End("other")>>)>>, <<Wait(<< >>, <<Fail>>, << >>, << >>)>>, <<Exit>>)
    <2>1. Does(<< >>, Start, Flagged, Exact)
      BY FlagFacts, DoesNothing
    <2>2. Does(<<Exit>>, Failed(Start), Flagged, Exact)
      <3>1. \A o, b, l, x \in BOOLEAN : <<o, b, l, x>> \in Failed(Start) => <<"zero", b, l, x>> \in Exact
        BY <1>0, FailedFacts, FlagFacts, VerdictFacts, ZenonT(60) DEF Wrote
      <3> QED BY <3>1, DoesSteps DEF Exit
    <2>3. Does(<<k>>, Start, Flagged, Exact)
      BY <1>3, <1>f, <1>n, <1>s, <2>1, <2>2, DoesFork
    <2> HIDE DEF k
    <2>4. Does(<<Call(<<k>>, <<Fail>>)>>, Start, Flagged, Exact)
      BY <1>f, <2>3, DoesCall
    <2>5. Keeps(Needs(2), Start, Exact)
      BY Habits, Conditions
    <2>6. <<Call(<<k>>, <<Fail>>), Verdict>> = <<Call(<<k>>, <<Fail>>)>> \o <<Verdict>>
      BY Tuples
    <2>7. Judged(<<Call(<<k>>, <<Fail>>)>> \o <<Verdict>>, Start, Exact) /\ IsSeq(<<Call(<<k>>, <<Fail>>)>> \o <<Verdict>>)
      BY <1>v, <2>4, JudgedCat
    <2>8. Judged(Needs(2) \o <<Call(<<k>>, <<Fail>>), Verdict>>, Start, Exact)
      BY <2>5, <2>6, <2>7, JudgedCat DEF Keeps
    <2> QED BY <2>8 DEF k, mprotect03
  <1>5. Judged(mprotect02, Silent, NoLie)
    <2> DEFINE k1 == Fork(<<Call(<<Die>>, <<End("other")>>)>>, <<Wait(<< >>, <<Fail>>, <<Exit>>, << >>)>>, <<Exit>>)
               k2 == Fork(<<Call(<<Exit>>, <<Die>>)>>, <<Wait(<< >>, <<Fail>>, <<Fail>>, << >>)>>, <<Fail>>)
    <2>0. /\ \A o, b, l, x \in BOOLEAN : <<o, b, l, x>> \in Failed(Silent) => <<o, b, l, x>> \in Silent
          /\ \A o, b, l, x \in BOOLEAN : <<o, b, l, x>> \in Silent =>
               <<"zero", b, l, x>> \in NoLie /\ <<FALSE, b, l, x>> \in Off
      <3>1. \A o, b, l, x \in BOOLEAN : <<o, b, l, x>> \in Failed(Silent) => <<o, b, l, x>> \in Silent
        BY <1>0, FailedFacts, FlagFacts
      <3>2. \A o, b, l, x \in BOOLEAN : <<o, b, l, x>> \in Silent => <<"zero", b, l, x>> \in NoLie
        BY <1>0, FlagFacts, VerdictFacts DEF Wrote
      <3>3. \A o, b, l, x \in BOOLEAN : <<o, b, l, x>> \in Silent => <<FALSE, b, l, x>> \in Off
        BY <1>0, FlagFacts
      <3> QED BY <3>1, <3>2, <3>3
    <2>1. Does(<<Exit>>, Silent, Off, NoLie) /\ Does(<<Exit>>, Failed(Silent), Off, NoLie)
      <3>1. \A o, b, l, x \in BOOLEAN : <<o, b, l, x>> \in Silent => <<"zero", b, l, x>> \in NoLie
        BY <2>0
      <3>2. \A o, b, l, x \in BOOLEAN : <<o, b, l, x>> \in Failed(Silent) => <<"zero", b, l, x>> \in NoLie
        BY <2>0
      <3> QED BY <3>1, <3>2, DoesSteps DEF Exit
    <2>2. Does(<<Fail>>, Silent, Off, NoLie)
      BY <1>0, <2>0, DoesSteps DEF Fail
    <2>3. Does(<<k1>>, Silent, Off, NoLie)
      <3>1. \A v : IsSeq(v) => AllReply(<<Call(<<Die>>, <<End("other")>>)>> \o v, Silent, {}, Silent, Silent)
        <4> SUFFICES ASSUME NEW v, IsSeq(v), NEW o \in BOOLEAN, NEW b \in BOOLEAN, NEW l \in BOOLEAN,
                            NEW x \in BOOLEAN, <<o, b, l, x>> \in Silent
                     PROVE  Replies(<<Call(<<Die>>, <<End("other")>>)>> \o v, o, b, l, x, {}, Silent, Silent)
          BY DEF AllReply
        <4>1. Run(<<Call(<<Die>>, <<End("other")>>)>> \o v, o, b, l, x, KidEnds("signal", "other", "other", b, l, x))
          BY <1>2 DEF Die
        <4>2. ASSUME NEW z \in Statuses, NEW y \in BOOLEAN, NEW w \in BOOLEAN,
                     (z = "signal" /\ y = x) \/ (z = "other" /\ y) \/ (z = "other" /\ y), w <=> Wrote(z, b, l)
              PROVE  Led(z, o, b, w, y, {}, Silent, Silent)
          <5>1. ~b /\ ~l
            BY FlagFacts
          <5>2. ~w
            BY <4>2, <5>1 DEF Wrote
          <5>3. <<o, b, w, y>> \in Silent
            BY <5>1, <5>2, FlagFacts
          <5> QED BY <4>2, <5>3 DEF Led
        <4> QED BY <4>1, <4>2, EndsReply
      <3> QED BY <1>n, <1>s, <2>1, <2>2, <3>1, DoesFork
    <2>4. \A v : IsSeq(v) => AllReply(<<Call(<<Exit>>, <<Die>>)>> \o v, Off, Off, Off, Off)
      <3> SUFFICES ASSUME NEW v, IsSeq(v), NEW o \in BOOLEAN, NEW b \in BOOLEAN, NEW l \in BOOLEAN,
                          NEW x \in BOOLEAN, <<o, b, l, x>> \in Off
                   PROVE  Replies(<<Call(<<Exit>>, <<Die>>)>> \o v, o, b, l, x, Off, Off, Off)
        BY DEF AllReply
      <3>1. Run(<<Call(<<Exit>>, <<Die>>)>> \o v, o, b, l, x, KidEnds("zero", "signal", "signal", b, l, x))
        BY <1>2 DEF Exit, Die
      <3>2. ASSUME NEW z \in Statuses, NEW y \in BOOLEAN, NEW w \in BOOLEAN, w <=> Wrote(z, b, l)
            PROVE  Led(z, o, b, w, y, Off, Off, Off)
        <4>1. ~o /\ ~b /\ ~l
          BY FlagFacts
        <4>2. ~w
          BY <3>2, <4>1 DEF Wrote
        <4> QED BY <4>1, <4>2, FlagFacts DEF Led
      <3> QED BY <3>1, <3>2, EndsReply
    <2>5. Does(<< >>, Off, Off, NoLie) /\ Does(<<Fail>>, Off, Off, NoLie) /\ Does(<<Fail>>, Failed(Off), Off, NoLie)
      <3>1. \A o, b, l, x \in BOOLEAN : <<o, b, l, x>> \in Off => <<FALSE, b, l, x>> \in Off
        BY <1>0, FlagFacts
      <3>2. \A o, b, l, x \in BOOLEAN : <<o, b, l, x>> \in Failed(Off) => <<FALSE, b, l, x>> \in Off
        BY <1>0, FailedFacts, FlagFacts
      <3>3. Does(<< >>, Off, Off, NoLie)
        BY DoesNothing
      <3> QED BY <1>0, <3>1, <3>2, <3>3, DoesSteps DEF Fail
    <2>6. Does(<<k2>>, Off, Off, NoLie)
      BY <1>s, <2>4, <2>5, DoesFork
    <2> HIDE DEF k1, k2
    <2>7. Does(<<Call(<<k2>>, <<Fail>>)>>, Off, Off, NoLie)
      BY <2>5, <2>6, DoesCall
    <2>8. <<Call(<<k2>>, <<Fail>>), Verdict>> = <<Call(<<k2>>, <<Fail>>)>> \o <<Verdict>>
      BY Tuples
    <2>9. \A d : <<k1, d, Verdict>> = <<k1>> \o <<d, Verdict>> /\ IsSeq(<<k1, d, Verdict>>)
      BY Tuples, SMTT(30)
    <2>10. Judged(<<Call(<<k2>>, <<Fail>>)>> \o <<Verdict>>, Off, NoLie) /\ IsSeq(<<Call(<<k2>>, <<Fail>>)>> \o <<Verdict>>)
      BY <1>v, <2>7, JudgedCat
    <2>11. Judged(<<k1, Call(<<k2>>, <<Fail>>), Verdict>>, Silent, NoLie)
      BY <2>3, <2>8, <2>9, <2>10, JudgedCat
    <2>12. Keeps(<<Call(<< >>, <<Spin>>)>>, Silent, NoLie)
      BY <2>0, DoesNothing, DoesSpin, DoesCall DEF Keeps
    <2>13. Keeps(<<Call(<< >>, <<Pick(<< >>, <<Spin>>)>>)>>, Silent, NoLie)
      <3>1. Does(<< >>, Failed(Silent), Silent, NoLie) /\ Does(<< >>, Silent, Silent, NoLie)
        BY <2>0, DoesNothing
      <3>2. Does(<<Pick(<< >>, <<Spin>>)>>, Failed(Silent), Silent, NoLie)
        BY <3>1, DoesSpin, DoesSteps
      <3> QED BY <3>1, <3>2, DoesCall DEF Keeps
    <2> QED BY <2>11, <2>12, <2>13, JudgedTuples DEF k1, k2, mprotect02
  <1> QED BY <1>1, <1>4, <1>5

\* mmap18: whatever a child does, its parent has a verdict in its buffer or a call failed.
LEMMA Mmap18Runs == Judged(mmap18, Fine, NoMiss)
  <1> DEFINE unset == <<Pick(<<Say>>, << >>)>>
             kid1 == <<Note, Call(<<Exit>>, <<Die>>)>>
             kid2 == <<Note, Call(<<Die>>, <<Exit>>)>>
             q1 == <<Fork(kid1, << >>, << >>), Wait(<<Say>>, << >>, << >>, unset)>>
             q2 == <<Fork(kid2, << >>, << >>), Wait(<< >>, << >>, <<Say>>, unset)>>
             D(q, S) == Does(q, S, Told, NoMiss)
  <1>0. \A o, b, l, x \in BOOLEAN : <<o, b, l, x>> \in Flags
    BY DEF Flags
  <1>s. IsSeq(<< >>) /\ (\A s : IsSeq(<<s>>)) /\ (\A s, d : IsSeq(<<s, d>>)) /\ \A v : IsSeq(v) => << >> \o v = v
    BY Tuples, Cat
  <1>1. D(<<Say>>, Flags) /\ D(<< >>, Lost) /\ D(<< >>, Failed(Flags)) /\ D(<<Say>>, Failed(Flags))
    <2>1. D(<<Say>>, Flags) /\ D(<<Say>>, Failed(Flags))
      BY FlagFacts, DoesSteps
    <2>2. D(<< >>, Lost) /\ D(<< >>, Failed(Flags))
      BY FlagFacts, LostFacts, FailedFacts, DoesNothing
    <2> QED BY <2>1, <2>2
  <1>2. D(unset, Failed(Flags))
    BY <1>1, DoesSteps
  <1>3. D(<< >>, {})
    BY <1>s DEF Does, Judged
  <1>4. \A v : IsSeq(v) => AllReply(kid1 \o v, Flags, Flags, {}, Lost)
    <2> SUFFICES ASSUME NEW v, IsSeq(v), NEW o \in BOOLEAN, NEW b \in BOOLEAN, NEW l \in BOOLEAN, NEW x \in BOOLEAN
                 PROVE  Replies(kid1 \o v, o, b, l, x, Flags, {}, Lost)
      BY DEF AllReply
    <2>1. Run(kid1 \o v, o, b, l, x, KidEnds("zero", "zero", "signal", b, l, x))
      BY Kids DEF Exit, Die
    <2>2. ASSUME NEW z \in Statuses, NEW y \in BOOLEAN, NEW w \in BOOLEAN,
                 (z = "zero" /\ y = x) \/ (z = "zero" /\ y) \/ (z = "signal" /\ y)
          PROVE  Led(z, o, b, w, y, Flags, {}, Lost)
      BY <1>0, <2>2, LostFacts DEF Led
    <2> QED BY <2>1, <2>2, EndsReply
  <1>5. \A v : IsSeq(v) => AllReply(kid2 \o v, Flags, Lost, {}, Flags)
    <2> SUFFICES ASSUME NEW v, IsSeq(v), NEW o \in BOOLEAN, NEW b \in BOOLEAN, NEW l \in BOOLEAN, NEW x \in BOOLEAN
                 PROVE  Replies(kid2 \o v, o, b, l, x, Lost, {}, Flags)
      BY DEF AllReply
    <2>1. Run(kid2 \o v, o, b, l, x, KidEnds("signal", "signal", "zero", b, l, x))
      BY Kids DEF Exit, Die
    <2>2. ASSUME NEW z \in Statuses, NEW y \in BOOLEAN, NEW w \in BOOLEAN,
                 (z = "signal" /\ y = x) \/ (z = "signal" /\ y) \/ (z = "zero" /\ y)
          PROVE  Led(z, o, b, w, y, Lost, {}, Flags)
      BY <1>0, <2>2, LostFacts DEF Led
    <2> QED BY <2>1, <2>2, EndsReply
  <1> HIDE DEF unset, kid1, kid2
  <1>6. D(q1, Flags)
    BY <1>1, <1>2, <1>3, <1>4, DoesFork
  <1>7. D(q2, Flags)
    BY <1>1, <1>2, <1>3, <1>5, DoesFork
  <1>8. IsSeq(q1) /\ IsSeq(q2)
    BY <1>s
  <1> HIDE DEF q1, q2
  <1>9. D(q1, Fine) /\ D(q1, Told) /\ D(q2, Told)
    BY <1>0, <1>6, <1>7, DoesMore
  <1>10. D(Rep(1, q1), Told) /\ D(Rep(2, q2), Told)
    BY <1>9, DoesRep DEF Keeps
  <1>11. Rep(1 + 1, q1) = q1 \o Rep(1, q1)
    BY <1>8, RepUnfold
  <1>12. 1 + 1 = 2
    OBVIOUS
  <1>13. D(Rep(2, q1), Fine)
    BY <1>9, <1>10, <1>11, <1>12, DoesCat
  <1>14. Does(<<Need>>, Fine, Fine, NoMiss)
    BY Habits, Conditions DEF Keeps
  <1>15. D((<<Need>> \o Rep(2, q1)) \o Rep(2, q2), Fine)
    BY <1>10, <1>13, <1>14, DoesCat
  <1>16. Judged((<<Need>> \o Rep(2, q1)) \o Rep(2, q2), Fine, NoMiss)
    BY <1>15, JudgedEnd, Returning
  <1> QED BY <1>16 DEF mmap18, q1, q2, kid1, kid2, unset

\* prctl10: the first child goes on with the second case and never dies, so that main keeps
\* its flag if no call fails; the second dies unless a call fails.
LEMMA Prctl10Runs == Judged(prctl10, Start, NoMiss)
  <1> DEFINE unset == <<Pick(<< >>, <<Fail>>)>>
             c1 == <<Call(<<Note>>, << >>), Fail>>
             c2 == <<Call(<<Call(<<Die>>, << >>)>>, << >>), Fail>>
             k1 == Fork(c1, <<Wait(<< >>, << >>, <<Fail>>, << >>)>>, unset)
             k2 == Fork(c2, <<Wait(<<Fail>>, <<Fail>>, << >>, << >>)>>, unset)
             N == {e \in Outcomes : e[1] # "signal"}
             A == Verdicts(TRUE, TRUE)
             v == <<Verdict>>
  <1>0. {"zero", "other", "signal"} \subseteq Statuses /\ TRUE \in BOOLEAN /\ FALSE \in BOOLEAN
    BY DEF Statuses
  <1>a. \A o, b, l, x \in BOOLEAN : <<o, b, l, x>> \in Flags
    BY DEF Flags
  <1>s. IsSeq(<< >>) /\ (\A s : IsSeq(<<s>>)) /\ (\A s, d : IsSeq(<<s, d>>)) /\ \A u : IsSeq(u) => << >> \o u = u
    BY Tuples, Cat
  <1>n. \A z \in Statuses, b, l, x \in BOOLEAN : <<z, b, l, x>> \in N <=> z # "signal"
    <2> SUFFICES ASSUME NEW z \in Statuses, NEW b \in BOOLEAN, NEW l \in BOOLEAN, NEW x \in BOOLEAN
                 PROVE  <<z, b, l, x>> \in N <=> z # "signal"
      OBVIOUS
    <2> DEFINE e == <<z, b, l, x>>
    <2>1. e \in Outcomes /\ e[1] = z
      BY DEF Outcomes
    <2> HIDE DEF e
    <2>2. e \in N <=> z # "signal"
      BY <2>1
    <2> QED BY <2>2 DEF e
  <1> HIDE DEF N, A
  <1>d. <<Call(<<Note>>, << >>), Fail>> = <<Call(<<Note>>, << >>)>> \o <<Fail>>
        /\ <<Call(<<Call(<<Die>>, << >>)>>, << >>), Fail>> = <<Call(<<Call(<<Die>>, << >>)>>, << >>)>> \o <<Fail>>
    <2>1. \A s, d : <<s, d>> = <<s>> \o <<d>>
      BY Tuples
    <2> QED BY <2>1
  <1>1. ASSUME NEW E, E = N \/ E = A
        PROVE  /\ \A S : Does(<<Fail>>, S, Flags, E)
               /\ \A S : Does(<< >>, S, Flags, E)
               /\ Keeps(<<Note>>, Flags, E) /\ Judged(<< >>, Flags, E) /\ Keeps(v, Flags, E)
    <2>1. \A S : Does(<<Fail>>, S, Flags, E) /\ Does(<< >>, S, Flags, E)
      BY <1>0, <1>a, DoesSteps DEF Fail
    <2>2. Keeps(<<Note>>, Flags, E)
      BY <2>1, DoesCall DEF Keeps, Note
    <2>3. Keeps(v, Flags, E)
      BY <1>0, <1>a, DoesVerdict DEF Keeps
    <2>4. \A b, l, x \in BOOLEAN : <<"zero", b, l, x>> \in E /\ <<"other", b, l, x>> \in E
      BY <1>0, <1>1, <1>n, VerdictFacts, ZenonT(60) DEF A
    <2>5. Judged(<< >>, Flags, E)
      BY <2>4, RunSteps DEF Judged
    <2> QED BY <2>1, <2>2, <2>3, <2>5
  <1>2. ASSUME NEW E, E = N \/ E = A
        PROVE  Judged(v, Flags, E) /\ Judged(<<Fail>> \o v, Flags, E) /\ Judged(unset \o v, Failed(Flags), E)
    <2>1. Judged(v, Flags, E)
      BY <1>1, <1>2, JudgedEnd DEF Keeps
    <2>2. Does(unset, Failed(Flags), Flags, E)
      BY <1>1, <1>2, DoesSteps
    <2> QED BY <1>1, <1>2, <1>s, <2>1, <2>2, JudgedCat
  <1>3. Judged(c2 \o v, Flags, A)
    <2>1. Does(<<Die>>, Flags, Flags, A)
      BY <1>0, VerdictFacts, DoesSteps DEF A, Die
    <2>2. Does(<<Call(<<Die>>, << >>)>>, Flags, Flags, A)
      BY <1>1, <2>1, DoesCall
    <2>3. Does(<<Call(<<Call(<<Die>>, << >>)>>, << >>)>>, Flags, Flags, A)
      BY <1>1, <2>2, DoesCall
    <2>4. Does(c2, Flags, Flags, A)
      BY <1>1, <1>d, <2>3, DoesCat
    <2> QED BY <1>2, <1>s, <2>4, JudgedCat
  <1>4. Judged(<<k2>> \o v, Flags, N)
    <2>1. AllReply(c2 \o v, Flags, Flags, Flags, Flags)
      <3> SUFFICES ASSUME NEW o \in BOOLEAN, NEW b \in BOOLEAN, NEW l \in BOOLEAN, NEW x \in BOOLEAN
                   PROVE  Replies(c2 \o v, o, b, l, x, Flags, Flags, Flags)
        BY DEF AllReply
      <3>1. Run(c2 \o v, o, b, l, x, A)
        BY <1>a, <1>3 DEF Judged
      <3>2. \A z, w, y : w \in BOOLEAN /\ y \in BOOLEAN => Led(z, o, b, w, y, Flags, Flags, Flags)
        BY <1>a DEF Led
      <3> QED BY <3>1, <3>2 DEF Replies
    <2>2. Judged(v, Flags, N) /\ Judged(<<Fail>> \o v, Flags, N) /\ Judged(unset \o v, Failed(Flags), N)
      BY <1>2
    <2>3. IsSeq(v) /\ << >> \o v = v
      BY <1>s
    <2> HIDE DEF c2, unset, v
    <2>4. Judged(<< >> \o v, Flags, N)
      BY <2>2, <2>3
    <2> QED BY <2>1, <2>2, <2>3, <2>4, JudgedForkWait
  <1>5. Judged(c1 \o (<<k2>> \o v), Flags, N) /\ IsSeq(<<k2>> \o v)
    <2>1. Does(<<Call(<<Note>>, << >>)>>, Flags, Flags, N)
      BY <1>1, DoesCall DEF Keeps
    <2>2. Does(c1, Flags, Flags, N)
      BY <1>1, <1>d, <2>1, DoesCat
    <2>3. IsSeq(<<k2>> \o v)
      BY <1>s, Cat
    <2> HIDE DEF c1, k2, v
    <2> QED BY <1>4, <2>2, <2>3, JudgedCat
  <1>6. /\ Judged(v, Fine, NoMiss) /\ Judged(<<Fail>> \o v, Lost, NoMiss)
        /\ Judged(unset \o v, Failed(Fine), NoMiss) /\ Judged(v, Lost, NoMiss)
    <2>1. Judged(v, Fine, NoMiss)
      BY Endings
    <2>2. Does(<<Fail>>, Lost, Fine, NoMiss) /\ Does(<< >>, Lost, Fine, NoMiss)
      BY <1>0, LostFacts, FlagFacts, DoesSteps DEF Fail
    <2>3. Does(<<Fail>>, Failed(Fine), Fine, NoMiss) /\ Does(<< >>, Failed(Fine), Fine, NoMiss)
      BY <1>0, FailedFacts, FlagFacts, DoesSteps DEF Fail
    <2>4. Does(unset, Failed(Fine), Fine, NoMiss)
      BY <2>3, DoesSteps
    <2>5. IsSeq(v) /\ << >> \o v = v
      BY <1>s
    <2> HIDE DEF v, unset
    <2>6. Judged(<< >> \o v, Lost, NoMiss)
      BY <2>1, <2>2, <2>5, JudgedCat
    <2> QED BY <2>1, <2>2, <2>4, <2>5, <2>6, JudgedCat
  <1>7. Judged(<<k2>> \o v, Fine, NoMiss)
    <2>1. AllReply(c2 \o v, Fine, Lost, Lost, Fine)
      <3> SUFFICES ASSUME NEW o \in BOOLEAN, NEW b \in BOOLEAN, NEW l \in BOOLEAN, NEW x \in BOOLEAN,
                          <<o, b, l, x>> \in Fine
                   PROVE  Replies(c2 \o v, o, b, l, x, Lost, Lost, Fine)
        BY DEF AllReply
      <3> DEFINE F == KidEnds("signal", "zero", "other", b, l, x)
                 R == {<<FALSE, b, l, TRUE>>}
      <3>1. <<"signal", b, l, x>> \in F /\ <<"zero", b, l, TRUE>> \in F /\ <<"other", b, l, TRUE>> \in F
        BY EndsFacts
      <3> HIDE DEF F
      <3>2. Run(v, FALSE, b, l, TRUE, F)
        <4>1. Run(<< >>, FALSE, b, l, TRUE, F)
          BY <3>1, RunSteps
        <4>2. Run(<< >> \o << >>, FALSE, b, l, TRUE, F)
          BY <1>s, <4>1
        <4>3. <<If("ok", <<Say>>, << >>)>> \o << >> = v
          BY <1>s, Cat DEF Verdict
        <4>4. Run(<<If("ok", <<Say>>, << >>)>> \o << >>, FALSE, b, l, TRUE, F)
          BY <1>s, <4>2, RunSteps
        <4> QED BY <4>3, <4>4
      <3>3. IsSeq(v) /\ IsSeq(<<Fail>> \o v)
        BY <1>s, Cat
      <3>4. Run(<<Fail>> \o v, o, b, l, TRUE, F)
        BY <3>2, <3>3, RunSteps DEF Fail
      <3>5. Run(<<Die>> \o (<<Fail>> \o v), o, b, l, x, F)
        BY <3>1, <3>3, RunSteps DEF Die
      <3>6. Run(<< >> \o (<<Fail>> \o v), o, b, l, TRUE, F)
        BY <1>s, <3>3, <3>4
      <3>7. Run(<<Call(<<Die>>, << >>)>> \o (<<Fail>> \o v), o, b, l, x, F)
        BY <3>3, <3>5, <3>6, RunSteps
      <3>8. Run(<<Call(<<Call(<<Die>>, << >>)>>, << >>)>> \o (<<Fail>> \o v), o, b, l, x, F)
        BY <3>3, <3>6, <3>7, RunSteps
      <3>9. c2 \o v = <<Call(<<Call(<<Die>>, << >>)>>, << >>)>> \o (<<Fail>> \o v)
        <4>1. IsSeq(<<Call(<<Call(<<Die>>, << >>)>>, << >>)>>) /\ IsSeq(<<Fail>>)
          BY <1>s
        <4> QED BY <1>d, <3>3, <4>1, Assoc
      <3>10. Run(c2 \o v, o, b, l, x, F)
        BY <3>8, <3>9
      <3>11. ASSUME NEW z \in Statuses, NEW y \in BOOLEAN, NEW w \in BOOLEAN,
                    (z = "signal" /\ y = x) \/ (z = "zero" /\ y) \/ (z = "other" /\ y)
             PROVE  Led(z, o, b, w, y, Lost, Lost, Fine)
        <4>1. y => <<o, b, w, y>> \in Lost
          BY LostFacts
        <4>2. o \/ x
          BY FlagFacts
        <4>3. y = x => <<o, b, w, y>> \in Fine
          BY <4>2, FlagFacts
        <4> QED BY <3>11, <4>1, <4>3 DEF Led
      <3> HIDE DEF c2, v
      <3>12. Run(c2 \o v, o, b, l, x, KidEnds("signal", "zero", "other", b, l, x))
        BY <3>10 DEF F
      <3> QED BY <3>11, <3>12, EndsReply
    <2>2. IsSeq(v) /\ << >> \o v = v
      BY <1>s
    <2> HIDE DEF c2, unset, v
    <2>3. Judged(<< >> \o v, Fine, NoMiss)
      BY <1>6, <2>2
    <2> QED BY <1>6, <2>1, <2>2, <2>3, JudgedForkWait
  <1>8. Judged(<<k1>> \o (<<k2>> \o v), Start, NoMiss)
    <2> DEFINE u == <<k2>> \o v
    <2>1. AllReply(c1 \o u, Start, Fine, Fine, {})
      <3> SUFFICES ASSUME NEW o \in BOOLEAN, NEW b \in BOOLEAN, NEW l \in BOOLEAN, NEW x \in BOOLEAN,
                          <<o, b, l, x>> \in Start
                   PROVE  Replies(c1 \o u, o, b, l, x, Fine, Fine, {})
        BY DEF AllReply
      <3>1. Run(c1 \o u, o, b, l, x, N)
        BY <1>a, <1>5 DEF Judged
      <3>2. ASSUME NEW z \in Statuses, NEW d \in BOOLEAN, NEW m \in BOOLEAN, NEW y \in BOOLEAN,
                   NEW w \in BOOLEAN, <<z, d, m, y>> \in N
            PROVE  Led(z, o, b, w, y, Fine, Fine, {})
        <4>1. z # "signal"
          BY <1>n, <3>2
        <4>2. <<o, b, w, y>> \in Fine
          BY FlagFacts
        <4> QED BY <4>1, <4>2 DEF Led
      <3> HIDE DEF c1, u
      <3> QED BY <3>1, <3>2 DEF Replies
    <2>2. IsSeq(u) /\ << >> \o u = u /\ Judged(u, Fine, NoMiss)
      BY <1>5, <1>7, <1>s
    <2> HIDE DEF u
    <2>3. Does(<<Fail>>, Failed(Start), Fine, NoMiss) /\ Does(<< >>, Failed(Start), Fine, NoMiss)
      BY <1>0, FailedFacts, FlagFacts, DoesSteps DEF Fail
    <2>4. Does(unset, Failed(Start), Fine, NoMiss)
      BY <2>3, DoesSteps
    <2>5. Judged(unset \o u, Failed(Start), NoMiss)
      BY <2>2, <2>4, JudgedCat
    <2>6. Judged(<<Fail>> \o u, {}, NoMiss)
      BY DEF Judged
    <2> HIDE DEF c1, unset
    <2>8. Judged(<< >> \o u, Fine, NoMiss)
      BY <2>2
    <2>7. Judged(<<k1>> \o u, Start, NoMiss)
      BY <2>1, <2>2, <2>5, <2>6, <2>8, JudgedForkWait
    <2> QED BY <2>7 DEF u
  <1>9. <<k1, k2, Verdict>> = <<k1>> \o (<<k2>> \o v)
    <2>1. \A s, d, e : <<s, d, e>> = <<s>> \o <<d, e>>
      BY Tuples
    <2>2. \A d, e : <<d, e>> = <<d>> \o <<e>>
      BY Tuples
    <2> HIDE DEF k1, k2
    <2>3. <<k1, k2, Verdict>> = <<k1>> \o <<k2, Verdict>>
      BY <2>1
    <2>4. <<k2, Verdict>> = <<k2>> \o <<Verdict>>
      BY <2>2
    <2> QED BY <2>3, <2>4
  <1> QED BY <1>8, <1>9 DEF prctl10
-----------------------------------------------------------------------------
(* A judgement on processes that run side by side.  It follows one process *)
(* in the role k: "sure" is main as long as no call has failed, "main" is  *)
(* main whatever has failed, "kid" is any other process.  Its state is     *)
(* <<k, t, o, b>>: the role, the steps to do, the flag, the buffer.        *)

\* Main, if no call has failed, ends with a verdict that is written; the others end with a
\* status in Z.
Stops(k, z, b, Z) == (k = "sure" => b /\ z # "signal") /\ (k = "kid" => z \in Z)

\* What can come after a state is in X, whatever the other processes do; only main has a verdict in
\* its buffer.
Leads(k, t, o, b, Z, X) ==
  LET s == Head(t)
      u == Tail(t)
  IN  /\ k = "kid" => ~b
      /\ IF t = << >> THEN Stops(k, "zero", b, Z) /\ Stops(k, "other", b, Z)
         ELSE CASE s.op = "end"  -> Stops(k, s.status, b, Z)
                [] s.op = "wait" -> /\ <<k, s.none \o u, o, b>> \in X
                                    /\ \A z \in Z : <<k, Reply(s, z) \o u, o, b>> \in X
                [] s.op = "fork" -> /\ <<k, s.parent \o u, o, b>> \in X
                                    /\ k # "sure" => /\ <<k, s.failed \o u, o, b>> \in X
                                                     /\ <<"kid", s.child \o u, o, b>> \in X
                [] OTHER -> \A x \in BOOLEAN : \A m \in Moves(t, o, b, x) :
                              (k = "sure" /\ (x \/ m[4])) \/ <<k, m[1], m[2], m[3]>> \in X

Shut(X, Z) == \A k, t, o, b : <<k, t, o, b>> \in X => Leads(k, t, o, b, Z, X)

\* From the state, the process and its children do as Leads says for ever.
Apart(k, t, o, b, Z) == \E X : <<k, t, o, b>> \in X /\ Shut(X, Z)

\* More followers do no harm.
LEMMA LeadsMore ==
  ASSUME NEW k, NEW t, NEW o, NEW b, NEW Z, NEW X, NEW Y, X \subseteq Y, Leads(k, t, o, b, Z, X)
  PROVE  Leads(k, t, o, b, Z, Y)
  <1> DEFINE s == Head(t)
             u == Tail(t)
  <1>0. k = "kid" => ~b
    BY DEF Leads
  <1>1. CASE t = << >>
    BY <1>1 DEF Leads
  <1>2. CASE t # << >> /\ s.op = "end"
    BY <1>2 DEF Leads
  <1>3. CASE t # << >> /\ s.op = "wait"
    <2>1. <<k, s.none \o u, o, b>> \in X /\ \A z \in Z : <<k, Reply(s, z) \o u, o, b>> \in X
      BY <1>3 DEF Leads
    <2>2. <<k, s.none \o u, o, b>> \in Y /\ \A z \in Z : <<k, Reply(s, z) \o u, o, b>> \in Y
      BY <2>1
    <2> QED BY <1>0, <1>3, <2>2 DEF Leads
  <1>4. CASE t # << >> /\ s.op = "fork"
    <2>1. /\ <<k, s.parent \o u, o, b>> \in X
          /\ k # "sure" => <<k, s.failed \o u, o, b>> \in X /\ <<"kid", s.child \o u, o, b>> \in X
      BY <1>4 DEF Leads
    <2>2. /\ <<k, s.parent \o u, o, b>> \in Y
          /\ k # "sure" => <<k, s.failed \o u, o, b>> \in Y /\ <<"kid", s.child \o u, o, b>> \in Y
      BY <2>1
    <2> QED BY <1>0, <1>4, <2>2 DEF Leads
  <1>5. CASE t # << >> /\ s.op \notin {"end", "wait", "fork"}
    <2>1. \A x \in BOOLEAN : \A m \in Moves(t, o, b, x) :
            (k = "sure" /\ (x \/ m[4])) \/ <<k, m[1], m[2], m[3]>> \in X
      BY <1>5 DEF Leads
    <2>2. \A x \in BOOLEAN : \A m \in Moves(t, o, b, x) :
            (k = "sure" /\ (x \/ m[4])) \/ <<k, m[1], m[2], m[3]>> \in Y
      BY <2>1
    <2> QED BY <1>0, <1>5, <2>2 DEF Leads
  <1> QED BY <1>1, <1>2, <1>3, <1>4, <1>5

\* A state whose followers are judged is judged.
LEMMA JudgeApart ==
  ASSUME NEW k, NEW t, NEW o, NEW b, NEW Z, NEW R,
         \A c \in R : \E X : c \in X /\ Shut(X, Z),
         Leads(k, t, o, b, Z, R)
  PROVE  Apart(k, t, o, b, Z)
  <1> DEFINE H(c) == CHOOSE X : c \in X /\ Shut(X, Z)
             F == {H(c) : c \in R}
             n == <<k, t, o, b>>
             Y == (UNION F) \cup {n}
  <1>1. \A c \in R : c \in H(c) /\ Shut(H(c), Z)
    OBVIOUS
  <1> HIDE DEF H
  <1>2. \A X \in F : Shut(X, Z)
    BY <1>1
  <1>3. R \subseteq Y /\ \A X \in F : X \subseteq Y
    BY <1>1
  <1>4. Leads(k, t, o, b, Z, Y)
    <2> HIDE DEF Y
    <2> QED BY <1>3, LeadsMore
  <1>5. ASSUME NEW k1, NEW t1, NEW o1, NEW b1, <<k1, t1, o1, b1>> \in Y
        PROVE  Leads(k1, t1, o1, b1, Z, Y)
    <2>1. CASE <<k1, t1, o1, b1>> = n
      <3>1. k1 = k /\ t1 = t /\ o1 = o /\ b1 = b
        BY <2>1
      <3> HIDE DEF Y
      <3> QED BY <1>4, <3>1
    <2>2. CASE <<k1, t1, o1, b1>> \in UNION F
      <3>1. PICK X \in F : <<k1, t1, o1, b1>> \in X
        BY <2>2
      <3>2. Leads(k1, t1, o1, b1, Z, X)
        BY <1>2, <3>1 DEF Shut
      <3>3. X \subseteq Y
        BY <1>3
      <3> HIDE DEF Y, F
      <3> QED BY <3>2, <3>3, LeadsMore
    <2> QED BY <1>5, <2>1, <2>2
  <1>6. n \in Y /\ Shut(Y, Z)
    <2> HIDE DEF F
    <2> QED BY <1>5 DEF Shut
  <1> HIDE DEF Y
  <1> QED BY <1>6 DEF Apart

\* What follows a judged state is judged.
LEMMA ApartFollows ==
  ASSUME NEW k, NEW t, NEW o, NEW b, NEW Z, Apart(k, t, o, b, Z)
  PROVE  /\ k = "kid" => ~b
         /\ t = << >> => Stops(k, "zero", b, Z) /\ Stops(k, "other", b, Z)
         /\ t # << >> /\ Head(t).op = "end" => Stops(k, Head(t).status, b, Z)
         /\ t # << >> /\ Head(t).op = "wait" =>
              /\ Apart(k, Head(t).none \o Tail(t), o, b, Z)
              /\ \A z \in Z : Apart(k, Reply(Head(t), z) \o Tail(t), o, b, Z)
         /\ t # << >> /\ Head(t).op = "fork" =>
              /\ Apart(k, Head(t).parent \o Tail(t), o, b, Z)
              /\ k # "sure" => /\ Apart(k, Head(t).failed \o Tail(t), o, b, Z)
                               /\ Apart("kid", Head(t).child \o Tail(t), o, b, Z)
         /\ t # << >> /\ Head(t).op \notin {"end", "wait", "fork"} =>
              \A x \in BOOLEAN : \A m \in Moves(t, o, b, x) :
                (k = "sure" /\ (x \/ m[4])) \/ Apart(k, m[1], m[2], m[3], Z)
  <1> DEFINE s == Head(t)
             u == Tail(t)
  <1>0. PICK X : <<k, t, o, b>> \in X /\ Shut(X, Z)
    BY DEF Apart
  <1>1. Leads(k, t, o, b, Z, X)
    BY <1>0 DEF Shut
  <1>2. \A k1, t1, o1, b1 : <<k1, t1, o1, b1>> \in X => Apart(k1, t1, o1, b1, Z)
    BY <1>0 DEF Apart
  <1>3. /\ k = "kid" => ~b
        /\ t = << >> => Stops(k, "zero", b, Z) /\ Stops(k, "other", b, Z)
        /\ t # << >> /\ s.op = "end" => Stops(k, s.status, b, Z)
    BY <1>1 DEF Leads
  <1>4. ASSUME t # << >>, s.op = "wait"
        PROVE  Apart(k, s.none \o u, o, b, Z) /\ \A z \in Z : Apart(k, Reply(s, z) \o u, o, b, Z)
    <2>1. <<k, s.none \o u, o, b>> \in X /\ \A z \in Z : <<k, Reply(s, z) \o u, o, b>> \in X
      BY <1>1, <1>4 DEF Leads
    <2> HIDE DEF s, u
    <2> QED BY <1>2, <2>1
  <1>5. ASSUME t # << >>, s.op = "fork"
        PROVE  /\ Apart(k, s.parent \o u, o, b, Z)
               /\ k # "sure" => Apart(k, s.failed \o u, o, b, Z) /\ Apart("kid", s.child \o u, o, b, Z)
    <2>1. /\ <<k, s.parent \o u, o, b>> \in X
          /\ k # "sure" => <<k, s.failed \o u, o, b>> \in X /\ <<"kid", s.child \o u, o, b>> \in X
      BY <1>1, <1>5 DEF Leads
    <2> HIDE DEF s, u
    <2> QED BY <1>2, <2>1
  <1>6. ASSUME t # << >>, s.op \notin {"end", "wait", "fork"}, NEW x \in BOOLEAN, NEW m \in Moves(t, o, b, x)
        PROVE  (k = "sure" /\ (x \/ m[4])) \/ Apart(k, m[1], m[2], m[3], Z)
    <2>1. (k = "sure" /\ (x \/ m[4])) \/ <<k, m[1], m[2], m[3]>> \in X
      BY <1>1, <1>6 DEF Leads
    <2> QED BY <1>2, <2>1
  <1> QED BY <1>3, <1>4, <1>5, <1>6

\* The judgement, step by step.
LEMMA ApartSteps ==
  ASSUME NEW k, NEW o, NEW b, NEW Z, k = "kid" => ~b
  PROVE  /\ Stops(k, "zero", b, Z) /\ Stops(k, "other", b, Z) => Apart(k, << >>, o, b, Z)
         /\ \A u, z : IsSeq(u) /\ Stops(k, z, b, Z) => Apart(k, <<End(z)>> \o u, o, b, Z)
         /\ \A u, g, f : IsSeq(u) /\ Apart(k, g \o u, o, b, Z) /\ (k = "sure" \/ Apart(k, f \o u, o, b, Z))
                         => Apart(k, <<Call(g, f)>> \o u, o, b, Z)
         /\ \A u, c, g, f : IsSeq(u) /\ Apart(k, g \o u, o, b, Z) /\ Apart(k, f \o u, o, b, Z)
                            => Apart(k, <<If(c, g, f)>> \o u, o, b, Z)
         /\ \A u, g, f : IsSeq(u) /\ (o => Apart(k, g \o u, o, b, Z)) /\ (~o => Apart(k, f \o u, o, b, Z))
                         => Apart(k, <<If("ok", g, f)>> \o u, o, b, Z)
         /\ \A u, a : IsSeq(u) /\ Apart(k, u, a, b, Z) => Apart(k, <<Assign(a)>> \o u, o, b, Z)
         /\ \A u : IsSeq(u) /\ Apart(k, u, o, TRUE, Z) => Apart(k, <<Say>> \o u, o, b, Z)
         /\ \A u : IsSeq(u) /\ (k = "sure" \/ Apart(k, u, o, b, Z)) => Apart(k, <<Miss>> \o u, o, b, Z)
         /\ \A u, a : IsSeq(u) /\ Apart(k, a, TRUE, FALSE, Z) => Apart(k, <<Become(a)>> \o u, o, b, Z)
         /\ \A u : IsSeq(u) /\ Apart(k, u, o, b, Z) => /\ Apart(k, <<OpenHelper>> \o u, o, b, Z)
                                                       /\ Apart(k, <<CloseHelper>> \o u, o, b, Z)
         /\ \A u, c, p, f : /\ IsSeq(u) /\ Apart(k, p \o u, o, b, Z)
                            /\ k = "sure" \/ (Apart(k, f \o u, o, b, Z) /\ Apart("kid", c \o u, o, b, Z))
                            => Apart(k, <<Fork(c, p, f)>> \o u, o, b, Z)
         /\ \A u, s : /\ IsSeq(u) /\ s.op = "wait" /\ Apart(k, s.none \o u, o, b, Z)
                      /\ \A z \in Z : Apart(k, Reply(s, z) \o u, o, b, Z)
                      => Apart(k, <<s>> \o u, o, b, Z)
  <1> DEFINE G(m, x) == (k = "sure" /\ (x \/ m[4])) \/ Apart(k, m[1], m[2], m[3], Z)
  <1>0. ASSUME NEW s, NEW u, IsSeq(u), s.op \notin {"end", "wait", "fork"},
               \A x \in BOOLEAN : \A m \in Moves(<<s>> \o u, o, b, x) : G(m, x)
        PROVE  Apart(k, <<s>> \o u, o, b, Z)
    <2> DEFINE t == <<s>> \o u
               R == {<<k, q[1], q[2], q[3]>> : q \in UNION {Moves(t, o, b, x) : x \in BOOLEAN}}
               S == {c \in R : \E X : c \in X /\ Shut(X, Z)}
    <2>1. t # << >> /\ Head(t) = s
      BY <1>0, Cons
    <2>2. \A x \in BOOLEAN : \A m \in Moves(t, o, b, x) :
            (k = "sure" /\ (x \/ m[4])) \/ <<k, m[1], m[2], m[3]>> \in S
      <3>1. ASSUME NEW x \in BOOLEAN, NEW m \in Moves(t, o, b, x), ~(k = "sure" /\ (x \/ m[4]))
            PROVE  <<k, m[1], m[2], m[3]>> \in S
        <4>1. Apart(k, m[1], m[2], m[3], Z)
          BY <1>0, <3>1
        <4>2. <<k, m[1], m[2], m[3]>> \in R
          BY <3>1
        <4> HIDE DEF R
        <4> QED BY <4>1, <4>2 DEF Apart
      <3> QED BY <3>1
    <2>3. \A c \in S : \E X : c \in X /\ Shut(X, Z)
      OBVIOUS
    <2> HIDE DEF t, S
    <2>4. Leads(k, t, o, b, Z, S)
      BY <1>0, <2>1, <2>2 DEF Leads
    <2> QED BY <2>3, <2>4, JudgeApart DEF t
  <1>m. ASSUME NEW t, NEW o1, NEW b1, NEW x1, Apart(k, t, o1, b1, Z), NEW x, NEW m, m = <<t, o1, b1, x1>>
        PROVE  G(m, x)
    <2>1. m[1] = t /\ m[2] = o1 /\ m[3] = b1
      BY <1>m
    <2> QED BY <1>m, <2>1
  <1>n. ASSUME NEW t, NEW o1, NEW b1, k = "sure", NEW x, NEW m, m = <<t, o1, b1, TRUE>>
        PROVE  G(m, x)
    BY <1>n
  <1> HIDE DEF G
  <1>1. ASSUME Stops(k, "zero", b, Z), Stops(k, "other", b, Z) PROVE Apart(k, << >>, o, b, Z)
    <2>1. Leads(k, << >>, o, b, Z, {})
      BY <1>1 DEF Leads
    <2> QED BY <2>1, JudgeApart
  <1>2. ASSUME NEW u, NEW z, IsSeq(u), Stops(k, z, b, Z) PROVE Apart(k, <<End(z)>> \o u, o, b, Z)
    <2> DEFINE t == <<End(z)>> \o u
    <2>1. t # << >> /\ Head(t) = End(z) /\ End(z).op = "end" /\ End(z).status = z
      BY <1>2, Cons DEF End
    <2> HIDE DEF t
    <2>2. Leads(k, t, o, b, Z, {})
      BY <1>2, <2>1 DEF Leads
    <2> QED BY <2>2, JudgeApart DEF t
  <1>3. ASSUME NEW u, NEW g, NEW f, IsSeq(u), Apart(k, g \o u, o, b, Z), k = "sure" \/ Apart(k, f \o u, o, b, Z)
        PROVE  Apart(k, <<Call(g, f)>> \o u, o, b, Z)
    <2> DEFINE s == Call(g, f)
    <2>1. s.op = "call" /\ s.good = g /\ s.bad = f
      BY DEF Call
    <2> HIDE DEF s
    <2>2. ASSUME NEW x \in BOOLEAN, NEW m \in Moves(<<s>> \o u, o, b, x)
          PROVE  m = <<g \o u, o, b, x>> \/ m = <<f \o u, o, b, TRUE>>
      BY <1>3, <2>1, <2>2, Cons DEF Moves
    <2>3. \A x \in BOOLEAN : \A m \in Moves(<<s>> \o u, o, b, x) : G(m, x)
      BY <1>m, <1>n, <1>3, <2>2
    <2> QED BY <1>0, <1>3, <2>1, <2>3 DEF s
  <1>4. ASSUME NEW u, NEW c, NEW g, NEW f, IsSeq(u), Apart(k, g \o u, o, b, Z), Apart(k, f \o u, o, b, Z)
        PROVE  Apart(k, <<If(c, g, f)>> \o u, o, b, Z)
    <2> DEFINE s == If(c, g, f)
    <2>1. s.op = "if" /\ s.yes = g /\ s.no = f
      BY DEF If
    <2> HIDE DEF s
    <2>2. ASSUME NEW x \in BOOLEAN, NEW m \in Moves(<<s>> \o u, o, b, x)
          PROVE  m = <<g \o u, o, b, x>> \/ m = <<f \o u, o, b, x>>
      BY <1>4, <2>1, <2>2, Cons DEF Moves
    <2>3. \A x \in BOOLEAN : \A m \in Moves(<<s>> \o u, o, b, x) : G(m, x)
      BY <1>m, <1>n, <1>4, <2>2
    <2> QED BY <1>0, <1>4, <2>1, <2>3 DEF s
  <1>5. ASSUME NEW u, NEW g, NEW f, IsSeq(u), o => Apart(k, g \o u, o, b, Z), ~o => Apart(k, f \o u, o, b, Z)
        PROVE  Apart(k, <<If("ok", g, f)>> \o u, o, b, Z)
    <2> DEFINE s == If("ok", g, f)
    <2>1. s.op = "if" /\ s.yes = g /\ s.no = f /\ s.cond = "ok"
      BY DEF If
    <2> HIDE DEF s
    <2>2. ASSUME NEW x \in BOOLEAN, NEW m \in Moves(<<s>> \o u, o, b, x)
          PROVE  (o /\ m = <<g \o u, o, b, x>>) \/ (~o /\ m = <<f \o u, o, b, x>>)
      BY <1>5, <2>1, <2>2, Cons DEF Moves
    <2>3. \A x \in BOOLEAN : \A m \in Moves(<<s>> \o u, o, b, x) : G(m, x)
      BY <1>m, <1>n, <1>5, <2>2
    <2> QED BY <1>0, <1>5, <2>1, <2>3 DEF s
  <1>6. ASSUME NEW u, NEW a, IsSeq(u), Apart(k, u, a, b, Z)
        PROVE  Apart(k, <<Assign(a)>> \o u, o, b, Z)
    <2> DEFINE s == Assign(a)
    <2>1. s.op = "assign" /\ s.val = a
      BY DEF Assign
    <2> HIDE DEF s
    <2>2. ASSUME NEW x \in BOOLEAN, NEW m \in Moves(<<s>> \o u, o, b, x)
          PROVE  m = <<u, a, b, x>>
      BY <1>6, <2>1, <2>2, Cons DEF Moves
    <2>3. \A x \in BOOLEAN : \A m \in Moves(<<s>> \o u, o, b, x) : G(m, x)
      BY <1>m, <1>n, <1>6, <2>2
    <2> QED BY <1>0, <1>6, <2>1, <2>3 DEF s
  <1>7. ASSUME NEW u, IsSeq(u), Apart(k, u, o, TRUE, Z)
        PROVE  Apart(k, <<Say>> \o u, o, b, Z)
    <2> DEFINE s == Say
    <2>1. s.op = "say"
      BY DEF Say
    <2> HIDE DEF s
    <2>2. ASSUME NEW x \in BOOLEAN, NEW m \in Moves(<<s>> \o u, o, b, x)
          PROVE  m = <<u, o, TRUE, x>>
      BY <1>7, <2>1, <2>2, Cons DEF Moves
    <2>3. \A x \in BOOLEAN : \A m \in Moves(<<s>> \o u, o, b, x) : G(m, x)
      BY <1>m, <1>n, <1>7, <2>2
    <2> QED BY <1>0, <1>7, <2>1, <2>3 DEF s
  <1>8. ASSUME NEW u, IsSeq(u), k = "sure" \/ Apart(k, u, o, b, Z)
        PROVE  Apart(k, <<Miss>> \o u, o, b, Z)
    <2> DEFINE s == Miss
    <2>1. s.op = "miss"
      BY DEF Miss
    <2> HIDE DEF s
    <2>2. ASSUME NEW x \in BOOLEAN, NEW m \in Moves(<<s>> \o u, o, b, x)
          PROVE  m = <<u, o, b, TRUE>>
      BY <1>8, <2>1, <2>2, Cons DEF Moves
    <2>3. \A x \in BOOLEAN : \A m \in Moves(<<s>> \o u, o, b, x) : G(m, x)
      BY <1>m, <1>n, <1>8, <2>2
    <2> QED BY <1>0, <1>8, <2>1, <2>3 DEF s
  <1>9. ASSUME NEW u, NEW a, IsSeq(u), Apart(k, a, TRUE, FALSE, Z)
        PROVE  Apart(k, <<Become(a)>> \o u, o, b, Z)
    <2> DEFINE s == Become(a)
    <2>1. s.op = "become" /\ s.steps = a
      BY DEF Become
    <2> HIDE DEF s
    <2>2. ASSUME NEW x \in BOOLEAN, NEW m \in Moves(<<s>> \o u, o, b, x)
          PROVE  m = <<a, TRUE, FALSE, x>>
      BY <1>9, <2>1, <2>2, Cons DEF Moves
    <2>3. \A x \in BOOLEAN : \A m \in Moves(<<s>> \o u, o, b, x) : G(m, x)
      BY <1>m, <1>n, <1>9, <2>2
    <2> QED BY <1>0, <1>9, <2>1, <2>3 DEF s
  <1>10. ASSUME NEW u, IsSeq(u), Apart(k, u, o, b, Z)
        PROVE  Apart(k, <<OpenHelper>> \o u, o, b, Z)
    <2> DEFINE s == OpenHelper
    <2>1. s.op = "open"
      BY DEF OpenHelper
    <2> HIDE DEF s
    <2>2. ASSUME NEW x \in BOOLEAN, NEW m \in Moves(<<s>> \o u, o, b, x)
          PROVE  m = <<u, o, b, x>>
      BY <1>10, <2>1, <2>2, Cons DEF Moves
    <2>3. \A x \in BOOLEAN : \A m \in Moves(<<s>> \o u, o, b, x) : G(m, x)
      BY <1>m, <1>n, <1>10, <2>2
    <2> QED BY <1>0, <1>10, <2>1, <2>3 DEF s
  <1>11. ASSUME NEW u, IsSeq(u), Apart(k, u, o, b, Z)
        PROVE  Apart(k, <<CloseHelper>> \o u, o, b, Z)
    <2> DEFINE s == CloseHelper
    <2>1. s.op = "close"
      BY DEF CloseHelper
    <2> HIDE DEF s
    <2>2. ASSUME NEW x \in BOOLEAN, NEW m \in Moves(<<s>> \o u, o, b, x)
          PROVE  m = <<u, o, b, x>>
      BY <1>11, <2>1, <2>2, Cons DEF Moves
    <2>3. \A x \in BOOLEAN : \A m \in Moves(<<s>> \o u, o, b, x) : G(m, x)
      BY <1>m, <1>n, <1>11, <2>2
    <2> QED BY <1>0, <1>11, <2>1, <2>3 DEF s
  <1>12. ASSUME NEW u, NEW c, NEW p, NEW f, IsSeq(u), Apart(k, p \o u, o, b, Z),
                k = "sure" \/ (Apart(k, f \o u, o, b, Z) /\ Apart("kid", c \o u, o, b, Z))
         PROVE  Apart(k, <<Fork(c, p, f)>> \o u, o, b, Z)
    <2> DEFINE s == Fork(c, p, f)
               t == <<s>> \o u
               R == {d \in {<<k, p \o u, o, b>>, <<k, f \o u, o, b>>, <<"kid", c \o u, o, b>>} :
                       \E X : d \in X /\ Shut(X, Z)}
    <2>1. s.op = "fork" /\ s.child = c /\ s.parent = p /\ s.failed = f
      BY DEF Fork
    <2> HIDE DEF s
    <2>2. t # << >> /\ Head(t) = s /\ Tail(t) = u
      BY <1>12, Cons
    <2> HIDE DEF t
    <2>3. <<k, p \o u, o, b>> \in R
      BY <1>12 DEF Apart
    <2>4. k # "sure" => <<k, f \o u, o, b>> \in R /\ <<"kid", c \o u, o, b>> \in R
      BY <1>12 DEF Apart
    <2>5. \A d \in R : \E X : d \in X /\ Shut(X, Z)
      OBVIOUS
    <2> HIDE DEF R
    <2>6. Leads(k, t, o, b, Z, R)
      BY <2>1, <2>2, <2>3, <2>4 DEF Leads
    <2> QED BY <2>5, <2>6, JudgeApart DEF t, s
  <1>13. ASSUME NEW u, NEW s, IsSeq(u), s.op = "wait", Apart(k, s.none \o u, o, b, Z),
                \A z \in Z : Apart(k, Reply(s, z) \o u, o, b, Z)
         PROVE  Apart(k, <<s>> \o u, o, b, Z)
    <2> DEFINE t == <<s>> \o u
               R == {<<k, s.none \o u, o, b>>} \cup {<<k, Reply(s, z) \o u, o, b>> : z \in Z}
    <2>1. t # << >> /\ Head(t) = s /\ Tail(t) = u
      BY <1>13, Cons
    <2>2. \A d \in R : \E X : d \in X /\ Shut(X, Z)
      BY <1>13 DEF Apart
    <2>3. <<k, s.none \o u, o, b>> \in R /\ \A z \in Z : <<k, Reply(s, z) \o u, o, b>> \in R
      OBVIOUS
    <2> HIDE DEF t, R
    <2>4. Leads(k, t, o, b, Z, R)
      BY <1>13, <2>1, <2>3 DEF Leads
    <2> QED BY <2>2, <2>4, JudgeApart DEF t
  <1>14. ASSUME NEW u, IsSeq(u), Apart(k, u, o, b, Z)
         PROVE  Apart(k, <<OpenHelper>> \o u, o, b, Z) /\ Apart(k, <<CloseHelper>> \o u, o, b, Z)
    BY <1>10, <1>11, <1>14
  <1> QED BY <1>1, <1>2, <1>3, <1>4, <1>5, <1>6, <1>7, <1>8, <1>9, <1>12, <1>13, <1>14

\* q leads main from one state with the flag set and an empty buffer to another one.
Walks(k, q, Z) ==
  /\ IsSeq(q)
  /\ \A v : IsSeq(v) /\ Apart(k, v, TRUE, FALSE, Z) => Apart(k, q \o v, TRUE, FALSE, Z)

\* Programs put together.
LEMMA WalksCat ==
  ASSUME NEW k, NEW Z
  PROVE  /\ Walks(k, << >>, Z)
         /\ \A q, r : Walks(k, q, Z) /\ Walks(k, r, Z) => Walks(k, q \o r, Z)
         /\ \A q : Walks(k, q, Z) => \A n \in Nat : Walks(k, Rep(n, q), Z)
  <1>1. Walks(k, << >>, Z)
    BY Tuples, Cat DEF Walks
  <1>2. ASSUME NEW q, NEW r, Walks(k, q, Z), Walks(k, r, Z) PROVE Walks(k, q \o r, Z)
    <2>1. IsSeq(q) /\ IsSeq(r) /\ IsSeq(q \o r)
      BY <1>2, Cat DEF Walks
    <2>2. ASSUME NEW v, IsSeq(v), Apart(k, v, TRUE, FALSE, Z)
          PROVE  Apart(k, (q \o r) \o v, TRUE, FALSE, Z)
      <3>1. IsSeq(r \o v) /\ (q \o r) \o v = q \o (r \o v)
        BY <2>1, <2>2, Cat, Assoc
      <3>2. Apart(k, r \o v, TRUE, FALSE, Z)
        BY <1>2, <2>2 DEF Walks
      <3>3. Apart(k, q \o (r \o v), TRUE, FALSE, Z)
        BY <1>2, <3>1, <3>2 DEF Walks
      <3> QED BY <3>1, <3>3
    <2> QED BY <2>1, <2>2 DEF Walks
  <1>3. ASSUME NEW q, Walks(k, q, Z), NEW n \in Nat PROVE Walks(k, Rep(n, q), Z)
    <2> DEFINE B == {j \in Nat : ~Walks(k, Rep(j, q), Z)}
    <2> SUFFICES ASSUME B # {} PROVE FALSE
      OBVIOUS
    <2>0. IsSeq(q)
      BY <1>3 DEF Walks
    <2>1. PICK j \in B : \A m \in B : j <= m
      BY SmallestOf
    <2>2. j # 0
      BY <1>1, <2>0, <2>1, RepUnfold
    <2>3. j - 1 \in Nat /\ j - 1 \notin B
      BY <2>1, <2>2
    <2>4. Walks(k, Rep(j - 1, q), Z) /\ Rep((j - 1) + 1, q) = q \o Rep(j - 1, q)
      BY <2>0, <2>3, RepUnfold
    <2>5. Walks(k, q \o Rep(j - 1, q), Z)
      BY <1>2, <1>3, <2>4
    <2>6. (j - 1) + 1 = j
      BY <2>1
    <2> QED BY <2>1, <2>4, <2>5, <2>6
  <1> QED BY <1>1, <1>2, <1>3

\* The steps of main that lead on.
LEMMA WalksSteps ==
  ASSUME NEW Z
  PROVE  /\ \A f : Walks("sure", <<Call(<< >>, f)>>, Z)
         /\ \A c, f : Walks("sure", <<Fork(c, << >>, f)>>, Z)
         /\ \A k \in {"sure", "main"} :
              /\ Walks(k, <<Need>>, Z) /\ Walks(k, <<Note>>, Z) /\ Walks(k, <<Touch>>, Z)
              /\ Z = {"zero"} => /\ \A y : Walks(k, <<Wait(<< >>, y, << >>, << >>)>>, Z)
                                 /\ Walks(k, <<Fork(<<Note, Exit>>, << >>, <<Exit>>)>>, Z)
                                 /\ Walks(k, <<Fork(<<Note, Exit>>, << >>, <<Note, Exit>>)>>, Z)
  <1> DEFINE A(k, v) == Apart(k, v, TRUE, FALSE, Z)
  <1>0. IsSeq(<< >>) /\ (\A s : IsSeq(<<s>>)) /\ \A v : IsSeq(v) => << >> \o v = v
    BY Tuples, Cat
  <1>1. ASSUME NEW f PROVE Walks("sure", <<Call(<< >>, f)>>, Z)
    BY <1>0, ApartSteps DEF Walks
  <1>2. ASSUME NEW c, NEW f PROVE Walks("sure", <<Fork(c, << >>, f)>>, Z)
    BY <1>0, ApartSteps DEF Walks
  <1>3. ASSUME NEW z, NEW v, IsSeq(v) PROVE A("main", <<End(z)>> \o v)
    <2>1. Stops("main", z, FALSE, Z)
      BY DEF Stops
    <2> QED BY <1>3, <2>1, ApartSteps
  <1>4. Walks("main", <<Need>>, Z) /\ Walks("main", <<Note>>, Z) /\ Walks("main", <<Touch>>, Z)
    <2>1. ASSUME NEW z PROVE Walks("main", <<Call(<< >>, <<End(z)>>)>>, Z)
      BY <1>0, <1>3, ApartSteps DEF Walks
    <2>2. Walks("main", <<Call(<< >>, << >>)>>, Z)
      BY <1>0, ApartSteps DEF Walks
    <2> QED BY <2>1, <2>2 DEF Need, Note, Touch, Exit, Die
  <1>5. Walks("sure", <<Need>>, Z) /\ Walks("sure", <<Note>>, Z) /\ Walks("sure", <<Touch>>, Z)
    BY <1>1 DEF Need, Note, Touch
  <1>6. ASSUME Z = {"zero"}, NEW k \in {"sure", "main"}, NEW y
        PROVE  Walks(k, <<Wait(<< >>, y, << >>, << >>)>>, Z)
    <2> DEFINE s == Wait(<< >>, y, << >>, << >>)
    <2>1. s.op = "wait" /\ s.none = << >> /\ \A z \in Z : Reply(s, z) = << >>
      BY <1>6 DEF Wait, Reply
    <2> HIDE DEF s
    <2>2. ASSUME NEW v, IsSeq(v), A(k, v) PROVE A(k, <<s>> \o v)
      <3>1. << >> \o v = v
        BY <1>0, <2>2
      <3>2. A(k, s.none \o v) /\ \A z \in Z : A(k, Reply(s, z) \o v)
        BY <2>1, <2>2, <3>1
      <3> QED BY <1>6, <2>1, <2>2, <3>2, ApartSteps
    <2> QED BY <1>0, <2>2 DEF Walks, s
  <1>7. ASSUME Z = {"zero"}, NEW k \in {"main", "kid"}, NEW v, IsSeq(v)
        PROVE  A(k, <<Note, Exit>> \o v) /\ A(k, <<Exit>> \o v)
    <2>1. A(k, <<Exit>> \o v)
      <3>1. Stops(k, "zero", FALSE, Z)
        BY <1>7 DEF Stops
      <3> QED BY <1>7, <3>1, ApartSteps DEF Exit
    <2>2. <<Note, Exit>> \o v = <<Note>> \o (<<Exit>> \o v) /\ IsSeq(<<Exit>> \o v)
      <3>1. <<Note, Exit>> = <<Note>> \o <<Exit>>
        BY Tuples
      <3> QED BY <1>0, <1>7, <3>1, Assoc, Cat
    <2>3. A(k, <<Note>> \o (<<Exit>> \o v))
      <3>1. << >> \o (<<Exit>> \o v) = <<Exit>> \o v
        BY <1>0, <2>2
      <3> QED BY <2>1, <2>2, <3>1, ApartSteps DEF Note
    <2> QED BY <2>1, <2>2, <2>3
  <1>8. ASSUME Z = {"zero"}
        PROVE  /\ Walks("main", <<Fork(<<Note, Exit>>, << >>, <<Exit>>)>>, Z)
               /\ Walks("main", <<Fork(<<Note, Exit>>, << >>, <<Note, Exit>>)>>, Z)
    <2>1. ASSUME NEW f \in {<<Exit>>, <<Note, Exit>>}, NEW v, IsSeq(v), A("main", v)
          PROVE  A("main", <<Fork(<<Note, Exit>>, << >>, f)>> \o v)
      <3>1. A("main", << >> \o v) /\ A("main", f \o v) /\ A("kid", <<Note, Exit>> \o v)
        <4>1. A("kid", <<Note, Exit>> \o v) /\ A("main", <<Note, Exit>> \o v) /\ A("main", <<Exit>> \o v)
          BY <1>7, <1>8, <2>1
        <4> QED BY <1>0, <2>1, <4>1
      <3> QED BY <2>1, <3>1, ApartSteps
    <2> QED BY <1>0, <2>1 DEF Walks
  <1>9. ASSUME NEW k \in {"sure", "main"}
        PROVE  /\ Walks(k, <<Need>>, Z) /\ Walks(k, <<Note>>, Z) /\ Walks(k, <<Touch>>, Z)
               /\ Z = {"zero"} => /\ \A y : Walks(k, <<Wait(<< >>, y, << >>, << >>)>>, Z)
                                  /\ Walks(k, <<Fork(<<Note, Exit>>, << >>, <<Exit>>)>>, Z)
                                  /\ Walks(k, <<Fork(<<Note, Exit>>, << >>, <<Note, Exit>>)>>, Z)
    BY <1>2, <1>4, <1>5, <1>6, <1>8
  <1> QED BY <1>1, <1>2, <1>9

\* mmap10, in both roles of main.
LEMMA Mmap10Apart ==
  \A k \in {"sure", "main"} : Apart(k, mmap10, TRUE, FALSE, {"zero"})
  <1> SUFFICES ASSUME NEW k \in {"sure", "main"} PROVE Apart(k, mmap10, TRUE, FALSE, {"zero"})
    OBVIOUS
  <1> DEFINE Z == {"zero"}
             W(q) == Walks(k, q, Z)
             w == Wait(<< >>, <<Exit>>, << >>, << >>)
             f == Fork(<<Note, Exit>>, << >>, <<Exit>>)
             g == Fork(<<Note, Exit>>, << >>, <<Note, Exit>>)
  <1>1. W(<<Need>>) /\ W(<<Note>>) /\ W(<<Touch>>) /\ W(<<w>>) /\ W(<<f>>) /\ W(<<g>>)
    BY WalksSteps
  <1>2. W(<< >>) /\ (\A q, r : W(q) /\ W(r) => W(q \o r)) /\ W(Rep(4, <<w>>))
    <2>1. W(<< >>) /\ \A q, r : W(q) /\ W(r) => W(q \o r)
      BY WalksCat
    <2>2. 4 \in Nat
      OBVIOUS
    <2>3. W(Rep(4, <<w>>))
      BY <1>1, <2>2, WalksCat
    <2> QED BY <2>1, <2>3
  <1> DEFINE q == <<Need, Touch, f, f, g, Need>>
  <1>3. W(q)
    <2>1. ASSUME NEW a, NEW b, NEW c, NEW d, NEW e, NEW h
          PROVE  <<a, b, c, d, e, h>> = <<a>> \o (<<b>> \o (<<c>> \o (<<d>> \o (<<e>> \o <<h>>))))
      <3>1. <<e, h>> = <<e>> \o <<h>>
        BY Tuples
      <3>2. <<d, e, h>> = <<d>> \o <<e, h>>
        BY Tuples, SMTT(30)
      <3>3. <<c, d, e, h>> = <<c>> \o <<d, e, h>>
        BY Tuples, SMTT(30)
      <3>4. <<b, c, d, e, h>> = <<b>> \o <<c, d, e, h>>
        BY Tuples, SMTT(30)
      <3>5. <<a, b, c, d, e, h>> = <<a>> \o <<b, c, d, e, h>>
        BY Tuples, SMTT(30)
      <3> QED BY <3>1, <3>2, <3>3, <3>4, <3>5
    <2>2. q = <<Need>> \o (<<Touch>> \o (<<f>> \o (<<f>> \o (<<g>> \o <<Need>>))))
      BY <2>1
    <2> HIDE DEF W, q, f, g
    <2> QED BY <1>1, <1>2, <2>2
  <1>4. \A open : W(open) => W(mmapzero(open))
    <2>1. \A open : mmapzero(open) = (open \o q) \o Rep(4, <<w>>)
      BY DEF mmapzero
    <2> HIDE DEF W, q, w
    <2> QED BY <1>2, <1>3, <2>1
  <1>5. W((<<Need>> \o mmapzero(<< >>)) \o mmapzero(<<Note>>))
    <2> HIDE DEF W
    <2> QED BY <1>1, <1>2, <1>4
  <1>6. Apart(k, <<Say>>, TRUE, FALSE, Z) /\ IsSeq(<<Say>>)
    <2>1. Stops(k, "zero", TRUE, Z) /\ Stops(k, "other", TRUE, Z)
      BY DEF Stops
    <2>2. Apart(k, << >>, TRUE, TRUE, Z)
      BY <2>1, ApartSteps
    <2>3. IsSeq(<< >>) /\ <<Say>> = <<Say>> \o << >> /\ IsSeq(<<Say>>)
      BY Tuples
    <2> QED BY <2>2, <2>3, ApartSteps
  <1>7. mmap10 = ((<<Need>> \o mmapzero(<< >>)) \o mmapzero(<<Note>>)) \o <<Say>>
    BY DEF mmap10
  <1> QED BY <1>5, <1>6, <1>7 DEF Walks

\* The verdict, and the tests whose processes run side by side, apart from mmap10.
LEMMA SidesApart ==
  /\ \A k \in {"sure", "main"} : /\ Apart(k, execve04, TRUE, FALSE, Statuses)
                                 /\ Apart(k, execve06, TRUE, FALSE, Statuses)
  /\ Apart("sure", execve05, TRUE, FALSE, Statuses)
  /\ Apart("sure", prctl08, TRUE, FALSE, Statuses)
  <1> DEFINE Z == Statuses
             A(k, t) == Apart(k, t, TRUE, FALSE, Z)
             T(k, t) == Apart(k, t, TRUE, TRUE, Z)
             W(q) == Walks("sure", q, Z)
  <1>0. IsSeq(<< >>) /\ (\A s : IsSeq(<<s>>) /\ <<s>> = <<s>> \o << >>) /\ \A v : IsSeq(v) => << >> \o v = v
    BY Tuples, Cat
  <1>1. ASSUME NEW k \in {"sure", "main"}
        PROVE  T(k, << >>) /\ T(k, <<Exit>>) /\ A(k, <<Say>>) /\ A(k, <<Say>> \o <<Exit>>)
    <2>1. Stops(k, "zero", TRUE, Z) /\ Stops(k, "other", TRUE, Z)
      BY DEF Stops
    <2>2. T(k, << >>)
      BY <2>1, ApartSteps
    <2>3. T(k, <<Exit>> \o << >>)
      BY <1>0, <2>1, ApartSteps DEF Exit
    <2>4. T(k, <<Exit>>)
      BY <1>0, <2>3
    <2>5. A(k, <<Say>> \o << >>) /\ A(k, <<Say>> \o <<Exit>>)
      BY <1>0, <2>2, <2>4, ApartSteps
    <2>6. A(k, <<Say>>)
      BY <1>0, <2>5
    <2> QED BY <2>2, <2>4, <2>5, <2>6
  <1>2. ASSUME NEW k \in {"sure", "main"}, NEW g, NEW f, A(k, g), IsSeq(g) PROVE A(k, <<If("ok", g, f)>>)
    <2>1. g \o << >> = g
      BY <1>2, Cat
    <2>2. A(k, <<If("ok", g, f)>> \o << >>)
      BY <1>0, <1>2, <2>1, ApartSteps
    <2> QED BY <1>0, <2>2
  <1>3. \A k \in {"sure", "main"} : A(k, <<Verdict>>)
    BY <1>0, <1>1, <1>2 DEF Verdict
  <1>4. ASSUME NEW o \in BOOLEAN PROVE Apart("kid", << >>, o, FALSE, Z) /\ Apart("main", << >>, o, FALSE, Z)
    <2>1. Stops("kid", "zero", FALSE, Z) /\ Stops("kid", "other", FALSE, Z)
      BY DEF Stops, Statuses
    <2>2. Stops("main", "zero", FALSE, Z) /\ Stops("main", "other", FALSE, Z)
      BY DEF Stops
    <2> QED BY <2>1, <2>2, ApartSteps
  <1>5. \A k \in {"sure", "main"} : A(k, execve06)
    <2> DEFINE c == <<Miss, Fail>>
               v == <<Verdict>>
    <2>1. Apart("kid", v, FALSE, FALSE, Z)
      <3>1. << >> \o << >> = << >>
        BY <1>0
      <3>2. Apart("kid", <<If("ok", <<Say>>, << >>)>> \o << >>, FALSE, FALSE, Z)
        BY <1>0, <1>4, <3>1, ApartSteps
      <3> QED BY <1>0, <3>2 DEF Verdict
    <2>2. IsSeq(v) /\ IsSeq(<<Fail>> \o v) /\ << >> \o v = v
      BY <1>0, Cat
    <2>3. c \o v = <<Miss>> \o (<<Fail>> \o v)
      <3>1. c = <<Miss>> \o <<Fail>>
        BY Tuples
      <3> QED BY <1>0, <3>1, Assoc
    <2>4. A("kid", <<Fail>> \o v)
      BY <2>1, <2>2, ApartSteps DEF Fail
    <2>5. A("kid", c \o v)
      BY <2>2, <2>3, <2>4, ApartSteps
    <2>6. execve06 = <<Fork(c, << >>, << >>)>> \o v
      BY Tuples DEF execve06
    <2>7. ASSUME NEW k \in {"sure", "main"} PROVE A(k, << >> \o v)
      BY <1>3, <2>2
    <2> HIDE DEF c, v
    <2>8. ASSUME NEW k \in {"sure", "main"} PROVE A(k, <<Fork(c, << >>, << >>)>> \o v)
      BY <2>2, <2>5, <2>7, ApartSteps
    <2> QED BY <2>6, <2>8
  <1>6. A("sure", execve05)
    <2> DEFINE f == Fork(<<Exec(<<Say>>, << >>), Fail>>, << >>, << >>)
               v == <<If("ok", <<Say, Exit>>, << >>)>>
    <2>1. Walks("sure", Rep(NChild, <<f>>), Z)
      <3>1. Walks("sure", <<f>>, Z)
        BY WalksSteps
      <3> HIDE DEF f
      <3> QED BY <3>1, WalksCat, RoundsAssumption
    <2>2. <<Say, Exit>> = <<Say>> \o <<Exit>> /\ IsSeq(<<Say, Exit>>)
      BY Tuples
    <2>3. A("sure", <<Say, Exit>>)
      BY <1>1, <2>2
    <2>4. A("sure", v) /\ IsSeq(v)
      BY <1>0, <1>2, <2>2, <2>3
    <2>5. execve05 = Rep(NChild, <<f>>) \o v
      BY DEF execve05
    <2> HIDE DEF f, v
    <2> QED BY <2>1, <2>4, <2>5 DEF Walks
  <1>7. A("sure", prctl08)
    <2>1. ASSUME NEW g, NEW f, W(g) PROVE W(<<Call(g, f)>>)
      BY <1>0, <2>1, ApartSteps DEF Walks
    <2>2. W(<<Note>>) /\ \A c, f : W(<<Fork(c, << >>, f)>>)
      BY WalksSteps
    <2> DEFINE d == Call(<<Fork(<<Note>>, << >>, << >>)>>, <<Fail>>)
               e == Call(<<Note>>, <<Fail>>)
    <2>3. W(<<d>>) /\ W(<<e>>)
      BY <2>1, <2>2
    <2> HIDE DEF d, e
    <2>4. W(Rep(4, <<e>>))
      <3>1. 4 \in Nat
        OBVIOUS
      <3> QED BY <2>3, <3>1, WalksCat
    <2>5. W(<<Note>> \o Rep(4, <<e>>))
      BY <2>2, <2>4, WalksCat
    <2>6. <<d, Verdict>> = <<d>> \o <<Verdict>> /\ IsSeq(<<d, Verdict>>)
      BY Tuples
    <2>7. A("sure", <<d, Verdict>>)
      BY <1>0, <1>3, <2>3, <2>6 DEF Walks
    <2>8. prctl08 = (<<Note>> \o Rep(4, <<e>>)) \o <<d, Verdict>>
      BY DEF prctl08, d, e
    <2> QED BY <2>5, <2>6, <2>7, <2>8 DEF Walks
  <1>8. \A k \in {"sure", "main"} : A(k, execve04)
    <2> DEFINE c == Call(<<Say>>, <<Become(<< >>)>>)
               d == <<Miss, Become(<< >>)>>
               e == If("busy", <<c>>, d)
               i == If("helper", <<e>>, <<Miss>>)
               v == <<i>>
               h == <<OpenHelper, CloseHelper, Exit>>
    <2>1. ASSUME NEW k \in {"sure", "main"} PROVE A(k, v)
      <3>0. A("main", << >>)
        BY <1>4
      <3>1. k = "sure" \/ A(k, <<Become(<< >>)>> \o << >>)
        BY <1>0, <2>1, <3>0, ApartSteps
      <3>2. A(k, <<c>> \o << >>)
        <4>1. A(k, <<Say>> \o << >>)
          BY <1>0, <1>1, <2>1
        <4> QED BY <1>0, <2>1, <3>1, <4>1, ApartSteps
      <3>3. A(k, d \o << >>)
        <4>1. d \o << >> = <<Miss>> \o <<Become(<< >>)>>
          <5>1. d = <<Miss>> \o <<Become(<< >>)>> /\ IsSeq(d)
            BY Tuples
          <5> QED BY <5>1, Cat
        <4>2. k = "sure" \/ A(k, <<Become(<< >>)>>)
          BY <1>0, <3>1
        <4>3. A(k, <<Miss>> \o <<Become(<< >>)>>)
          BY <1>0, <2>1, <4>2, ApartSteps
        <4> QED BY <4>1, <4>3
      <3>4. A(k, <<Miss>> \o << >>)
        BY <1>0, <2>1, <3>0, ApartSteps
      <3> HIDE DEF c, d
      <3>5. A(k, <<e>> \o << >>)
        BY <1>0, <2>1, <3>2, <3>3, ApartSteps
      <3> HIDE DEF e
      <3>6. A(k, <<i>> \o << >>)
        BY <1>0, <2>1, <3>4, <3>5, ApartSteps
      <3> QED BY <1>0, <3>6
    <2>2. IsSeq(v) /\ << >> \o v = v
      BY <1>0
    <2> HIDE DEF v
    <2>3. A("kid", h \o v)
      <3>1. h = <<OpenHelper>> \o (<<CloseHelper>> \o <<Exit>>)
        <4>1. ASSUME NEW a, NEW b, NEW x PROVE <<a, b, x>> = <<a>> \o (<<b>> \o <<x>>)
          <5>1. <<a, b, x>> = <<a>> \o <<b, x>>
            BY Tuples, SMTT(30)
          <5>2. <<b, x>> = <<b>> \o <<x>>
            BY Tuples
          <5> QED BY <5>1, <5>2
        <4> QED BY <4>1
      <3>2. /\ h \o v = <<OpenHelper>> \o (<<CloseHelper>> \o (<<Exit>> \o v))
            /\ IsSeq(<<Exit>> \o v) /\ IsSeq(<<CloseHelper>> \o (<<Exit>> \o v))
        BY <1>0, <2>2, <3>1, Assoc, Cat, SMTT(30)
      <3>3. Stops("kid", "zero", FALSE, Z)
        BY DEF Stops, Statuses
      <3>4. A("kid", <<Exit>> \o v)
        BY <2>2, <3>3, ApartSteps DEF Exit
      <3>5. A("kid", <<CloseHelper>> \o (<<Exit>> \o v))
        BY <3>2, <3>4, ApartSteps
      <3>6. A("kid", <<OpenHelper>> \o (<<CloseHelper>> \o (<<Exit>> \o v)))
        BY <3>2, <3>5, ApartSteps
      <3> QED BY <3>2, <3>6
    <2> HIDE DEF h
    <2>4. ASSUME NEW k \in {"sure", "main"} PROVE A(k, <<Fork(h, << >>, << >>)>> \o v)
      <3>1. A(k, << >> \o v)
        BY <2>1, <2>2
      <3> QED BY <2>2, <2>3, <2>4, <3>1, ApartSteps
    <2>5. execve04 = <<Fork(h, << >>, << >>)>> \o v
      <3>1. execve04 = <<Fork(h, << >>, << >>), i>>
        BY DEF execve04, h
      <3> HIDE DEF i
      <3> QED BY <3>1, Tuples DEF v
    <2> QED BY <2>4, <2>5
  <1> QED BY <1>5, <1>6, <1>7, <1>8

=============================================================================
