---------------------------- MODULE GrammarProofs ----------------------------
(***************************************************************************)
(* What Parse makes of any sequence of tokens, and that String undoes it.  *)
(*                                                                         *)
(* Parse is a function defined by recursion over the positions of its      *)
(* arguments.  That there is such a function, and what it returns, is      *)
(* proved from the last position down to the first, by the induction       *)
(* principle of NatSetInduction.                                           *)
(***************************************************************************)
EXTENDS Grammar, WellFoundedInduction, SequenceTheorems, FiniteSetTheorems, TLAPS

\* A set that has 0, and n + 1 with every n, has every natural number: else
\* there would be a least one that it lacks.
LEMMA NatSetInduction ==
    ASSUME NEW S, 0 \in S, \A n \in Nat : n \in S => n + 1 \in S
    PROVE  Nat \subseteq S
<1> DEFINE T == Nat \ S
           R == OpToRel(<, Nat)
<1> SUFFICES ASSUME T # {} PROVE FALSE
    OBVIOUS
<1>1. IsWellFoundedOn(R, Nat)
    BY NatLessThanWellFounded
<1>2. PICK x \in T : \A y \in T : <<y, x>> \notin R
  <2> HIDE DEF R, T
  <2>1. T \subseteq Nat
      BY DEF T
  <2> QED BY <1>1, <2>1, WFMin
<1>3. x # 0 /\ x - 1 \in Nat /\ x - 1 \in T
    OBVIOUS
<1>4. <<x - 1, x>> \in R
    BY <1>3 DEF OpToRel
<1> QED BY <1>2, <1>3, <1>4

\* Downwards from n + 1 to 1.
LEMMA Downwards ==
    ASSUME NEW n \in Nat, NEW S, n + 1 \in S,
           \A i \in 1..n : (\A j \in i + 1..n + 1 : j \in S) => i \in S
    PROVE  1..n + 1 \subseteq S
<1> DEFINE D == {k \in Nat : \A j \in 1..n + 1 : j + k >= n + 1 => j \in S}
<1>1. 0 \in D
    OBVIOUS
<1>2. ASSUME NEW k \in Nat, k \in D PROVE k + 1 \in D
  <2>1. \A j \in 1..n + 1 : j + k >= n + 1 => j \in S
      BY <1>2
  <2>2. ASSUME NEW j \in 1..n + 1, j + (k + 1) >= n + 1 PROVE j \in S
    <3>1. CASE j + k >= n + 1
        BY <2>1, <3>1
    <3>2. CASE ~(j + k >= n + 1)
      <4>1. j \in 1..n /\ \A l \in j + 1..n + 1 : l \in S
          BY <2>1, <2>2, <3>2
      <4> QED BY <4>1
    <3> QED BY <3>1, <3>2
  <2> QED BY <2>2
<1>3. n \in D
  <2> HIDE DEF D
  <2> QED BY <1>1, <1>2, NatSetInduction
<1>4. \A j \in 1..n + 1 : j + n >= n + 1
    OBVIOUS
<1> QED BY <1>3, <1>4

-----------------------------------------------------------------------------
(* The tokens of a command line, over any spellings and texts.             *)

Tokens(Flags, Texts) == [flag : Flags, text : Texts] \ {Absent}

\* Spellings and texts enough for what Parse and String add to a line.
Spelled(Flags, Texts) ==
    {"", "-p", "--profile"} \subseteq Flags /\ {"", NoText} \subseteq Texts

-----------------------------------------------------------------------------
(* The recursion of Parse.                                                 *)

LEMMA Steps ==
    ASSUME NEW args, Len(args) \in Nat, NEW i \in 1..Len(args)
    PROVE  /\ Consumed(args, i) \in {1, 2}
           /\ i + 1 \in 1..Len(args) + 1
           /\ i + Consumed(args, i) \in 1..Len(args) + 1
           /\ i + Consumed(args, i) > i
BY DEF Consumed

\* A turn looks at later positions only.
LEMMA TurnLater ==
    ASSUME NEW args, Len(args) \in Nat, NEW g, NEW h, NEW p \in Positions(args),
           \A q \in Positions(args) : q[1] > p[1] => g[q] = h[q]
    PROVE  Turn(args, g, p) = Turn(args, h, p)
<1>1. PICK i \in 1..Len(args) + 1, m \in {"verb", "rest"} : p = <<i, m>>
    BY DEF Positions
<1>2. CASE i > Len(args)
    BY <1>1, <1>2 DEF Turn
<1>3. CASE i \in 1..Len(args)
  <2>1. \A k \in 1..Len(args) + 1, l \in {"verb", "rest"} :
            k > i => g[<<k, l>>] = h[<<k, l>>]
    <3>1. ASSUME NEW k \in 1..Len(args) + 1, NEW l \in {"verb", "rest"}, k > i
          PROVE  g[<<k, l>>] = h[<<k, l>>]
      <4>1. <<k, l>> \in Positions(args) /\ <<k, l>>[1] > p[1]
          BY <1>1, <3>1 DEF Positions
      <4> QED BY <4>1
    <3> QED BY <3>1
  <2>2. /\ g[<<i + Consumed(args, i), m>>] = h[<<i + Consumed(args, i), m>>]
        /\ \A l \in {"verb", "rest"} : g[<<i + 1, l>>] = h[<<i + 1, l>>]
    <3> DEFINE k == i + Consumed(args, i)
    <3>1. k \in 1..Len(args) + 1 /\ k > i /\ i + 1 \in 1..Len(args) + 1 /\ i + 1 > i
        BY <1>3, Steps
    <3> HIDE DEF k
    <3>2. g[<<k, m>>] = h[<<k, m>>]
        BY <2>1, <3>1
    <3>3. \A l \in {"verb", "rest"} : g[<<i + 1, l>>] = h[<<i + 1, l>>]
        BY <2>1, <3>1
    <3> QED BY <3>2, <3>3 DEF k
  <2>3. p[1] = i /\ p[2] = m
      BY <1>1
  <2> HIDE DEF IsGlobal, IsFlag, Value, Consumed, Empty, NoCommand, Absent
  <2> QED BY <2>2, <2>3 DEF Turn
<1> QED BY <1>1, <1>2, <1>3

\* There is a function that obeys the recursion, built from the end.
LEMMA FromExists ==
    ASSUME NEW args, Len(args) \in Nat
    PROVE  \E h : h = [p \in Positions(args) |-> Turn(args, h, p)]
<1> DEFINE n == Len(args)
           D == Positions(args)
           Solves(h, k) == /\ h = [p \in D |-> h[p]]
                           /\ \A p \in D : p[1] > n + 1 - k => h[p] = Turn(args, h, p)
           S == {k \in Nat : \E h : Solves(h, k)}
<1>1. 0 \in S
  <2> DEFINE h == [p \in D |-> 0]
  <2>1. h = [p \in D |-> h[p]]
      OBVIOUS
  <2>2. \A p \in D : ~(p[1] > n + 1 - 0)
      BY DEF Positions
  <2>3. Solves(h, 0)
      BY <2>1, <2>2
  <2> QED BY <2>3
<1>2. ASSUME NEW k \in Nat, k \in S PROVE k + 1 \in S
  <2>1. PICK h : Solves(h, k)
      BY <1>2
  <2> DEFINE g == [p \in D |-> IF p[1] > n + 1 - k THEN h[p] ELSE Turn(args, h, p)]
  <2>2. \A p \in D : p[1] > n + 1 - k => g[p] = h[p]
      OBVIOUS
  <2>3. g = [p \in D |-> g[p]]
      OBVIOUS
  <2>4. ASSUME NEW p \in D, p[1] > n + 1 - (k + 1) PROVE g[p] = Turn(args, g, p)
    <3>1. g[p] = Turn(args, h, p)
        BY <2>1
    <3>2. \A q \in D : q[1] > p[1] => g[q] = h[q]
        BY <2>2, <2>4 DEF Positions
    <3> HIDE DEF g
    <3> QED BY <3>1, <3>2, TurnLater
  <2>5. Solves(g, k + 1)
    <3> HIDE DEF g
    <3> QED BY <2>3, <2>4
  <2>6. k + 1 \in Nat
      OBVIOUS
  <2>7. \E f : Solves(f, k + 1)
    <3> HIDE DEF Solves, g
    <3> QED BY <2>5
  <2> HIDE DEF Solves
  <2> QED BY <2>6, <2>7
<1>3. n + 1 \in S
  <2> HIDE DEF S
  <2> QED BY <1>1, <1>2, NatSetInduction
<1>4. PICK h : Solves(h, n + 1)
    BY <1>3
<1>5. \A p \in D : p[1] > n + 1 - (n + 1)
    BY DEF Positions
<1>6. \A p \in D : h[p] = Turn(args, h, p)
    BY <1>4, <1>5
<1>7. h = [p \in D |-> Turn(args, h, p)]
  <2> HIDE DEF D
  <2> QED BY <1>4, <1>6
<1> QED BY <1>7

\* Parse reads as its loop does.
LEMMA FromTurns ==
    ASSUME NEW args, Len(args) \in Nat, NEW p \in Positions(args)
    PROVE  From(args)[p] = Turn(args, From(args), p)
<1> DEFINE D == Positions(args)
           P(f) == f = [q \in D |-> Turn(args, f, q)]
<1>1. P(CHOOSE f : P(f))
  <2>1. PICK h : P(h)
      BY FromExists
  <2> HIDE DEF P
  <2> QED BY <2>1
<1>2. From(args) = CHOOSE f : P(f)
    BY DEF From
<1>3. From(args) = [q \in D |-> Turn(args, From(args), q)]
    BY <1>1, <1>2
<1> HIDE DEF D
<1>4. p \in D BY DEF D
<1> QED BY <1>3, <1>4

-----------------------------------------------------------------------------
(* One turn of the loop after another.                                     *)

LEMMA TurnEnd ==
    ASSUME NEW args, Len(args) \in Nat, NEW m \in {"verb", "rest"}
    PROVE  From(args)[<<Len(args) + 1, m>>] = [ok |-> TRUE, cmd |-> NoCommand]
<1>1. <<Len(args) + 1, m>> \in Positions(args)
    BY DEF Positions
<1>2. From(args)[<<Len(args) + 1, m>>] = Turn(args, From(args), <<Len(args) + 1, m>>)
    BY <1>1, FromTurns
<1>3. Turn(args, From(args), <<Len(args) + 1, m>>) = [ok |-> TRUE, cmd |-> NoCommand]
    BY DEF Turn
<1> QED BY <1>2, <1>3

LEMMA TurnAt ==
    ASSUME NEW args, Len(args) \in Nat, NEW m \in {"verb", "rest"},
           NEW i \in 1..Len(args)
    PROVE  From(args)[<<i, m>>] = Turn(args, From(args), <<i, m>>)
           /\ ~(<<i, m>>[1] > Len(args)) /\ <<i, m>>[1] = i /\ <<i, m>>[2] = m
<1>1. <<i, m>> \in Positions(args)
    BY DEF Positions
<1> QED BY <1>1, FromTurns

LEMMA TurnNoValue ==
    ASSUME NEW args, Len(args) \in Nat, NEW m \in {"verb", "rest"},
           NEW i \in 1..Len(args), IsGlobal(args[i]), Value(args, i) = Empty
    PROVE  From(args)[<<i, m>>] =
               [ok |-> FALSE, cmd |-> NoCommand]
<1>1. From(args)[<<i, m>>] = Turn(args, From(args), <<i, m>>)
    BY TurnAt
<1> DEFINE F == From(args)
<1> HIDE DEF F
<1>2. Turn(args, F, <<i, m>>) =
          [ok |-> FALSE, cmd |-> NoCommand]
    BY DEF Turn
<1> QED BY <1>1, <1>2 DEF F

LEMMA TurnGlobal ==
    ASSUME NEW args, Len(args) \in Nat, NEW m \in {"verb", "rest"},
           NEW i \in 1..Len(args), IsGlobal(args[i]), Value(args, i) # Empty
    PROVE  From(args)[<<i, m>>] =
               Hoists(From(args)[<<i + Consumed(args, i), m>>], Value(args, i))
<1>1. From(args)[<<i, m>>] = Turn(args, From(args), <<i, m>>)
    BY TurnAt
<1> DEFINE F == From(args)
<1> HIDE DEF F
<1>2. Turn(args, F, <<i, m>>) =
          Hoists(F[<<i + Consumed(args, i), m>>], Value(args, i))
    BY DEF Turn
<1> QED BY <1>1, <1>2 DEF F

LEMMA TurnRest ==
    ASSUME NEW args, Len(args) \in Nat, NEW m \in {"verb", "rest"},
           NEW i \in 1..Len(args), ~IsGlobal(args[i]), m = "rest" \/ IsFlag(args[i])
    PROVE  From(args)[<<i, m>>] =
               Keeps(From(args)[<<i + 1, m>>], args[i])
<1>1. From(args)[<<i, m>>] = Turn(args, From(args), <<i, m>>)
    BY TurnAt
<1> DEFINE F == From(args)
<1> HIDE DEF F
<1>2. Turn(args, F, <<i, m>>) =
               Keeps(F[<<i + 1, m>>], args[i])
    BY DEF Turn
<1> QED BY <1>1, <1>2 DEF F

LEMMA TurnWord ==
    ASSUME NEW args, Len(args) \in Nat, NEW i \in 1..Len(args),
           ~IsGlobal(args[i]), ~IsFlag(args[i])
    PROVE  From(args)[<<i, "verb">>] =
               IF args[i] = Empty THEN From(args)[<<i + 1, "verb">>]
               ELSE Begins(From(args)[<<i + 1, "rest">>], args[i].text)
<1>1. From(args)[<<i, "verb">>] = Turn(args, From(args), <<i, "verb">>)
    BY TurnAt
<1> DEFINE F == From(args)
<1> HIDE DEF F
<1>2. Turn(args, F, <<i, "verb">>) =
               IF args[i] = Empty THEN F[<<i + 1, "verb">>]
               ELSE Begins(F[<<i + 1, "rest">>], args[i].text)
    BY DEF Turn
<1> QED BY <1>1, <1>2 DEF F

-----------------------------------------------------------------------------
(* What a parsed command looks like.                                       *)

Results(Flags, Texts) ==
    [ok : BOOLEAN,
     cmd : [verb : Texts, global : Tokens(Flags, Texts) \cup {Absent},
            rest : Seq(Tokens(Flags, Texts))]]

\* No global is left among the rest, an empty value never gets through, and
\* without a verb the rest is all flags.
Shaped(r, m) ==
    /\ \A j \in 1..Len(r.cmd.rest) : ~IsGlobal(r.cmd.rest[j])
    /\ r.cmd.global # Empty
    /\ r.cmd.verb # NoText
    /\ m = "rest" => r.cmd.verb = ""
    /\ m = "verb" /\ r.cmd.verb = "" =>
           \A j \in 1..Len(r.cmd.rest) : IsFlag(r.cmd.rest[j])

LEMMA Prepend ==
    ASSUME NEW T, NEW q \in Seq(T), NEW t \in T, NEW s, s = <<t>> \o q
    PROVE  /\ s \in Seq(T) /\ s[1] = t /\ Len(s) = Len(q) + 1
           /\ \A j \in 1..Len(q) : s[j + 1] = q[j]
           /\ Len(q) \in Nat
OBVIOUS

LEMMA SetGlobal ==
    ASSUME NEW Flags, NEW Texts, NEW r \in Results(Flags, Texts),
           NEW v \in Tokens(Flags, Texts),
           NEW s, s = Hoists(r, v)
    PROVE  /\ s \in Results(Flags, Texts)
           /\ s.ok = r.ok /\ s.cmd.verb = r.cmd.verb /\ s.cmd.rest = r.cmd.rest
           /\ s.cmd.global = IF r.cmd.global = Absent THEN v ELSE r.cmd.global
<1> HIDE DEF Absent, Tokens
<1> QED BY DEF Results, Hoists

LEMMA SetRest ==
    ASSUME NEW Flags, NEW Texts, NEW r \in Results(Flags, Texts),
           NEW t \in Tokens(Flags, Texts),
           NEW s, s = Keeps(r, t)
    PROVE  /\ s \in Results(Flags, Texts)
           /\ s.ok = r.ok /\ s.cmd.verb = r.cmd.verb
           /\ s.cmd.global = r.cmd.global
           /\ s.cmd.rest = <<t>> \o r.cmd.rest
<1> HIDE DEF Absent, Tokens
<1>1. <<t>> \o r.cmd.rest \in Seq(Tokens(Flags, Texts))
    BY DEF Results
<1> QED BY <1>1 DEF Results, Keeps

LEMMA SetVerb ==
    ASSUME NEW Flags, NEW Texts, NEW r \in Results(Flags, Texts), NEW w \in Texts,
           NEW s, s = Begins(r, w)
    PROVE  /\ s \in Results(Flags, Texts)
           /\ s.ok = r.ok /\ s.cmd.verb = w
           /\ s.cmd.global = r.cmd.global /\ s.cmd.rest = r.cmd.rest
<1> HIDE DEF Absent, Tokens
<1> QED BY DEF Results, Begins

\* The value of a global is a token of the line, or the text after its '='.
LEMMA ValueToken ==
    ASSUME NEW Flags, NEW Texts, Spelled(Flags, Texts),
           NEW args \in Seq(Tokens(Flags, Texts)), NEW i \in 1..Len(args)
    PROVE  Value(args, i) \in Tokens(Flags, Texts)
<1>1. \A w \in Texts : w # NoText => Word(w) \in Tokens(Flags, Texts)
    BY DEF Spelled, Tokens, Word, Absent, Flag
<1>2. args[i] \in Tokens(Flags, Texts) /\ args[i].text \in Texts
    BY DEF Tokens
<1>3. Empty \in Tokens(Flags, Texts)
    BY <1>1, GrammarAssumption DEF Empty, Spelled
<1>4. CASE args[i].text # NoText
    BY <1>1, <1>2, <1>4 DEF Value
<1>5. CASE args[i].text = NoText /\ i < Len(args)
    BY <1>5, i + 1 \in 1..Len(args) DEF Value
<1>6. CASE args[i].text = NoText /\ ~(i < Len(args))
    BY <1>3, <1>6 DEF Value
<1> QED BY <1>4, <1>5, <1>6

\* What is read from any position on has that shape.
LEMMA FromShaped ==
    ASSUME NEW Flags, NEW Texts, Spelled(Flags, Texts),
           NEW args \in Seq(Tokens(Flags, Texts)),
           NEW i \in 1..Len(args) + 1, NEW m \in {"verb", "rest"}
    PROVE  /\ From(args)[<<i, m>>] \in Results(Flags, Texts)
           /\ Shaped(From(args)[<<i, m>>], m)
<1> DEFINE F == From(args)
           Toks == Tokens(Flags, Texts)
           Good(k) == \A l \in {"verb", "rest"} :
                          F[<<k, l>>] \in Results(Flags, Texts) /\ Shaped(F[<<k, l>>], l)
           S == {k \in 1..Len(args) + 1 : Good(k)}
<1>0. Len(args) \in Nat
    OBVIOUS
<1>1. NoCommand.verb = "" /\ NoCommand.global = Absent /\ NoCommand.rest = <<>>
    BY DEF NoCommand
<1>2. ASSUME NEW ok \in BOOLEAN, NEW l \in {"verb", "rest"}
      PROVE  /\ [ok |-> ok, cmd |-> NoCommand] \in Results(Flags, Texts)
             /\ Shaped([ok |-> ok, cmd |-> NoCommand], l)
  <2>1. Absent # Empty /\ "" # NoText
      BY GrammarAssumption DEF Absent, Flag, Empty, Word
  <2>2. "" \in Texts
      BY DEF Spelled
  <2>3. [ok |-> ok, cmd |-> NoCommand] \in Results(Flags, Texts)
    <3>1. <<>> \in Seq(Toks)
        OBVIOUS
    <3> HIDE DEF Tokens, Absent, Toks
    <3>2. NoCommand \in [verb : Texts, global : Toks \cup {Absent}, rest : Seq(Toks)]
        BY <2>2, <3>1 DEF NoCommand
    <3> QED BY <3>2 DEF Results, Toks
  <2> DEFINE r == [ok |-> ok, cmd |-> NoCommand]
  <2>4. r.cmd.verb = "" /\ r.cmd.global = Absent /\ r.cmd.rest = <<>>
      BY <1>1
  <2>5. 1..Len(<<>>) = {}
      OBVIOUS
  <2>6. Shaped(r, l)
    <3> HIDE DEF Absent, Empty, NoCommand, IsGlobal, IsFlag, r
    <3> QED BY <2>1, <2>4, <2>5 DEF Shaped
  <2> QED BY <2>3, <2>6
<1>3. Len(args) + 1 \in S
  <2>1. Good(Len(args) + 1)
    <3> HIDE DEF Shaped, Results, NoCommand
    <3> QED BY <1>0, <1>2, TurnEnd
  <2> HIDE DEF Good
  <2> QED BY <1>0, <2>1
<1>4. ASSUME NEW k \in 1..Len(args), \A j \in k + 1..Len(args) + 1 : j \in S,
             NEW l \in {"verb", "rest"}
      PROVE  F[<<k, l>>] \in Results(Flags, Texts) /\ Shaped(F[<<k, l>>], l)
  <2>1. \A j \in k + 1..Len(args) + 1, o \in {"verb", "rest"} :
            F[<<j, o>>] \in Results(Flags, Texts) /\ Shaped(F[<<j, o>>], o)
      BY <1>4
  <2>2. args[k] \in Toks
      OBVIOUS
  <2>3. CASE IsGlobal(args[k])
    <3>1. Value(args, k) \in Toks
        BY ValueToken
    <3>2. CASE Value(args, k) = Empty
        BY <1>0, <1>2, <2>3, <3>2, TurnNoValue
    <3>3. CASE Value(args, k) # Empty
      <4> DEFINE r == F[<<k + Consumed(args, k), l>>]
                 s == Hoists(r, Value(args, k))
      <4>1. r \in Results(Flags, Texts) /\ Shaped(r, l)
        <5>1. k + Consumed(args, k) \in k + 1..Len(args) + 1
            BY <1>0, Steps
        <5> QED BY <2>1, <5>1
      <4>2. F[<<k, l>>] = s
          BY <1>0, <2>3, <3>3, TurnGlobal
      <4>a. s = Hoists(r, Value(args, k))
          OBVIOUS
      <4> HIDE DEF r, s
      <4>3. /\ s \in Results(Flags, Texts)
            /\ s.cmd.verb = r.cmd.verb /\ s.cmd.rest = r.cmd.rest
            /\ s.cmd.global = IF r.cmd.global = Absent THEN Value(args, k)
                              ELSE r.cmd.global
          BY <3>1, <4>1, <4>a, SetGlobal
      <4> HIDE DEF s, F
      <4> QED BY <3>3, <4>1, <4>2, <4>3 DEF Shaped
    <3> QED BY <3>2, <3>3
  <2>4. CASE ~IsGlobal(args[k]) /\ (l = "rest" \/ IsFlag(args[k]))
    <3> DEFINE r == F[<<k + 1, l>>]
               s == Keeps(r, args[k])
    <3>1. r \in Results(Flags, Texts) /\ Shaped(r, l)
      <4>1. k + 1 \in k + 1..Len(args) + 1
          BY <1>0
      <4> QED BY <2>1, <4>1
    <3>2. F[<<k, l>>] = s
        BY <1>0, <2>4, TurnRest
    <3>a. s = Keeps(r, args[k])
        OBVIOUS
    <3> HIDE DEF r, s
    <3>3. /\ s \in Results(Flags, Texts)
          /\ s.cmd.verb = r.cmd.verb /\ s.cmd.global = r.cmd.global
          /\ s.cmd.rest = <<args[k]>> \o r.cmd.rest
        BY <2>2, <3>1, <3>a, SetRest
    <3>4. /\ s.cmd.rest[1] = args[k] /\ Len(s.cmd.rest) = Len(r.cmd.rest) + 1
          /\ \A j \in 1..Len(r.cmd.rest) : s.cmd.rest[j + 1] = r.cmd.rest[j]
          /\ Len(r.cmd.rest) \in Nat
      <4> DEFINE q == r.cmd.rest
                 u == s.cmd.rest
      <4>1. q \in Seq(Toks) /\ args[k] \in Toks /\ u = <<args[k]>> \o q
          BY <2>2, <3>1, <3>3 DEF Results
      <4> HIDE DEF q, u, Toks
      <4>2. /\ u[1] = args[k] /\ Len(u) = Len(q) + 1
            /\ \A j \in 1..Len(q) : u[j + 1] = q[j]
            /\ Len(q) \in Nat
          BY <4>1, Prepend
      <4> QED BY <4>2 DEF q, u
    <3> DEFINE Fits(t) == ~IsGlobal(t) /\ (l = "verb" /\ r.cmd.verb = "" => IsFlag(t))
    <3>5. Fits(args[k]) /\ \A j \in 1..Len(r.cmd.rest) : Fits(r.cmd.rest[j])
        BY <2>4, <3>1 DEF Shaped
    <3> HIDE DEF Fits
    <3>6. ASSUME NEW j \in 1..Len(s.cmd.rest) PROVE Fits(s.cmd.rest[j])
      <4>1. CASE j = 1
          BY <3>4, <3>5, <4>1
      <4>2. CASE j # 1
        <5>1. j - 1 \in 1..Len(r.cmd.rest) /\ (j - 1) + 1 = j
            BY <3>4, <4>2
        <5> QED BY <3>4, <3>5, <5>1
      <4> QED BY <4>1, <4>2
    <3> HIDE DEF s, F
    <3> QED BY <3>1, <3>2, <3>3, <3>6 DEF Shaped, Fits
  <2>5. CASE ~IsGlobal(args[k]) /\ l = "verb" /\ ~IsFlag(args[k])
    <3>1. k + 1 \in k + 1..Len(args) + 1
        BY <1>0
    <3>2. CASE args[k] = Empty
      <4>1. F[<<k, l>>] = F[<<k + 1, "verb">>]
          BY <1>0, <2>5, <3>2, TurnWord
      <4> HIDE DEF F
      <4> QED BY <2>1, <2>5, <3>1, <4>1
    <3>3. CASE args[k] # Empty
      <4> DEFINE r == F[<<k + 1, "rest">>]
                 s == Begins(r, args[k].text)
      <4>1. r \in Results(Flags, Texts) /\ Shaped(r, "rest")
          BY <2>1, <3>1
      <4>2. F[<<k, l>>] = s
          BY <1>0, <2>5, <3>3, TurnWord
      <4>3. args[k].text \in Texts \ {"", NoText}
          BY <2>2, <2>5, <3>3 DEF Tokens, IsFlag, Empty, Absent, Word, Flag
      <4>b. args[k].text \in Texts
          BY <4>3
      <4>a. s = Begins(r, args[k].text)
          OBVIOUS
      <4> HIDE DEF r, s
      <4>4. /\ s \in Results(Flags, Texts)
            /\ s.cmd.verb = args[k].text
            /\ s.cmd.global = r.cmd.global /\ s.cmd.rest = r.cmd.rest
          BY <4>1, <4>a, <4>b, SetVerb
      <4> HIDE DEF s, F
      <4> QED BY <2>5, <4>1, <4>2, <4>3, <4>4 DEF Shaped
    <3> QED BY <3>2, <3>3
  <2> QED BY <2>3, <2>4, <2>5
<1>5. ASSUME NEW k \in 1..Len(args), \A j \in k + 1..Len(args) + 1 : j \in S
      PROVE  k \in S
    BY <1>0, <1>4, <1>5
<1>6. 1..Len(args) + 1 \subseteq S
  <2> HIDE DEF S
  <2> QED BY <1>0, <1>3, <1>5, Downwards
<1> QED BY <1>6

-----------------------------------------------------------------------------
(* String undoes Parse.                                                    *)

\* A command of nothing but a rest.
Only(q) == [ok |-> TRUE, cmd |-> [verb |-> "", global |-> Absent, rest |-> q]]

LEMMA OnlyNone == [ok |-> TRUE, cmd |-> NoCommand] = Only(<<>>)
BY DEF Only, NoCommand

LEMMA OnlyTypes ==
    ASSUME NEW Flags, NEW Texts, Spelled(Flags, Texts), NEW q \in Seq(Tokens(Flags, Texts))
    PROVE  /\ Only(q) \in Results(Flags, Texts) /\ Only(q).ok
           /\ Only(q).cmd.verb = "" /\ Only(q).cmd.global = Absent
           /\ Only(q).cmd.rest = q
<1> DEFINE c == [verb |-> "", global |-> Absent, rest |-> q]
<1> HIDE DEF Tokens, Absent
<1>1. /\ c \in [verb : Texts, global : Tokens(Flags, Texts) \cup {Absent},
                rest : Seq(Tokens(Flags, Texts))]
      /\ c.verb = "" /\ c.global = Absent /\ c.rest = q
  <2>1. "" \in Texts
      BY DEF Spelled
  <2> QED BY <2>1
<1> HIDE DEF c
<1>2. Only(q) = [ok |-> TRUE, cmd |-> c]
    BY DEF Only, c
<1>3. Only(q).ok = TRUE /\ Only(q).cmd = c
    BY <1>2
<1>4. Only(q) \in Results(Flags, Texts)
  <2>1. ASSUME NEW ok \in BOOLEAN PROVE [ok |-> ok, cmd |-> c] \in Results(Flags, Texts)
      BY <1>1 DEF Results
  <2> QED BY <1>2, <2>1
<1> QED BY <1>1, <1>3, <1>4

LEMMA SameResult ==
    ASSUME NEW Flags, NEW Texts, NEW r \in Results(Flags, Texts),
           NEW s \in Results(Flags, Texts), r.ok = s.ok,
           r.cmd.verb = s.cmd.verb, r.cmd.global = s.cmd.global,
           r.cmd.rest = s.cmd.rest
    PROVE  r = s
<1> HIDE DEF Tokens, Absent
<1>1. r.cmd = s.cmd
    BY DEF Results
<1> QED BY <1>1 DEF Results

LEMMA OnlyKeeps ==
    ASSUME NEW Flags, NEW Texts, Spelled(Flags, Texts), NEW q \in Seq(Tokens(Flags, Texts)),
           NEW t \in Tokens(Flags, Texts)
    PROVE  Keeps(Only(q), t) = Only(<<t>> \o q)
<1> DEFINE Toks == Tokens(Flags, Texts)
           o == Only(q)
           x == <<t>> \o q
           s == Keeps(o, t)
<1>1. x \in Seq(Toks)
    BY Prepend
<1>o. /\ o \in Results(Flags, Texts) /\ o.ok
      /\ o.cmd.verb = "" /\ o.cmd.global = Absent /\ o.cmd.rest = q
    BY OnlyTypes
<1>x. /\ Only(x) \in Results(Flags, Texts) /\ Only(x).ok
      /\ Only(x).cmd.verb = "" /\ Only(x).cmd.global = Absent
      /\ Only(x).cmd.rest = x
  <2> HIDE DEF x
  <2> QED BY <1>1, OnlyTypes
<1>s. s = Keeps(o, t)
    OBVIOUS
<1> HIDE DEF o, s
<1>2. /\ s \in Results(Flags, Texts) /\ s.ok = o.ok
      /\ s.cmd.verb = o.cmd.verb /\ s.cmd.global = o.cmd.global
      /\ s.cmd.rest = <<t>> \o o.cmd.rest
  <2>1. o \in Results(Flags, Texts)
      BY <1>o
  <2> QED BY <1>s, <2>1, SetRest
<1>3. s.cmd.rest = x
    BY <1>2, <1>o
<1> HIDE DEF x
<1>4. o.ok \in BOOLEAN /\ s.ok \in BOOLEAN /\ Only(x).ok \in BOOLEAN
    BY <1>o, <1>x, <1>2 DEF Results
<1>5. s.ok = Only(x).ok
    BY <1>o, <1>x, <1>2, <1>4, Zenon
<1>6. s = Only(x)
    BY <1>2, <1>3, <1>5, <1>o, <1>x, SameResult
<1> QED BY <1>6 DEF o, s, x

\* Where no global, and no word that could be the verb, is left, all is rest.
LEMMA PlainTail ==
    ASSUME NEW Flags, NEW Texts, Spelled(Flags, Texts),
           NEW b \in Seq(Tokens(Flags, Texts)), NEW m \in {"verb", "rest"},
           NEW i \in 1..Len(b) + 1,
           \A j \in i..Len(b) : ~IsGlobal(b[j]) /\ (m = "rest" \/ IsFlag(b[j]))
    PROVE  From(b)[<<i, m>>] = Only(SubSeq(b, i, Len(b)))
<1> DEFINE Good(k) == k >= i => From(b)[<<k, m>>] = Only(SubSeq(b, k, Len(b)))
           S == {k \in 1..Len(b) + 1 : Good(k)}
<1>0. Len(b) \in Nat
    OBVIOUS
<1>1. Good(Len(b) + 1)
  <2>1. SubSeq(b, Len(b) + 1, Len(b)) = <<>>
      OBVIOUS
  <2> QED BY <1>0, <2>1, TurnEnd, OnlyNone
<1>2. ASSUME NEW k \in 1..Len(b), \A j \in k + 1..Len(b) + 1 : j \in S
      PROVE  Good(k)
  <2> SUFFICES ASSUME k >= i PROVE From(b)[<<k, m>>] = Only(SubSeq(b, k, Len(b)))
      OBVIOUS
  <2>1. k + 1 \in k + 1..Len(b) + 1 /\ k + 1 >= i /\ k \in i..Len(b)
      OBVIOUS
  <2>2. From(b)[<<k + 1, m>>] = Only(SubSeq(b, k + 1, Len(b)))
      BY <1>2, <2>1
  <2>3. From(b)[<<k, m>>] = Keeps(From(b)[<<k + 1, m>>], b[k])
      BY <1>0, <2>1, TurnRest
  <2>4. SubSeq(b, k, Len(b)) = <<b[k]>> \o SubSeq(b, k + 1, Len(b))
      BY SubSeqRecursiveFirst
  <2>5. SubSeq(b, k + 1, Len(b)) \in Seq(Tokens(Flags, Texts))
      OBVIOUS
  <2>6. b[k] \in Tokens(Flags, Texts)
      OBVIOUS
  <2>7. Keeps(Only(SubSeq(b, k + 1, Len(b))), b[k])
            = Only(<<b[k]>> \o SubSeq(b, k + 1, Len(b)))
    <3> DEFINE q == SubSeq(b, k + 1, Len(b))
    <3>1. q \in Seq(Tokens(Flags, Texts))
        BY <2>5
    <3> HIDE DEF q
    <3> QED BY <2>6, <3>1, OnlyKeeps DEF q
  <2> QED BY <2>2, <2>3, <2>4, <2>7
<1> HIDE DEF Good
<1>3. 1..Len(b) + 1 \subseteq S
  <2>1. Len(b) + 1 \in S
      BY <1>0, <1>1
  <2>2. ASSUME NEW k \in 1..Len(b), \A j \in k + 1..Len(b) + 1 : j \in S
        PROVE  k \in S
      BY <1>2, <2>2
  <2> HIDE DEF S
  <2> QED BY <1>0, <2>1, <2>2, Downwards
<1> QED BY <1>3 DEF Good

LEMMA ProfileFlag ==
    ASSUME NEW f \in {"-p", "--profile"}
    PROVE  IsGlobal(Flag(f)) /\ Flag(f).text = NoText
BY DEF IsGlobal, Flag

LEMMA StepGlobal ==
    ASSUME NEW b, Len(b) \in Nat, NEW i \in 1..Len(b), i < Len(b),
           NEW m \in {"verb", "rest"}, IsGlobal(b[i]), b[i].text = NoText,
           b[i + 1] # Empty
    PROVE  From(b)[<<i, m>>] = Hoists(From(b)[<<i + 2, m>>], b[i + 1])
<1>1. Value(b, i) = b[i + 1] /\ Consumed(b, i) = 2
    BY DEF Value, Consumed
<1> QED BY <1>1, TurnGlobal

LEMMA WordParts == \A w : Word(w).flag = "" /\ Word(w).text = w
BY DEF Word

LEMMA StepVerb ==
    ASSUME NEW Flags, NEW Texts, NEW b \in Seq(Tokens(Flags, Texts)),
           NEW i \in 1..Len(b), NEW w, b[i] = Word(w), Word(w) # Empty
    PROVE  From(b)[<<i, "verb">>] = Begins(From(b)[<<i + 1, "rest">>], w)
<1>1. Len(b) \in Nat
    OBVIOUS
<1>2. ~IsGlobal(b[i]) /\ ~IsFlag(b[i]) /\ b[i] # Empty /\ b[i].text = w
  <2>1. b[i].flag = "" /\ b[i].text = w
      BY WordParts
  <2>2. ~IsGlobal(b[i]) /\ ~IsFlag(b[i])
      BY <2>1 DEF IsGlobal, IsFlag
  <2> QED BY <2>1, <2>2
<1> QED BY <1>1, <1>2, TurnWord

\* A line in order: the verb, the profile, the rest.
Line(f, w, g, q) ==
    (IF w = "" THEN <<>> ELSE <<Word(w)>>)
    \o (IF g = Absent THEN <<>> ELSE <<Flag(f), g>>)
    \o q

\* What follows a prefix.
LEMMA Suffix ==
    ASSUME NEW T, NEW p \in Seq(T), NEW q \in Seq(T), NEW b, b = p \o q
    PROVE  /\ b \in Seq(T) /\ Len(b) = Len(p) + Len(q)
           /\ Len(p) \in Nat /\ Len(q) \in Nat
           /\ \A j \in 1..Len(p) : b[j] = p[j]
           /\ \A j \in Len(p) + 1..Len(b) : b[j] = q[j - Len(p)]
           /\ SubSeq(b, Len(p) + 1, Len(b)) = q
<1>1. /\ b \in Seq(T) /\ Len(b) = Len(p) + Len(q)
      /\ Len(p) \in Nat /\ Len(q) \in Nat
      /\ \A j \in 1..Len(p) : b[j] = p[j]
      /\ \A j \in Len(p) + 1..Len(b) : b[j] = q[j - Len(p)]
    OBVIOUS
<1> DEFINE s == SubSeq(b, Len(p) + 1, Len(b))
<1>2. /\ s \in Seq(T) /\ Len(s) = Len(q)
      /\ \A j \in 1..Len(q) : s[j] = b[Len(p) + j]
  <2> HIDE DEF s
  <2>1. \A j \in Len(p) + 1..Len(b) : b[j] \in T
      BY <1>1
  <2>2. /\ s \in Seq(T)
        /\ Len(s) = IF Len(p) + 1 <= Len(b) THEN Len(b) - (Len(p) + 1) + 1 ELSE 0
        /\ \A j \in 1..Len(b) - (Len(p) + 1) + 1 : s[j] = b[(Len(p) + 1) + j - 1]
      BY <1>1, <2>1, SubSeqProperties DEF s
  <2>3. Len(s) = Len(q)
      BY <1>1, <2>2
  <2>4. ASSUME NEW j \in 1..Len(q) PROVE s[j] = b[Len(p) + j]
    <3>1. j \in 1..Len(b) - (Len(p) + 1) + 1 /\ (Len(p) + 1) + j - 1 = Len(p) + j
        BY <1>1
    <3> QED BY <2>2, <3>1
  <2> QED BY <2>2, <2>3, <2>4
<1> HIDE DEF s
<1>3. ASSUME NEW j \in 1..Len(s) PROVE s[j] = q[j]
  <2>1. Len(p) + j \in Len(p) + 1..Len(b) /\ (Len(p) + j) - Len(p) = j
      BY <1>1, <1>2
  <2> QED BY <1>1, <1>2, <2>1
<1>4. s = q
    BY <1>2, <1>3, SeqEqual
<1> QED BY <1>1, <1>4 DEF s

\* Such a line, with a profile that is no empty word, and a rest that holds no
\* global and, without a verb, no word, parses into its parts.
LEMMA ParseLine ==
    ASSUME NEW Flags, NEW Texts, Spelled(Flags, Texts),
           NEW f \in {"-p", "--profile"}, NEW w \in Texts, w # NoText,
           NEW g \in Tokens(Flags, Texts) \cup {Absent}, g # Empty,
           NEW q \in Seq(Tokens(Flags, Texts)),
           \A j \in 1..Len(q) : ~IsGlobal(q[j]) /\ (Word(w) # Empty \/ IsFlag(q[j]))
    PROVE  /\ Parse(Line(f, w, g, q)).ok
           /\ Parse(Line(f, w, g, q)).cmd = [verb |-> w, global |-> g, rest |-> q]
<1> DEFINE Toks == Tokens(Flags, Texts)
           v == IF Word(w) = Empty THEN <<>> ELSE <<Word(w)>>
           p == IF g = Absent THEN <<>> ELSE <<Flag(f), g>>
           vp == v \o p
           b == vp \o q
           m == IF Word(w) = Empty THEN "verb" ELSE "rest"
<1>1. b = Line(f, w, g, q)
    BY DEF Line, Word, Empty
<1>2. v \in Seq(Toks)
  <2>1. Word(w) \in Toks
      BY DEF Tokens, Word, Absent, Flag, Spelled
  <2> HIDE DEF Toks
  <2> QED BY <2>1
<1>3. p \in Seq(Toks)
  <2>1. Flag(f) \in Toks
      BY DEF Tokens, Absent, Flag, Spelled
  <2>2. g # Absent => g \in Toks
      OBVIOUS
  <2> HIDE DEF Toks
  <2> QED BY <2>1, <2>2
<1> HIDE DEF Toks
<1>4. /\ Word(w) = Empty => v = <<>> /\ Len(v) = 0
      /\ Word(w) # Empty => v = <<Word(w)>> /\ Len(v) = 1 /\ v[1] = Word(w)
      /\ g = Absent => p = <<>> /\ Len(p) = 0
      /\ g # Absent => /\ p = <<Flag(f), g>> /\ Len(p) = 2
                       /\ p[1] = Flag(f) /\ p[2] = g
    OBVIOUS
<1> HIDE DEF v, p
<1>5. /\ vp \in Seq(Toks) /\ Len(vp) = Len(v) + Len(p)
      /\ Len(v) \in Nat /\ Len(p) \in Nat
      /\ \A j \in 1..Len(v) : vp[j] = v[j]
      /\ \A j \in Len(v) + 1..Len(vp) : vp[j] = p[j - Len(v)]
  <2> HIDE DEF vp
  <2>1. vp = v \o p
      BY DEF vp
  <2> QED BY <1>2, <1>3, <2>1, Suffix
<1> HIDE DEF vp
<1>6. /\ b \in Seq(Toks) /\ Len(b) = Len(vp) + Len(q)
      /\ Len(vp) \in Nat /\ Len(q) \in Nat
      /\ \A j \in 1..Len(vp) : b[j] = vp[j]
      /\ \A j \in Len(vp) + 1..Len(b) : b[j] = q[j - Len(vp)]
      /\ SubSeq(b, Len(vp) + 1, Len(b)) = q
  <2>1. q \in Seq(Toks)
      BY DEF Toks
  <2>2. b = vp \o q
      OBVIOUS
  <2>3. vp \in Seq(Toks)
      BY <1>5
  <2> HIDE DEF b
  <2> QED BY <2>1, <2>2, <2>3, Suffix
<1> HIDE DEF b
<1>7. m \in {"verb", "rest"} /\ (Word(w) # Empty => m = "rest")
    OBVIOUS
<1>8. From(b)[<<Len(vp) + 1, m>>] = Only(q)
  <2>1. ASSUME NEW j \in Len(vp) + 1..Len(b)
        PROVE  ~IsGlobal(b[j]) /\ (m = "rest" \/ IsFlag(b[j]))
    <3>1. j - Len(vp) \in 1..Len(q) /\ b[j] = q[j - Len(vp)]
        BY <1>6
    <3> QED BY <1>7, <3>1
  <2>2. Len(vp) + 1 \in 1..Len(b) + 1
      BY <1>6
  <2> HIDE DEF m
  <2>3. From(b)[<<Len(vp) + 1, m>>] = Only(SubSeq(b, Len(vp) + 1, Len(b)))
      BY <1>6, <1>7, <2>1, <2>2, PlainTail DEF Toks
  <2> QED BY <1>6, <2>3
<1> HIDE DEF m
<1> DEFINE r == From(b)[<<Len(v) + 1, m>>]
<1>9. /\ r \in Results(Flags, Texts) /\ r.ok
      /\ r.cmd.verb = "" /\ r.cmd.global = g /\ r.cmd.rest = q
  <2>1. /\ Only(q) \in Results(Flags, Texts) /\ Only(q).ok
        /\ Only(q).cmd.verb = "" /\ Only(q).cmd.global = Absent
        /\ Only(q).cmd.rest = q
      BY OnlyTypes
  <2>2. CASE g = Absent
    <3>1. r = Only(q)
        BY <1>4, <1>5, <1>8, <2>2
    <3> QED BY <2>1, <2>2, <3>1
  <2>3. CASE g # Absent
    <3> DEFINE i == Len(v) + 1
    <3>1. /\ i \in 1..Len(b) /\ i + 1 \in 1..Len(b)
          /\ b[i] = Flag(f) /\ b[i + 1] = g /\ i + 2 = Len(vp) + 1
      <4>1. Len(p) = 2 /\ p[1] = Flag(f) /\ p[2] = g
          BY <1>4, <2>3
      <4>2. /\ i \in 1..Len(b) /\ i + 1 \in 1..Len(b) /\ i + 2 = Len(vp) + 1
            /\ i \in 1..Len(vp) /\ i + 1 \in 1..Len(vp)
            /\ i \in Len(v) + 1..Len(vp) /\ i + 1 \in Len(v) + 1..Len(vp)
            /\ i - Len(v) = 1 /\ (i + 1) - Len(v) = 2
          BY <1>5, <1>6, <4>1
      <4> HIDE DEF i
      <4>3. b[i] = vp[i] /\ b[i + 1] = vp[i + 1]
          BY <1>6, <4>2
      <4>4. vp[i] = p[1] /\ vp[i + 1] = p[2]
          BY <1>5, <4>2
      <4> QED BY <4>1, <4>2, <4>3, <4>4
    <3>2. r = Hoists(From(b)[<<i + 2, m>>], g)
      <4>1. b \in Seq(Tokens(Flags, Texts)) /\ Len(b) \in Nat
          BY <1>6 DEF Toks
      <4>2. r = From(b)[<<i, m>>]
          OBVIOUS
      <4>3. i \in 1..Len(b) /\ i < Len(b) /\ b[i] = Flag(f) /\ b[i + 1] = g
          BY <3>1, <4>1
      <4>4. IsGlobal(b[i]) /\ b[i].text = NoText
          BY <4>3, ProfileFlag
      <4> HIDE DEF i, r
      <4>5. From(b)[<<i, m>>] = Hoists(From(b)[<<i + 2, m>>], b[i + 1])
          BY <1>7, <4>1, <4>3, <4>4, StepGlobal
      <4> QED BY <4>2, <4>3, <4>5
    <3>3. r = Hoists(Only(q), g)
        BY <1>8, <3>1, <3>2
    <3>4. g \in Tokens(Flags, Texts)
        BY <2>3
    <3> HIDE DEF r
    <3> DEFINE o == Only(q)
    <3> HIDE DEF o
    <3>5. o \in Results(Flags, Texts) /\ r = Hoists(o, g)
        BY <2>1, <3>3 DEF o
    <3>6. /\ r \in Results(Flags, Texts)
          /\ r.ok = o.ok /\ r.cmd.verb = o.cmd.verb /\ r.cmd.rest = o.cmd.rest
          /\ r.cmd.global = IF o.cmd.global = Absent THEN g ELSE o.cmd.global
        BY <3>4, <3>5, SetGlobal
    <3> QED BY <2>1, <3>6 DEF o
  <2> QED BY <2>2, <2>3
<1>10. Parse(b) = From(b)[<<1, "verb">>]
    BY DEF Parse
<1>11. /\ Parse(b) \in Results(Flags, Texts) /\ Parse(b).ok
       /\ Parse(b).cmd.verb = w /\ Parse(b).cmd.global = g /\ Parse(b).cmd.rest = q
  <2>1. CASE Word(w) = Empty
    <3>1. w = ""
        BY <2>1 DEF Word, Empty
    <3>2. Parse(b) = r
        BY <1>4, <1>10, <2>1 DEF m
    <3> HIDE DEF r
    <3> QED BY <1>9, <3>1, <3>2
  <2>2. CASE Word(w) # Empty
    <3>1. Len(v) = 1 /\ 1 \in 1..Len(b) /\ b[1] = Word(w)
      <4>1. Len(v) = 1 /\ v[1] = Word(w)
          BY <1>4, <2>2
      <4>2. 1 \in 1..Len(b) /\ 1 \in 1..Len(vp) /\ 1 \in 1..Len(v)
          BY <1>5, <1>6, <4>1
      <4>3. b[1] = vp[1] /\ vp[1] = v[1]
          BY <1>5, <1>6, <4>2
      <4> QED BY <4>1, <4>2, <4>3
    <3>2. From(b)[<<1, "verb">>] = Begins(From(b)[<<1 + 1, "rest">>], w)
      <4>1. b \in Seq(Tokens(Flags, Texts))
          BY <1>6 DEF Toks
      <4> QED BY <2>2, <3>1, <4>1, StepVerb
    <3>3. From(b)[<<1 + 1, "rest">>] = r
        BY <2>2, <3>1 DEF m
    <3> HIDE DEF r
    <3>4. Parse(b) = Begins(r, w)
        BY <1>10, <3>2, <3>3
    <3>5. /\ Parse(b) \in Results(Flags, Texts)
          /\ Parse(b).ok = r.ok /\ Parse(b).cmd.verb = w
          /\ Parse(b).cmd.global = r.cmd.global /\ Parse(b).cmd.rest = r.cmd.rest
      <4>1. r \in Results(Flags, Texts)
          BY <1>9
      <4> QED BY <3>4, <4>1, SetVerb
    <3> QED BY <1>9, <3>5
  <2> QED BY <2>1, <2>2
<1>12. Parse(b).cmd = [verb |-> w, global |-> g, rest |-> q]
  <2> DEFINE c == Parse(b).cmd
  <2>1. c \in [verb : Texts, global : Tokens(Flags, Texts) \cup {Absent},
               rest : Seq(Tokens(Flags, Texts))]
      BY <1>11 DEF Results
  <2> HIDE DEF c
  <2>2. c = [verb |-> c.verb, global |-> c.global, rest |-> c.rest]
      BY <2>1
  <2> QED BY <1>11, <2>2 DEF c
<1> QED BY <1>1, <1>11, <1>12

\* A command set out in its canonical order is parsed into itself.
LEMMA ParseOfLine ==
    ASSUME NEW Flags, NEW Texts, Spelled(Flags, Texts),
           NEW a \in Seq(Tokens(Flags, Texts)), Parse(a).ok,
           NEW c, c = Parse(a).cmd
    PROVE  /\ Parse(Line("--profile", c.verb, c.global, c.rest)).ok
           /\ Parse(Line("--profile", c.verb, c.global, c.rest)).cmd = c
<1> DEFINE r == Parse(a)
           w == r.cmd.verb
           g == r.cmd.global
           q == r.cmd.rest
<1>1. r \in Results(Flags, Texts) /\ Shaped(r, "verb")
  <2>1. 1 \in 1..Len(a) + 1
      OBVIOUS
  <2> QED BY <2>1, FromShaped DEF Parse
<1>2. /\ w \in Texts /\ w # NoText
      /\ g \in Tokens(Flags, Texts) \cup {Absent} /\ g # Empty
      /\ q \in Seq(Tokens(Flags, Texts))
  <2> HIDE DEF r, Tokens, Absent, Empty
  <2> QED BY <1>1 DEF Results, Shaped
<1>3. \A j \in 1..Len(q) : ~IsGlobal(q[j]) /\ (Word(w) # Empty \/ IsFlag(q[j]))
  <2>1. Word(w) = Empty => w = ""
      BY DEF Word, Empty
  <2> HIDE DEF r, Empty, IsGlobal, IsFlag
  <2> QED BY <1>1, <2>1 DEF Shaped
<1>4. r.cmd = [verb |-> w, global |-> g, rest |-> q]
  <2> HIDE DEF r, Tokens, Absent
  <2> QED BY <1>1 DEF Results
<1> HIDE DEF r, w, g, q
<1>5. Parse(Line("--profile", w, g, q)).ok
      /\ Parse(Line("--profile", w, g, q)).cmd = [verb |-> w, global |-> g, rest |-> q]
    BY <1>2, <1>3, ParseLine
<1>6. Parse(Line("--profile", w, g, q)).ok
      /\ Parse(Line("--profile", w, g, q)).cmd = r.cmd
    BY <1>4, <1>5
<1>7. c = r.cmd /\ c.verb = w /\ c.global = g /\ c.rest = q
    BY DEF r, w, g, q
<1> QED BY <1>6, <1>7

\* What Parse reads of String is the command it was given: "Parse(String(c)) is
\* equivalent to c" (grammar.go:66), for the command of any line whose tokens
\* have any spelling and text, wherever -p sits and whatever it holds, as long as
\* a shell leaves its verb whole: the verb is written without quotes
\* (grammar.go:148-149).
THEOREM ParseOfString ==
    ASSUME NEW Flags, NEW Texts, Spelled(Flags, Texts),
           NEW a \in Seq(Tokens(Flags, Texts)), Parse(a).ok,
           Parse(a).cmd.verb \in Bare \cup {""}
    PROVE  /\ Parse(String(Parse(a).cmd)).ok
           /\ Parse(String(Parse(a).cmd)).cmd = Parse(a).cmd
<1> DEFINE c == Parse(a).cmd
<1>1. Parse(Line("--profile", c.verb, c.global, c.rest)).ok
      /\ Parse(Line("--profile", c.verb, c.global, c.rest)).cmd = c
    BY ParseOfLine
<1>2. c.verb \in Bare \cup {""}
    OBVIOUS
<1> HIDE DEF c
<1>3. String(c) = Line("--profile", c.verb, c.global, c.rest)
    BY <1>2 DEF String, Line, Bare
<1> QED BY <1>1, <1>3 DEF c

-----------------------------------------------------------------------------
(* Where a global stands does not matter.                                  *)

Plain(a) == \A j \in 1..Len(a) : ~IsGlobal(a[j])

\* One turn at a token that is no global, by what the two next turns read.
Reads(t, m, verb, rest) ==
    IF m = "rest" THEN Keeps(rest, t)
    ELSE IF IsFlag(t) THEN Keeps(verb, t)
    ELSE IF t = Empty THEN verb ELSE Begins(rest, t.text)

LEMMA TurnPlain ==
    ASSUME NEW a, Len(a) \in Nat, NEW m \in {"verb", "rest"},
           NEW i \in 1..Len(a), ~IsGlobal(a[i])
    PROVE  From(a)[<<i, m>>] = Reads(a[i], m, From(a)[<<i + 1, "verb">>],
                                     From(a)[<<i + 1, "rest">>])
<1> DEFINE F == From(a)
<1> HIDE DEF IsGlobal, IsFlag, Empty
<1>1. CASE m = "rest"
  <2>1. F[<<i, m>>] = Keeps(F[<<i + 1, m>>], a[i])
      BY <1>1, TurnRest
  <2> HIDE DEF F
  <2> QED BY <1>1, <2>1 DEF Reads, F
<1>2. CASE m = "verb" /\ IsFlag(a[i])
  <2>1. F[<<i, m>>] = Keeps(F[<<i + 1, m>>], a[i])
      BY <1>2, TurnRest
  <2> HIDE DEF F
  <2> QED BY <1>2, <2>1 DEF Reads, F
<1>3. CASE m = "verb" /\ ~IsFlag(a[i])
  <2>1. F[<<i, m>>] = IF a[i] = Empty THEN F[<<i + 1, "verb">>]
                      ELSE Begins(F[<<i + 1, "rest">>], a[i].text)
      BY <1>3, TurnWord
  <2> HIDE DEF F
  <2> QED BY <1>3, <2>1 DEF Reads, F
<1> QED BY <1>1, <1>2, <1>3

\* The global may be set before or after such a turn.
LEMMA HoistsReads ==
    ASSUME NEW Flags, NEW Texts, NEW t \in Tokens(Flags, Texts), NEW m \in {"verb", "rest"},
           NEW x \in Results(Flags, Texts), NEW y \in Results(Flags, Texts),
           NEW v \in Tokens(Flags, Texts)
    PROVE  Reads(t, m, Hoists(x, v), Hoists(y, v)) = Hoists(Reads(t, m, x, y), v)
<1> HIDE DEF Tokens, Absent, Empty, IsFlag
<1>1. ASSUME NEW r \in Results(Flags, Texts)
      PROVE  /\ Keeps(Hoists(r, v), t) = Hoists(Keeps(r, t), v)
             /\ Begins(Hoists(r, v), t.text) = Hoists(Begins(r, t.text), v)
  <2>1. t.text \in Texts
      BY DEF Tokens
  <2>2. PICK h, k, b : h = Hoists(r, v) /\ k = Keeps(r, t) /\ b = Begins(r, t.text)
      OBVIOUS
  <2>3. PICK hk, kh, hb, bh : /\ hk = Keeps(h, t) /\ kh = Hoists(k, v)
                              /\ hb = Begins(h, t.text) /\ bh = Hoists(b, v)
      OBVIOUS
  <2> HIDE DEF Keeps, Hoists, Begins, Results
  <2>4. /\ h \in Results(Flags, Texts)
        /\ h.ok = r.ok /\ h.cmd.verb = r.cmd.verb /\ h.cmd.rest = r.cmd.rest
        /\ h.cmd.global = IF r.cmd.global = Absent THEN v ELSE r.cmd.global
      BY <2>2, SetGlobal
  <2>5. /\ k \in Results(Flags, Texts)
        /\ k.ok = r.ok /\ k.cmd.verb = r.cmd.verb /\ k.cmd.global = r.cmd.global
        /\ k.cmd.rest = <<t>> \o r.cmd.rest
      BY <2>2, SetRest
  <2>6. /\ b \in Results(Flags, Texts)
        /\ b.ok = r.ok /\ b.cmd.verb = t.text /\ b.cmd.global = r.cmd.global
        /\ b.cmd.rest = r.cmd.rest
      BY <2>1, <2>2, SetVerb
  <2>7. /\ hk \in Results(Flags, Texts)
        /\ hk.ok = h.ok /\ hk.cmd.verb = h.cmd.verb /\ hk.cmd.global = h.cmd.global
        /\ hk.cmd.rest = <<t>> \o h.cmd.rest
    <3>1. h \in Results(Flags, Texts)
        BY <2>4
    <3>2. hk = Keeps(h, t)
        BY <2>3
    <3> QED BY <3>1, <3>2, SetRest
  <2>8. /\ kh \in Results(Flags, Texts)
        /\ kh.ok = k.ok /\ kh.cmd.verb = k.cmd.verb /\ kh.cmd.rest = k.cmd.rest
        /\ kh.cmd.global = IF k.cmd.global = Absent THEN v ELSE k.cmd.global
      BY <2>3, <2>5, SetGlobal
  <2>9. /\ hb \in Results(Flags, Texts)
        /\ hb.ok = h.ok /\ hb.cmd.verb = t.text /\ hb.cmd.global = h.cmd.global
        /\ hb.cmd.rest = h.cmd.rest
      BY <2>1, <2>3, <2>4, SetVerb
  <2>10. /\ bh \in Results(Flags, Texts)
         /\ bh.ok = b.ok /\ bh.cmd.verb = b.cmd.verb /\ bh.cmd.rest = b.cmd.rest
         /\ bh.cmd.global = IF b.cmd.global = Absent THEN v ELSE b.cmd.global
      BY <2>3, <2>6, SetGlobal
  <2>11. hk = kh
    <3>1. hk \in Results(Flags, Texts) /\ kh \in Results(Flags, Texts) /\ hk.ok = kh.ok
          /\ hk.cmd.verb = kh.cmd.verb /\ hk.cmd.global = kh.cmd.global
        BY <2>4, <2>5, <2>7, <2>8
    <3>2. hk.cmd.rest = kh.cmd.rest
        BY <2>4, <2>5, <2>7, <2>8
    <3> QED BY <3>1, <3>2, SameResult
  <2>12. hb = bh
      BY <2>4, <2>6, <2>9, <2>10, SameResult
  <2> QED BY <2>2, <2>3, <2>11, <2>12
<1> HIDE DEF Keeps, Hoists, Begins
<1> QED BY <1>1 DEF Reads

\* Where there is no global, none is set, and nothing is refused.
LEMMA PlainFrom ==
    ASSUME NEW Flags, NEW Texts, Spelled(Flags, Texts),
           NEW a \in Seq(Tokens(Flags, Texts)), Plain(a),
           NEW i \in 1..Len(a) + 1, NEW m \in {"verb", "rest"}
    PROVE  /\ From(a)[<<i, m>>] \in Results(Flags, Texts)
           /\ From(a)[<<i, m>>].ok /\ From(a)[<<i, m>>].cmd.global = Absent
<1> DEFINE F == From(a)
           Free(r) == r \in Results(Flags, Texts) /\ r.ok /\ r.cmd.global = Absent
           S == {k \in 1..Len(a) + 1 : Free(F[<<k, "verb">>]) /\ Free(F[<<k, "rest">>])}
<1>0. Len(a) \in Nat
    OBVIOUS
<1>1. \A k \in 1..Len(a) + 1, l \in {"verb", "rest"} : F[<<k, l>>] \in Results(Flags, Texts)
    BY FromShaped
<1>2. Len(a) + 1 \in S
  <2>1. \A l \in {"verb", "rest"} : F[<<Len(a) + 1, l>>] = [ok |-> TRUE, cmd |-> NoCommand]
      BY <1>0, TurnEnd
  <2>2. NoCommand.global = Absent
      BY DEF NoCommand
  <2> HIDE DEF F, Absent
  <2> QED BY <1>0, <1>1, <2>1, <2>2
<1>3. ASSUME NEW k \in 1..Len(a), \A j \in k + 1..Len(a) + 1 : j \in S PROVE k \in S
  <2>1. k + 1 \in S /\ k \in 1..Len(a) + 1 /\ ~IsGlobal(a[k])
      BY <1>3 DEF Plain
  <2>2. a[k] \in Tokens(Flags, Texts)
      OBVIOUS
  <2>3. ASSUME NEW l \in {"verb", "rest"} PROVE Free(F[<<k, l>>])
    <3> DEFINE x == F[<<k + 1, "verb">>]
               y == F[<<k + 1, "rest">>]
    <3>1. F[<<k, l>>] = Reads(a[k], l, x, y) /\ F[<<k, l>>] \in Results(Flags, Texts)
        BY <1>0, <1>1, <2>1, TurnPlain
    <3>2. Free(x) /\ Free(y)
        BY <2>1
    <3> HIDE DEF F, x, y
    <3>3. a[k].text \in Texts
        BY <2>2 DEF Tokens
    <3>4. ASSUME NEW r, Free(r)
          PROVE  /\ Keeps(r, a[k]).ok /\ Keeps(r, a[k]).cmd.global = Absent
                 /\ Begins(r, a[k].text).ok /\ Begins(r, a[k].text).cmd.global = Absent
      <4> HIDE DEF Tokens, Absent
      <4> QED BY <3>4 DEF Results, Keeps, Begins
    <3> HIDE DEF Keeps, Begins, Absent, Empty, IsFlag
    <3> QED BY <3>1, <3>2, <3>4 DEF Reads
  <2> QED BY <2>1, <2>3
<1>4. 1..Len(a) + 1 \subseteq S
  <2> HIDE DEF S
  <2> QED BY <1>0, <1>2, <1>3, Downwards
<1> QED BY <1>4

\* The forms of a global: its value is the next token, or follows the '='.
Gives(s, v) ==
    \E f \in {"-p", "--profile"} :
        \/ s = <<Flag(f), v>>
        \/ \E w : s = <<FlagIs(f, w)>> /\ w # NoText /\ v = Word(w)

\* Lines b and a are the same but for a global, which b has
\* from i up to e.
Has(b, i, s, e) ==
    /\ e = i + Len(s) /\ e <= Len(b) + 1
    /\ \A j \in 1..Len(s) : b[i + j - 1] = s[j]

Beside(a, b, i, s, e) ==
    /\ Has(b, i, s, e) /\ Len(b) = Len(a) + Len(s)
    /\ \A j \in 1..i - 1 : b[j] = a[j]
    /\ \A j \in i..Len(a) : b[j + Len(s)] = a[j]

\* After the global both lines read the same.
LEMMA TailSame ==
    ASSUME NEW T, NEW a \in Seq(T), Plain(a), NEW b \in Seq(T), NEW s \in Seq(T),
           NEW i \in 1..Len(a) + 1, NEW e \in Nat, Beside(a, b, i, s, e)
    PROVE  \A l \in {"verb", "rest"} : From(b)[<<e, l>>] = From(a)[<<i, l>>]
<1> DEFINE F == From(a)
           G == From(b)
           k == Len(s)
           Good(j) == j >= i => \A h \in Nat : h = j + k =>
                          \A l \in {"verb", "rest"} : G[<<h, l>>] = F[<<j, l>>]
           S == {j \in 1..Len(a) + 1 : Good(j)}
<1>0. Len(a) \in Nat /\ Len(b) \in Nat /\ k \in Nat /\ Len(b) = Len(a) + k
    BY DEF Beside, Has
<1>1. Len(a) + 1 \in S
  <2> DEFINE z == Len(a) + 1
  <2>0. z = Len(a) + 1 /\ z \in 1..Len(a) + 1 /\ z + k = Len(b) + 1
    <3> HIDE DEF k
    <3> QED BY <1>0
  <2>1. \A l \in {"verb", "rest"} : F[<<z, l>>] = [ok |-> TRUE, cmd |-> NoCommand]
      BY <1>0, TurnEnd
  <2> HIDE DEF z, F, k
  <2>2. ASSUME NEW h \in Nat, h = z + k, NEW l \in {"verb", "rest"}
        PROVE  G[<<h, l>>] = [ok |-> TRUE, cmd |-> NoCommand]
    <3>1. h = Len(b) + 1
        BY <2>0, <2>2
    <3> QED BY <1>0, <3>1, TurnEnd
  <2> HIDE DEF G
  <2>3. Good(z)
      BY <2>1, <2>2
  <2> HIDE DEF Good
  <2> QED BY <2>0, <2>3
<1>2. ASSUME NEW j \in 1..Len(a), \A x \in j + 1..Len(a) + 1 : x \in S PROVE j \in S
  <2> SUFFICES ASSUME j >= i, NEW h \in Nat, h = j + k, NEW l \in {"verb", "rest"}
               PROVE  G[<<h, l>>] = F[<<j, l>>]
    <3> HIDE DEF F, G, k
    <3>1. Good(j) => j \in S
      <4> HIDE DEF Good
      <4> QED OBVIOUS
    <3> QED BY <3>1
  <2>1. j + 1 \in S /\ j + 1 >= i /\ j \in i..Len(a)
      BY <1>0, <1>2
  <2>2. h \in 1..Len(b) /\ h + 1 \in Nat /\ h + 1 = (j + 1) + k
    <3> HIDE DEF S, k
    <3> QED BY <1>0, <2>1
  <2>3. b[h] = a[j] /\ ~IsGlobal(a[j])
      BY <2>1 DEF Beside, Has, Plain
  <2>4. \A m \in {"verb", "rest"} : G[<<h + 1, m>>] = F[<<j + 1, m>>]
    <3>1. Good(j + 1)
      <4> HIDE DEF Good
      <4> QED BY <2>1
    <3> HIDE DEF F, G, k
    <3> QED BY <2>1, <2>2, <3>1
  <2>5. F[<<j, l>>] = Reads(a[j], l, F[<<j + 1, "verb">>], F[<<j + 1, "rest">>])
      BY <1>0, <2>3, TurnPlain
  <2>6. G[<<h, l>>] = Reads(b[h], l, G[<<h + 1, "verb">>], G[<<h + 1, "rest">>])
      BY <1>0, <2>2, <2>3, TurnPlain
  <2> HIDE DEF F, G, k
  <2> QED BY <2>3, <2>4, <2>5, <2>6
<1>3. 1..Len(a) + 1 \subseteq S
  <2> HIDE DEF S
  <2> QED BY <1>0, <1>1, <1>2, Downwards
<1>4. Good(i)
  <2> HIDE DEF Good
  <2> QED BY <1>3
<1>5. e \in Nat /\ i >= i /\ e = i + k
    BY <1>0 DEF Beside, Has
<1> HIDE DEF F, G
<1>6. \A l \in {"verb", "rest"} : G[<<e, l>>] = F[<<i, l>>]
    BY <1>4, <1>5
<1> QED BY <1>6 DEF F, G

\* The turn at the global sets it.
LEMMA GlobalTurn ==
    ASSUME NEW b, Len(b) \in Nat, NEW i \in Nat \ {0}, NEW s, NEW e \in Nat,
           Has(b, i, s, e), NEW v, v # Empty, Gives(s, v), NEW m, m \in {"verb", "rest"}
    PROVE  From(b)[<<i, m>>] = Hoists(From(b)[<<e, m>>], v)
<1>0. PICK f \in {"-p", "--profile"} :
          \/ s = <<Flag(f), v>>
          \/ \E w : s = <<FlagIs(f, w)>> /\ w # NoText /\ v = Word(w)
    BY DEF Gives
<1>1. CASE s = <<Flag(f), v>>
  <2>1. Len(s) = 2 /\ s[1] = Flag(f) /\ s[2] = v
      BY <1>1
  <2>2. /\ i \in 1..Len(b) /\ i < Len(b) /\ e = i + 2
        /\ b[i] = s[1] /\ b[i + 1] = s[2]
      BY <2>1 DEF Has
  <2>3. IsGlobal(b[i]) /\ b[i].text = NoText /\ b[i + 1] = v
      BY <2>1, <2>2, ProfileFlag
  <2>4. From(b)[<<i, m>>] = Hoists(From(b)[<<i + 2, m>>], v)
      BY <2>2, <2>3, StepGlobal
  <2> QED BY <2>2, <2>4
<1>2. CASE \E w : s = <<FlagIs(f, w)>> /\ w # NoText /\ v = Word(w)
  <2>1. PICK w : s = <<FlagIs(f, w)>> /\ w # NoText /\ v = Word(w)
      BY <1>2
  <2>2. Len(s) = 1 /\ s[1] = FlagIs(f, w)
      BY <2>1
  <2>3. i \in 1..Len(b) /\ b[i] = s[1] /\ e = i + 1
      BY <2>2 DEF Has
  <2>4. b[i].flag = f /\ b[i].text = w
      BY <2>2, <2>3 DEF FlagIs
  <2>5. IsGlobal(b[i])
      BY <2>4 DEF IsGlobal
  <2>6. Value(b, i) = v /\ Consumed(b, i) = 1
      BY <2>1, <2>4 DEF Value, Consumed
  <2>7. From(b)[<<i, m>>] = Hoists(From(b)[<<i + 1, m>>], v)
      BY <2>3, <2>5, <2>6, TurnGlobal
  <2> QED BY <2>3, <2>7
<1> QED BY <1>0, <1>1, <1>2

\* So a line reads what it does without a global, and the global besides.
LEMMA BesideHoists ==
    ASSUME NEW Flags, NEW Texts, Spelled(Flags, Texts),
           NEW a \in Seq(Tokens(Flags, Texts)), Plain(a),
           NEW b \in Seq(Tokens(Flags, Texts)), NEW s \in Seq(Tokens(Flags, Texts)),
           NEW i \in 1..Len(a) + 1, NEW e \in Nat, Beside(a, b, i, s, e),
           NEW v \in Tokens(Flags, Texts), v # Empty, Gives(s, v)
    PROVE  From(b)[<<1, "verb">>] = Hoists(From(a)[<<1, "verb">>], v)
<1>0. Len(s) \in Nat
    OBVIOUS
<1> HIDE DEF Tokens, Empty
<1>1. \A l \in {"verb", "rest"} : From(b)[<<e, l>>] = From(a)[<<i, l>>]
    BY TailSame
<1>2. ASSUME NEW l \in {"verb", "rest"}
      PROVE  From(b)[<<i, l>>] = Hoists(From(b)[<<e, l>>], v)
  <2>1. Len(b) \in Nat /\ i \in Nat \ {0} /\ Has(b, i, s, e)
      BY DEF Beside
  <2> QED BY <2>1, GlobalTurn
<1>3. \A l \in {"verb", "rest"} : From(b)[<<i, l>>] = Hoists(From(a)[<<i, l>>], v)
    BY <1>1, <1>2
\* Before the global, turn by turn.
<1> DEFINE F == From(a)
           G == From(b)
           n == i - 1
           Good(j) == \A l \in {"verb", "rest"} : G[<<j, l>>] = Hoists(F[<<j, l>>], v)
           S == {j \in 1..i : Good(j)}
<1>4. Len(a) \in Nat /\ Len(b) \in Nat /\ n \in Nat /\ n + 1 = i
    OBVIOUS
<1>5. i \in S
    BY <1>3, <1>4
<1>6. ASSUME NEW j \in 1..n, \A x \in j + 1..n + 1 : x \in S PROVE j \in S
  <2> SUFFICES ASSUME NEW l \in {"verb", "rest"}
               PROVE  G[<<j, l>>] = Hoists(F[<<j, l>>], v)
      OBVIOUS
  <2>1. j + 1 \in S /\ j \in 1..Len(a) /\ j \in 1..Len(b) /\ j + 1 \in 1..Len(a) + 1
      BY <1>4, <1>6 DEF Beside
  <2>2. b[j] = a[j] /\ ~IsGlobal(a[j]) /\ a[j] \in Tokens(Flags, Texts)
      BY <2>1 DEF Beside, Plain
  <2> DEFINE x == F[<<j + 1, "verb">>]
             y == F[<<j + 1, "rest">>]
  <2>3. x \in Results(Flags, Texts) /\ y \in Results(Flags, Texts)
      BY <2>1, FromShaped
  <2>4. F[<<j, l>>] = Reads(a[j], l, x, y)
      BY <1>4, <2>1, <2>2, TurnPlain
  <2>5. G[<<j, l>>] = Reads(b[j], l, G[<<j + 1, "verb">>], G[<<j + 1, "rest">>])
      BY <1>4, <2>1, <2>2, TurnPlain
  <2>6. G[<<j + 1, "verb">>] = Hoists(x, v) /\ G[<<j + 1, "rest">>] = Hoists(y, v)
      BY <2>1
  <2> HIDE DEF F, G, x, y, Hoists, Reads, Tokens
  <2>7. Reads(a[j], l, Hoists(x, v), Hoists(y, v)) = Hoists(Reads(a[j], l, x, y), v)
      BY <2>2, <2>3, HoistsReads
  <2> QED BY <2>2, <2>4, <2>5, <2>6, <2>7
<1>7. 1..n + 1 \subseteq S
  <2> HIDE DEF S, n
  <2> QED BY <1>4, <1>5, <1>6, Downwards
<1>8. 1 \in S
    BY <1>4, <1>7
<1> HIDE DEF F, G
<1>9. Good(1)
    BY <1>8
<1> QED BY <1>9 DEF F, G

\* "A registered global flag is hoisted out wherever it appears" (grammar.go:88):
\* put before, between or after the other tokens of any line, with its value
\* behind it or after the '=', -p changes the command's profile and nothing else.
THEOREM GlobalAnywhere ==
    ASSUME NEW Flags, NEW Texts, Spelled(Flags, Texts),
           NEW p \in Seq(Tokens(Flags, Texts)), NEW q \in Seq(Tokens(Flags, Texts)),
           Plain(p \o q),
           NEW s \in Seq(Tokens(Flags, Texts)), NEW v \in Tokens(Flags, Texts),
           v # Empty, Gives(s, v)
    PROVE  /\ Parse(p \o q).ok /\ Parse(p \o s \o q).ok
           /\ Parse(p \o s \o q).cmd = [Parse(p \o q).cmd EXCEPT !.global = v]
<1> DEFINE Toks == Tokens(Flags, Texts)
           a == p \o q
           b == p \o s \o q
           n == Len(p) + 1
<1>1. a \in Seq(Toks) /\ b \in Seq(Toks) /\ n \in 1..Len(a) + 1
  <2> HIDE DEF Tokens
  <2> QED OBVIOUS
<1>2. Beside(a, b, n, s, n + Len(s))
  <2> HIDE DEF Tokens
  <2> QED BY DEF Beside, Has
<1>3. Plain(a)
    OBVIOUS
<1> HIDE DEF a, b, n, Tokens, Empty, Absent
<1>4. From(b)[<<1, "verb">>] = Hoists(From(a)[<<1, "verb">>], v)
    BY <1>1, <1>2, <1>3, BesideHoists
<1> DEFINE r == From(a)[<<1, "verb">>]
<1>5. r \in Results(Flags, Texts) /\ r.ok /\ r.cmd.global = Absent
  <2>1. 1 \in 1..Len(a) + 1
      BY <1>1
  <2> QED BY <1>1, <1>3, <2>1, PlainFrom
<1>6. Parse(a) = r /\ Parse(b) = Hoists(r, v)
    BY <1>4 DEF Parse
<1> HIDE DEF r
<1>7. Hoists(r, v).ok /\ Hoists(r, v).cmd = [r.cmd EXCEPT !.global = v]
    BY <1>5 DEF Hoists, Results
<1>8. /\ Parse(a).ok /\ Parse(b).ok
      /\ Parse(b).cmd = [Parse(a).cmd EXCEPT !.global = v]
    BY <1>5, <1>6, <1>7
<1> QED BY <1>8 DEF a, b

-----------------------------------------------------------------------------
(* The words among some tokens.                                            *)

LEMMA WordsExist ==
    ASSUME NEW toks, Len(toks) \in Nat
    PROVE  \E h : h = [n \in 0..Len(toks) |-> Grow(toks, h, n)]
<1> DEFINE D == 0..Len(toks)
           Solves(h, k) == /\ h = [n \in D |-> h[n]]
                           /\ \A n \in D : n < k => h[n] = Grow(toks, h, n)
           S == {k \in Nat : \E h : Solves(h, k)}
<1>1. 0 \in S
  <2> DEFINE h == [n \in D |-> 0]
  <2>1. h = [n \in D |-> h[n]] /\ \A n \in D : ~(n < 0)
      OBVIOUS
  <2>2. Solves(h, 0)
      BY <2>1
  <2> QED BY <2>2
<1>2. ASSUME NEW k \in Nat, k \in S PROVE k + 1 \in S
  <2>1. PICK h : Solves(h, k)
      BY <1>2
  <2> DEFINE g == [n \in D |-> IF n < k THEN h[n] ELSE Grow(toks, h, n)]
  <2>2. g = [n \in D |-> g[n]] /\ \A n \in D : n < k => g[n] = h[n]
      OBVIOUS
  <2>3. ASSUME NEW n \in D, n < k + 1 PROVE g[n] = Grow(toks, g, n)
    <3>1. g[n] = Grow(toks, h, n)
        BY <2>1
    <3>2. n # 0 => g[n - 1] = h[n - 1]
      <4>1. n # 0 => n - 1 \in D /\ n - 1 < k
          BY <2>3
      <4> HIDE DEF g
      <4> QED BY <2>2, <4>1
    <3>3. Grow(toks, h, n) = Grow(toks, g, n)
      <4> HIDE DEF g, IsFlag
      <4> QED BY <3>2 DEF Grow
    <3> HIDE DEF g
    <3> QED BY <3>1, <3>3
  <2>4. \E f : Solves(f, k + 1)
    <3>1. Solves(g, k + 1)
      <4> HIDE DEF g
      <4> QED BY <2>2, <2>3
    <3> HIDE DEF Solves, g
    <3> QED BY <3>1
  <2> HIDE DEF Solves
  <2> QED BY <2>4
<1>3. Len(toks) + 1 \in S
  <2> HIDE DEF S
  <2> QED BY <1>1, <1>2, NatSetInduction
<1>4. PICK h : Solves(h, Len(toks) + 1)
    BY <1>3
<1>5. \A n \in D : h[n] = Grow(toks, h, n)
    BY <1>4
<1>6. h = [n \in D |-> Grow(toks, h, n)]
  <2> HIDE DEF D
  <2> QED BY <1>4, <1>5
<1> QED BY <1>6

LEMMA WordsGrow ==
    ASSUME NEW toks, Len(toks) \in Nat, NEW n \in 0..Len(toks)
    PROVE  WordsTo(toks)[n] = Grow(toks, WordsTo(toks), n)
<1> DEFINE D == 0..Len(toks)
           P(f) == f = [k \in D |-> Grow(toks, f, k)]
<1>1. P(CHOOSE f : P(f))
  <2>1. PICK h : P(h)
      BY WordsExist
  <2> HIDE DEF P
  <2> QED BY <2>1
<1>2. WordsTo(toks) = CHOOSE f : P(f)
    BY DEF WordsTo
<1>3. WordsTo(toks) = [k \in D |-> Grow(toks, WordsTo(toks), k)]
    BY <1>1, <1>2
<1>4. n \in D
    OBVIOUS
<1> HIDE DEF D
<1> QED BY <1>3, <1>4

WordsAmong(toks, n) == {j \in 1..n : ~IsFlag(toks[j])}

\* No word is lost or made up: as many come out as there are, each a word that
\* is among the tokens.
LEMMA WordsOf ==
    ASSUME NEW T, NEW toks \in Seq(T)
    PROVE  /\ Words(toks) \in Seq(T)
           /\ Len(Words(toks)) = Cardinality(WordsAmong(toks, Len(toks)))
           /\ \A k \in 1..Len(Words(toks)) :
                  \E j \in WordsAmong(toks, Len(toks)) : Words(toks)[k] = toks[j]
<1> DEFINE W == WordsTo(toks)
           Fine(n) == /\ W[n] \in Seq(T)
                      /\ IsFiniteSet(WordsAmong(toks, n))
                      /\ Len(W[n]) = Cardinality(WordsAmong(toks, n))
                      /\ \A k \in 1..Len(W[n]) :
                             \E j \in WordsAmong(toks, n) : W[n][k] = toks[j]
           S == {n \in Nat : n <= Len(toks) => Fine(n)}
<1>0. Len(toks) \in Nat
    OBVIOUS
<1>1. 0 \in S
  <2>1. W[0] = <<>>
    <3>1. Grow(toks, W, 0) = <<>>
        BY DEF Grow
    <3> QED BY <1>0, <3>1, WordsGrow
  <2>2. WordsAmong(toks, 0) = {}
      BY DEF WordsAmong
  <2>3. Fine(0)
    <3>1. W[0] \in Seq(T) /\ Len(W[0]) = 0 /\ 1..Len(W[0]) = {}
      <4> HIDE DEF W
      <4> QED BY <2>1
    <3>2. IsFiniteSet(WordsAmong(toks, 0)) /\ Cardinality(WordsAmong(toks, 0)) = 0
        BY <2>2, FS_EmptySet
    <3> HIDE DEF W
    <3> QED BY <3>1, <3>2
  <2> HIDE DEF Fine
  <2> QED BY <2>3
<1>2. ASSUME NEW n \in Nat, n \in S PROVE n + 1 \in S
  <2> SUFFICES ASSUME n + 1 <= Len(toks) PROVE Fine(n + 1)
      OBVIOUS
  <2>1. Fine(n)
      BY <1>0, <1>2
  <2>2. n + 1 \in 0..Len(toks) /\ n + 1 \in 1..Len(toks) /\ (n + 1) - 1 = n
        /\ n + 1 # 0
      BY <1>0
  <2>3. W[n + 1] = Grow(toks, W, n + 1)
      BY <1>0, <2>2, WordsGrow
  <2>4. toks[n + 1] \in T
      BY <2>2
  <2>5. CASE IsFlag(toks[n + 1])
    <3>1. W[n + 1] = W[n]
      <4> HIDE DEF W, IsFlag
      <4> QED BY <2>2, <2>3, <2>5 DEF Grow
    <3>2. WordsAmong(toks, n + 1) = WordsAmong(toks, n)
      <4> HIDE DEF IsFlag
      <4> QED BY <2>5 DEF WordsAmong
    <3> HIDE DEF W
    <3> QED BY <2>1, <3>1, <3>2
  <2>6. CASE ~IsFlag(toks[n + 1])
    <3>1. W[n + 1] = Append(W[n], toks[n + 1])
      <4> HIDE DEF W, IsFlag
      <4> QED BY <2>2, <2>3, <2>6 DEF Grow
    <3>2. WordsAmong(toks, n + 1) = WordsAmong(toks, n) \cup {n + 1}
      <4> HIDE DEF IsFlag
      <4> QED BY <2>6 DEF WordsAmong
    <3>3. n + 1 \notin WordsAmong(toks, n)
        BY DEF WordsAmong
    <3> HIDE DEF W
    <3>4. /\ IsFiniteSet(WordsAmong(toks, n + 1))
          /\ Cardinality(WordsAmong(toks, n + 1)) = Cardinality(WordsAmong(toks, n)) + 1
        BY <2>1, <3>2, <3>3, FS_AddElement
    <3>5. /\ W[n + 1] \in Seq(T) /\ Len(W[n + 1]) = Len(W[n]) + 1
          /\ W[n + 1][Len(W[n]) + 1] = toks[n + 1]
          /\ \A k \in 1..Len(W[n]) : W[n + 1][k] = W[n][k]
          /\ Len(W[n]) \in Nat
        BY <2>1, <2>4, <3>1, AppendProperties
    <3>6. ASSUME NEW k \in 1..Len(W[n + 1])
          PROVE  \E j \in WordsAmong(toks, n + 1) : W[n + 1][k] = toks[j]
      <4>1. CASE k \in 1..Len(W[n])
          BY <2>1, <3>2, <3>5, <4>1
      <4>2. CASE k = Len(W[n]) + 1
          BY <3>2, <3>5, <4>2
      <4> QED BY <3>5, <4>1, <4>2
    <3> QED BY <2>1, <3>4, <3>5, <3>6
  <2> QED BY <2>5, <2>6
<1>3. Len(toks) \in S
  <2> HIDE DEF S
  <2> QED BY <1>0, <1>1, <1>2, NatSetInduction
<1>4. Fine(Len(toks))
    BY <1>0, <1>3
<1> QED BY <1>4 DEF Words

-----------------------------------------------------------------------------
(* The profile group.                                                      *)

Named(c) == IF c.global = Absent THEN 0 ELSE 1

\* The words after the subverb.
After(c) == {j \in 2..Len(c.rest) : ~IsFlag(c.rest[j])}

\* Target takes one word, or -p's value, for the profile, and what is left
\* over is the tail.
LEMMA TargetTakes ==
    ASSUME NEW T, NEW c, NEW pos \in Seq(T), NEW lo \in Nat, NEW hi \in Nat,
           Target(c, pos, lo, hi).ok
    PROVE  LET t == Target(c, pos, lo, hi) IN
           /\ Len(t.tail) \in lo..hi
           /\ Len(pos) + Named(c) = Len(t.tail) + 1
           /\ t.name.text \in Names /\ ~IsFlag(t.name)
           /\ t.name = c.global \/ (1 \in 1..Len(pos) /\ t.name = pos[1])
<1> DEFINE named == c.global # Absent
           name == IF named THEN c.global
                   ELSE IF pos # <<>> THEN Head(pos) ELSE Absent
           tail == IF named \/ pos = <<>> THEN pos ELSE Tail(pos)
           t == Target(c, pos, lo, hi)
<1>1. t = [ok |-> Len(tail) \in lo..hi /\ ValidName(name), name |-> name, tail |-> tail]
    BY DEF Target
<1> HIDE DEF name, tail
<1>2. t.name = name /\ t.tail = tail
    BY <1>1
<1>3. Len(tail) \in lo..hi /\ ValidName(name)
  <2> DEFINE ok == Len(tail) \in lo..hi /\ ValidName(name)
  <2>1. ok \in BOOLEAN
      BY Zenon DEF ValidName
  <2>2. [ok |-> ok, name |-> name, tail |-> tail].ok
      BY <1>1
  <2> HIDE DEF ok
  <2>3. [ok |-> ok, name |-> name, tail |-> tail].ok = ok
      BY <2>1
  <2>4. ok
      BY <2>2, <2>3
  <2> QED BY <2>4 DEF ok
<1>4. ~ValidName(Absent)
    BY GrammarAssumption DEF ValidName, Absent, Flag
<1>5. named \/ pos # <<>>
    BY <1>3, <1>4 DEF name
<1>6. CASE named
  <2>1. name = c.global /\ tail = pos /\ Named(c) = 1
      BY <1>6 DEF name, tail, Named
  <2> QED BY <1>2, <1>3, <2>1 DEF ValidName
<1>7. CASE ~named
  <2>1. name = Head(pos) /\ tail = Tail(pos) /\ Named(c) = 0 /\ pos # <<>>
      BY <1>5, <1>7 DEF name, tail, Named
  <2>2. Head(pos) = pos[1] /\ Len(Tail(pos)) = Len(pos) - 1 /\ 1 \in 1..Len(pos)
      BY <2>1
  <2> QED BY <1>2, <1>3, <2>1, <2>2 DEF ValidName
<1> QED BY <1>6, <1>7

\* As many words come after the subverb as there are among what follows it.
LEMMA AfterShift ==
    ASSUME NEW T, NEW rest \in Seq(T), rest # <<>>
    PROVE  /\ Len(Words(Tail(rest))) = Cardinality({j \in 2..Len(rest) : ~IsFlag(rest[j])})
           /\ \A k \in 1..Len(Words(Tail(rest))) :
                  \E j \in 2..Len(rest) :
                      ~IsFlag(rest[j]) /\ Words(Tail(rest))[k] = rest[j]
<1> DEFINE toks == Tail(rest)
           S == WordsAmong(toks, Len(toks))
           R == {j \in 2..Len(rest) : ~IsFlag(rest[j])}
<1>1. /\ toks \in Seq(T) /\ Len(toks) = Len(rest) - 1 /\ Len(rest) \in Nat
      /\ \A k \in 1..Len(toks) : toks[k] = rest[k + 1]
    BY HeadTailProperties
<1> HIDE DEF toks
<1>2. \A k \in 1..Len(toks) : k \in S <=> k + 1 \in R
  <2> HIDE DEF IsFlag
  <2> QED BY <1>1 DEF WordsAmong
<1>3. S \subseteq 1..Len(toks) /\ R \subseteq 2..Len(rest)
    BY DEF WordsAmong
<1> HIDE DEF S, R
<1>4. IsFiniteSet(S) /\ Cardinality(R) = Cardinality(S)
  <2>1. IsFiniteSet(1..Len(toks))
      BY <1>1, FS_Interval
  <2>2. IsFiniteSet(S)
      BY <1>3, <2>1, FS_Subset
  <2> DEFINE f == [k \in S |-> k + 1]
  <2>3. f \in Bijection(S, R)
    <3>1. \A k \in S : k + 1 \in R
        BY <1>2, <1>3
    <3>2. \A j \in R : j - 1 \in S /\ (j - 1) + 1 = j
        BY <1>1, <1>2, <1>3
    <3>3. \A k, l \in S : k + 1 = l + 1 => k = l
        BY <1>1, <1>3
    <3> QED BY <3>1, <3>2, <3>3 DEF Bijection, Injection, Surjection, IsInjective
  <2>4. ExistsBijection(S, R)
      BY <2>3 DEF ExistsBijection
  <2> QED BY <2>2, <2>4, FS_Bijection
<1>5. ASSUME NEW k \in 1..Len(Words(toks))
      PROVE  \E j \in 2..Len(rest) : ~IsFlag(rest[j]) /\ Words(toks)[k] = rest[j]
  <2>1. PICK i \in S : Words(toks)[k] = toks[i]
      BY <1>1, WordsOf DEF S
  <2>2. i \in 1..Len(toks) /\ i + 1 \in R /\ toks[i] = rest[i + 1]
      BY <1>1, <1>2, <1>3, <2>1
  <2>3. i + 1 \in 2..Len(rest) /\ ~IsFlag(rest[i + 1])
      BY <2>2 DEF R
  <2> QED BY <2>1, <2>2, <2>3
<1>6. Len(Words(toks)) = Cardinality(S)
    BY <1>1, WordsOf DEF S
<1> QED BY <1>4, <1>5, <1>6 DEF toks, R

\* Of the subverbs that change or destroy a profile, add alone leaves its
\* operand out or takes it; the others have a fixed number.
Changing == {"rm", "use", "rename", "add"}
Least(sub) == IF sub = "rename" THEN 1 ELSE 0
Most(sub) == IF sub \in {"rename", "add"} THEN 1 ELSE 0

\* What a changing subverb acts on is what Target says of the words after it.
LEMMA ProfileTarget ==
    ASSUME NEW c, ProfileArgs(c).ok, ProfileArgs(c).sub \in Changing
    PROVE  LET sub == ProfileArgs(c).sub
               t == Target(c, Words(Tail(c.rest)), Least(sub), Most(sub))
           IN c.rest # <<>> /\ t.ok /\ ProfileArgs(c).name = t.name
<1> DEFINE word == IF c.rest = <<>> THEN Word("ls") ELSE Head(c.rest)
           toks == IF c.rest = <<>> THEN <<>> ELSE Tail(c.rest)
           sub == Canonical(word.text)
           IsPurge(t) == sub = "rm" /\ t = Flag("--purge")
           pos == Words(toks)
           purge == \E i \in 1..Len(toks) : IsPurge(toks[i])
           bad == \/ IsFlag(word) \/ sub \notin Subs
                  \/ \E i \in 1..Len(toks) : IsFlag(toks[i]) /\ ~IsPurge(toks[i])
           With(t, arg) == [ok |-> t.ok, sub |-> sub, name |-> t.name,
                            arg |-> arg, purge |-> purge]
           none == Target(c, pos, 0, 0)
           some == Target(c, pos, 0, 1)
           one == Target(c, pos, 1, 1)
           type == IF some.tail = <<>> THEN Absent ELSE some.tail[1]
           pc == ProfileArgs(c)
<1>1. pc = IF bad THEN Refused
           ELSE CASE sub = "ls" -> [Refused EXCEPT !.ok = pos = <<>>, !.sub = "ls"]
                  [] sub = "add" -> With(some, type)
                  [] sub \in {"use", "rm"} -> With(none, Absent)
                  [] sub = "rename" ->
                         IF one.ok /\ ValidName(one.tail[1]) THEN With(one, one.tail[1])
                         ELSE Refused
                  [] sub = "seed" -> SeedArgs(c, pos)
    BY Zenon DEF ProfileArgs
<1>2. c.rest = <<>> => sub = "ls"
    BY DEF Word, Canonical
<1>3. c.rest # <<>> => pos = Words(Tail(c.rest))
    OBVIOUS
<1>4. sub \in Subs \/ bad
    OBVIOUS
<1> HIDE DEF word, toks, sub, pos, purge, bad, none, some, one, type, pc
<1>5. pc.ok /\ pc.sub \in Changing
    BY DEF pc
<1>6. ~Refused.ok
    BY DEF Refused
<1>7. ~bad /\ sub \in Subs
    BY <1>1, <1>4, <1>5, <1>6
<1>8. sub # "ls"
  <2>1. [Refused EXCEPT !.ok = pos = <<>>, !.sub = "ls"].sub = "ls"
      BY DEF Refused
  <2> QED BY <1>1, <1>5, <1>7, <2>1 DEF Changing
<1>9. sub # "seed"
  <2>1. SeedArgs(c, pos).sub = "seed"
      BY DEF SeedArgs
  <2> QED BY <1>1, <1>5, <1>7, <2>1 DEF Changing
<1>10. c.rest # <<>> /\ pos = Words(Tail(c.rest))
    BY <1>2, <1>3, <1>8
<1>11. \A t, arg : /\ With(t, arg).ok = t.ok /\ With(t, arg).sub = sub
                   /\ With(t, arg).name = t.name
    OBVIOUS
<1> HIDE DEF With
<1>12. CASE sub = "add"
  <2>1. pc = With(some, type)
      BY <1>1, <1>7, <1>12
  <2>2. some.ok /\ pc.sub = "add" /\ pc.name = some.name
      BY <1>5, <1>11, <1>12, <2>1
  <2> QED BY <1>10, <2>2 DEF some, Least, Most, pc
<1>13. CASE sub \in {"use", "rm"}
  <2>1. pc = With(none, Absent)
      BY <1>1, <1>7, <1>13
  <2>2. none.ok /\ pc.sub \in {"use", "rm"} /\ pc.name = none.name
      BY <1>5, <1>11, <1>13, <2>1
  <2> QED BY <1>10, <2>2 DEF none, Least, Most, pc
<1>14. CASE sub = "rename"
  <2>1. pc = With(one, one.tail[1])
      BY <1>1, <1>5, <1>6, <1>7, <1>14
  <2>2. one.ok /\ pc.sub = "rename" /\ pc.name = one.name
      BY <1>5, <1>11, <1>14, <2>1
  <2> QED BY <1>10, <2>2 DEF one, Least, Most, pc
<1> QED BY <1>7, <1>8, <1>9, <1>12, <1>13, <1>14 DEF Subs

\* A changing subverb acts on a profile the line names, after the subverb or
\* with -p, and there is a place for each of its words.
THEOREM ProfileNamed ==
    ASSUME NEW T, NEW c, c.rest \in Seq(T),
           ProfileArgs(c).ok, ProfileArgs(c).sub \in Changing
    PROVE  LET pc == ProfileArgs(c)
               words == Cardinality(After(c)) + Named(c)
           IN /\ pc.name.text \in Names
              /\ pc.name = c.global \/ \E j \in After(c) : pc.name = c.rest[j]
              /\ words \in Nat
              /\ words \in (Least(pc.sub) + 1)..(Most(pc.sub) + 1)
<1> DEFINE sub == ProfileArgs(c).sub
           rest == c.rest
           pos == Words(Tail(rest))
           lo == Least(sub)
           hi == Most(sub)
           t == Target(c, pos, lo, hi)
<1>1. rest # <<>> /\ t.ok /\ ProfileArgs(c).name = t.name
    BY ProfileTarget
<1>2. lo \in Nat /\ hi \in Nat
    BY DEF Least, Most
<1>3. Tail(rest) \in Seq(T)
    BY <1>1, HeadTailProperties
<1>4. pos \in Seq(T)
    BY <1>3, WordsOf
<1>5. /\ Len(pos) = Cardinality(After(c))
      /\ \A k \in 1..Len(pos) : \E j \in After(c) : pos[k] = rest[j]
  <2>1. rest \in Seq(T)
      OBVIOUS
  <2> HIDE DEF IsFlag
  <2>2. After(c) = {j \in 2..Len(rest) : ~IsFlag(rest[j])}
      BY DEF After
  <2> HIDE DEF rest
  <2> QED BY <1>1, <2>1, <2>2, AfterShift
<1> HIDE DEF pos, lo, hi
<1>6. /\ Len(t.tail) \in lo..hi /\ Len(pos) + Named(c) = Len(t.tail) + 1
      /\ t.name.text \in Names
      /\ t.name = c.global \/ (1 \in 1..Len(pos) /\ t.name = pos[1])
  <2>1. t.ok /\ lo \in Nat /\ hi \in Nat /\ pos \in Seq(T)
      BY <1>1, <1>2, <1>4
  <2> QED BY ONLY <2>1, TargetTakes, Zenon
<1> HIDE DEF t
<1>7. Len(pos) \in Nat /\ Named(c) \in Nat
    BY <1>4 DEF Named
<1> QED BY <1>1, <1>2, <1>5, <1>6, <1>7 DEF lo, hi, rest

=============================================================================
